\* The asynchronous log and the shutdown of the process.
SPECIFICATION MCSpec
CONSTANTS
  Records = {r1, r2, r3}
  Oversized = {r3}
  None = None
  QueueSize = 1
  MaxStoreFaults = 2
  MaxDiskFaults = 1
  MaxKills = 1
  MaxStops = 1
  MaxLate = 1
  Schedulers = {"drift"}
  Interval = 1
  MaxBackoff = 3
  WorkerTimeout = 3
  HTTPTimeout = 3
  AlertLimit = 3
  PurgeLimit = 60
  Grace = 9
INVARIANTS
  LogInv
  ProcessInv
PROPERTIES
  FileDrains
  LoopsAndShutdownGoOn
CHECK_DEADLOCK FALSE
