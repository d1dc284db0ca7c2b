\* Exec sessions and the reconciling of service instances.
SPECIFICATION MCSpec
CONSTANTS
  Sessions = {s1}
  Users = {u1, u2}
  Transports = {p1, p2}
  Reapers = {k1, k2}
  None = None
  Timeout = 2
  Grace = 3
  SetupLimit = 1
  FinalLimit = 1
  Tolerance = 1
  MaxFaults = 2
  Workers = {"w1", "w2"}
  Requests = {"r1"}
  ServiceTimeout = 1
  ServiceGrace = 1
  MaxInventory = 1
  MaxStops = 1
INVARIANTS
  SessionInv
  
PROPERTIES
  ImplementsGrant
  SessionsSettle
CHECK_DEADLOCK FALSE
