\* The migrations of the rollout ledger and of the incident ledger.
SPECIFICATION MCSpec
CONSTANTS
  NoBase = NoBase
  Rollouts = {1, 2}
  Uids = {u}
  NoUid = NoUid
  Replicas = {m1, m2}
  MaxAttempts = 2
  MaxFaults = 1
  Keys = {"predictive", "storm", "failure"}
  Predictive = {"predictive"}
  Batch = {"storm"}
  Scanners = {"o1", "o2", "n1", "n2"}
  Old = {"o1", "o2"}
  ListLimit = 6
  MaxIncidents = 6
  MaxChanges = 2
  MaxLost = 1
INVARIANTS
  TargetLockInv
  IncidentInv
PROPERTIES
  OpenRollbackKept
  ResolvedForCause
  IncidentsFollowSignals
CHECK_DEADLOCK FALSE
