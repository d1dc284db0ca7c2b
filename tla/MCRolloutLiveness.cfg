\* One replica, one HTTP request and a crash, fairly scheduled.
SPECIFICATION FairSpec
CONSTANTS
  Rollouts = {r1}
  Uids = {u1}
  Workers = {w1}
  Handlers = {h1}
  None = None
  NoBase = NoBase
  RequestLimit = 1
  ClaimGrace = 2
  MaxFaults = 1
PROPERTIES
  StartedRolloutsSettle
  ApprovedActionsRun
  ImplementsLifecycle
CHECK_DEADLOCK FALSE
