\* One rollout, two replicas, one HTTP request, a crash or failing store call.
SPECIFICATION Spec
CONSTANTS
  Rollouts = {r1}
  Uids = {u1}
  Workers = {w1, w2}
  Handlers = {h1}
  None = None
  NoBase = NoBase
  RequestLimit = 1
  ClaimGrace = 2
  MaxFaults = 1
SYMMETRY Symmetry
INVARIANTS
  TypeOK
  LedgersAgree
  RollbackUnderClaim
  RollbackOnlyAfterFailure
PROPERTIES
  VerdictsAreFinal
CHECK_DEADLOCK FALSE
