\* A request and an Action Center decision.
SPECIFICATION Spec
CONSTANTS
  Rollouts = {r1}
  Uids = {u1}
  Workers = {w1}
  Handlers = {h1, h2}
  None = None
  NoBase = NoBase
  RequestLimit = 1
  ClaimGrace = 2
  MaxFaults = 0
SYMMETRY Symmetry
INVARIANTS
  RejectionReachesBothLedgers
CHECK_DEADLOCK FALSE
