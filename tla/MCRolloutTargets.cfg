\* Two rollouts of one object, requested, run and viewed by three HTTP requests.
SPECIFICATION Spec
CONSTANTS
  Rollouts = {r1, r2}
  Uids = {u1}
  Workers = {}
  Handlers = {h1, h2, h3}
  None = None
  NoBase = NoBase
  RequestLimit = 1
  ClaimGrace = 2
  MaxFaults = 0
SYMMETRY Symmetry
INVARIANTS
  OneRolloutPerTarget
  RestartSentOnce
CHECK_DEADLOCK FALSE
