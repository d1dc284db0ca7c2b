\* One rollout, and somebody else changes the workload once or a process dies.
SPECIFICATION Spec
CONSTANTS
  Rollouts = {r1}
  Collectors = {c1}
  Templates = {t1, t2}
  Original = t1
  Absent = Absent
  None = None
  NoBase = NoBase
  MaxEdits = 1
  MaxCrashes = 1
  MaxTroubles = 1
INVARIANTS
  EvidenceInv
CHECK_DEADLOCK FALSE
