\* One rollout: a process that dies, and overlapping collections.
SPECIFICATION MCSpec
CONSTANTS
  Rollouts = {r1}
  Collectors = {c1, c2}
  Templates = {t1, t2}
  Original = t1
  Absent = Absent
  None = None
  NoBase = NoBase
  MaxEdits = 0
  MaxCrashes = 1
  MaxTroubles = 1
SYMMETRY Symmetry
INVARIANTS
  SuccessIsReal
  RestoredTemplateRuns
  ExecutedWithoutRollback
CHECK_DEADLOCK FALSE
