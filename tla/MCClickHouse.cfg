\* Facts, daily aggregates and Text2SQL facts on their way to ClickHouse.
SPECIFICATION MCSpec
CONSTANTS
  Facts = {"f1", "f2", "f3"}
  NumTables = 2
  QueueCap = 1
  BatchSize = 2
  Poison = {"f3"}
  Replayers = {"r1", "r2"}
  Window = 2
  MaxAttempts = 3
  Troubles = {{"refused", "lost", "mark", "overlap"}, {"refused", "park", "stop"}}
  MaxTroubles = 2
  MaxReplays = 2
  Questions = {"q1", "q2", "q3"}
  Senders = {"e1", "e2"}
  Backfill = 3
  Limit = 2
  MaxTime = 4
  Mishaps = {{"slow"}, {"read", "record", "retry"}, {"lost", "overlap"}}
  MaxFaults = 2
  MaxHalfDays = 5
  RollDays = 1
  RequestDays = 2
  SinkDays = 1
  AdminDays = {1}
  RowLimit = 3
  Admins = {"a1"}
  MaxGap = 2
  MaxOutage = 2
  Upsets = {{"rollup"}, {"read", "refused", "lost", "record"}, {"refused", "admins"}}
  MaxUpsets = 1
  MaxAsks = 1
INVARIANTS
  FactInv
  
  QuestionInv
PROPERTIES
  BatchesDrain
CHECK_DEADLOCK FALSE
