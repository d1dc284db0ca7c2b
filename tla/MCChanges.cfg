\* Manifest changes, runtime settings and change sets.
SPECIFICATION MCSpec
CONSTANTS
  Changes = {c1, back}
  Back = back
  Handlers = {h1, h2}
  Pods = {"p1", "p2"}
  Writers = {"p1"}
  NumKeys = 2
  Values = {"a"}
  MaxWrites = 3
  MaxReverts = 1
  MaxRestarts = 1
  MaxReadFaults = 1
  Docs = {d1, s}
  SecretDocs = {s}
  NoDoc = NoDoc
  NoChange = NoChange
  MaxEdits = 1
  MaxPolicies = 1
  MaxFaults = 1
  SetHandlers = {"h1", "h2"}
  NumItems = 2
  SetValues = {"a", "b"}
  Bad = "bad"
  Env = "env"
  None = "none"
  Blank = {1}
  MaxSetFaults = 2
INVARIANTS
  ManifestInv
  
  SetInv
PROPERTIES
  FinalStaysFinal
  
CHECK_DEADLOCK FALSE
