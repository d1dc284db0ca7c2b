\* An agent with lost posts and broken streams; every fault with collections.
SPECIFICATION MCSpec
CONSTANTS
  NumObjects = 2
  MaxWrites = 4
  QueueSize = 1
  MaxBatchSize = 2
  Faults = {"lost", "stream"}
  MaxFaults = 2
  Collects = FALSE
INVARIANTS
  AgentInv
PROPERTIES
  RecordedInOrder
  AgentDelivers
  CollectionRepairs
CHECK_DEADLOCK FALSE
