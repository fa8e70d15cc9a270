SPECIFICATION FairSpec
CONSTANTS
  NumWorkers = 2
  NumNamespaces = 3
  Count = 3
  QueueDepth = 2
  SizeInIos = 3
  IsRandom = FALSE
  Faults <- FaultKinds
  MaxIo = 1
CHECK_DEADLOCK FALSE
INVARIANTS
  PoolAccounting
  PoolSuffices
  ClosedLoop
PROPERTIES
  UsesQpairsProperly
  Termination
