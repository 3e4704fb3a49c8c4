CONSTANTS
  Mutations <- MCMutations
  BatchLimit = 3
  ReplayLimit = 2
  CommitBound = 1
  FaultBound = 0
  LoadBound = 1

SPECIFICATION FairSpec

PROPERTY EveryEventDelivered

CHECK_DEADLOCK FALSE
