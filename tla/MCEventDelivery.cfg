CONSTANTS
  Mutations <- MCMutations
  BatchLimit = 3
  ReplayLimit = 2
  CommitBound = 2
  FaultBound = 1
  LoadBound = 1
SPECIFICATION FairSpec
INVARIANTS
  TypeOK
  MarkedWasEmitted
  NeverLeftBehind
PROPERTIES
  EmittedInOrder
  DeliveredUnlessBlocked
  NewestIsShown
CHECK_DEADLOCK FALSE
