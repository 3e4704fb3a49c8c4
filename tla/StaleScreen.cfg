CONSTANTS
  Mutations <- MCPages
  BatchLimit = 3
  ReplayLimit = 2
  CommitBound = 2
  FaultBound = 0
  LoadBound = 2

SPECIFICATION FairSpec

PROPERTY ScreenCatchesUp

CHECK_DEADLOCK FALSE
