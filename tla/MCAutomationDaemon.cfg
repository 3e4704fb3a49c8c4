SPECIFICATION FairSpec
CONSTANTS
  None = None
  j1 = j1
  j2 = j2
  p1 = p1
  p2 = p2
  Jobs = {j1, j2}
  Printers = {p1, p2}
  Pages <- MCPages
  CanPrint <- MCCanPrint
  PageDuration <- MCPageDuration
  WorkerLease = 3
  Steps = {1}
  StuckThreshold = 2
  RetryLimit = 2
  FailureLimit = 2
  Delays = {0, 1}
  Repeatable = {"STALL"}
  Horizon = 4
  FaultBound = 2
INVARIANT TypeOK
PROPERTIES EveryJobCloses
CHECK_DEADLOCK FALSE
