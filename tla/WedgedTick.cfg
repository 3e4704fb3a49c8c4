SPECIFICATION FairSpec
CONSTANTS
  None = None
  j1 = j1
  j2 = j2
  p1 = p1
  p2 = p2
  Jobs = {j1, j2}
  Printers = {p1, p2}
  Pages <- MCPages
  CanPrint <- MCCanPrint
  PageDuration <- MCSlowPages
  WorkerLease = 2
  Steps = {2}
  StuckThreshold = 2
  RetryLimit = 2
  FailureLimit = 2
  Delays = {0}
  Repeatable = {}
  Horizon = 4
  FaultBound = 0
PROPERTIES EveryJobCloses
CHECK_DEADLOCK FALSE
