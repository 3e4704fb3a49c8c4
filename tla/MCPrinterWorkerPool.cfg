SPECIFICATION PoolSpec
CONSTANTS
  None = None
  p1 = p1
  p2 = p2
  colour = colour
  Jobs = {1, 2, 3}
  Printers = {p1, p2}
  Capabilities = {colour}
  Pages <- MCPages
  Needs <- MCNeeds
  Speeds = {1, 2, 3, 4}
  WorkerLease = 2
  RetryLimit = 3
  Delays = {0, 1, 2}
  Capacities = {3}
  BasePriority <- MCBasePriority
  AgingInterval = 2
  AgingFactor = 1
  PriorityCap = 4
  Minute = 4
  WorkerOrder <- MCWorkerOrder
  Fleets <- MCPrinterFleets
  HostBound = 1
INVARIANTS PoolTypeOK WorkersOwnTheirJobs StoppedMeansIdle BenchmarkAgrees
PROPERTIES IdleUnderAPage AgedJobsGoFirst TakesHighestRanked RunEnds
CHECK_DEADLOCK FALSE
