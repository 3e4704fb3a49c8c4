SPECIFICATION Spec
CONSTANTS
  None = None
  j1 = j1
  j2 = j2
  p1 = p1
  p2 = p2
  colour = colour
  Jobs = {j1, j2}
  Printers = {p1, p2}
  Capabilities = {colour}
  Pages <- MCPages
  Needs <- MCNeeds
  Speeds = {1}
  Minute = 1
  WorkerLease = 1
  RetryLimit = 2
  Delays = {0, 1}
  Capacities = {1, 2}
VIEW View
SYMMETRY PrinterSymmetry
INVARIANTS TypeOK OwnershipAgrees LockHeldByWorker PermitsAccounted
  BufferHoldsLiveJobs CompatibilityCurrent AccountsBalance
PROPERTIES JobHistory CancellationSticks JobChangesVersioned ForkIsFaithful
  ImplementsPrintService
CHECK_DEADLOCK FALSE
