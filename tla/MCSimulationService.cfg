CONSTANTS
  client = client
  burst = burst
  reader = reader
  None = None
  System = System
  Clients <- MCClients
  Key <- MCKey
  Body <- MCBody
  Size <- MCSize
  Attempts <- MCAttempts
  FaultBound = 2

SPECIFICATION FairSpec

INVARIANTS
  TypeOK
  OneCallAtATime
  LoadedIsStored
  KeysAppliedOnce
  AuditExplainsVersions
  RefusedChangedNothing

PROPERTIES
  ToldOnlyGrows
  ImplementsLedger
  EveryCallAnswered

CHECK_DEADLOCK FALSE
