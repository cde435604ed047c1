SPECIFICATION FairSpec
CONSTANTS
  Requests = {r1, r2, r3}
  Cap = 2
  FailClosed = TRUE
  EnqueueWaits = TRUE
  MaxSighup = 1
  WritesMayFail = TRUE
  MayAbort = TRUE
  DrainTimesOut = TRUE
INVARIANTS
  PermitAccounting
  CommitNeverBlocks
  UnrecordedWindow
PROPERTIES
  ImplementsTrail
  RequestsFinish
  CloseReturns
