SPECIFICATION FairSpec
CONSTANTS
  Requests = {r1, r2, r3}
  Cap = 2
  FailClosed = FALSE
  EnqueueWaits = TRUE
  MaxSighup = 1
  WritesMayFail = TRUE
  MayAbort = FALSE
  DrainTimesOut = TRUE
INVARIANTS
  EntriesAccounted
  CloseDrains
PROPERTIES
  ReopenServed
