SPECIFICATION Spec
CONSTANTS
  Requests = {r1, r2}
  Cap = 1
  FailClosed = TRUE
  EnqueueWaits = TRUE
  MaxSighup = 0
  WritesMayFail = TRUE
  MayAbort = FALSE
  DrainTimesOut = FALSE
INVARIANT RecordedOrPending
SYMMETRY Symmetry
