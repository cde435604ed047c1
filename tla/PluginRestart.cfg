SPECIFICATION FairSpec
CONSTANTS
  FailureThreshold = 1
  SuccessThreshold = 1
  Plugins = {p1}
  Callers = {c1, c2}
  MaxInst = 2
  MaxAttempts = 2
  MayDisconnect = FALSE
  MayPanic = TRUE
  SlowCalls = FALSE
INVARIANTS
  ProcessesOwned
  RestarterIsCurrent
PROPERTIES
  AuthorizeReturns
  RestartSettles
