SPECIFICATION Spec
CONSTANTS
  FailureThreshold = 2
  SuccessThreshold = 2
  Plugins = {p1}
  Callers = {c1, c2}
  MaxInst = 1
  MaxAttempts = 2
  MayDisconnect = TRUE
  MayPanic = FALSE
  SlowCalls = FALSE
SYMMETRY Symmetry
INVARIANTS
  HealthyServes
