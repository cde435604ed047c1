SPECIFICATION FairSpec
CONSTANTS
  Requests = {r1}
  N = 3
  Wrap = 3
  MaxServed = 3
  MayCancel = TRUE
  MayClose = TRUE
  MaxOutages = 1
  Unaskable = {1, 2}
INVARIANTS
  NotReplayed
  UnhealthyHasCause
  OtherBackend
  GiveUpJustified
PROPERTIES
  Readmitted
  CloseCompletes
