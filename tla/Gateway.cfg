SPECIFICATION LFairSpec
CONSTANTS
  Requests = {r1}
  MinSecretBytes = 2
  UpstreamCodes = {201}
  Slow = {"admin"}
  MaxServerErrors = 1
  Inputs <- MCInputs
  Records <- MCRecords
  Headers <- MCHeaders
  Configs <- MCConfigs
INVARIANTS
  ForwardCleared
  EntryFaithful
  BodyDiscreet
  DrainedOrExpired
  RecordedUnlessExpired
  ReleasedInOrder
  StartedConfigSound
PROPERTIES
  StopsEventually
  CleanupGoesOn
