SPECIFICATION LSpec
CONSTANTS
  Requests = {r1}
  MinSecretBytes = 2
  UpstreamCodes = {201}
  Slow = {}
  MaxServerErrors = 0
  Inputs <- MCInputs
  Records <- MCRecords
  Headers <- MCHeaders
  Configs <- MCConfigs
INVARIANT PrincipalRecorded
