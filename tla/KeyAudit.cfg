SPECIFICATION ListSpec
CONSTANTS
  Handlers = {h1, h2}
  Callers = {}
  Ops = {"create", "rotate", "delete", "cli"}
  Roles = {r1}
  Addrs = {a1}
  MaxIds = 2
  MaxSecrets = 3
  MaxClock = 2
  MaxExpiry = 0
  MaxCalls = 3
  MaxCrashes = 1
  MayFail = TRUE
  MayLoseReply = FALSE
  Limit = 2
  MaxLimit = 1
  Strings <- MCStrings
  MaxArray = 2
VIEW AuditView
INVARIANTS
  InconsistencyCounted
  NoSilentLockout
  ListingComplete
  ArrayRoundTrip
