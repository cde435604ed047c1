SPECIFICATION Spec
CONSTANTS
  Handlers = {h1}
  Callers = {c1}
  Ops = {"create", "rotate", "enable", "disable", "expiry", "roles", "cidrs", "purge", "cleanup"}
  Roles = {r1, r2}
  Addrs = {a1, a2}
  MaxIds = 1
  MaxSecrets = 2
  MaxClock = 3
  MaxExpiry = 3
  MaxCalls = 3
  MaxCrashes = 0
  MayFail = FALSE
  MayLoseReply = TRUE
SYMMETRY Symmetry
VIEW AuthnView
INVARIANTS
  AuthnCoherent
PROPERTIES
  PurgeHarmless
