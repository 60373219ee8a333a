CONSTANTS
  Clients = {"c1", "c2", "c3"}
  Browsers = {"b"}
  Procs = {p, q}
  Issuers = {"i", "j"}
  Limit = 1
  MaxFlows = 2
  MaxEvents = 1
SYMMETRY SymProcs
SPECIFICATION Spec
INVARIANTS TokensFollowConsent RegistrationsBounded CacheServes
CHECK_DEADLOCK FALSE
