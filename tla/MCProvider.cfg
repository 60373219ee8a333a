CONSTANTS
  Requests = {r1, r2}
  Kinds = {"generate", "embed", "inspect"}
  Configs <- MCConfigs
  Outside = {"outside"}
  Prompts = {1}
  Windows = {0, 1}
  ConfiguredWindow = 3
  OutputCap = 2
  CacheSize = 1
  MaxChanges = 1
SYMMETRY Symmetry
SPECIFICATION Spec
INVARIANTS StaysInside GeneratesOnce CacheIsRouted OwnLimits NobodyStranded
CHECK_DEADLOCK FALSE
