CONSTANTS
  a = a
  b = b
  Replicas = {a, b}
  Refs = {"acc", "s1", "s2"}
  AccountRef = "acc"
  FirstKeys = {"acc", "s1"}
  Keys = {"k"}
  MaxChanges = 2
  MaxFaults = 1
  Retire = FALSE
SPECIFICATION Spec
SYMMETRY SymReplicas
INVARIANTS SecretsLive RuntimeFollows StoredConsistent RotationKeepsSecrets
CHECK_DEADLOCK FALSE
