----------------------------- MODULE MCSettings -----------------------------
(* Two replicas, the account's secret and two new ones, one rotation.        *)
EXTENDS Settings, TLC

CONSTANTS a, b

SymReplicas == Permutations(Replicas)
=============================================================================
