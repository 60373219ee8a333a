----------------------------- MODULE MCProvider -----------------------------
(* A local and an outside endpoint, and configurations that move a task       *)
(* between them and allow the outside or not.                                 *)
EXTENDS Provider, TLC

Local == [model |-> "small", endpoint |-> "local"]
Large == [model |-> "large", endpoint |-> "outside"]
Config(task, default, embed, allow, mask, auto, disabled) ==
  [task |-> task, default |-> default, embed |-> embed, allow |-> allow, mask |-> mask, auto |-> auto, disabled |-> disabled]

Inward == Config(Local, Large, Local, FALSE, TRUE, TRUE, {})
Outward == Config(Large, Local, Large, TRUE, TRUE, TRUE, {})

MCConfigs == {Inward, Outward}
Symmetry == Permutations(Requests)
=============================================================================
