------------------------------ MODULE MCOutbox ------------------------------
(* Instances of Outbox for TLC: one draft with two versions, owned by the   *)
(* local user, as whom the worker acts, or by another one.                   *)
EXTENDS Outbox, TLC

CONSTANTS d1, u1, u2, x1, x2

RemoteOwner == (d1 :> u2)
LocalOwner == (d1 :> u1)
OneText    == [d \in {d1} |-> <<x1, x2>>]
Symmetry   == Permutations(Reqs) \cup Permutations(Tokens)
=============================================================================
