----------------------------- MODULE MCMailStore -----------------------------
(* Instances of MailStore for TLC: inbox messages m1 and m2 and a message o   *)
(* sent through Postra share an attachment; the Sent folder holds two copies  *)
(* of one message, z and y, with the same Message-ID and different bytes.     *)
EXTENDS MailStore, TLC

CONSTANTS m1, m2, y, z, o, c1, c2, cy, cz, co, f

AllContents == (m1 :> c1) @@ (m2 :> c2) @@ (y :> cy) @@ (z :> cz) @@ (o :> co)
Contents == [m \in Sources |-> AllContents[m]]
Headers  == [c \in Raws |-> IF c \in {cy, cz} THEN "same" ELSE c]
Shared   == [c \in Raws |-> IF c \in {c1, c2, co} THEN {f} ELSE {}]
Position == [m \in Remote |-> IF m \in {m1, y} THEN 1 ELSE 2]
Symmetry == Permutations(Syncs)
==============================================================================
