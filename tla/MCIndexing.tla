----------------------------- MODULE MCIndexing -----------------------------
(* Three messages of two users: one too long, one with text only in the body, *)
(* one without text.                                                          *)
EXTENDS Indexing

MCOwner == [m \in Messages |-> IF m = 1 THEN "u2" ELSE "u1"]
=============================================================================
