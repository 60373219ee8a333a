---------------------------- MODULE MCOAuthProxy ----------------------------
(* Three clients over time, one place for a registration, one browser with two *)
(* authorizations, and two requests at once, which may change places.        *)
EXTENDS OAuthProxy, TLC

SymProcs == Permutations(Procs)
=============================================================================
