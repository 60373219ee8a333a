---------------------------- MODULE MCLeaderLease ----------------------------
(* LeaderLease with the intervals of the code and two replicas; a stopped    *)
(* replica may come back under a new node id, so more than two contend.      *)
EXTENDS LeaderLease
=============================================================================
