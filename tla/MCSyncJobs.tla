----------------------------- MODULE MCSyncJobs -----------------------------
(* Two replicas, a watched account, and one that competes for the only slot. *)
EXTENDS SyncJobs
=============================================================================
