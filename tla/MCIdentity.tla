----------------------------- MODULE MCIdentity -----------------------------
(* Two people at the identity provider who assert the same user name: kim    *)
(* with a verified address, lee with none and in the admin group.            *)
EXTENDS Identity, TLC

MCClaims ==
  [s \in {"kim", "lee"} |->
     IF s = "kim" THEN [name |-> "ann", email |-> "e1", verified |-> TRUE, adminGroup |-> FALSE]
                  ELSE [name |-> "ann", email |-> "e2", verified |-> FALSE, adminGroup |-> TRUE]]

\* Nobody has an account yet; or ann and an administrator have local ones; or
\* kim's account was deleted by a version that left no tombstone.
MCSeeds ==
  LET local(n, e, r, w) == [login |-> <<n, "">>, email |-> e, role |-> r, status |-> "active",
                            provider |-> "local", subject |-> "", hash |-> w]
  IN {[u \in {} |-> 0],
      [u \in {"root", "u1"} |-> IF u = "root" THEN local("root", "", "admin", "w2")
                                              ELSE local("ann", "", "user", "w1")],
      [u \in {"u1"} |-> [local("ann", "e1", "user", "w1") EXCEPT !.status = "deleted", !.subject = "kim"]]}

MCEdits == {[role |-> "user", status |-> "active", named |-> TRUE, email |-> "e2"],
            [role |-> "user", status |-> "disabled", named |-> FALSE, email |-> ""],
            [role |-> "admin", status |-> "active", named |-> TRUE, email |-> ""]}

MCNewUsers == {[name |-> "ann", email |-> "e1", role |-> "user", password |-> "w1"],
               [name |-> "ann", email |-> "", role |-> "admin", password |-> "w2"]}

RequestSymmetry == Permutations(Procs)
=============================================================================
