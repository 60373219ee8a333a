----------------------------- MODULE LeaderLease -----------------------------
(* Leader election by a lease row in system_settings                         *)
(* (internal/application/app.go, TryAcquireLease of both stores): each       *)
(* replica asks for the lease when it starts and on every tick, and runs the *)
(* background workers while IsLeader() answers true.                         *)
(*                                                                           *)
(* Time is counted in whole seconds and kept relative to now, so the state   *)
(* space is finite without bounds: lease.left is expires_at - now and        *)
(* valid is leaseValidUntil - now. A second passes only when no ticker and   *)
(* no timeout is due: the election loop itself is never starved.             *)
EXTENDS Integers

CONSTANTS
  Nodes,      \* replicas
  Stranger,   \* owner of a lease no running replica holds
  Lease,      \* leaderLeaseSec, 15
  Tick,       \* leaderTick, 8
  Timeout     \* leaderRenewTimeout, 5

ASSUME LeaseAssumption ==
  /\ Stranger \notin Nodes
  /\ {Lease, Tick, Timeout} \subseteq Nat \ {0}
  /\ Timeout < Tick
  /\ Tick + Timeout < Lease

VARIABLES
  lease,   \* the row: who holds it and how long
  node,    \* [Nodes -> the election loop of a replica]
  robbed,  \* history: nodes whose lease a release by another node overwrote
  stable   \* from here on nothing fails, starts or stops

vars == <<lease, node, robbed, stable>>

(* Past this age an expired lease looks the same to every caller.            *)
Oldest == -(Timeout + 1)

(* The longest a leader waits before it acts on a lapsed lease: a renewal    *)
(* that starts in its last second fails, and the next tick asks the store    *)
(* once more before it steps down.                                           *)
MaxLate == Tick + Timeout - 1

Floor(x, low) == IF x < low THEN low ELSE x

DownNode ==
  [phase |-> "down", boot |-> FALSE, leads |-> FALSE, valid |-> 0,
   lapsed |-> FALSE, tick |-> Tick, due |-> FALSE, age |-> 0]

(* A missing row is as good as an expired one.                               *)
Init ==
  /\ lease = [holder |-> Stranger, left |-> Oldest]
  /\ node = [n \in Nodes |-> DownNode]
  /\ robbed = {}
  /\ stable = FALSE

Calling(n) == node[n].phase \in {"ask", "won", "lost"}

-----------------------------------------------------------------------------
(* startLeaderElectionLoop: the first election. The node id is random, so a  *)
(* lease left by an earlier life of the replica belongs to a stranger.       *)
Boot(n) ==
  /\ ~stable
  /\ node[n].phase = "down"
  /\ node' = [node EXCEPT ![n] = [DownNode EXCEPT !.phase = "ask", !.boot = TRUE]]
  /\ lease' = [lease EXCEPT !.holder = IF @ = n THEN Stranger ELSE @]
  /\ UNCHANGED <<robbed, stable>>

(* electLeader on a tick: now is read before the store is asked.             *)
Elect(n) ==
  /\ node[n].phase = "idle" /\ node[n].due
  /\ node' = [node EXCEPT ![n].phase = "ask", ![n].age = 0, ![n].due = FALSE,
                          ![n].lapsed = node[n].valid <= 0]
  /\ UNCHANGED <<lease, robbed, stable>>

\* Mutant: the lease of another replica is never taken over, expired or not.
FreeOwn(n) == lease.holder \in {n, Stranger}

(* The transaction of TryAcquireLease compares and writes with the clock     *)
(* read when the call began, age seconds ago.                                *)
Free(n) == lease.holder = n \/ lease.left + node[n].age < 0

TryAcquireLease(n) ==
  /\ node[n].phase = "ask"
  /\ \/ /\ Free(n)
        /\ lease' = [holder |-> n, left |-> Lease - node[n].age]
        /\ node' = [node EXCEPT ![n].phase = "won"]
        /\ robbed' = robbed \ {n}
     \/ /\ ~Free(n)
        /\ node' = [node EXCEPT ![n].phase = "lost"]
        /\ UNCHANGED <<lease, robbed>>
  /\ UNCHANGED stable

(* The loop is back at its select. The ticker started after the first call,  *)
(* and keeps one tick that came while the loop was busy.                     *)
Returned(n, leads, valid) ==
  [node[n] EXCEPT !.phase = "idle", !.boot = FALSE, !.lapsed = FALSE, !.age = 0,
                  !.leads = leads, !.valid = IF leads THEN valid ELSE 0]

\* Mutant: validity counted from the answer.
AnsweredFromNow(n) ==
  /\ node[n].phase \in {"won", "lost"}
  /\ node' = [node EXCEPT ![n] = Returned(n, node[n].phase = "won", Lease)]
  /\ robbed' = IF node[n].phase = "won" THEN robbed ELSE robbed \ {n}
  /\ UNCHANGED <<lease, stable>>

(* The answer arrives: leaseValidUntil is counted from the start of the      *)
(* call, and setLeaderState follows the answer.                              *)
Answered(n) ==
  /\ node[n].phase \in {"won", "lost"}
  /\ node' = [node EXCEPT ![n] =
                Returned(n, node[n].phase = "won", Lease - node[n].age)]
  /\ robbed' = IF node[n].phase = "won" THEN robbed ELSE robbed \ {n}
  /\ UNCHANGED <<lease, stable>>

\* Mutant: an error leaves the state untouched.
RenewFailedKeepsLeading(n) ==
  /\ ~stable
  /\ Calling(n)
  /\ node' = [node EXCEPT ![n] = Returned(n, node[n].leads, node[n].valid)]
  /\ UNCHANGED <<lease, robbed, stable>>

(* The store fails or the call times out, perhaps after the commit: the node *)
(* goes on, unless the call began after its lease had lapsed. Then it        *)
(* records the incident first, and leads while the store takes its time: the *)
(* write has no timeout.                                                     *)
RenewFailed(n) ==
  /\ ~stable
  /\ Calling(n)
  /\ node' = [node EXCEPT ![n] =
       IF node[n].leads /\ node[n].lapsed
       THEN [node[n] EXCEPT !.phase = "incident", !.age = 0]
       ELSE Returned(n, node[n].leads, node[n].valid)]
  /\ UNCHANGED <<lease, robbed, stable>>

(* recordIncident is over, with or without success: setLeaderState(false).   *)
IncidentRecorded(n) ==
  /\ node[n].phase = "incident"
  /\ node' = [node EXCEPT ![n] = Returned(n, FALSE, 0)]
  /\ robbed' = robbed \ {n}
  /\ UNCHANGED <<lease, stable>>

-----------------------------------------------------------------------------
(* releaseLease on shutdown. Only a node that believes it leads releases,    *)
(* and the workers are already cancelled.                                    *)
Shutdown(n) ==
  /\ ~stable
  /\ node[n].phase = "idle"
  /\ node' = [node EXCEPT ![n] =
       IF node[n].leads THEN [DownNode EXCEPT !.phase = "release"] ELSE DownNode]
  /\ robbed' = robbed \ {n}
  /\ UNCHANGED <<lease, stable>>

(* UpsertSettings overwrites the row, whoever holds it by now, with an       *)
(* expiry one second before the release began. It has no timeout.            *)
ReleaseWrite(n) ==
  /\ node[n].phase = "release"
  /\ lease' = [holder |-> n, left |-> -1 - node[n].age]
  /\ node' = [node EXCEPT ![n] = DownNode]
  /\ robbed' = robbed \cup ({lease.holder} \cap (Nodes \ {n}))
  /\ UNCHANGED stable

(* The process dies; a release that fails ends the same way.                 *)
Crash(n) ==
  /\ ~stable
  /\ node[n].phase # "down"
  /\ node' = [node EXCEPT ![n] = DownNode]
  /\ robbed' = robbed \ {n}
  /\ UNCHANGED <<lease, stable>>

-----------------------------------------------------------------------------
(* A second passes.                                                          *)

Urgent(n) ==
  \/ node[n].phase = "idle" /\ node[n].due
  \/ Calling(n) /\ node[n].age = Timeout

(* The ticker runs from the first answer on.                                 *)
Ticking(n) ==
  node[n].phase \in {"idle", "incident"} \/ (Calling(n) /\ ~node[n].boot)

Fires(n) == Ticking(n) /\ node[n].tick = 1

Later(n) ==
  [node[n] EXCEPT
     !.tick  = IF Fires(n) THEN Tick ELSE IF Ticking(n) THEN @ - 1 ELSE @,
     !.due   = @ \/ Fires(n),
     !.age   = IF @ < Timeout /\ node[n].phase \notin {"down", "idle", "incident"}
               THEN @ + 1 ELSE @,
     !.valid = IF node[n].leads THEN Floor(@ - 1, -(MaxLate + 1)) ELSE @]

Pass ==
  /\ \A n \in Nodes : ~Urgent(n)
  /\ node' = [n \in Nodes |-> Later(n)]
  /\ lease' = [lease EXCEPT !.left = Floor(@ - 1, Oldest)]
  /\ UNCHANGED <<robbed, stable>>

Stabilise == ~stable /\ stable' = TRUE /\ UNCHANGED <<lease, node, robbed>>

Next ==
  \/ \E n \in Nodes :
       \/ Boot(n) \/ Elect(n) \/ TryAcquireLease(n) \/ Answered(n)
       \/ RenewFailed(n) \/ IncidentRecorded(n)
       \/ Shutdown(n) \/ ReleaseWrite(n) \/ Crash(n)
  \/ Pass
  \/ Stabilise

Spec == Init /\ [][Next]_vars

(* Loops, the store and the clock make progress; nothing else must happen.   *)
Fairness ==
  /\ WF_vars(Pass)
  /\ \A n \in Nodes : /\ WF_vars(Elect(n)) /\ WF_vars(TryAcquireLease(n))
                      /\ WF_vars(Answered(n)) /\ WF_vars(ReleaseWrite(n))
                      /\ WF_vars(IncidentRecorded(n))

FairSpec == Spec /\ Fairness

-----------------------------------------------------------------------------
(* Properties.                                                               *)

TypeOK ==
  /\ lease \in [holder : Nodes \cup {Stranger}, left : Oldest..Lease]
  /\ node \in [Nodes ->
       [phase : {"down", "idle", "ask", "won", "lost", "incident", "release"},
        boot : BOOLEAN, leads : BOOLEAN, valid : -(MaxLate + 1)..Lease,
        lapsed : BOOLEAN, tick : 1..Tick, due : BOOLEAN, age : 0..Timeout]]
  /\ robbed \subseteq Nodes
  /\ stable \in BOOLEAN

Leaders == {n \in Nodes : node[n].leads}

(* A node that leads within its validity holds the row, and the row lasts at *)
(* least as long as the node believes (electLeader reads the clock before    *)
(* TryAcquireLease). So two nodes never lead within their validity, except   *)
(* after the release of a node whose lease had lapsed (releaseLease).        *)
LeaseBacksLeader ==
  \A n \in Leaders \ robbed :
    node[n].valid > 0 => lease.holder = n /\ lease.left >= node[n].valid

(* A leader whose renewals fail acts on it at most MaxLate seconds after its *)
(* lease expired (electLeader): it has stepped down by then, or waits for    *)
(* the store to take the incident, for which the code sets no limit.         *)
StepsDownInTime ==
  \A n \in Leaders : node[n].phase = "incident" \/ node[n].valid >= -MaxLate

(* What the comment on leaderRenewTimeout is about: the loop comes back to   *)
(* notice, however long the store takes. With the write of the incident in   *)
(* front of setLeaderState it does not.                                      *)
AlwaysStepsDown == \A n \in Leaders : node[n].valid >= -MaxLate

(* What docs/LIVE_WORKERS.md says: the background work runs on one leader    *)
(* node only. A leader notices an expired lease at its next tick and after   *)
(* one more call of the store, while another node may take the row at once.  *)
AtMostOneLeader == \A m, n \in Leaders : m = n

(* Once faults end and some replica runs, the replicas settle on one leader  *)
(* for good: a deposed leader learns it, and a leader renews in time.        *)
Converges ==
  <>(stable /\ \E n \in Nodes : node[n].phase \notin {"down", "release"})
    => <>[](\E n \in Nodes : Leaders = {n})

-----------------------------------------------------------------------------
(* The inductive invariants behind the properties.                           *)

(* The election loop's own bookkeeping: the first call of a replica has      *)
(* nothing to lose, a call that began age seconds ago has a tick at most     *)
(* Tick seconds after its start, or behind it, and a replica that stops      *)
(* leads no more.                                                            *)
LoopOK ==
  \A n \in Nodes :
    /\ node[n].phase \in {"down", "release"} => ~node[n].leads
    /\ node[n].boot => ~node[n].leads /\ Calling(n) /\ node[n].tick = Tick /\ ~node[n].due
    /\ Calling(n) /\ ~node[n].boot => node[n].due \/ node[n].tick + node[n].age <= Tick
    /\ Calling(n) /\ node[n].leads => node[n].valid + node[n].age <= Lease
    /\ node[n].phase = "incident" => node[n].leads /\ node[n].lapsed /\ node[n].valid <= 0

(* An acquisition that is still being answered owns a row that expires when  *)
(* the answer says, unless a late release took the row away.                 *)
WonHoldsRow ==
  \A n \in Nodes \ robbed :
    node[n].phase = "won" =>
      lease.holder = n /\ lease.left + node[n].age >= Lease

(* What a leader's validity was, or will be, when its next call starts: never*)
(* so low that one failed call takes it below -MaxLate.                      *)
AtNextCall(n) ==
  CASE Calling(n) -> node[n].valid + node[n].age
    [] node[n].phase = "idle" /\ ~node[n].due -> node[n].valid - node[n].tick
    [] OTHER -> node[n].valid

RenewsInTime ==
  \A n \in Leaders :
    /\ node[n].phase # "incident" => AtNextCall(n) > -Tick
    /\ Calling(n) => (node[n].lapsed <=> AtNextCall(n) <= 0)

LeaseInv ==
  TypeOK /\ LoopOK /\ WonHoldsRow /\ LeaseBacksLeader /\ RenewsInTime
=============================================================================
