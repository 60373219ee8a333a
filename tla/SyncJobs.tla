------------------------------ MODULE SyncJobs ------------------------------
(* When mail is fetched: sync jobs and their rows (application/sync.go), the *)
(* scheduler and the reaper (scheduler.go, live_workers.go), the IMAP IDLE   *)
(* watches and their supervisor (idle.go, imap/client.go), on replicas that  *)
(* share the database and of which one leads. What a sync does to the store  *)
(* of messages is in MailStore, how a leader is found in LeaderLease.        *)
EXTENDS Integers, FiniteSets

CONSTANTS
  Nodes,
  Accounts,    \* accounts of active users
  Imap,        \* the ones with an IMAP server, which are watched
  Scheduled,   \* the ones whose auto-sync interval is not 0
  Mail,        \* messages that arrive, on any account
  SlotLimit,   \* sync.max_concurrent_syncs, at least one
  MaxChanges,  \* bound: arrivals, deletions, manual syncs, saved accounts
  MaxFaults    \* bound: errors, refusals, cancelled jobs, lost leaders, crashes

ASSUME SyncJobsAssumption == SlotLimit \in Nat \ {0} /\ MaxChanges \in Nat /\ MaxFaults \in Nat

VARIABLES
  mail,     \* [Accounts -> messages on the server]
  fetched,  \* [Accounts -> messages that a sync has stored]
  account,  \* [Accounts -> active, and its connection settings]
  up,       \* nodes that run
  leader,   \* nodes whose IsLeader is true, one at most
  locks,    \* syncLocks: pairs of a node and an account
  slots,    \* [Nodes -> syncSlotsInUse]
  worker,   \* [Nodes \X Accounts -> the sync that runs there]
  job,      \* [Nodes \X Accounts -> row of its last job]
  orphan,   \* [Nodes \X Accounts -> open row that a crash or a lost write has left]
  watch,    \* [Nodes \X Accounts -> the entry of managed, and where its loop is]
  changes, faults

vars == <<mail, fetched, account, up, leader, locks, slots, worker, job, orphan, watch, changes, faults>>
server == <<mail, account>>
cluster == <<up, leader>>

Pairs == Nodes \X Accounts
NoWorker == [pc |-> "none", seen |-> {}]
Closed == [status |-> "closed", fresh |-> TRUE]
NoWatch == [pc |-> "none", seen |-> -1, settings |-> 0]
Queued == [status |-> "queued", fresh |-> TRUE]
Open == {"queued", "running"}

Init ==
  /\ mail = [a \in Accounts |-> IF a \in Imap THEN {CHOOSE m \in Mail : TRUE} ELSE {}] /\ fetched = [a \in Accounts |-> {}]
  /\ account = [a \in Accounts |-> [active |-> TRUE, settings |-> 0]]
  /\ up = Nodes /\ leader = {CHOOSE n \in Nodes : TRUE}
  /\ locks = {} /\ slots = [n \in Nodes |-> 0]
  /\ worker = [p \in Pairs |-> NoWorker]
  /\ job = [p \in Pairs |-> Closed] /\ orphan = [p \in Pairs |-> Closed]
  /\ watch = [p \in Pairs |-> NoWatch]
  /\ changes = 0 /\ faults = 0

Fault == faults < MaxFaults /\ faults' = faults + 1
Change == changes < MaxChanges /\ changes' = changes + 1

-----------------------------------------------------------------------------
(* StartSync takes the lock of its process, fails the rows of the account    *)
(* that nobody touches any more, and creates its own.                        *)
Free(p) == p \notin locks /\ account[p[2]].active

\* Mutant: a job that waited for its slot when the process died is left alone.
StaleRunning(row) == row.status = "running" /\ ~row.fresh

(* The rows that FailStaleAccountJobs and RecoverStaleJobsExcept select.     *)
Stale(row) == row.status \in Open /\ ~row.fresh

Failed(row) == IF Stale(row) THEN Closed ELSE row

FailStaleAccountJobs(rows, a) == [p \in Pairs |-> IF p[2] = a THEN Failed(rows[p]) ELSE rows[p]]

(* A row that nobody works on, and that is still open.                       *)
Left(row, before) == IF row.status \in Open THEN row ELSE before

Started(p) ==
  /\ locks' = locks \cup {p}
  /\ worker' = [worker EXCEPT ![p] = [NoWorker EXCEPT !.pc = "wait"]]
  /\ job' = [FailStaleAccountJobs(job, p[2]) EXCEPT ![p] = Queued]
  /\ orphan' = [FailStaleAccountJobs(orphan, p[2]) EXCEPT ![p] = Left(Failed(job[p]), @)]
  /\ UNCHANGED <<fetched, slots>>

Idle == UNCHANGED <<fetched, locks, slots, worker, job, orphan>>

(* The worker polls its cadence, of which only the leader has one.           *)
Due(p) == p[1] \in up \cap leader /\ p[2] \in Scheduled

(* syncActiveAccounts.                                                       *)
SchedulerTick(p) ==
  /\ Due(p) /\ Free(p)
  /\ Started(p)
  /\ UNCHANGED <<server, cluster, watch, changes, faults>>

(* sync_start, on any replica.                                               *)
ManualSync(p) ==
  /\ Change /\ p[1] \in up /\ Free(p)
  /\ Started(p)
  /\ UNCHANGED <<server, cluster, watch, faults>>

(* The lock is given back when the row cannot be created.                    *)
CreateFailed(p) ==
  /\ Fault /\ p[1] \in up \cap leader /\ Free(p)
  /\ job' = FailStaleAccountJobs(job, p[2]) /\ orphan' = FailStaleAccountJobs(orphan, p[2])
  /\ UNCHANGED <<server, cluster, fetched, locks, slots, worker, watch, changes>>

-----------------------------------------------------------------------------
(* runSync.                                                                  *)
(* UpdateJob writes whatever the row says by now.                            *)
Write(p, status) == job' = [job EXCEPT ![p] = [status |-> status, fresh |-> TRUE]]

AcquireSyncSlot(p) ==
  /\ worker[p].pc = "wait" /\ slots[p[1]] < SlotLimit
  /\ slots' = [slots EXCEPT ![p[1]] = @ + 1]
  /\ worker' = [worker EXCEPT ![p].pc = "dial"]
  /\ Write(p, "running")
  /\ UNCHANGED <<server, cluster, fetched, locks, orphan, watch, changes, faults>>

(* The messages that the mailbox holds when it is listed.                    *)
UIDL(a) == mail[a]

(* dialInboundForSync with its retries, and the listing of the mailbox.      *)
Enumerate(p) ==
  /\ worker[p].pc = "dial"
  /\ worker' = [worker EXCEPT ![p] = [pc |-> "fetch", seen |-> UIDL(p[2])]]
  /\ UNCHANGED <<server, cluster, fetched, locks, slots, job, orphan, watch, changes, faults>>

(* Each message writes the progress, and the status with it: a row that was  *)
(* reaped meanwhile is open again.                                           *)
Progress(p) ==
  /\ worker[p].pc = "fetch" /\ Write(p, "running") /\ job' # job
  /\ UNCHANGED <<server, cluster, fetched, locks, slots, worker, orphan, watch, changes, faults>>

(* The deferred calls of runSync and StartSync: the slot of a sync that had  *)
(* one, the entry in jobCancels, the lock.                                   *)
Returned(p) ==
  /\ slots' = [slots EXCEPT ![p[1]] = IF worker[p].pc = "wait" THEN @ ELSE @ - 1]
  /\ locks' = locks \ {p}
  /\ worker' = [worker EXCEPT ![p] = NoWorker]

Fetched(p) == fetched' = [fetched EXCEPT ![p[2]] = @ \cup worker[p].seen]

(* Every message is kept, and the job finished.                              *)
Finish(p) ==
  /\ worker[p].pc = "fetch"
  /\ Fetched(p) /\ Returned(p) /\ Write(p, "closed")
  /\ UNCHANGED <<server, cluster, orphan, watch, changes, faults>>

(* An error of the last write is dropped: the row stays open.                *)
FinishUnwritten(p) ==
  /\ worker[p].pc = "fetch" /\ Fault
  /\ Fetched(p) /\ Returned(p)
  /\ UNCHANGED <<server, cluster, job, orphan, watch, changes>>

(* A failed connection or listing, a panic, and CancelJob end the sync early. *)
Abandon(p) ==
  /\ worker[p].pc \in {"wait", "dial", "fetch"} /\ Fault
  /\ Returned(p) /\ Write(p, "closed")
  /\ UNCHANGED <<server, cluster, fetched, orphan, watch, changes>>

(* A refused password takes the account out of service.                      *)
AuthRefused(p) ==
  /\ worker[p].pc = "dial" /\ Fault
  /\ Returned(p) /\ Write(p, "closed")
  /\ account' = [account EXCEPT ![p[2]].active = FALSE]
  /\ UNCHANGED <<mail, cluster, fetched, orphan, watch, changes>>

-----------------------------------------------------------------------------
(* Rows: touched every 15 seconds by their worker, stale after 60.           *)
TouchJob(p) ==
  /\ worker[p].pc # "none" /\ Stale(job[p])
  /\ job' = [job EXCEPT ![p].fresh = TRUE]
  /\ UNCHANGED <<server, cluster, fetched, locks, slots, worker, orphan, watch, changes, faults>>

Aged(row) == [row EXCEPT !.fresh = FALSE]
Ages(row) == row.status \in Open /\ row.fresh

GraceElapses(p) ==
  /\ \/ worker[p].pc = "none" /\ Ages(job[p]) /\ job' = [job EXCEPT ![p] = Aged(@)] /\ UNCHANGED orphan
     \/ Ages(orphan[p]) /\ orphan' = [orphan EXCEPT ![p] = Aged(@)] /\ UNCHANGED job
  /\ UNCHANGED <<server, cluster, fetched, locks, slots, worker, watch, changes, faults>>

(* The store is slow, and the row of a worker that lives goes stale.         *)
HeartbeatLost(p) ==
  /\ worker[p].pc # "none" /\ Ages(job[p]) /\ Fault
  /\ job' = [job EXCEPT ![p] = Aged(@)]
  /\ UNCHANGED <<server, cluster, fetched, locks, slots, worker, orphan, watch, changes>>

(* RecoverStaleJobs: on becoming the leader and every 30 seconds; it spares  *)
(* the jobs that run in its own process.                                     *)
ActiveJobIDs(n) == {p \in Pairs : p[1] = n /\ worker[p].pc # "none"}

RecoverStaleJobs(n) ==
  /\ n \in up \cap leader
  /\ job' = [p \in Pairs |-> IF p \in ActiveJobIDs(n) THEN job[p] ELSE Failed(job[p])]
  /\ orphan' = [p \in Pairs |-> Failed(orphan[p])]
  /\ <<job, orphan>>' # <<job, orphan>>
  /\ UNCHANGED <<server, cluster, fetched, locks, slots, worker, watch, changes, faults>>

-----------------------------------------------------------------------------
(* The supervisor of the watches, on its timer and on a leadership edge. The *)
(* entry of a loop that has ended counts as absent.                          *)
\* Mutant: every entry counts as running.
EndedNever(p) == FALSE

Ended(p) == watch[p].pc = "ended"

Running(p) == watch[p].pc # "none" /\ ~Ended(p) /\ watch[p].settings = account[p[2]].settings

Reconciled(p) ==
  CASE p[1] \notin leader \/ p[2] \notin Imap \/ ~account[p[2]].active -> NoWatch
    [] Running(p)                                  -> watch[p]
    [] OTHER -> [pc |-> "dial", seen |-> -1, settings |-> account[p[2]].settings]

RunIdleWorker(n) ==
  /\ n \in up
  /\ watch' = [p \in Pairs |-> IF p[1] = n THEN Reconciled(p) ELSE watch[p]]
  /\ watch' # watch
  /\ Idle /\ UNCHANGED <<server, cluster, changes, faults>>

(* runIdleSync: the session is closed; the watch waits for the sync that it  *)
(* has started, and dials again at once when another one runs already.       *)
RunIdleSync(p, seen) ==
  IF Free(p)
    THEN /\ Started(p)
         /\ watch' = [watch EXCEPT ![p].pc = "sync", ![p].seen = seen]
    ELSE /\ Idle
         /\ watch' = [watch EXCEPT ![p].pc = "dial", ![p].seen = seen]

(* idleLoop ends when the node no longer leads.                              *)
Lapsed(p) ==
  /\ watch[p].pc \in {"dial", "idle"} /\ p[1] \in up \ leader
  /\ watch' = [watch EXCEPT ![p] = [NoWatch EXCEPT !.pc = "ended"]]
  /\ Idle /\ UNCHANGED <<server, cluster, changes, faults>>

(* idleOnce: a first connection, or a mailbox that has grown since the last, *)
(* starts a sync; otherwise the session idles.                               *)
IdleConnect(p) ==
  LET count == Cardinality(mail[p[2]]) IN
  /\ watch[p].pc = "dial" /\ p[1] \in up \cap leader
  /\ IF watch[p].seen < 0 \/ count > watch[p].seen
       THEN RunIdleSync(p, count)
       ELSE Idle /\ watch' = [watch EXCEPT ![p].pc = "idle", ![p].seen = count]
  /\ UNCHANGED <<server, cluster, changes, faults>>

(* The server reports a change of the mailbox.                               *)
IdleWakes(p) ==
  /\ watch[p].pc = "idle" /\ p[1] \in up \cap leader
  /\ Cardinality(mail[p[2]]) # watch[p].seen
  /\ RunIdleSync(p, watch[p].seen)
  /\ UNCHANGED <<server, cluster, changes, faults>>

\* Mutant: after 28 silent minutes the watch only idles again.
ReIdled(p) == Idle /\ watch' = [watch EXCEPT ![p].pc = "dial"]

(* Idle returns without an error after 28 minutes too, and idleOnce takes    *)
(* this for activity.                                                        *)
Silent(p) == RunIdleSync(p, watch[p].seen)

IdleTimesOut(p) ==
  /\ watch[p].pc = "idle" /\ p[1] \in up \cap leader
  /\ Cardinality(mail[p[2]]) = watch[p].seen
  /\ Silent(p)
  /\ UNCHANGED <<server, cluster, changes, faults>>

(* The sync is over.                                                         *)
IdleResumes(p) ==
  /\ watch[p].pc = "sync" /\ worker[p].pc = "none"
  /\ watch' = [watch EXCEPT ![p].pc = "dial"]
  /\ Idle /\ UNCHANGED <<server, cluster, changes, faults>>

(* It has taken more than ten minutes.                                       *)
IdleSyncWait(p) ==
  /\ watch[p].pc = "sync" /\ worker[p].pc # "none" /\ Fault
  /\ watch' = [watch EXCEPT ![p].pc = "dial"]
  /\ Idle /\ UNCHANGED <<server, cluster, changes>>

(* The connection breaks, or the loop panics.                                *)
IdleBreaks(p) ==
  /\ watch[p].pc \in {"dial", "idle"} /\ Fault
  /\ \/ watch' = [watch EXCEPT ![p].pc = "dial"]
     \/ watch' = [watch EXCEPT ![p] = [NoWatch EXCEPT !.pc = "ended"]]
  /\ watch' # watch
  /\ Idle /\ UNCHANGED <<server, cluster, changes>>

-----------------------------------------------------------------------------
(* The world outside. Mail comes and goes, and settings change, on accounts  *)
(* that are watched; the others compete for the slots.                       *)
Arrive(a, m) ==
  /\ Change /\ \A b \in Accounts : m \notin mail[b] \cup fetched[b]
  /\ mail' = [mail EXCEPT ![a] = @ \cup {m}]
  /\ UNCHANGED <<fetched, account, cluster, locks, slots, worker, job, orphan, watch, faults>>

(* Another client deletes a message, or postra on request; before anyone     *)
(* looks again another may have arrived.                                     *)
Delete(a, m) ==
  /\ Change /\ m \in mail[a]
  /\ \E new \in {{}} \cup {{n} : n \in Mail \ (mail[a] \cup fetched[a])} :
       mail' = [mail EXCEPT ![a] = (@ \ {m}) \cup new]
  /\ UNCHANGED <<account, cluster, fetched, locks, slots, worker, job, orphan, watch, faults>>

(* The user saves the account: in service or not, with the settings that it  *)
(* had or with others.                                                       *)
UpdateAccount(a) ==
  /\ Change
  /\ \E active \in BOOLEAN, settings \in {0, 1} :
       account' = [account EXCEPT ![a] = [active |-> active, settings |-> settings]]
  /\ account' # account
  /\ UNCHANGED <<mail, cluster, fetched, locks, slots, worker, job, orphan, watch, faults>>

BecomeLeader(n) ==
  /\ n \in up /\ leader = {}
  /\ leader' = {n}
  /\ Idle /\ UNCHANGED <<server, up, watch, changes, faults>>

LoseLeadership(n) ==
  /\ n \in leader /\ Fault
  /\ leader' = {}
  /\ Idle /\ UNCHANGED <<server, up, watch, changes>>

(* A crash loses everything but the rows.                                    *)
Crash(n) ==
  /\ n \in up /\ Fault
  /\ up' = up \ {n} /\ leader' = leader \ {n}
  /\ locks' = {p \in locks : p[1] # n}
  /\ slots' = [slots EXCEPT ![n] = 0]
  /\ worker' = [p \in Pairs |-> IF p[1] = n THEN NoWorker ELSE worker[p]]
  /\ watch' = [p \in Pairs |-> IF p[1] = n THEN NoWatch ELSE watch[p]]
  /\ orphan' = [p \in Pairs |-> IF p[1] = n THEN Left(job[p], orphan[p]) ELSE orphan[p]]
  /\ job' = [p \in Pairs |-> IF p[1] = n THEN Closed ELSE job[p]]
  /\ UNCHANGED <<server, fetched, changes>>

Restart(n) ==
  /\ n \notin up
  /\ up' = up \cup {n}
  /\ Idle /\ UNCHANGED <<server, leader, watch, changes, faults>>

-----------------------------------------------------------------------------
Next ==
  \/ \E p \in Pairs : SchedulerTick(p)
  \/ \E p \in Pairs : ManualSync(p)
  \/ \E p \in Pairs : CreateFailed(p)
  \/ \E p \in Pairs : AcquireSyncSlot(p)
  \/ \E p \in Pairs : Enumerate(p)
  \/ \E p \in Pairs : Progress(p)
  \/ \E p \in Pairs : Finish(p)
  \/ \E p \in Pairs : FinishUnwritten(p)
  \/ \E p \in Pairs : Abandon(p)
  \/ \E p \in Pairs : AuthRefused(p)
  \/ \E p \in Pairs : TouchJob(p)
  \/ \E p \in Pairs : GraceElapses(p)
  \/ \E p \in Pairs : HeartbeatLost(p)
  \/ \E n \in Nodes : RecoverStaleJobs(n)
  \/ \E n \in Nodes : RunIdleWorker(n)
  \/ \E p \in Pairs : Lapsed(p)
  \/ \E p \in Pairs : IdleConnect(p)
  \/ \E p \in Pairs : IdleWakes(p)
  \/ \E p \in Pairs : IdleTimesOut(p)
  \/ \E p \in Pairs : IdleResumes(p)
  \/ \E p \in Pairs : IdleSyncWait(p)
  \/ \E p \in Pairs : IdleBreaks(p)
  \/ \E a \in Imap, m \in Mail : Arrive(a, m)
  \/ \E a \in Imap, m \in Mail : Delete(a, m)
  \/ \E a \in Imap : UpdateAccount(a)
  \/ \E n \in Nodes : BecomeLeader(n)
  \/ \E n \in Nodes : LoseLeadership(n)
  \/ \E n \in Nodes : Crash(n)
  \/ \E n \in Nodes : Restart(n)

(* Timers fire and started work goes on; a crashed node is restarted and a   *)
(* lease found again. A sync that waits for a slot is woken by every release *)
(* and polls every five seconds, where scheduled syncs come minutes apart:   *)
(* it gets a slot that is free again and again. Nothing is assumed of users, *)
(* servers and faults, nor of the scheduler, which may be off.               *)
Sync(p) == AcquireSyncSlot(p) \/ Enumerate(p) \/ Finish(p)
IdleLoop(p) == Lapsed(p) \/ IdleConnect(p) \/ IdleWakes(p) \/ IdleTimesOut(p) \/ IdleResumes(p)

Fairness ==
  /\ \A p \in Nodes \X (Accounts \ Scheduled) : SF_vars(AcquireSyncSlot(p))
  /\ \A p \in Pairs : WF_vars(Sync(p)) /\ WF_vars(IdleLoop(p))
  /\ WF_vars(\E p \in Pairs : GraceElapses(p))
  /\ WF_vars(\E n \in Nodes : RecoverStaleJobs(n))
  /\ WF_vars(\E n \in Nodes : RunIdleWorker(n))
  /\ WF_vars(\E n \in Nodes : BecomeLeader(n) \/ Restart(n))

Spec == Init /\ [][Next]_vars /\ Fairness

-----------------------------------------------------------------------------
(* Each of the three is a leads-to whose end is the negation of its start,   *)
(* and is written as what must be true again and again.                      *)

(* Mail that arrives is fetched while its account is in service, although a  *)
(* wake-up can meet a sync that has already listed the mailbox, a count can  *)
(* hide one arrival behind one deletion, and syncs fail: also when no sync   *)
(* is scheduled.                                                             *)
MailFetched ==
  \A a \in Imap, m \in Mail :
    []<>(m \notin mail[a] \/ m \in fetched[a] \/ ~account[a].active)

(* No row stays queued or running for ever, whoever crashed and whatever was *)
(* not written.                                                              *)
JobsEnd ==
  \A p \in Pairs : []<>(job[p].status \notin Open) /\ []<>(orphan[p].status \notin Open)

(* The leader comes to watch every account in service with the settings that *)
(* it has, after panics, saved accounts and lost leases; others let go.      *)
Watched(p) ==
  IF p[1] \in leader /\ account[p[2]].active
    THEN watch[p].pc \in {"dial", "idle", "sync"} /\ watch[p].settings = account[p[2]].settings
    ELSE watch[p].pc \in {"none", "ended", "sync"}

WatchFollows == \A p \in Nodes \X Imap : []<>Watched(p)
=============================================================================
