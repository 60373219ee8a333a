------------------------------ MODULE Indexing ------------------------------
(* The index of semantic search: the worker of the leader and the backfill    *)
(* job find messages without an embedding, have them embedded in batches, and *)
(* file the vectors in the database or in Milvus (application/semantic.go,    *)
(* vector_store.go, persistence/embeddings.go). The model server and Milvus   *)
(* are external and may fail.                                                 *)
EXTENDS Integers, FiniteSets

CONSTANTS
  Messages,    \* numbers; the larger one has the later date
  Users,
  Owner,       \* [Messages -> Users]
  Empty,       \* messages without text
  Untitled,    \* messages that have text, but only in the body
  Unfit,       \* messages whose text exceeds the window of the embedding model
  Batch,       \* autoEmbedBatch
  JobBatch,    \* batchSize of a job
  MaxChanges,  \* bound: saves of vector.provider and deletions
  MaxFaults    \* bound: failed calls and crashes

ASSUME IndexingAssumption ==
  /\ Messages \subseteq Nat /\ Owner \in [Messages -> Users]
  /\ Batch \in Nat \ {0} /\ JobBatch \in Nat \ {0}
  /\ MaxChanges \in Nat /\ MaxFaults \in Nat

VARIABLES
  mail,      \* messages of the inbox
  gone,      \* deleted messages
  cut,       \* history: messages whose text was once taken without the body
  row,       \* [Messages -> the row of embeddings, by the store that wrote it]
  milvus,    \* messages with an entity in Milvus
  provider,  \* vector.provider
  ix,        \* [Indexers -> a pass of the worker, a run of the job]
  job,       \* the row of jobs, and history: what it listed and what it could not read
  changes, faults

vars == <<mail, gone, cut, row, milvus, provider, ix, job, changes, faults>>

Indexers == {"worker", "job"}
Idle == [pc |-> "idle", users |-> {}, ids |-> {}, batch |-> {}, out |-> {}]
NoJob == [status |-> "none", user |-> "none", listed |-> {}, skipped |-> {}, done |-> 0, failed |-> 0, cancelled |-> FALSE]

Init ==
  /\ mail = {} /\ gone = {} /\ cut = {}
  /\ row = [m \in Messages |-> "absent"] /\ milvus = {}
  /\ provider \in {"db", "milvus", "disabled"}
  /\ ix = [i \in Indexers |-> Idle] /\ job = NoJob
  /\ changes = 0 /\ faults = 0

Change == changes < MaxChanges /\ changes' = changes + 1

(* A call may fail while faults are left, and does once its job is cancelled. *)
MayFail(i) ==
  \/ faults < MaxFaults /\ faults' = faults + 1
  \/ i = "job" /\ job.cancelled /\ UNCHANGED faults

-----------------------------------------------------------------------------
(* The mailbox and the settings.                                              *)
Arrive(m) ==
  /\ m \notin mail \cup gone
  /\ mail' = mail \cup {m}
  /\ UNCHANGED <<gone, cut, row, milvus, provider, ix, job, changes, faults>>

(* A deletion takes the row along; Milvus is not told.                        *)
Delete(m) ==
  /\ Change /\ m \in mail
  /\ mail' = mail \ {m} /\ gone' = gone \cup {m}
  /\ row' = [row EXCEPT ![m] = "absent"]
  /\ UNCHANGED <<cut, milvus, provider, ix, job, faults>>

InitVectorStore(p) ==
  /\ Change /\ provider # p
  /\ provider' = p
  /\ UNCHANGED <<mail, gone, cut, row, milvus, ix, job, faults>>

-----------------------------------------------------------------------------
(* What waits for an embedding, and the newest of it.                         *)
Newest(S, k) == {m \in S : Cardinality({n \in S : n > m}) < k}

\* Mutant: what is older than an indexed message has been seen.
BeyondLastMark(u) ==
  {m \in mail : Owner[m] = u /\ provider # "disabled" /\ \A n \in Messages : row[n] # "absent" => m > n}

MessagesMissingEmbeddings(u) ==
  {m \in mail : Owner[m] = u /\ provider # "disabled" /\ row[m] = "absent"}

WorkerTick ==
  /\ ix["worker"].pc = "idle"
  /\ ix' = [ix EXCEPT !["worker"] = [Idle EXCEPT !.pc = "list", !.users = Users]]
  /\ UNCHANGED <<mail, gone, cut, row, milvus, provider, job, changes, faults>>

(* One batch for each user; a user whose mail cannot be listed waits.         *)
WorkerList(u) ==
  /\ ix["worker"].pc = "list" /\ u \in ix["worker"].users
  /\ \/ /\ ix' = [ix EXCEPT !["worker"].users = @ \ {u},
                            !["worker"].batch = Newest(MessagesMissingEmbeddings(u), Batch),
                            !["worker"].pc = IF MessagesMissingEmbeddings(u) = {} THEN "list" ELSE "read"]
        /\ UNCHANGED faults
     \/ MayFail("worker") /\ ix' = [ix EXCEPT !["worker"].users = @ \ {u}]
  /\ UNCHANGED <<mail, gone, cut, row, milvus, provider, job, changes>>

WorkerDone ==
  /\ ix["worker"].pc = "list" /\ ix["worker"].users = {}
  /\ ix' = [ix EXCEPT !["worker"] = Idle]
  /\ UNCHANGED <<mail, gone, cut, row, milvus, provider, job, changes, faults>>

BuildEmbeddings(u) ==
  /\ job = NoJob
  /\ job' = [NoJob EXCEPT !.status = "queued", !.user = u]
  /\ ix' = [ix EXCEPT !["job"] = [Idle EXCEPT !.pc = "list"]]
  /\ UNCHANGED <<mail, gone, cut, row, milvus, provider, changes, faults>>

JobList ==
  /\ ix["job"].pc = "list"
  /\ \/ /\ job' = [job EXCEPT !.status = "running", !.listed = MessagesMissingEmbeddings(job.user)]
        /\ ix' = [ix EXCEPT !["job"].ids = MessagesMissingEmbeddings(job.user), !["job"].pc = "next"]
        /\ UNCHANGED faults
     \/ MayFail("job") /\ job' = [job EXCEPT !.status = "failed"] /\ ix' = [ix EXCEPT !["job"] = Idle]
  /\ UNCHANGED <<mail, gone, cut, row, milvus, provider, changes>>

JobNext ==
  /\ ix["job"].pc = "next" /\ ix["job"].ids # {}
  /\ \/ /\ ~job.cancelled
        /\ ix' = [ix EXCEPT !["job"].batch = Newest(ix["job"].ids, JobBatch), !["job"].pc = "read",
                            !["job"].ids = @ \ Newest(@, JobBatch)]
        /\ UNCHANGED job
     \/ job.cancelled /\ job' = [job EXCEPT !.status = "cancelled"] /\ ix' = [ix EXCEPT !["job"] = Idle]
  /\ UNCHANGED <<mail, gone, cut, row, milvus, provider, changes, faults>>

\* Mutant: a job that has done something has succeeded.
OutcomeOfDone(done, failed) == IF failed > 0 /\ done = 0 THEN "failed" ELSE "succeeded"

Outcome(done, failed) ==
  IF failed = 0 THEN "succeeded" ELSE IF done = 0 THEN "failed" ELSE "partial"

JobFinish ==
  /\ ix["job"].pc = "next" /\ ix["job"].ids = {}
  /\ job' = [job EXCEPT !.status = Outcome(job.done, job.failed)]
  /\ ix' = [ix EXCEPT !["job"] = Idle]
  /\ UNCHANGED <<mail, gone, cut, row, milvus, provider, changes, faults>>

CancelJob ==
  /\ ix["job"].pc # "idle" /\ ~job.cancelled
  /\ job' = [job EXCEPT !.cancelled = TRUE]
  /\ UNCHANGED <<mail, gone, cut, row, milvus, provider, ix, changes, faults>>

-----------------------------------------------------------------------------
(* embedMessagesBatch. It ends as done or failed; the worker goes on with the *)
(* next user either way, the job counts and goes on.                          *)
Ended(i) == [ix[i] EXCEPT !.batch = {}, !.out = {}, !.pc = IF i = "worker" THEN "list" ELSE "next"]

Passed(i, lost) == IF i = "job" THEN [job EXCEPT !.skipped = @ \cup lost] ELSE job

BatchDone(i, lost) ==
  /\ ix' = [ix EXCEPT ![i] = Ended(i)]
  /\ job' = IF i = "job" THEN [Passed(i, lost) EXCEPT !.done = @ + Cardinality(ix[i].batch)] ELSE job

BatchFails(i) ==
  /\ ix' = [ix EXCEPT ![i] = Ended(i)]
  /\ job' = IF i = "job" THEN [job EXCEPT !.failed = @ + Cardinality(ix[i].batch)] ELSE job

Present(i) == ix[i].batch \cap mail

(* Texts of the messages that still exist. One that cannot be read is passed  *)
(* over and counts as done. Nobody looks at the error of reading a body: the  *)
(* subject is the text then. What has no text, or seems to have none, is      *)
(* marked so that it is not read again, if the store takes a row without a    *)
(* vector and the write, whose error nobody looks at either, succeeds.        *)
ReadTexts(i) ==
  /\ ix[i].pc = "read"
  /\ \E lost \in SUBSET Present(i), bodiless \in SUBSET Present(i), unmarked \in SUBSET Present(i) :
       LET read == Present(i) \ lost
           blank == read \cap (Empty \cup (bodiless \cap Untitled))
           takes == IF provider = "db" THEN blank ELSE {}
       IN /\ bodiless \subseteq read \ Empty /\ unmarked \subseteq takes
          /\ IF lost \cup bodiless \cup unmarked = {} THEN UNCHANGED faults ELSE MayFail(i)
          /\ row' = [m \in Messages |-> IF m \in takes \ unmarked THEN "none" ELSE row[m]]
          /\ cut' = cut \cup bodiless
          /\ IF read \subseteq blank THEN BatchDone(i, lost)
             ELSE /\ ix' = [ix EXCEPT ![i].out = read \ blank, ![i].pc = "embed"]
                  /\ job' = Passed(i, lost)
  /\ UNCHANGED <<mail, gone, milvus, provider, changes>>

(* Policy forbids the call before anything is read.                           *)
Forbidden(i) ==
  /\ ix[i].pc = "read" /\ MayFail(i) /\ BatchFails(i)
  /\ UNCHANGED <<mail, gone, cut, row, milvus, provider, changes>>

(* The batch is embedded as a whole: one text that does not fit fails it.     *)
Embed(i) ==
  /\ ix[i].pc = "embed"
  /\ \/ /\ ix[i].out \cap Unfit = {}
        /\ ix' = [ix EXCEPT ![i].pc = "save"] /\ UNCHANGED <<job, faults>>
     \/ ix[i].out \cap Unfit # {} /\ BatchFails(i) /\ UNCHANGED faults
     \/ MayFail(i) /\ BatchFails(i)
  /\ UNCHANGED <<mail, gone, cut, row, milvus, provider, changes>>

(* A row refers to its message.                                               *)
Referenced(S) == S \subseteq mail

(* StorageVectorStore writes row after row and stops at the first error.      *)
SaveRow(i) ==
  /\ \/ ix[i].pc = "rows"
     \/ ix[i].pc = "save" /\ provider = "db"
  /\ \E m \in ix[i].out :
       \/ /\ Referenced({m})
          /\ row' = [row EXCEPT ![m] = "db"] /\ UNCHANGED faults
          /\ IF ix[i].out = {m} THEN BatchDone(i, {})
             ELSE ix' = [ix EXCEPT ![i].out = @ \ {m}, ![i].pc = "rows"] /\ UNCHANGED job
       \/ ~Referenced({m}) /\ BatchFails(i) /\ UNCHANGED <<row, faults>>
       \/ MayFail(i) /\ BatchFails(i) /\ UNCHANGED row
  /\ UNCHANGED <<mail, gone, cut, milvus, provider, changes>>

\* Mutant: status 200 counts as success.
HTTPOnly(answer) == answer # "lost"

(* checkMilvusStatus looks at the code in the body as well.                   *)
CheckMilvusStatus(answer) == answer = "ok"

(* MilvusVectorStore inserts the entities, then marks the messages in one     *)
(* transaction.                                                               *)
InsertEntities(i) ==
  /\ ix[i].pc = "save" /\ provider = "milvus"
  /\ \E answer \in {"ok", "refused", "lost"} :
       /\ IF answer = "ok" THEN UNCHANGED faults ELSE MayFail(i)
       /\ \/ answer # "refused" /\ milvus' = milvus \cup ix[i].out
          \/ answer # "ok" /\ UNCHANGED milvus
       /\ IF CheckMilvusStatus(answer) THEN ix' = [ix EXCEPT ![i].pc = "mark"] /\ UNCHANGED job ELSE BatchFails(i)
  /\ UNCHANGED <<mail, gone, cut, row, provider, changes>>

MarkEntities(i) ==
  /\ ix[i].pc = "mark"
  /\ \/ /\ Referenced(ix[i].out) /\ BatchDone(i, {}) /\ UNCHANGED faults
        /\ row' = [m \in Messages |-> IF m \in ix[i].out THEN "milvus" ELSE row[m]]
     \/ ~Referenced(ix[i].out) /\ BatchFails(i) /\ UNCHANGED <<row, faults>>
     \/ MayFail(i) /\ BatchFails(i) /\ UNCHANGED row
  /\ UNCHANGED <<mail, gone, cut, milvus, provider, changes>>

SaveDisabled(i) ==
  /\ ix[i].pc = "save" /\ provider = "disabled" /\ BatchFails(i)
  /\ UNCHANGED <<mail, gone, cut, row, milvus, provider, changes, faults>>

(* The process ends; what it left of a job is failed by the reaper            *)
(* (SyncJobs).                                                                *)
Crash ==
  /\ faults < MaxFaults /\ faults' = faults + 1
  /\ ix' = [i \in Indexers |-> Idle]
  /\ job' = IF job.status \in {"queued", "running"} THEN [job EXCEPT !.status = "failed"] ELSE job
  /\ UNCHANGED <<mail, gone, cut, row, milvus, provider, changes>>

-----------------------------------------------------------------------------
BatchStep(i) ==
  ReadTexts(i) \/ Forbidden(i) \/ Embed(i) \/ SaveRow(i) \/ InsertEntities(i) \/ MarkEntities(i) \/ SaveDisabled(i)

Worker == WorkerTick \/ (\E u \in Users : WorkerList(u)) \/ WorkerDone \/ BatchStep("worker")

Next ==
  \/ \E m \in Messages : Arrive(m)
  \/ \E m \in Messages : Delete(m)
  \/ \E p \in {"db", "milvus", "disabled"} : InitVectorStore(p)
  \/ Worker
  \/ \E u \in Users : BuildEmbeddings(u)
  \/ JobList \/ JobNext \/ JobFinish \/ CancelJob
  \/ BatchStep("job")
  \/ Crash

(* The worker of the leader has a timer and its calls have timeouts. Nobody   *)
(* has to start a job.                                                        *)
Spec == Init /\ [][Next]_vars /\ WF_vars(Worker)

-----------------------------------------------------------------------------
(* What is marked as indexed in Milvus is there, though an insert may be      *)
(* refused in the body of a successful answer, or its answer may be lost.     *)
(* Nobody looks again at a message that is marked.                            *)
MarkedIsStored == \A m \in Messages : row[m] = "milvus" => m \in milvus

(* A job that reports success has left an embedding for everything it listed  *)
(* that still exists and has text, whoever else indexes, deletes or saves     *)
(* settings, except what it could not read and what somebody has read without *)
(* its body.                                                                  *)
Embedded(m) == row[m] \in {"db", "milvus"}

JobTruth ==
  job.status = "succeeded" => \A m \in (job.listed \cap mail) \ (Empty \cup cut \cup job.skipped) : Embedded(m)

(* A message that no pass of the worker gets past: one that is too long fails *)
(* every batch it is in, and Milvus takes no mark for one without text, so    *)
(* that enough of these fill every batch. Such messages hold up what is older.*)
HeldUp(m) ==
  LET own == {n \in mail : Owner[n] = Owner[m]}
  IN \/ own \cap Unfit # {}
     \/ provider = "milvus" /\ Cardinality({n \in own \cap Empty : n > m}) >= Batch

(* Mail that stays and is not held up is indexed in the end, through failed   *)
(* calls, deletions in the middle of a batch, crashes, changes of the store   *)
(* and the troubles of other users, unless it was once read without its body. *)
(* semantic.go, RunEmbeddingWorker: "the index self-heals on the next tick    *)
(* after any failure".                                                        *)
IndexCatchesUp ==
  \A m \in Messages \ Empty :
    <>[](m \in mail /\ provider # "disabled" /\ ~HeldUp(m)) => <>[](Embedded(m) \/ m \in cut)

(* Not so: without the exceptions. A body that cannot be read once leaves a   *)
(* message marked as if it had no text, for ever; 32 messages without text    *)
(* hold up all older mail under Milvus, and one that is too long does so for  *)
(* every store.                                                               *)
SelfHeals ==
  \A m \in Messages \ (Empty \cup Unfit) : <>[](m \in mail /\ provider # "disabled") => <>[]Embedded(m)

(* What counts as indexed is found by a search of the store in use.           *)
(* vector_store.go: "VectorStore abstraction supports swapping                *)
(* implementations at runtime".                                               *)
SwapKeepsSearch ==
  \A m \in Messages : provider = "milvus" /\ row[m] \in {"db", "milvus"} => m \in milvus

-----------------------------------------------------------------------------
(* The inductive invariant behind the first two, in named parts.              *)
PassType ==
  [pc : {"idle", "list", "next", "read", "embed", "save", "rows", "mark"},
   users : SUBSET Users, ids : SUBSET Messages, batch : SUBSET Messages, out : SUBSET Messages]

JobType ==
  [status : {"none", "queued", "running", "succeeded", "partial", "failed", "cancelled"},
   user : Users \cup {"none"}, listed : SUBSET Messages, skipped : SUBSET Messages,
   done : Nat, failed : Nat, cancelled : BOOLEAN]

TypeOK ==
  /\ mail \subseteq Messages /\ gone \subseteq Messages /\ cut \subseteq Messages /\ IsFiniteSet(mail)
  /\ row \in [Messages -> {"absent", "none", "db", "milvus"}] /\ milvus \subseteq Messages
  /\ provider \in {"db", "milvus", "disabled"}
  /\ ix \in [Indexers -> PassType] /\ job \in JobType
  /\ changes \in 0..MaxChanges /\ faults \in 0..MaxFaults

(* A pass has read only what is in its batch, and nothing before it reads.    *)
BatchInv ==
  \A i \in Indexers :
    /\ IsFiniteSet(ix[i].ids) /\ IsFiniteSet(ix[i].batch)
    /\ ix[i].out \subseteq ix[i].batch
    /\ ix[i].pc \in {"idle", "list", "next", "read"} => ix[i].out = {}

(* What is about to be marked is in Milvus, like what is marked. Only what    *)
(* has no text, or was read without its body, is marked as empty.             *)
MarkInv ==
  /\ \A i \in Indexers : ix[i].pc = "mark" => ix[i].out \subseteq milvus
  /\ MarkedIsStored
  /\ \A m \in Messages : row[m] = "none" => m \in Empty \cup cut

(* What a job still has in hand: what it has not taken up, and of its batch   *)
(* what it has not read, or has read and not filed.                           *)
InHand(p) == p.ids \cup (IF p.pc = "read" THEN p.batch ELSE p.out)

(* What the job listed that it has to answer for.                             *)
Due == (job.listed \cap mail) \ (Empty \cup cut \cup job.skipped)

(* A job that counts no failure has lost nothing on the way, and no listed    *)
(* message that was deleted comes back.                                       *)
JobInv ==
  /\ job.listed \subseteq mail \cup gone
  /\ job.status = "succeeded" => ix["job"].pc = "idle"
  /\ ix["job"].pc \notin {"idle", "list"} /\ job.failed = 0 =>
       \A m \in Due : row[m] # "absent" \/ m \in InHand(ix["job"])
  /\ job.status = "succeeded" => \A m \in Due : row[m] # "absent"

IndexInv == TypeOK /\ BatchInv /\ MarkInv /\ JobInv
=============================================================================
