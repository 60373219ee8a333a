--------------------------- MODULE IndexingProofs ---------------------------
(* Proofs about Indexing, for any mailbox and any number of users: what is    *)
(* marked as indexed in Milvus is there, and a backfill job that reports      *)
(* success has indexed what it listed.                                        *)
EXTENDS Indexing, FiniteSetTheorems, TLAPS

(* A job that reports success answers for everything it has to answer for.    *)
Accounted == job.status = "succeeded" => \A m \in Due : row[m] # "absent"

-----------------------------------------------------------------------------
(* Records.                                                                   *)

(* The passes the actions write have their type.                              *)
LEMMA PassTypes ==
  /\ Idle \in PassType
  /\ [Idle EXCEPT !.pc = "list"] \in PassType
  /\ [Idle EXCEPT !.pc = "list", !.users = Users] \in PassType
  /\ \A p \in PassType, x \in {"idle", "list", "next", "read", "embed", "save", "rows", "mark"} :
       [p EXCEPT !.pc = x] \in PassType
  BY Zenon DEF Idle, PassType

(* The fields of a job.                                                       *)
LEMMA JobFields ==
  ASSUME NEW j \in JobType
  PROVE  /\ j.status \in {"none", "queued", "running", "succeeded", "partial", "failed", "cancelled"}
         /\ j.user \in Users \cup {"none"} /\ j.listed \subseteq Messages /\ j.skipped \subseteq Messages
         /\ j.done \in Nat /\ j.failed \in Nat /\ j.cancelled \in BOOLEAN
  BY Zenon DEF JobType

(* The jobs the actions write have their type.                                *)
LEMMA JobTypes ==
  /\ NoJob \in JobType
  /\ \A u \in Users : [NoJob EXCEPT !.status = "queued", !.user = u] \in JobType
  /\ \A j \in JobType, x \in {"queued", "running", "succeeded", "partial", "failed", "cancelled"} :
       [j EXCEPT !.status = x] \in JobType
  /\ \A j \in JobType, L \in SUBSET Messages :
       [j EXCEPT !.status = "running", !.listed = L] \in JobType /\ [j EXCEPT !.skipped = L] \in JobType
  /\ \A j \in JobType : [j EXCEPT !.cancelled = TRUE] \in JobType
  /\ \A j \in JobType, n \in Nat : [j EXCEPT !.failed = n] \in JobType /\ [j EXCEPT !.done = n] \in JobType
  <1>1. 0 \in Nat /\ {} \in SUBSET Messages
    OBVIOUS
  <1> QED
    BY <1>1, Zenon DEF NoJob, JobType

-----------------------------------------------------------------------------
(* Sets of messages.                                                          *)
LEMMA Missing ==
  ASSUME TypeOK, NEW u
  PROVE  /\ MessagesMissingEmbeddings(u) \subseteq mail
         /\ MessagesMissingEmbeddings(u) \subseteq Messages
         /\ IsFiniteSet(MessagesMissingEmbeddings(u))
  <1>1. MessagesMissingEmbeddings(u) \subseteq mail /\ mail \subseteq Messages /\ IsFiniteSet(mail)
    BY DEF MessagesMissingEmbeddings, TypeOK
  <1> QED
    BY <1>1, FS_Subset

LEMMA NewestIn ==
  ASSUME NEW S, IsFiniteSet(S), NEW k
  PROVE  Newest(S, k) \subseteq S /\ IsFiniteSet(Newest(S, k)) /\ IsFiniteSet(S \ Newest(S, k))
  <1>1. Newest(S, k) \subseteq S /\ S \ Newest(S, k) \subseteq S
    BY DEF Newest
  <1> QED
    BY <1>1, FS_Subset

-----------------------------------------------------------------------------
(* The end of a batch.                                                        *)

(* What a step makes of one pass; the other one is left alone.                *)
Moves(i, pc, ids, batch, out) ==
  /\ ix' \in [Indexers -> PassType]
  /\ ix'[i].pc = pc /\ ix'[i].ids = ids /\ ix'[i].batch = batch /\ ix'[i].out = out
  /\ \A k \in Indexers \ {i} : ix'[k] = ix[k]

After(i) == IF i = "worker" THEN "list" ELSE "next"

LEMMA EndedMoves ==
  ASSUME TypeOK, NEW i \in Indexers, ix' = [ix EXCEPT ![i] = Ended(i)]
  PROVE  Moves(i, After(i), ix[i].ids, {}, {})
  <1>1. ix[i] \in PassType /\ ix \in [Indexers -> PassType]
    BY DEF TypeOK
  <1>2. /\ Ended(i) \in PassType
        /\ Ended(i).pc = After(i) /\ Ended(i).ids = ix[i].ids
        /\ Ended(i).batch = {} /\ Ended(i).out = {}
    BY <1>1 DEF Ended, PassType, After
  <1> HIDE DEF Ended
  <1> QED
    BY <1>1, <1>2, Zenon DEF Moves

(* A batch that ends as done fails nothing, and passes over what was lost.    *)
LEMMA DoneEffect ==
  ASSUME TypeOK, BatchInv, NEW i \in Indexers, NEW lost \in SUBSET Messages, BatchDone(i, lost)
  PROVE  /\ Moves(i, After(i), ix[i].ids, {}, {})
         /\ job' \in JobType
         /\ job'.status = job.status /\ job'.listed = job.listed /\ job'.failed = job.failed
         /\ job'.skipped = IF i = "job" THEN job.skipped \cup lost ELSE job.skipped
         /\ i = "worker" => job' = job
  <1>1. Moves(i, After(i), ix[i].ids, {}, {})
    BY EndedMoves DEF BatchDone
  <1>2. CASE i # "job"
    BY <1>1, <1>2 DEF BatchDone, TypeOK
  <1>3. CASE i = "job"
    <2>1. Cardinality(ix[i].batch) \in Nat
      BY FS_CardinalityType DEF BatchInv
    <2>2. job \in JobType /\ job.done \in Nat /\ job.skipped \cup lost \in SUBSET Messages
      BY JobFields DEF TypeOK
    <2> DEFINE j == [job EXCEPT !.skipped = job.skipped \cup lost]
               n == j.done + Cardinality(ix[i].batch)
    <2>3. j \in JobType
      BY <2>2, JobTypes, Zenon
    <2>4. /\ j.status = job.status /\ j.listed = job.listed /\ j.failed = job.failed
          /\ j.skipped = job.skipped \cup lost
      BY <2>2 DEF JobType
    <2>5. job' = [j EXCEPT !.done = n]
      BY <1>3, Zenon DEF BatchDone, Passed
    <2> HIDE DEF j
    <2>6. j.done \in Nat
      BY <2>3, JobFields
    <2>7. n \in Nat
      BY <2>1, <2>6
    <2> HIDE DEF n
    <2>8. job' \in JobType
      BY <2>3, <2>5, <2>7, JobTypes, Zenon
    <2>9. /\ job'.status = j.status /\ job'.listed = j.listed /\ job'.failed = j.failed
          /\ job'.skipped = j.skipped
      BY <2>3, <2>5 DEF JobType
    <2> QED
      BY <1>1, <1>3, <2>4, <2>8, <2>9
  <1> QED
    BY <1>2, <1>3

(* A batch that fails counts as failed, unless there was nothing in it.       *)
LEMMA FailEffect ==
  ASSUME TypeOK, BatchInv, NEW i \in Indexers, BatchFails(i)
  PROVE  /\ Moves(i, After(i), ix[i].ids, {}, {})
         /\ job' \in JobType
         /\ job'.status = job.status /\ job'.listed = job.listed /\ job'.skipped = job.skipped
         /\ i = "worker" => job' = job
         /\ i = "job" /\ job'.failed = 0 => job.failed = 0 /\ ix[i].batch = {}
  <1>1. Moves(i, After(i), ix[i].ids, {}, {})
    BY EndedMoves DEF BatchFails
  <1>2. CASE i # "job"
    BY <1>1, <1>2 DEF BatchFails, TypeOK
  <1>3. CASE i = "job"
    <2> DEFINE n == Cardinality(ix[i].batch)
    <2>1. n \in Nat /\ (n = 0 => ix[i].batch = {})
      BY FS_CardinalityType, FS_EmptySet DEF BatchInv
    <2>2. job \in JobType /\ job.failed \in Nat /\ job.failed + n \in Nat
      BY <2>1, JobFields DEF TypeOK
    <2>3. job' = [job EXCEPT !.failed = job.failed + n]
      BY <1>3, Zenon DEF BatchFails
    <2> HIDE DEF n
    <2>4. job' \in JobType
      BY <2>2, <2>3, JobTypes, Zenon
    <2>5. /\ job'.status = job.status /\ job'.listed = job.listed /\ job'.skipped = job.skipped
          /\ job'.failed = job.failed + n
      BY <2>2, <2>3 DEF JobType
    <2>6. job'.failed = 0 => job.failed = 0 /\ n = 0
      BY <2>1, <2>2, <2>5
    <2> QED
      BY <1>1, <1>3, <2>1, <2>4, <2>5, <2>6
  <1> QED
    BY <1>2, <1>3

-----------------------------------------------------------------------------
(* The steps of a batch, each by what the invariant needs to know of it.      *)

(* The stores: rows are written and not removed, and what is marked is there. *)
StoresKept(i) ==
  /\ UNCHANGED <<mail, gone, provider, changes>> /\ cut \subseteq cut' /\ cut' \subseteq Messages
  /\ faults' \in 0..MaxFaults
  /\ row' \in [Messages -> {"absent", "none", "db", "milvus"}]
  /\ \A m \in Messages : row'[m] = "absent" => row[m] = "absent"
  /\ \A m \in Messages : row'[m] = "milvus" => m \in milvus'
  /\ \A m \in Messages : row'[m] = "none" => m \in Empty \cup cut'
  /\ milvus \subseteq milvus' /\ milvus' \subseteq Messages

(* The pass: it goes on with part of its batch, or is through with it.        *)
PassKept(i) ==
  /\ ix' \in [Indexers -> PassType]
  /\ \A k \in Indexers \ {i} : ix'[k] = ix[k]
  /\ ix'[i].ids = ix[i].ids /\ ix'[i].batch \subseteq ix[i].batch /\ ix'[i].out \subseteq ix'[i].batch
  /\ (ix'[i].pc = After(i) /\ ix'[i].out = {}) \/ ix'[i].pc \in {"embed", "save", "rows", "mark"}
  /\ ix'[i].pc = "mark" => ix'[i].out \subseteq milvus'

(* The job: it drops nothing that exists and has text unless it is filed,     *)
(* noted as unreadable or counted as failed.                                  *)
JobKept(i) ==
  /\ job' \in JobType
  /\ job'.status = job.status /\ job'.listed = job.listed /\ job.skipped \subseteq job'.skipped
  /\ i = "worker" => job' = job
  /\ i = "job" /\ job'.failed = 0 =>
       /\ job.failed = 0
       /\ \A m \in InHand(ix[i]) \cap mail :
            m \in InHand(ix'[i]) \/ row'[m] # "absent" \/ m \in Empty \cup cut' \/ m \in job'.skipped

LEMMA FaultsKept ==
  ASSUME TypeOK, NEW i, MayFail(i) \/ UNCHANGED faults
  PROVE  faults' \in 0..MaxFaults
  BY IndexingAssumption DEF TypeOK, MayFail

(* A batch that fails and leaves the rows alone.                              *)
LEMMA FailingStep ==
  ASSUME IndexInv, NEW i \in Indexers, BatchFails(i), ix[i].pc \notin {"idle", "list", "next"}
  PROVE  PassKept(i) /\ JobKept(i)
  <1>1. TypeOK /\ BatchInv
    BY DEF IndexInv
  <1>2. /\ Moves(i, After(i), ix[i].ids, {}, {})
        /\ job' \in JobType
        /\ job'.status = job.status /\ job'.listed = job.listed /\ job'.skipped = job.skipped
        /\ i = "worker" => job' = job
        /\ i = "job" /\ job'.failed = 0 => job.failed = 0 /\ ix[i].batch = {}
    BY <1>1, FailEffect
  <1>3. PassKept(i)
    BY <1>2 DEF Moves, PassKept, After
  <1>4. ix[i].batch = {} => InHand(ix[i]) \subseteq ix[i].ids
    BY <1>1 DEF BatchInv, InHand
  <1>5. ix'[i].ids \subseteq InHand(ix'[i]) /\ ix'[i].ids = ix[i].ids
    BY <1>2 DEF Moves, InHand
  <1> QED
    BY <1>2, <1>3, <1>4, <1>5 DEF JobKept

LEMMA RowsSame ==
  ASSUME IndexInv, UNCHANGED <<mail, gone, cut, provider, changes, row>>, faults' \in 0..MaxFaults,
         milvus \subseteq milvus', milvus' \subseteq Messages, NEW i
  PROVE  StoresKept(i)
  BY DEF IndexInv, TypeOK, MarkInv, MarkedIsStored, StoresKept

LEMMA ForbiddenKept ==
  ASSUME IndexInv, NEW i \in Indexers, Forbidden(i) \/ SaveDisabled(i)
  PROVE  StoresKept(i) /\ PassKept(i) /\ JobKept(i)
  <1>1. /\ BatchFails(i) /\ ix[i].pc \in {"read", "save"} /\ (MayFail(i) \/ UNCHANGED faults)
        /\ UNCHANGED <<mail, gone, cut, row, milvus, provider, changes>>
    BY DEF Forbidden, SaveDisabled
  <1>2. faults' \in 0..MaxFaults /\ milvus \subseteq Messages
    BY <1>1, FaultsKept DEF IndexInv, TypeOK
  <1> QED
    BY <1>1, <1>2, FailingStep, RowsSame

LEMMA EmbedKept ==
  ASSUME IndexInv, NEW i \in Indexers, Embed(i)
  PROVE  StoresKept(i) /\ PassKept(i) /\ JobKept(i)
  <1>1. /\ ix[i].pc = "embed" /\ (MayFail(i) \/ UNCHANGED faults)
        /\ UNCHANGED <<mail, gone, cut, row, milvus, provider, changes>>
    BY DEF Embed
  <1>2. faults' \in 0..MaxFaults /\ milvus \subseteq Messages
    BY <1>1, FaultsKept DEF IndexInv, TypeOK
  <1>3. StoresKept(i)
    BY <1>1, <1>2, RowsSame
  <1>4. CASE BatchFails(i)
    BY <1>1, <1>3, <1>4, FailingStep
  <1>5. CASE ix' = [ix EXCEPT ![i].pc = "save"] /\ UNCHANGED job
    <2>1. ix[i] \in PassType /\ ix \in [Indexers -> PassType] /\ job \in JobType
      BY DEF IndexInv, TypeOK
    <2>2. [ix[i] EXCEPT !.pc = "save"] \in PassType
      BY <2>1, PassTypes, Zenon
    <2>3. ix' \in [Indexers -> PassType]
      BY <1>5, <2>1, <2>2
    <2>4. /\ ix'[i].pc = "save" /\ ix'[i].ids = ix[i].ids /\ ix'[i].batch = ix[i].batch /\ ix'[i].out = ix[i].out
          /\ \A k \in Indexers \ {i} : ix'[k] = ix[k]
      BY <1>5, <2>1 DEF PassType
    <2>5. PassKept(i)
      BY <2>3, <2>4 DEF PassKept, IndexInv, BatchInv
    <2>6. InHand(ix'[i]) = InHand(ix[i])
      BY <1>1, <2>4 DEF InHand
    <2> QED
      BY <1>3, <1>5, <2>1, <2>5, <2>6 DEF JobKept
  <1> QED
    BY <1>4, <1>5 DEF Embed

LEMMA InsertKept ==
  ASSUME IndexInv, NEW i \in Indexers, InsertEntities(i)
  PROVE  StoresKept(i) /\ PassKept(i) /\ JobKept(i)
  <1>1. PICK answer \in {"ok", "refused", "lost"} :
          /\ IF answer = "ok" THEN UNCHANGED faults ELSE MayFail(i)
          /\ \/ answer # "refused" /\ milvus' = milvus \cup ix[i].out
             \/ answer # "ok" /\ UNCHANGED milvus
          /\ IF CheckMilvusStatus(answer) THEN ix' = [ix EXCEPT ![i].pc = "mark"] /\ UNCHANGED job ELSE BatchFails(i)
    BY DEF InsertEntities
  <1>2. ix[i].pc = "save" /\ UNCHANGED <<mail, gone, cut, row, provider, changes>>
    BY DEF InsertEntities
  <1>3. ix[i] \in PassType /\ ix \in [Indexers -> PassType] /\ job \in JobType /\ milvus \subseteq Messages
    BY DEF IndexInv, TypeOK
  <1>4. ix[i].out \subseteq Messages
    BY <1>3 DEF PassType
  <1>5. faults' \in 0..MaxFaults
    BY <1>1, FaultsKept DEF IndexInv
  <1>6. StoresKept(i)
    BY <1>1, <1>2, <1>3, <1>4, <1>5, RowsSame
  <1>7. CASE BatchFails(i)
    BY <1>2, <1>6, <1>7, FailingStep
  <1>8. CASE /\ CheckMilvusStatus(answer) /\ ix' = [ix EXCEPT ![i].pc = "mark"] /\ UNCHANGED job
    <2>1. milvus' = milvus \cup ix[i].out
      BY <1>1, <1>8 DEF CheckMilvusStatus
    <2>2. [ix[i] EXCEPT !.pc = "mark"] \in PassType
      BY <1>3, PassTypes, Zenon
    <2>3. ix' \in [Indexers -> PassType]
      BY <1>8, <1>3, <2>2
    <2>4. /\ ix'[i].pc = "mark" /\ ix'[i].ids = ix[i].ids /\ ix'[i].batch = ix[i].batch /\ ix'[i].out = ix[i].out
          /\ \A k \in Indexers \ {i} : ix'[k] = ix[k]
      BY <1>8, <1>3 DEF PassType
    <2>5. PassKept(i)
      BY <2>1, <2>3, <2>4 DEF PassKept, IndexInv, BatchInv
    <2>6. InHand(ix'[i]) = InHand(ix[i])
      BY <1>2, <2>4 DEF InHand
    <2> QED
      BY <1>3, <1>6, <1>8, <2>5, <2>6 DEF JobKept
  <1> QED
    BY <1>1, <1>7, <1>8

LEMMA MarkKept ==
  ASSUME IndexInv, NEW i \in Indexers, MarkEntities(i)
  PROVE  StoresKept(i) /\ PassKept(i) /\ JobKept(i)
  <1>1. /\ ix[i].pc = "mark" /\ UNCHANGED <<mail, gone, cut, milvus, provider, changes>>
        /\ MayFail(i) \/ UNCHANGED faults
    BY DEF MarkEntities
  <1>2. /\ ix[i] \in PassType /\ milvus \subseteq Messages /\ ix[i].out \subseteq milvus
        /\ row \in [Messages -> {"absent", "none", "db", "milvus"}] /\ MarkedIsStored /\ TypeOK /\ BatchInv
        /\ cut \subseteq Messages /\ \A m \in Messages : row[m] = "none" => m \in Empty \cup cut
    BY <1>1 DEF IndexInv, TypeOK, MarkInv
  <1>3. faults' \in 0..MaxFaults
    BY <1>1, <1>2, FaultsKept
  <1>4. CASE BatchFails(i) /\ UNCHANGED row
    BY <1>1, <1>2, <1>3, <1>4, FailingStep, RowsSame
  <1>5. CASE /\ BatchDone(i, {})
             /\ row' = [m \in Messages |-> IF m \in ix[i].out THEN "milvus" ELSE row[m]]
    <2>1. StoresKept(i)
      BY <1>1, <1>2, <1>3, <1>5 DEF StoresKept, MarkedIsStored
    <2>2. /\ Moves(i, After(i), ix[i].ids, {}, {})
          /\ job' \in JobType
          /\ job'.status = job.status /\ job'.listed = job.listed /\ job'.failed = job.failed
          /\ job.skipped \subseteq job'.skipped
          /\ i = "worker" => job' = job
      BY <1>2, <1>5, DoneEffect
    <2>3. PassKept(i)
      BY <2>2 DEF Moves, PassKept, After
    <2>4. \A m \in InHand(ix[i]) : m \in ix[i].ids \/ m \in ix[i].out
      BY <1>1 DEF InHand
    <2>5. ix'[i].ids = ix[i].ids /\ ix'[i].ids \subseteq InHand(ix'[i])
      BY <2>2 DEF Moves, InHand
    <2>6. \A m \in InHand(ix[i]) : m \in InHand(ix'[i]) \/ row'[m] # "absent"
      BY <1>2, <1>5, <2>4, <2>5
    <2> QED
      BY <2>1, <2>2, <2>3, <2>6 DEF JobKept
  <1> QED
    BY <1>4, <1>5 DEF MarkEntities

LEMMA SaveRowKept ==
  ASSUME IndexInv, NEW i \in Indexers, SaveRow(i)
  PROVE  StoresKept(i) /\ PassKept(i) /\ JobKept(i)
  <1>1. /\ ix[i].pc \in {"rows", "save"} /\ UNCHANGED <<mail, gone, cut, milvus, provider, changes>>
        /\ MayFail(i) \/ UNCHANGED faults
    BY DEF SaveRow
  <1>2. /\ ix[i] \in PassType /\ ix \in [Indexers -> PassType] /\ milvus \subseteq Messages /\ job \in JobType
        /\ row \in [Messages -> {"absent", "none", "db", "milvus"}] /\ MarkedIsStored /\ TypeOK /\ BatchInv
        /\ cut \subseteq Messages /\ \A m \in Messages : row[m] = "none" => m \in Empty \cup cut
    BY <1>1 DEF IndexInv, TypeOK, MarkInv
  <1>3. faults' \in 0..MaxFaults
    BY <1>1, <1>2, FaultsKept
  <1>4. CASE BatchFails(i) /\ UNCHANGED row
    BY <1>1, <1>2, <1>3, <1>4, FailingStep, RowsSame
  <1>5. ASSUME NEW m \in ix[i].out, row' = [row EXCEPT ![m] = "db"],
               IF ix[i].out = {m} THEN BatchDone(i, {})
               ELSE ix' = [ix EXCEPT ![i].out = @ \ {m}, ![i].pc = "rows"] /\ UNCHANGED job
        PROVE  StoresKept(i) /\ PassKept(i) /\ JobKept(i)
    <2>1. m \in Messages /\ ix[i].out \subseteq Messages
      BY <1>2 DEF PassType
    <2>2. StoresKept(i) /\ row'[m] # "absent"
      BY <1>1, <1>2, <1>3, <1>5, <2>1 DEF StoresKept, MarkedIsStored
    <2>3. CASE BatchDone(i, {}) /\ ix[i].out = {m}
      <3>1. /\ Moves(i, After(i), ix[i].ids, {}, {})
            /\ job' \in JobType
            /\ job'.status = job.status /\ job'.listed = job.listed /\ job'.failed = job.failed
            /\ job.skipped \subseteq job'.skipped
            /\ i = "worker" => job' = job
        BY <1>2, <2>3, DoneEffect
      <3>2. PassKept(i)
        BY <3>1 DEF Moves, PassKept, After
      <3>3. \A n \in InHand(ix[i]) : n \in ix[i].ids \/ n = m
        BY <1>1, <2>3 DEF InHand
      <3>4. ix'[i].ids = ix[i].ids /\ ix'[i].ids \subseteq InHand(ix'[i])
        BY <3>1 DEF Moves, InHand
      <3>5. \A n \in InHand(ix[i]) : n \in InHand(ix'[i]) \/ row'[n] # "absent"
        BY <2>2, <3>3, <3>4
      <3> QED
        BY <2>2, <3>1, <3>2, <3>5 DEF JobKept
    <2>4. CASE ix' = [ix EXCEPT ![i].out = @ \ {m}, ![i].pc = "rows"] /\ UNCHANGED job
      <3> DEFINE p == [ix[i] EXCEPT !.out = ix[i].out \ {m}, !.pc = "rows"]
      <3>1. ix' = [ix EXCEPT ![i] = p]
        BY <1>2, <2>4, Zenon
      <3>2. /\ p \in PassType /\ p.pc = "rows" /\ p.ids = ix[i].ids /\ p.batch = ix[i].batch
            /\ p.out = ix[i].out \ {m}
        BY <1>2 DEF PassType
      <3> HIDE DEF p
      <3>3. /\ ix' \in [Indexers -> PassType] /\ ix'[i].pc = "rows" /\ ix'[i].ids = ix[i].ids
            /\ ix'[i].batch = ix[i].batch /\ ix'[i].out = ix[i].out \ {m}
            /\ \A k \in Indexers \ {i} : ix'[k] = ix[k]
        BY <1>2, <3>1, <3>2
      <3>4. PassKept(i)
        BY <1>2, <3>3 DEF PassKept, BatchInv
      <3>5. \A n \in InHand(ix[i]) : n \in InHand(ix'[i]) \/ n = m
        BY <1>1, <3>3 DEF InHand
      <3>6. \A n \in InHand(ix[i]) : n \in InHand(ix'[i]) \/ row'[n] # "absent"
        BY <2>2, <3>5
      <3> QED
        BY <1>2, <2>2, <2>4, <3>4, <3>6 DEF JobKept
    <2> QED
      BY <1>5, <2>3, <2>4
  <1> QED
    BY <1>4, <1>5 DEF SaveRow

LEMMA ReadKept ==
  ASSUME IndexInv, NEW i \in Indexers, ReadTexts(i)
  PROVE  StoresKept(i) /\ PassKept(i) /\ JobKept(i)
  <1>1. ix[i].pc = "read" /\ UNCHANGED <<mail, gone, milvus, provider, changes>>
    BY DEF ReadTexts
  <1>2. /\ ix[i] \in PassType /\ ix \in [Indexers -> PassType] /\ milvus \subseteq Messages /\ job \in JobType
        /\ row \in [Messages -> {"absent", "none", "db", "milvus"}] /\ MarkedIsStored /\ TypeOK /\ BatchInv
        /\ \A m \in Messages : row[m] = "none" => m \in Empty \cup cut
        /\ mail \subseteq Messages /\ cut \subseteq Messages
    BY <1>1 DEF IndexInv, TypeOK, MarkInv
  <1>3. PICK lost \in SUBSET Present(i), bodiless \in SUBSET Present(i), unmarked \in SUBSET Present(i) :
          LET read == Present(i) \ lost
              blank == read \cap (Empty \cup (bodiless \cap Untitled))
              takes == IF provider = "db" THEN blank ELSE {}
          IN /\ bodiless \subseteq read \ Empty /\ unmarked \subseteq takes
             /\ IF lost \cup bodiless \cup unmarked = {} THEN UNCHANGED faults ELSE MayFail(i)
             /\ row' = [m \in Messages |-> IF m \in takes \ unmarked THEN "none" ELSE row[m]]
             /\ cut' = cut \cup bodiless
             /\ IF read \subseteq blank THEN BatchDone(i, lost)
                ELSE /\ ix' = [ix EXCEPT ![i].out = read \ blank, ![i].pc = "embed"]
                     /\ job' = Passed(i, lost)
    BY DEF ReadTexts
  <1> DEFINE read == Present(i) \ lost
             blank == read \cap (Empty \cup (bodiless \cap Untitled))
             marked == (IF provider = "db" THEN blank ELSE {}) \ unmarked
  <1>4. /\ lost \subseteq Messages /\ ix[i].batch \subseteq Messages /\ bodiless \subseteq Messages
        /\ cut' = cut \cup bodiless /\ blank \subseteq Empty \cup cut'
    BY <1>2, <1>3 DEF PassType, Present
  <1>5. faults' \in 0..MaxFaults
    BY <1>2, <1>3, FaultsKept
  <1>6. row' = [m \in Messages |-> IF m \in marked THEN "none" ELSE row[m]]
    BY <1>3
  <1>7. StoresKept(i)
    <2>1. marked \subseteq Empty \cup cut' /\ cut \subseteq cut' /\ cut' \subseteq Messages
      BY <1>2, <1>4
    <2> HIDE DEF marked, blank, read
    <2> QED
      BY <1>1, <1>2, <1>5, <1>6, <2>1 DEF StoresKept, MarkedIsStored
  <1>8. CASE read \subseteq blank /\ BatchDone(i, lost)
    <2>1. /\ Moves(i, After(i), ix[i].ids, {}, {})
          /\ job' \in JobType
          /\ job'.status = job.status /\ job'.listed = job.listed /\ job'.failed = job.failed
          /\ job'.skipped = IF i = "job" THEN job.skipped \cup lost ELSE job.skipped
          /\ i = "worker" => job' = job
      BY <1>2, <1>4, <1>8, DoneEffect
    <2>2. PassKept(i)
      BY <2>1 DEF Moves, PassKept, After
    <2>3. \A m \in InHand(ix[i]) \cap mail : m \in ix[i].ids \/ m \in lost \/ m \in Empty \cup cut'
      BY <1>1, <1>4, <1>8 DEF InHand, Present
    <2>4. ix'[i].ids = ix[i].ids /\ ix'[i].ids \subseteq InHand(ix'[i])
      BY <2>1 DEF Moves, InHand
    <2> QED
      BY <1>7, <2>1, <2>2, <2>3, <2>4 DEF JobKept
  <1>9. CASE ix' = [ix EXCEPT ![i].out = read \ blank, ![i].pc = "embed"] /\ job' = Passed(i, lost)
    <2> DEFINE p == [ix[i] EXCEPT !.out = read \ blank, !.pc = "embed"]
    <2>1. ix' = [ix EXCEPT ![i] = p]
      BY <1>2, <1>9, Zenon
    <2>2. /\ p \in PassType /\ p.pc = "embed" /\ p.ids = ix[i].ids /\ p.batch = ix[i].batch
          /\ p.out = read \ blank
      BY <1>2, <1>4 DEF PassType, Present
    <2> HIDE DEF p
    <2>3. /\ ix' \in [Indexers -> PassType] /\ ix'[i].pc = "embed" /\ ix'[i].ids = ix[i].ids
          /\ ix'[i].batch = ix[i].batch /\ ix'[i].out = read \ blank
          /\ \A k \in Indexers \ {i} : ix'[k] = ix[k]
      BY <1>2, <2>1, <2>2
    <2>4. PassKept(i)
      BY <2>3 DEF PassKept, Present
    <2>5. \A m \in InHand(ix[i]) \cap mail : m \in InHand(ix'[i]) \/ m \in lost \/ m \in Empty \cup cut'
      BY <1>1, <1>4, <2>3 DEF InHand, Present
    <2>6. job.skipped \cup lost \in SUBSET Messages
      BY <1>2, <1>4, JobFields
    <2>7. job' \in JobType
      <3>1. CASE i = "job"
        BY <1>2, <1>9, <2>6, <3>1, JobTypes, Zenon DEF Passed
      <3>2. CASE i # "job"
        BY <1>2, <1>9, <3>2 DEF Passed
      <3> QED
        BY <3>1, <3>2
    <2>8. /\ job'.status = job.status /\ job'.listed = job.listed /\ job'.failed = job.failed
          /\ job'.skipped = IF i = "job" THEN job.skipped \cup lost ELSE job.skipped
          /\ i = "worker" => job' = job
      BY <1>2, <1>9 DEF Passed, JobType
    <2> QED
      BY <1>7, <2>4, <2>5, <2>7, <2>8 DEF JobKept
  <1> QED
    BY <1>3, <1>8, <1>9

(* A step of a batch keeps the invariant.                                     *)
LEMMA BatchStepInv ==
  ASSUME IndexInv, NEW i \in Indexers, BatchStep(i)
  PROVE  IndexInv'
  <1>1. StoresKept(i) /\ PassKept(i) /\ JobKept(i)
    BY ReadKept, ForbiddenKept, EmbedKept, SaveRowKept, InsertKept, MarkKept DEF BatchStep
  <1>2. TypeOK /\ BatchInv /\ MarkInv /\ JobInv
    BY DEF IndexInv
  <1>3. TypeOK'
    <2>1. mail' = mail /\ gone' = gone /\ provider' = provider /\ changes' = changes
      BY <1>1 DEF StoresKept
    <2>2. /\ mail' \subseteq Messages /\ gone' \subseteq Messages /\ IsFiniteSet(mail')
          /\ provider' \in {"db", "milvus", "disabled"} /\ changes' \in 0..MaxChanges
      BY <1>2, <2>1 DEF TypeOK
    <2> QED
      BY <1>1, <2>2 DEF StoresKept, PassKept, JobKept, TypeOK
  <1>4. BatchInv'
    <2> SUFFICES ASSUME NEW k \in Indexers
                 PROVE  /\ IsFiniteSet(ix'[k].ids) /\ IsFiniteSet(ix'[k].batch)
                        /\ ix'[k].out \subseteq ix'[k].batch
                        /\ ix'[k].pc \in {"idle", "list", "next", "read"} => ix'[k].out = {}
      BY DEF BatchInv
    <2>1. CASE k # i
      BY <1>1, <1>2, <2>1 DEF PassKept, BatchInv
    <2>2. CASE k = i
      <3>1. ix'[i].ids = ix[i].ids /\ ix'[i].batch \subseteq ix[i].batch
        BY <1>1 DEF PassKept
      <3>2. IsFiniteSet(ix'[i].ids) /\ IsFiniteSet(ix'[i].batch)
        BY <1>2, <3>1, FS_Subset DEF BatchInv
      <3> QED
        BY <1>1, <2>2, <3>2 DEF PassKept
    <2> QED
      BY <2>1, <2>2
  <1>5. MarkInv'
    <2>1. \A k \in Indexers : ix'[k].pc = "mark" => ix'[k].out \subseteq milvus'
      BY <1>1, <1>2 DEF PassKept, StoresKept, MarkInv
    <2> QED
      BY <1>1, <2>1 DEF StoresKept, MarkInv, MarkedIsStored
  <1>6. JobInv'
    <2>1. Due' \subseteq Due /\ Due \subseteq Messages
      BY <1>1, <1>2 DEF Due, StoresKept, JobKept, TypeOK
    <2>2. \A m \in Due' : row'[m] = "absent" => row[m] = "absent"
      BY <1>1, <2>1 DEF StoresKept
    <2>3. Accounted'
      BY <1>1, <1>2, <2>1, <2>2 DEF JobInv, Accounted, Due, JobKept
    <2>4. ix["job"].pc = "idle" /\ i = "job" => FALSE
      BY DEF BatchStep, ReadTexts, Forbidden, Embed, SaveRow, InsertEntities, MarkEntities, SaveDisabled
    <2>5. "job" \in Indexers
      BY DEF Indexers
    <2>6. job'.status = "succeeded" => ix'["job"].pc = "idle"
      BY <1>1, <1>2, <2>4, <2>5 DEF JobInv, JobKept, PassKept
    <2>7. job'.listed \subseteq mail' \cup gone'
      BY <1>1, <1>2 DEF JobInv, JobKept, StoresKept
    <2>8. ix'["job"].pc \notin {"idle", "list"} /\ job'.failed = 0 =>
            \A m \in Due' : row'[m] # "absent" \/ m \in InHand(ix'["job"])
      <3>1. CASE i = "worker"
        <4>1. ix'["job"] = ix["job"] /\ job' = job
          BY <1>1, <2>5, <3>1 DEF PassKept, JobKept
        <4> QED
          BY <1>2, <2>1, <2>2, <4>1 DEF JobInv
      <3>2. CASE i = "job"
        <4>1. ix["job"].pc \notin {"idle", "list"}
          BY <3>2 DEF BatchStep, ReadTexts, Forbidden, Embed, SaveRow, InsertEntities, MarkEntities, SaveDisabled
        <4> SUFFICES ASSUME job'.failed = 0, NEW m \in Due', row'[m] = "absent"
                     PROVE  m \in InHand(ix'["job"])
          OBVIOUS
        <4>2. job.failed = 0 /\ m \in Due /\ row[m] = "absent"
          BY <1>1, <2>1, <2>2, <3>2 DEF JobKept
        <4>3. m \in InHand(ix["job"])
          BY <1>2, <4>1, <4>2 DEF JobInv
        <4>4. m \in mail /\ m \notin Empty \cup cut' /\ m \notin job'.skipped
          BY <4>2 DEF Due
        <4> QED
          BY <1>1, <3>2, <4>3, <4>4 DEF JobKept
      <3> QED
        BY <3>1, <3>2 DEF Indexers
    <2> QED
      BY <2>3, <2>6, <2>7, <2>8 DEF JobInv, Accounted
  <1> QED
    BY <1>3, <1>4, <1>5, <1>6 DEF IndexInv

-----------------------------------------------------------------------------
(* Mail that comes and goes, settings, and the passes outside a batch.        *)
LEMMA MailInv ==
  ASSUME IndexInv, (\E m \in Messages : Arrive(m) \/ Delete(m)) \/ \E p \in {"db", "milvus", "disabled"} : InitVectorStore(p)
  PROVE  IndexInv'
  <1>1. TypeOK /\ BatchInv /\ MarkInv /\ JobInv
    BY DEF IndexInv
  <1>2. /\ UNCHANGED <<cut, milvus, ix, job, faults>>
        /\ changes' \in 0..MaxChanges /\ provider' \in {"db", "milvus", "disabled"}
    BY <1>1, IndexingAssumption DEF TypeOK, Arrive, Delete, InitVectorStore, Change
  <1>3. /\ row' \in [Messages -> {"absent", "none", "db", "milvus"}]
        /\ \A m \in Messages : \A s \in {"none", "milvus"} : row'[m] = s => row[m] = s
        /\ \A m \in mail' : row'[m] = "absent" => row[m] = "absent" \/ m \notin mail
        /\ mail' \subseteq Messages /\ gone' \subseteq Messages /\ mail \cup gone \subseteq mail' \cup gone'
        /\ mail' \cap (mail \cup gone) \subseteq mail
    BY <1>1 DEF TypeOK, Arrive, Delete, InitVectorStore
  <1>4. IsFiniteSet(mail')
    <2>1. mail' = mail \/ \E m : mail' = mail \cup {m} \/ mail' = mail \ {m}
      BY DEF Arrive, Delete, InitVectorStore
    <2> QED
      BY <1>1, <2>1, FS_AddElement, FS_RemoveElement DEF TypeOK
  <1>5. TypeOK'
    BY <1>1, <1>2, <1>3, <1>4 DEF TypeOK
  <1>6. BatchInv' /\ MarkInv'
    BY <1>1, <1>2, <1>3 DEF BatchInv, MarkInv, MarkedIsStored
  <1>7. Due' \subseteq Due /\ \A m \in Due' : row'[m] = "absent" => row[m] = "absent"
    BY <1>1, <1>2, <1>3 DEF Due, JobInv
  <1>8. JobInv'
    <2>1. Accounted'
      BY <1>1, <1>2, <1>7 DEF JobInv, Accounted, Due
    <2>2. \A m \in Due' : row[m] # "absent" \/ m \in InHand(ix["job"])
            => row'[m] # "absent" \/ m \in InHand(ix'["job"])
      BY <1>2, <1>7
    <2> QED
      BY <1>1, <1>2, <1>3, <1>7, <2>1, <2>2 DEF JobInv
  <1> QED
    BY <1>5, <1>6, <1>8 DEF IndexInv

(* What the worker does between two batches leaves the job alone.             *)
LEMMA WorkerInv ==
  ASSUME IndexInv, WorkerTick \/ (\E u \in Users : WorkerList(u)) \/ WorkerDone
  PROVE  IndexInv'
  <1>1. TypeOK /\ BatchInv /\ MarkInv /\ JobInv
    BY DEF IndexInv
  <1>2. UNCHANGED <<mail, gone, cut, row, milvus, provider, job, changes>>
    BY DEF WorkerTick, WorkerList, WorkerDone
  <1>3. faults' \in 0..MaxFaults
    <2>1. MayFail("worker") \/ UNCHANGED faults
      BY DEF WorkerTick, WorkerList, WorkerDone
    <2> QED
      BY <1>1, <2>1, FaultsKept
  <1>4. ix \in [Indexers -> PassType] /\ "worker" \in Indexers /\ "job" \in Indexers
    BY <1>1 DEF TypeOK, Indexers
  <1> DEFINE w == ix["worker"]
  <1>5. PICK p \in PassType :
          /\ ix' = [ix EXCEPT !["worker"] = p]
          /\ p.pc \in {"idle", "list", "read"} /\ p.out = {}
          /\ IsFiniteSet(p.ids) /\ IsFiniteSet(p.batch)
    <2>1. w \in PassType /\ IsFiniteSet(w.ids) /\ IsFiniteSet(w.batch) /\ IsFiniteSet({})
      BY <1>1, <1>4, FS_EmptySet DEF BatchInv
    <2>2. CASE WorkerTick
      <3> DEFINE p == [Idle EXCEPT !.pc = "list", !.users = Users]
      <3>1. p \in PassType /\ ix' = [ix EXCEPT !["worker"] = p]
        BY <2>2, PassTypes DEF WorkerTick
      <3>2. p.pc = "list" /\ p.out = {} /\ p.ids = {} /\ p.batch = {}
        BY DEF Idle
      <3> HIDE DEF p
      <3> QED
        BY <2>1, <3>1, <3>2
    <2>3. CASE WorkerDone
      <3>1. Idle \in PassType /\ ix' = [ix EXCEPT !["worker"] = Idle]
        BY <2>3, PassTypes DEF WorkerDone
      <3>2. Idle.pc = "idle" /\ Idle.out = {} /\ Idle.ids = {} /\ Idle.batch = {}
        BY DEF Idle
      <3> HIDE DEF Idle
      <3> QED
        BY <2>1, <3>1, <3>2
    <2>4. ASSUME NEW u \in Users, WorkerList(u)
          PROVE  \E p \in PassType :
                   /\ ix' = [ix EXCEPT !["worker"] = p]
                   /\ p.pc \in {"idle", "list", "read"} /\ p.out = {}
                   /\ IsFiniteSet(p.ids) /\ IsFiniteSet(p.batch)
      <3>1. w.pc = "list" /\ w.out = {}
        BY <1>1, <1>4, <2>4 DEF WorkerList, BatchInv
      <3> DEFINE M == MessagesMissingEmbeddings(u)
                 B == Newest(M, Batch)
                 x == IF M = {} THEN "list" ELSE "read"
                 p == [w EXCEPT !.users = w.users \ {u}, !.batch = B, !.pc = x]
                 q == [w EXCEPT !.users = w.users \ {u}]
      <3>2. M \subseteq Messages /\ IsFiniteSet(M) /\ B \subseteq M /\ IsFiniteSet(B)
        BY <1>1, Missing, NewestIn
      <3>3. x \in {"list", "read"}
        OBVIOUS
      <3>4. ix' = [ix EXCEPT !["worker"] = p] \/ ix' = [ix EXCEPT !["worker"] = q]
        BY <1>4, <2>4, Zenon DEF WorkerList
      <3> HIDE DEF B, x, M
      <3>5. p \in PassType /\ p.pc = x /\ p.out = w.out /\ p.ids = w.ids /\ p.batch = B
        BY <2>1, <3>2, <3>3 DEF PassType
      <3>6. q \in PassType /\ q.pc = w.pc /\ q.out = w.out /\ q.ids = w.ids /\ q.batch = w.batch
        BY <2>1 DEF PassType
      <3> HIDE DEF p, q, w
      <3>7. p.pc \in {"idle", "list", "read"} /\ q.pc \in {"idle", "list", "read"}
        BY <3>1, <3>3, <3>5, <3>6
      <3> QED
        BY <2>1, <3>1, <3>2, <3>4, <3>5, <3>6, <3>7
    <2> QED
      BY <2>2, <2>3, <2>4
  <1>6. /\ ix' \in [Indexers -> PassType] /\ ix'["worker"] = p /\ ix'["job"] = ix["job"]
        /\ \A k \in Indexers : k = "worker" \/ k = "job"
    BY <1>4, <1>5 DEF Indexers
  <1>7. TypeOK'
    BY <1>1, <1>2, <1>3, <1>6 DEF TypeOK
  <1>8. BatchInv' /\ MarkInv'
    BY <1>1, <1>2, <1>4, <1>5, <1>6 DEF BatchInv, MarkInv, MarkedIsStored
  <1>9. JobInv'
    BY <1>1, <1>2, <1>6 DEF JobInv, Accounted, Due
  <1> QED
    BY <1>7, <1>8, <1>9 DEF IndexInv

(* The job outside a batch: its pass becomes p, with nothing read, and the    *)
(* stores and the mailbox stay.                                               *)
LEMMA JobPassInv ==
  ASSUME IndexInv, NEW p \in PassType, ix' = [ix EXCEPT !["job"] = p],
         p.pc \in {"idle", "list", "next", "read"}, p.out = {}, IsFiniteSet(p.ids), IsFiniteSet(p.batch),
         UNCHANGED <<mail, gone, cut, row, milvus, provider, changes>>, faults' \in 0..MaxFaults,
         job' \in JobType, JobInv'
  PROVE  IndexInv'
  <1>1. TypeOK /\ BatchInv /\ MarkInv
    BY DEF IndexInv
  <1>2. ix \in [Indexers -> PassType] /\ "job" \in Indexers
    BY <1>1 DEF TypeOK, Indexers
  <1>3. ix' \in [Indexers -> PassType] /\ ix'["job"] = p /\ \A k \in Indexers : k # "job" => ix'[k] = ix[k]
    BY <1>2
  <1>4. TypeOK'
    BY <1>1, <1>3 DEF TypeOK
  <1>5. BatchInv' /\ MarkInv'
    BY <1>1, <1>2, <1>3 DEF BatchInv, MarkInv, MarkedIsStored
  <1> QED
    BY <1>4, <1>5 DEF IndexInv

LEMMA IdlePass ==
  /\ Idle \in PassType /\ Idle.pc = "idle" /\ Idle.out = {} /\ Idle.ids = {} /\ Idle.batch = {}
  /\ IsFiniteSet(Idle.ids) /\ IsFiniteSet(Idle.batch)
  BY PassTypes, FS_EmptySet DEF Idle

LEMMA BuildInv ==
  ASSUME IndexInv, NEW u \in Users, BuildEmbeddings(u)
  PROVE  IndexInv'
  <1> DEFINE p == [Idle EXCEPT !.pc = "list"]
  <1>1. p \in PassType /\ p.pc = "list" /\ p.out = {} /\ p.ids = {} /\ p.batch = {} /\ IsFiniteSet({})
    BY PassTypes, FS_EmptySet DEF Idle
  <1>2. /\ ix' = [ix EXCEPT !["job"] = p] /\ UNCHANGED <<mail, gone, cut, row, milvus, provider, changes, faults>>
        /\ job' = [NoJob EXCEPT !.status = "queued", !.user = u]
    BY DEF BuildEmbeddings
  <1>3. ix \in [Indexers -> PassType] /\ "job" \in Indexers /\ faults \in 0..MaxFaults
    BY DEF TypeOK, Indexers, IndexInv
  <1> HIDE DEF p
  <1>4. ix'["job"].pc = "list"
    BY <1>1, <1>2, <1>3
  <1>5. job' \in JobType
    BY <1>2, JobTypes, Zenon
  <1>6. job'.status = "queued" /\ job'.listed = {}
    BY <1>2 DEF NoJob
  <1>7. JobInv'
    BY <1>4, <1>6 DEF JobInv, Accounted, Due
  <1> QED
    BY <1>1, <1>2, <1>3, <1>5, <1>7, JobPassInv

LEMMA JobListInv ==
  ASSUME IndexInv, JobList
  PROVE  IndexInv'
  <1>1. /\ ix["job"] \in PassType /\ ix \in [Indexers -> PassType] /\ "job" \in Indexers
        /\ job \in JobType /\ TypeOK /\ BatchInv /\ JobInv
    BY DEF TypeOK, Indexers, IndexInv
  <1>2. /\ ix["job"].pc = "list" /\ UNCHANGED <<mail, gone, cut, row, milvus, provider, changes>>
        /\ MayFail("job") \/ UNCHANGED faults
    BY DEF JobList
  <1>3. faults' \in 0..MaxFaults
    BY <1>1, <1>2, FaultsKept
  <1> DEFINE M == MessagesMissingEmbeddings(job.user)
  <1>4. M \subseteq mail /\ M \subseteq Messages /\ IsFiniteSet(M)
    BY <1>1, Missing
  <1>5. CASE /\ job' = [job EXCEPT !.status = "running", !.listed = M]
             /\ ix' = [ix EXCEPT !["job"].ids = M, !["job"].pc = "next"]
    <2> DEFINE p == [ix["job"] EXCEPT !.ids = M, !.pc = "next"]
    <2>1. ix' = [ix EXCEPT !["job"] = p]
      BY <1>1, <1>5, Zenon
    <2> HIDE DEF M
    <2>2. p \in PassType /\ p.pc = "next" /\ p.ids = M /\ p.out = ix["job"].out /\ p.batch = ix["job"].batch
      BY <1>1, <1>4 DEF PassType
    <2> HIDE DEF p
    <2>3. p.out = {} /\ IsFiniteSet(p.batch)
      BY <1>1, <1>2, <2>2 DEF BatchInv
    <2>4. M \in SUBSET Messages
      BY <1>4
    <2>5. job' \in JobType
      BY <1>1, <1>5, <2>4, JobTypes, Zenon
    <2>6. job'.status = "running" /\ job'.listed = M
      BY <1>1, <1>5 DEF JobType
    <2>7. ix'["job"] = p
      BY <1>1, <2>1
    <2>8. Due' \subseteq InHand(ix'["job"])
      BY <2>2, <2>6, <2>7 DEF Due, InHand
    <2>9. JobInv'
      BY <1>2, <1>4, <2>6, <2>8 DEF JobInv, Accounted
    <2> QED
      BY <1>2, <1>3, <1>4, <2>1, <2>2, <2>3, <2>5, <2>9, JobPassInv
  <1>6. CASE job' = [job EXCEPT !.status = "failed"] /\ ix' = [ix EXCEPT !["job"] = Idle]
    <2>1. job' \in JobType
      BY <1>1, <1>6, JobTypes, Zenon
    <2>2. job'.status = "failed" /\ job'.listed = job.listed
      BY <1>1, <1>6 DEF JobType
    <2>3. ix'["job"].pc = "idle"
      BY <1>1, <1>6, IdlePass
    <2>4. JobInv'
      BY <1>1, <1>2, <2>2, <2>3 DEF JobInv, Accounted
    <2> QED
      BY <1>2, <1>3, <1>6, <2>1, <2>4, IdlePass, JobPassInv
  <1> QED
    BY <1>5, <1>6 DEF JobList

LEMMA JobNextInv ==
  ASSUME IndexInv, JobNext
  PROVE  IndexInv'
  <1>1. /\ ix["job"] \in PassType /\ ix \in [Indexers -> PassType] /\ "job" \in Indexers
        /\ job \in JobType /\ TypeOK /\ BatchInv /\ JobInv /\ faults \in 0..MaxFaults
    BY DEF TypeOK, Indexers, IndexInv
  <1>2. ix["job"].pc = "next" /\ UNCHANGED <<mail, gone, cut, row, milvus, provider, changes, faults>>
    BY DEF JobNext
  <1>3. CASE /\ ix' = [ix EXCEPT !["job"].batch = Newest(ix["job"].ids, JobBatch), !["job"].pc = "read",
                                 !["job"].ids = @ \ Newest(@, JobBatch)]
             /\ UNCHANGED job
    <2> DEFINE I == ix["job"].ids
               B == Newest(I, JobBatch)
               p == [ix["job"] EXCEPT !.batch = B, !.pc = "read", !.ids = I \ B]
    <2>1. ix' = [ix EXCEPT !["job"] = p]
      BY <1>1, <1>3, Zenon
    <2>2. I \subseteq Messages /\ IsFiniteSet(I) /\ B \subseteq I /\ IsFiniteSet(B) /\ IsFiniteSet(I \ B)
      BY <1>1, NewestIn DEF BatchInv, PassType
    <2> HIDE DEF B
    <2>3. p \in PassType /\ p.pc = "read" /\ p.ids = I \ B /\ p.out = ix["job"].out /\ p.batch = B
      BY <1>1, <2>2 DEF PassType
    <2> HIDE DEF p
    <2>4. p.out = {}
      BY <1>1, <1>2, <2>3 DEF BatchInv
    <2>5. ix'["job"] = p
      BY <1>1, <2>1
    <2>6. InHand(ix["job"]) \subseteq InHand(ix'["job"])
      BY <1>1, <1>2, <2>3, <2>5 DEF InHand, BatchInv
    <2>7. job.status # "succeeded"
      BY <1>1, <1>2 DEF JobInv
    <2>8. JobInv'
      BY <1>1, <1>2, <1>3, <2>6, <2>7 DEF JobInv, Accounted, Due
    <2> QED
      BY <1>1, <1>2, <1>3, <2>1, <2>2, <2>3, <2>4, <2>8, JobPassInv
  <1>4. CASE job' = [job EXCEPT !.status = "cancelled"] /\ ix' = [ix EXCEPT !["job"] = Idle]
    <2>1. job' \in JobType
      BY <1>1, <1>4, JobTypes, Zenon
    <2>2. job'.status = "cancelled" /\ job'.listed = job.listed
      BY <1>1, <1>4 DEF JobType
    <2>3. ix'["job"].pc = "idle"
      BY <1>1, <1>4, IdlePass
    <2>4. JobInv'
      BY <1>1, <1>2, <2>2, <2>3 DEF JobInv, Accounted
    <2> QED
      BY <1>1, <1>2, <1>4, <2>1, <2>4, IdlePass, JobPassInv
  <1> QED
    BY <1>3, <1>4 DEF JobNext

LEMMA JobFinishInv ==
  ASSUME IndexInv, JobFinish
  PROVE  IndexInv'
  <1>1. /\ ix["job"] \in PassType /\ ix \in [Indexers -> PassType] /\ "job" \in Indexers
        /\ job \in JobType /\ TypeOK /\ BatchInv /\ JobInv /\ faults \in 0..MaxFaults
    BY DEF TypeOK, Indexers, IndexInv
  <1>2. /\ ix["job"].pc = "next" /\ ix["job"].ids = {} /\ ix' = [ix EXCEPT !["job"] = Idle]
        /\ job' = [job EXCEPT !.status = Outcome(job.done, job.failed)]
        /\ UNCHANGED <<mail, gone, cut, row, milvus, provider, changes, faults>>
    BY DEF JobFinish
  <1> DEFINE x == Outcome(job.done, job.failed)
  <1>3. x \in {"succeeded", "failed", "partial"} /\ (x = "succeeded" => job.failed = 0)
    BY DEF Outcome
  <1> HIDE DEF x
  <1>4. job' = [job EXCEPT !.status = x]
    BY <1>2 DEF x
  <1>5. job' \in JobType
    BY <1>1, <1>3, <1>4, JobTypes, Zenon
  <1>6. job'.status = x /\ job'.listed = job.listed /\ job'.skipped = job.skipped
    BY <1>1, <1>4 DEF JobType
  <1>7. InHand(ix["job"]) = {}
    BY <1>1, <1>2 DEF InHand, BatchInv
  <1>8. Accounted'
    BY <1>1, <1>2, <1>3, <1>6, <1>7 DEF JobInv, Accounted, Due
  <1>9. ix'["job"].pc = "idle"
    BY <1>1, <1>2, IdlePass
  <1>10. JobInv'
    BY <1>1, <1>2, <1>6, <1>8, <1>9 DEF JobInv, Accounted
  <1> QED
    BY <1>1, <1>2, <1>5, <1>10, IdlePass, JobPassInv

LEMMA CancelInv ==
  ASSUME IndexInv, CancelJob
  PROVE  IndexInv'
  <1>1. job \in JobType /\ TypeOK /\ BatchInv /\ MarkInv /\ JobInv
    BY DEF TypeOK, IndexInv
  <1>2. job' = [job EXCEPT !.cancelled = TRUE] /\ UNCHANGED <<mail, gone, cut, row, milvus, provider, ix, changes, faults>>
    BY DEF CancelJob
  <1>3. job' \in JobType
    BY <1>1, <1>2, JobTypes, Zenon
  <1>4. job'.status = job.status /\ job'.listed = job.listed /\ job'.skipped = job.skipped /\ job'.failed = job.failed
    BY <1>1, <1>2 DEF JobType
  <1>5. TypeOK' /\ BatchInv' /\ MarkInv'
    BY <1>1, <1>2, <1>3 DEF TypeOK, BatchInv, MarkInv, MarkedIsStored
  <1>6. JobInv'
    BY <1>1, <1>2, <1>4 DEF JobInv, Accounted, Due, InHand
  <1> QED
    BY <1>5, <1>6 DEF IndexInv

(* A crash loses what the passes held, and fails the job that was running.    *)
LEMMA CrashInv ==
  ASSUME IndexInv, Crash
  PROVE  IndexInv'
  <1>1. job \in JobType /\ TypeOK /\ BatchInv /\ MarkInv /\ JobInv
    BY DEF TypeOK, IndexInv
  <1>2. /\ faults' \in 0..MaxFaults /\ ix' = [i \in Indexers |-> Idle]
        /\ UNCHANGED <<mail, gone, cut, row, milvus, provider, changes>>
    BY <1>1, IndexingAssumption DEF Crash, TypeOK
  <1>3. /\ ix' \in [Indexers -> PassType] /\ \A i \in Indexers : ix'[i] = Idle
        /\ ix'["job"] = Idle
    BY <1>2, IdlePass DEF Indexers
  <1>4. job' = job \/ job' = [job EXCEPT !.status = "failed"]
    BY DEF Crash
  <1>5. job' \in JobType
    BY <1>1, <1>4, JobTypes, Zenon
  <1>6. job'.listed = job.listed /\ job'.skipped = job.skipped /\ (job'.status = "succeeded" => job.status = "succeeded")
    BY <1>1, <1>4 DEF JobType
  <1>7. TypeOK' /\ BatchInv' /\ MarkInv'
    BY <1>1, <1>2, <1>3, <1>5, IdlePass DEF TypeOK, BatchInv, MarkInv, MarkedIsStored
  <1>8. JobInv'
    BY <1>1, <1>2, <1>3, <1>6, IdlePass DEF JobInv, Due
  <1> QED
    BY <1>7, <1>8 DEF IndexInv

-----------------------------------------------------------------------------
(* The theorems.                                                              *)

(* IndexInv is inductive, for the worker and a job side by side, through      *)
(* failed calls, deletions, changes of the store and crashes.                 *)
THEOREM IndexInvariant == Spec => []IndexInv
  <1>1. Init => IndexInv
    <2> SUFFICES ASSUME Init PROVE IndexInv
      OBVIOUS
    <2>1. NoJob.status = "none" /\ NoJob.listed = {}
      BY DEF NoJob
    <2>2. TypeOK
      <3>1. 0 \in 0..MaxChanges /\ 0 \in 0..MaxFaults
        BY IndexingAssumption
      <3>2. ix \in [Indexers -> PassType] /\ job \in JobType
        BY IdlePass, JobTypes DEF Init
      <3>3. row \in [Messages -> {"absent", "none", "db", "milvus"}]
        BY DEF Init
      <3> QED
        BY <3>1, <3>2, <3>3, FS_EmptySet DEF Init, TypeOK
    <2>3. BatchInv /\ MarkInv
      BY IdlePass DEF Init, BatchInv, MarkInv, MarkedIsStored
    <2>4. JobInv
      BY <2>1, IdlePass DEF Init, JobInv, Accounted, Indexers
    <2> QED
      BY <2>2, <2>3, <2>4 DEF IndexInv
  <1>2. IndexInv /\ [Next]_vars => IndexInv'
    <2> SUFFICES ASSUME IndexInv, [Next]_vars PROVE IndexInv'
      OBVIOUS
    <2>1. CASE UNCHANGED vars
      BY <2>1 DEF vars, IndexInv, TypeOK, BatchInv, MarkInv, MarkedIsStored, JobInv, Accounted, Due, InHand
    <2>2. "worker" \in Indexers /\ "job" \in Indexers
      BY DEF Indexers
    <2> QED
      BY <2>1, <2>2, MailInv, WorkerInv, BatchStepInv, BuildInv, JobListInv, JobNextInv, JobFinishInv, CancelInv,
         CrashInv DEF Next, Worker
  <1> QED
    BY <1>1, <1>2, PTL DEF Spec

(* What is marked as indexed in Milvus is there (MilvusVectorStore.Save,      *)
(* checkMilvusStatus).                                                        *)
THEOREM MarkSafety == Spec => []MarkedIsStored
  <1>1. IndexInv => MarkedIsStored
    BY DEF IndexInv, MarkInv
  <1> QED
    BY <1>1, IndexInvariant, PTL

(* A job that reports success has left an embedding for what it listed, still *)
(* exists, has text and could be read (BuildEmbeddings, embedMessagesBatch).  *)
THEOREM JobSafety == Spec => []JobTruth
  <1>1. IndexInv => JobTruth
    <2> SUFFICES ASSUME IndexInv, job.status = "succeeded",
                        NEW m \in (job.listed \cap mail) \ (Empty \cup cut \cup job.skipped)
                 PROVE  row[m] \in {"db", "milvus"}
      BY DEF JobTruth, Embedded
    <2>1. m \in Messages /\ row[m] \in {"absent", "none", "db", "milvus"}
      BY DEF IndexInv, TypeOK
    <2>2. row[m] # "absent"
      BY DEF IndexInv, JobInv, Due
    <2>3. row[m] # "none"
      BY <2>1 DEF IndexInv, MarkInv
    <2> QED
      BY <2>1, <2>2, <2>3
  <1> QED
    BY <1>1, IndexInvariant, PTL
=============================================================================
