--------------------------- MODULE MailStoreProofs ---------------------------
(* Proofs about MailStore, for any messages, syncs, clients, approvals and    *)
(* faults: messages keep their objects, only mail that was kept is passed     *)
(* over, and only mail approved for it, or flagged by another client, is      *)
(* deleted on the server.                                                     *)
EXTENDS MailStore, TLAPS

-----------------------------------------------------------------------------
(* The invariant by what it is about: each ingest, each message, what was     *)
(* seen, the deletes that purge, the sessions with the server.                *)
RelyOn(q, b) == q.pc = "put" /\ b \in q.refs \ q.puts

KeptIn(m, kp, ks) == Raw[m] \in kp \/ (m \notin Inbox /\ \E c \in ks : MsgId[c] = MsgId[Raw[m]])

StorerOK(q, pr, kp, ks, back) ==
  /\ q \in SyncType
  /\ q.pc \in Busy /\ MaxPerSync > 0 => q.fetched < MaxPerSync
  /\ q.box = "sent" => q.todo \cap Inbox = {} /\ (q.pc \in Busy => q.src \notin Inbox)
  /\ q.pc = "sentcopy" => q.box = "sent"
  /\ q.pc = "fallback" => pr = "list"
  /\ q.pc = "mark" => Raw[q.src] \in kp
  /\ q.pc = "markdup" => KeptIn(q.src, kp, ks) /\ (pr = "list" => Raw[q.src] \in kp)
  /\ \A b : RelyOn(q, b) => b \in back

MailOK(x, kp, ks, back) ==
  x \in MailType /\ (x.live => x.raw \in kp /\ (x.box = "sent" => x.raw \in ks) /\ x.refs \subseteq back)

StorersOK ==
  io \in [Storers -> SyncType] /\ \A p \in Storers : StorerOK(io[p], protocol, kept, keptSent, objects \cup overlap)

MailsOK ==
  /\ mail \in [Ids -> MailType] /\ \A i \in Ids : MailOK(mail[i], kept, keptSent, objects \cup overlap)

SeenOK ==
  /\ cps \subseteq Sources \cup Raws /\ kept \subseteq Raws /\ keptSent \subseteq kept
  /\ objects \subseteq Objects /\ overlap \subseteq Objects
  /\ \A m \in Sources : m \in cps => KeptIn(m, kept, keptSent)
  /\ cps \cap Raws \subseteq kept

PurgesOK ==
  /\ del \in [Deleters -> DeleteType]
  /\ \A d \in Deleters : \A b \in del[d].orphans :
       \/ b \in overlap
       \/ (\A p \in Storers : ~RelyOn(io[p], b)) /\ \A i \in Ids : mail[i].live => b \notin mail[i].refs

ApprovalType == [status : {"none", "pending", "used", "expired"}, uidls : SUBSET Inbox]

SessionsOK ==
  /\ server \in [Remote -> {"none", "here", "gone", "taken"}] /\ flagged \subseteq Inbox /\ foreign \subseteq Inbox
  /\ approval \in [Tokens -> ApprovalType] /\ sd \in [Tokens -> SessionType]
  /\ SessionInv

RestOK ==
  /\ protocol \in Protocols /\ edit \in [Clients -> EditType]
  /\ held \subseteq Ids /\ faults \in 0..MaxFaults

MailParts == StorersOK /\ MailsOK /\ SeenOK /\ PurgesOK /\ SessionsOK /\ RestOK

LEMMA Parts == MailInv <=> MailParts
  <1> DEFINE T == TypeOK
  <1>1. MailParts => T
    BY Zenon DEF MailParts, StorersOK, MailsOK, SeenOK, PurgesOK, SessionsOK, RestOK, TypeOK, ApprovalType
  <1>2. ASSUME T PROVE MailInv <=> MailParts
    <2>1. (\A m \in Sources : m \in cps => Kept(m)) <=> \A m \in Sources : m \in cps => KeptIn(m, kept, keptSent)
      BY DEF Kept, KeptIn
    <2>2. SeenOK <=> CheckpointedWasKept
      BY <1>2, <2>1 DEF SeenOK, CheckpointedWasKept, TypeOK
    <2>3. SessionsOK <=> SessionInv
      BY <1>2, Zenon DEF SessionsOK, TypeOK, ApprovalType
    <2>4. RestOK
      BY <1>2 DEF RestOK, TypeOK
    <2>5. \A b : ReliedOn(b) <=> \E p \in Storers : RelyOn(io[p], b)
      BY DEF ReliedOn, RelyOn
    <2>6. PurgesOK <=> \A d \in Deleters : \A b \in del[d].orphans \ overlap :
                         ~ReliedOn(b) /\ \A i \in Live : b \notin mail[i].refs
      BY <1>2, <2>5 DEF PurgesOK, TypeOK, Live
    <2>7. MailsOK <=> /\ ObjectsBackMail
                      /\ \A i \in Live : mail[i].raw \in kept /\ (mail[i].box = "sent" => mail[i].raw \in keptSent)
      <3>1. \A i \in Ids : mail[i] \in MailType
        BY <1>2 DEF TypeOK
      <3> QED
        BY <1>2, <3>1 DEF MailsOK, MailOK, ObjectsBackMail, Live, TypeOK
    <2>8. StorersOK <=> /\ FolderInv
                        /\ \A p \in Storers : LET m == io[p].src IN
                             /\ io[p].pc = "mark" => Raw[m] \in kept
                             /\ io[p].pc = "markdup" => Kept(m) /\ (protocol = "list" => Raw[m] \in kept)
                        /\ \A p \in Storers : io[p].pc = "put" => io[p].refs \ io[p].puts \subseteq objects \cup overlap
      <3>1. io \in [Storers -> SyncType] /\ \A p \in Storers : io[p] \in SyncType
        BY <1>2 DEF TypeOK
      <3>2. \A m : Kept(m) <=> KeptIn(m, kept, keptSent)
        BY DEF Kept, KeptIn
      <3>3. ASSUME NEW p \in Storers
            PROVE  (io[p].pc = "put" => io[p].refs \ io[p].puts \subseteq objects \cup overlap)
                      <=> \A b : RelyOn(io[p], b) => b \in objects \cup overlap
        BY DEF RelyOn
      <3> QED
        BY <3>1, <3>2, <3>3, Zenon DEF StorersOK, StorerOK, FolderInv
    <2> QED
      BY <1>2, <2>2, <2>3, <2>4, <2>6, <2>7, <2>8, Zenon DEF MailParts, MailInv, KeptInv, ObjectInv
  <1>3. MailInv => T
    BY DEF MailInv
  <1> HIDE DEF T
  <1> QED
    BY <1>1, <1>2, <1>3

LEMMA PartsNext == MailParts' => MailInv'
  BY Parts, PTL

-----------------------------------------------------------------------------
(* What a step may leave alone.                                               *)
LEMMA Grows ==
  ASSUME NEW q, NEW pr, NEW kp, NEW ks, NEW back, NEW kp2, NEW ks2, NEW back2,
         kp \subseteq kp2, ks \subseteq ks2, back \subseteq back2
  PROVE  /\ \A m : KeptIn(m, kp, ks) => KeptIn(m, kp2, ks2)
         /\ StorerOK(q, pr, kp, ks, back) => StorerOK(q, pr, kp2, ks2, back2)
         /\ MailOK(q, kp, ks, back) => MailOK(q, kp2, ks2, back2)
  <1>1. \A m : KeptIn(m, kp, ks) => KeptIn(m, kp2, ks2)
    BY DEF KeptIn
  <1>2. StorerOK(q, pr, kp, ks, back) => StorerOK(q, pr, kp2, ks2, back2)
    BY <1>1 DEF StorerOK
  <1>3. MailOK(q, kp, ks, back) => MailOK(q, kp2, ks2, back2)
    BY DEF MailOK
  <1> QED
    BY <1>1, <1>2, <1>3

LEMMA SessionsGrow ==
  ASSUME SessionsOK, UNCHANGED <<protocol, server, flagged, foreign, approval, sd>>, cps \subseteq cps'
  PROVE  SessionsOK'
  <1>1. Sanctioned \subseteq Sanctioned'
    BY DEF Sanctioned
  <1>2. DeletesApproved' /\ Pop3ReportTrue'
    BY <1>1 DEF SessionsOK, SessionInv, DeletesApproved, Pop3ReportTrue
  <1>3. flagged' \subseteq Sanctioned' \cup foreign'
    BY <1>1 DEF SessionsOK, SessionInv
  <1>4. ASSUME NEW t \in Tokens
        PROVE  /\ sd'[t].pc \in {"verify", "dele", "quit"} =>
                    approval'[t].status = "used" /\ sd'[t].want \subseteq approval'[t].uidls
               /\ sd'[t].pc \in {"dele", "quit"} => sd'[t].want \subseteq cps'
               /\ sd'[t].marked \subseteq Sanctioned' /\ \A m \in sd'[t].marked : server'[m] # "none"
    <2>1. /\ sd[t].pc \in {"verify", "dele", "quit"} => approval[t].status = "used" /\ sd[t].want \subseteq approval[t].uidls
          /\ sd[t].pc \in {"dele", "quit"} => sd[t].want \subseteq cps
          /\ sd[t].marked \subseteq Sanctioned /\ \A m \in sd[t].marked : server[m] # "none"
      BY DEF SessionsOK, SessionInv
    <2> QED
      BY <1>1, <2>1
  <1>5. SessionInv'
    BY <1>2, <1>3, <1>4 DEF SessionInv
  <1> QED
    BY <1>5 DEF SessionsOK

LEMMA Faults ==
  ASSUME RestOK, Fault \/ faults' = faults
  PROVE  faults' \in 0..MaxFaults
  BY MailAssumption DEF RestOK, Fault

LEMMA StorerStep ==
  ASSUME StorersOK, UNCHANGED protocol, kept \subseteq kept', keptSent \subseteq keptSent',
         objects \cup overlap \subseteq objects' \cup overlap',
         NEW p \in Storers, NEW v, StorerOK(v, protocol, kept', keptSent', objects' \cup overlap'),
         io' = [io EXCEPT ![p] = v]
  PROVE  StorersOK' /\ \A q \in Storers : io'[q] = IF q = p THEN v ELSE io[q]
  <1>1. v \in SyncType /\ io \in [Storers -> SyncType]
    BY DEF StorerOK, StorersOK
  <1>2. io' \in [Storers -> SyncType] /\ \A q \in Storers : io'[q] = IF q = p THEN v ELSE io[q]
    BY <1>1
  <1>3. \A q \in Storers : StorerOK(io[q], protocol, kept', keptSent', objects' \cup overlap')
    BY Grows DEF StorersOK
  <1> QED
    BY <1>2, <1>3 DEF StorersOK

(* Steps of one ingest that touch nothing else: it relies on no object that   *)
(* it did not rely on before.                                                 *)
LEMMA StorerOnly ==
  ASSUME MailParts, NEW p \in Storers, NEW v, StorerOK(v, protocol, kept, keptSent, objects \cup overlap),
         \A b : RelyOn(v, b) => RelyOn(io[p], b), io' = [io EXCEPT ![p] = v],
         UNCHANGED <<protocol, serverVars, localVars, del, edit, deleteVars>>, Fault \/ faults' = faults
  PROVE  MailParts'
  <1> USE DEF MailParts, serverVars, localVars, deleteVars
  <1>1. StorersOK' /\ \A q \in Storers : io'[q] = IF q = p THEN v ELSE io[q]
    BY StorerStep
  <1>2. MailsOK' /\ SeenOK'
    BY DEF MailsOK, SeenOK
  <1>3. PurgesOK'
    BY <1>1 DEF PurgesOK
  <1>4. SessionsOK'
    BY SessionsGrow
  <1>5. RestOK'
    BY Faults DEF RestOK
  <1> QED
    BY <1>1, <1>2, <1>3, <1>4, <1>5

(* Steps of one delete that give up nothing more.                             *)
LEMMA DeleteOnly ==
  ASSUME MailParts, NEW d \in Deleters, NEW v \in DeleteType, v.orphans \subseteq del[d].orphans,
         del' = [del EXCEPT ![d] = v],
         UNCHANGED <<protocol, serverVars, localVars, io, edit, deleteVars>>, Fault \/ faults' = faults
  PROVE  MailParts'
  <1> USE DEF MailParts, serverVars, localVars, deleteVars
  <1>1. StorersOK' /\ MailsOK' /\ SeenOK'
    BY DEF StorersOK, MailsOK, SeenOK
  <1>2. PurgesOK'
    BY DEF PurgesOK
  <1>3. SessionsOK'
    BY SessionsGrow
  <1>4. RestOK'
    BY Faults DEF RestOK
  <1> QED
    BY <1>1, <1>2, <1>3, <1>4

-----------------------------------------------------------------------------
(* Records.                                                                   *)
SyncPcs == {"idle", "next", "wait", "done"} \cup Busy

LEMMA SyncFields ==
  ASSUME NEW q \in SyncType
  PROVE  /\ q.pc \in SyncPcs /\ q.box \in {"inbox", "sent"} /\ q.todo \subseteq Remote /\ q.fetched \in 0..MaxPerSync
         /\ q.sizes \in BOOLEAN /\ q.src \in Sources /\ q.puts \subseteq Objects /\ q.refs \subseteq Objects
         /\ q.id \in Ids
  <1>1. /\ q.box \in {"inbox", "sent"} /\ q.todo \subseteq Remote /\ q.fetched \in 0..MaxPerSync
        /\ q.sizes \in BOOLEAN /\ q.src \in Sources /\ q.puts \subseteq Objects /\ q.refs \subseteq Objects
        /\ q.id \in Ids
    BY Zenon DEF SyncType
  <1>2. q.pc \in SyncPcs
    BY DEF SyncType, SyncPcs, Busy
  <1> QED
    BY <1>1, <1>2

(* What the steps make of an ingest.                                          *)
LEMMA SyncEdits ==
  ASSUME NEW q \in SyncType, NEW x \in SyncPcs
  PROVE  /\ [q EXCEPT !.pc = x] \in SyncType
         /\ \A S \in SUBSET Remote : [q EXCEPT !.todo = S] \in SyncType
         /\ \A S \in SUBSET Remote, m \in Sources : [q EXCEPT !.todo = S, !.pc = x, !.src = m] \in SyncType
         /\ \A S \in SUBSET Objects, T \in SUBSET Objects : [q EXCEPT !.pc = x, !.puts = S, !.refs = T] \in SyncType
         /\ \A S \in SUBSET Objects, T \in SUBSET Objects : [q EXCEPT !.puts = S, !.refs = T] \in SyncType
         /\ \A S \in SUBSET Objects : [q EXCEPT !.puts = S] \in SyncType
         /\ \A i \in Ids, T \in SUBSET Objects : [q EXCEPT !.pc = x, !.id = i, !.refs = T] \in SyncType
         /\ \A T \in SUBSET Objects : [q EXCEPT !.pc = x, !.refs = T] \in SyncType
         /\ \A B \in {"inbox", "sent"}, S \in SUBSET Remote, n \in 0..MaxPerSync :
              [q EXCEPT !.box = B, !.todo = S, !.fetched = n] \in SyncType
         /\ \A b \in BOOLEAN, S \in SUBSET Remote : [q EXCEPT !.pc = x, !.sizes = b, !.todo = S] \in SyncType
         /\ \A B \in {"inbox", "sent"}, m \in Sources : [q EXCEPT !.pc = x, !.box = B, !.src = m] \in SyncType
         /\ \A B \in {"inbox", "sent"}, S \in SUBSET Remote, b \in BOOLEAN, n \in 0..MaxPerSync :
              [q EXCEPT !.pc = x, !.box = B, !.todo = S, !.sizes = b, !.fetched = n] \in SyncType
  <1> USE DEF SyncType
  <1>0. x \in {"idle", "next", "fetch", "hash", "sentcopy", "fallback", "put", "mark",
               "markdup", "rules", "wait", "done"}
    BY DEF SyncPcs, Busy
  <1>1. [q EXCEPT !.pc = x] \in SyncType
    BY <1>0, Zenon
  <1>2. \A S \in SUBSET Remote : [q EXCEPT !.todo = S] \in SyncType
    BY Zenon
  <1>3. \A S \in SUBSET Remote, m \in Sources : [q EXCEPT !.todo = S, !.pc = x, !.src = m] \in SyncType
    BY <1>0, Zenon
  <1>4. \A S \in SUBSET Objects, T \in SUBSET Objects : [q EXCEPT !.pc = x, !.puts = S, !.refs = T] \in SyncType
    BY <1>0, Zenon
  <1>5. \A S \in SUBSET Objects, T \in SUBSET Objects : [q EXCEPT !.puts = S, !.refs = T] \in SyncType
    BY Zenon
  <1>6. \A S \in SUBSET Objects : [q EXCEPT !.puts = S] \in SyncType
    BY Zenon
  <1>7. \A i \in Ids, T \in SUBSET Objects : [q EXCEPT !.pc = x, !.id = i, !.refs = T] \in SyncType
    BY <1>0, Zenon
  <1>8. \A T \in SUBSET Objects : [q EXCEPT !.pc = x, !.refs = T] \in SyncType
    BY <1>0, Zenon
  <1>9. \A B \in {"inbox", "sent"}, S \in SUBSET Remote, n \in 0..MaxPerSync :
          [q EXCEPT !.box = B, !.todo = S, !.fetched = n] \in SyncType
    BY Zenon
  <1>10. \A b \in BOOLEAN, S \in SUBSET Remote : [q EXCEPT !.pc = x, !.sizes = b, !.todo = S] \in SyncType
    BY <1>0, Zenon
  <1>11. \A B \in {"inbox", "sent"}, m \in Sources : [q EXCEPT !.pc = x, !.box = B, !.src = m] \in SyncType
    BY <1>0, Zenon
  <1>12. \A B \in {"inbox", "sent"}, S \in SUBSET Remote, b \in BOOLEAN, n \in 0..MaxPerSync :
           [q EXCEPT !.pc = x, !.box = B, !.todo = S, !.sizes = b, !.fetched = n] \in SyncType
    BY <1>0, Zenon
  <1> HIDE DEF SyncType
  <1> QED
    BY <1>1, <1>2, <1>3, <1>4, <1>5, <1>6, <1>7, <1>8, <1>9, <1>10, <1>11, <1>12

LEMMA Defaults ==
  /\ Id0 \in Ids /\ Source0 \in Inbox /\ Source0 \in Sources
  /\ IdleSync \in SyncType /\ IdleDelete \in DeleteType /\ IdleEdit \in EditType /\ NoMail \in MailType
  /\ NoSession \in SessionType
  /\ IdleSync.pc = "idle" /\ IdleSync.box = "inbox" /\ IdleSync.fetched = 0 /\ ~NoMail.live /\ IdleDelete.orphans = {}
  <1>1. Id0 \in Ids /\ Source0 \in Inbox /\ Source0 \in Sources /\ 0 \in 0..MaxPerSync
    BY MailAssumption DEF Id0, Source0, Sources, Remote
  <1>2. IdleSync \in SyncType /\ IdleDelete \in DeleteType /\ IdleEdit \in EditType
    BY <1>1 DEF IdleSync, SyncType, IdleDelete, DeleteType, IdleEdit, EditType
  <1>3. NoMail \in MailType /\ NoSession \in SessionType
    BY <1>1, MailAssumption DEF NoMail, MailType, NoSession, SessionType
  <1> QED
    BY <1>1, <1>2, <1>3 DEF IdleSync, NoMail, IdleDelete

(* An ingest that is over, or has not begun, promises nothing.                *)
LEMMA Resting ==
  ASSUME NEW v \in SyncType, v.pc \notin Busy, v.box = "sent" => v.todo \cap Inbox = {},
         NEW pr, NEW kp, NEW ks, NEW back
  PROVE  StorerOK(v, pr, kp, ks, back) /\ \A b : ~RelyOn(v, b)
  BY DEF StorerOK, RelyOn, Busy

LEMMA ReturnedOK ==
  ASSUME MailParts, NEW p \in Storers, NEW c \in BOOLEAN, c => io[p].pc \in Busy,
         NEW pr, NEW kp, NEW ks, NEW back
  PROVE  LET v == Returned(p, c) IN
         /\ v \in SyncType /\ v.pc \in {"next", "done"} /\ v.box = io[p].box /\ v.todo = io[p].todo
         /\ StorerOK(v, pr, kp, ks, back) /\ \A b : ~RelyOn(v, b)
  <1> DEFINE q == io[p]
             x == IF p \in Outs THEN "done" ELSE "next"
             n == IF c /\ MaxPerSync > 0 THEN q.fetched + 1 ELSE q.fetched
             v == [IdleSync EXCEPT !.pc = x, !.box = q.box, !.todo = q.todo, !.sizes = q.sizes, !.fetched = n]
  <1>1. q \in SyncType /\ StorerOK(q, protocol, kept, keptSent, objects \cup overlap)
    BY DEF MailParts, StorersOK
  <1>2. n \in 0..MaxPerSync
    BY <1>1, SyncFields, MailAssumption DEF StorerOK
  <1>3. x \in SyncPcs /\ x \in {"next", "done"} /\ x \notin Busy
    BY DEF SyncPcs, Busy
  <1>4. Returned(p, c) = v
    BY DEF Returned
  <1> HIDE DEF x, n
  <1>5. v \in SyncType
    <2>1. q.box \in {"inbox", "sent"} /\ q.todo \in SUBSET Remote /\ q.sizes \in BOOLEAN
      BY <1>1, SyncFields
    <2>2. \A B \in {"inbox", "sent"}, S \in SUBSET Remote, b \in BOOLEAN, k \in 0..MaxPerSync :
            [IdleSync EXCEPT !.pc = x, !.box = B, !.todo = S, !.sizes = b, !.fetched = k] \in SyncType
      BY <1>3, SyncEdits, Defaults
    <2> HIDE DEF q
    <2> QED
      BY <1>2, <2>1, <2>2, Zenon
  <1>6. v.pc = x /\ v.box = q.box /\ v.todo = q.todo
    BY Defaults DEF SyncType
  <1> HIDE DEF v
  <1>7. v.box = "sent" => v.todo \cap Inbox = {}
    BY <1>1, <1>6 DEF StorerOK
  <1> QED
    BY <1>3, <1>4, <1>5, <1>6, <1>7, Resting

-----------------------------------------------------------------------------
(* The loop over a folder.                                                    *)
LEMMA NewestIn ==
  ASSUME NEW S \in SUBSET Remote, S # {}
  PROVE  Newest(S) \in S
  <1>1. \E m \in S : \A n \in S : Number[n] <= Number[m]
    BY MailAssumption
  <1> QED
    BY <1>1 DEF Newest

LEMMA Types ==
  ASSUME MailParts, NEW p \in Storers
  PROVE  /\ io[p] \in SyncType /\ StorerOK(io[p], protocol, kept, keptSent, objects \cup overlap)
         /\ io \in [Storers -> SyncType]
  BY DEF MailParts, StorersOK

LEMMA LoopInv ==
  ASSUME MailParts, NEW s \in Syncs,
         \/ SyncList(s) \/ SyncListNoSizes(s) \/ SyncNext(s) \/ SyncNextBlind(s) \/ SyncSent(s) \/ SyncEnd(s)
  PROVE  MailParts'
  <1> DEFINE q == io[s]
  <1>1. s \in Storers
    BY DEF Storers
  <1>2. q \in SyncType /\ StorerOK(q, protocol, kept, keptSent, objects \cup overlap)
    BY <1>1, Types
  <1>3. "next" \in SyncPcs /\ "fetch" \in SyncPcs /\ "next" \notin Busy /\ "idle" \notin Busy
    BY DEF SyncPcs, Busy
  <1>4. Inbox \cap SentBox = {} /\ Remote \subseteq Sources
    BY MailAssumption DEF Sources
  <1>5. ASSUME NEW b \in BOOLEAN, SyncStart(s, b), Fault \/ faults' = faults PROVE MailParts'
    <2> DEFINE S == Here(Inbox)
               v == [IdleSync EXCEPT !.pc = "next", !.sizes = b, !.todo = S]
    <2>1. S \in SUBSET Remote
      BY DEF Here, Remote
    <2>2. io' = [io EXCEPT ![s] = v]
      BY <1>5 DEF SyncStart
    <2> HIDE DEF S
    <2>3. v \in SyncType
      BY <1>3, <2>1, Defaults, SyncEdits
    <2>4. v.pc = "next" /\ v.box = "inbox"
      BY Defaults DEF SyncType
    <2> HIDE DEF v
    <2>5. StorerOK(v, protocol, kept, keptSent, objects \cup overlap) /\ \A o : ~RelyOn(v, o)
      BY <1>3, <2>3, <2>4, Resting
    <2> QED
      BY <1>1, <1>5, <2>2, <2>5, StorerOnly DEF SyncStart
  <1>6. ASSUME NEW seen \in BOOLEAN, Take(s, seen), Fault \/ faults' = faults PROVE MailParts'
    <2> DEFINE m == Newest(q.todo)
               rest == q.todo \ {m}
               v1 == [q EXCEPT !.todo = rest]
               v2 == [q EXCEPT !.todo = rest, !.pc = "fetch", !.src = m]
    <2>1. q.pc = "next" /\ q.todo # {} /\ Budget(s)
      BY <1>6 DEF Take
    <2>2. q.todo \in SUBSET Remote /\ q.fetched \in 0..MaxPerSync
      BY <1>2, SyncFields
    <2>3. m \in q.todo /\ m \in Sources /\ rest \in SUBSET Remote /\ rest \subseteq q.todo
      BY <1>4, <2>1, <2>2, NewestIn
    <2>4. io' = [io EXCEPT ![s] = v1] \/ io' = [io EXCEPT ![s] = v2]
      <3>1. io' = [io EXCEPT ![s] = IF seen \/ TooBig(s, m) THEN v1 ELSE v2]
        BY <1>6 DEF Take
      <3> HIDE DEF v1, v2
      <3>2. CASE seen \/ TooBig(s, m)
        BY <3>1, <3>2, Zenon
      <3>3. CASE ~(seen \/ TooBig(s, m))
        BY <3>1, <3>3, Zenon
      <3> QED
        BY <3>2, <3>3
    <2>5. UNCHANGED <<protocol, serverVars, localVars, del, edit, deleteVars>>
      BY <1>6 DEF Take
    <2> HIDE DEF m, rest
    <2>6. v1 \in SyncType /\ v2 \in SyncType
      BY <1>2, <1>3, <2>3, SyncEdits
    <2>7. v1.pc = q.pc /\ v1.box = q.box /\ v1.todo = rest
      BY <1>2 DEF SyncType
    <2>8. v2.pc = "fetch" /\ v2.box = q.box /\ v2.todo = rest /\ v2.src = m /\ v2.fetched = q.fetched
      BY <1>2 DEF SyncType
    <2> HIDE DEF v1, v2
    <2>9. q.box = "sent" => rest \cap Inbox = {} /\ m \notin Inbox
      BY <1>2, <2>3 DEF StorerOK
    <2>10. CASE io' = [io EXCEPT ![s] = v1]
      <3>1. StorerOK(v1, protocol, kept, keptSent, objects \cup overlap) /\ \A o : ~RelyOn(v1, o)
        BY <1>3, <2>1, <2>6, <2>7, <2>9, Resting
      <3> QED
        BY <1>1, <1>6, <2>5, <2>10, <3>1, StorerOnly
    <2>11. CASE io' = [io EXCEPT ![s] = v2]
      <3>1. MaxPerSync > 0 => q.fetched < MaxPerSync
        BY <2>1, <2>2, MailAssumption DEF Budget
      <3>2. StorerOK(v2, protocol, kept, keptSent, objects \cup overlap) /\ \A o : ~RelyOn(v2, o)
        BY <2>6, <2>8, <2>9, <3>1 DEF StorerOK, RelyOn
      <3> QED
        BY <1>1, <1>6, <2>5, <2>11, <3>2, StorerOnly
    <2> QED
      BY <2>4, <2>10, <2>11
  <1>7. CASE SyncSent(s)
    <2> DEFINE S == Here(SentBox)
               v == [q EXCEPT !.box = "sent", !.todo = S, !.fetched = 0]
    <2>1. S \in SUBSET Remote /\ S \cap Inbox = {} /\ 0 \in 0..MaxPerSync
      BY <1>4, MailAssumption DEF Here, Remote
    <2>2. io' = [io EXCEPT ![s] = v] /\ q.pc = "next"
      BY <1>7 DEF SyncSent, FolderDone
    <2> HIDE DEF S
    <2>3. v \in SyncType
      BY <1>2, <1>3, <2>1, SyncEdits
    <2>4. v.pc = q.pc /\ v.todo = S
      BY <1>2 DEF SyncType
    <2> HIDE DEF v
    <2>5. StorerOK(v, protocol, kept, keptSent, objects \cup overlap) /\ \A o : ~RelyOn(v, o)
      BY <1>3, <2>1, <2>2, <2>3, <2>4, Resting
    <2> QED
      BY <1>1, <1>7, <2>2, <2>5, StorerOnly DEF SyncSent
  <1>8. CASE SyncEnd(s)
    <2>1. StorerOK(IdleSync, protocol, kept, keptSent, objects \cup overlap) /\ \A o : ~RelyOn(IdleSync, o)
      BY <1>3, Defaults, Resting
    <2> QED
      BY <1>1, <1>8, <2>1, StorerOnly DEF SyncEnd
  <1>9. Seen(Newest(io[s].todo)) \in BOOLEAN /\ FALSE \in BOOLEAN /\ TRUE \in BOOLEAN
    BY DEF Seen
  <1> QED
    BY <1>5, <1>6, <1>7, <1>8, <1>9 DEF SyncList, SyncListNoSizes, SyncNext, SyncNextBlind

-----------------------------------------------------------------------------
(* Steps of an ingest that touch nothing else.                                *)
LEMMA Moved ==
  ASSUME NEW q \in SyncType, NEW x \in SyncPcs
  PROVE  LET v == [q EXCEPT !.pc = x] IN
         /\ v \in SyncType /\ v.pc = x /\ v.box = q.box /\ v.todo = q.todo /\ v.fetched = q.fetched /\ v.src = q.src
         /\ v.puts = q.puts /\ v.refs = q.refs
  <1>1. [q EXCEPT !.pc = x] \in SyncType
    BY SyncEdits
  <1> QED
    BY <1>1 DEF SyncType

LEMMA ReturnInv ==
  ASSUME MailParts, NEW p \in Storers, NEW c \in BOOLEAN, c => io[p].pc \in Busy,
         io' = [io EXCEPT ![p] = Returned(p, c)],
         UNCHANGED <<protocol, serverVars, localVars, del, edit, deleteVars>>, Fault \/ faults' = faults
  PROVE  MailParts'
  <1> DEFINE v == Returned(p, c)
  <1>1. StorerOK(v, protocol, kept, keptSent, objects \cup overlap) /\ \A b : ~RelyOn(v, b)
    BY ReturnedOK
  <1> HIDE DEF v
  <1>2. io' = [io EXCEPT ![p] = v]
    BY DEF v
  <1> QED
    BY <1>1, <1>2, StorerOnly

LEMMA BeginInv ==
  ASSUME MailParts, (\E s \in Syncs : IngestFetch(s)) \/ (\E o \in Outs : RecordSentCopy(o))
  PROVE  MailParts'
  <1>0. "hash" \in SyncPcs /\ "hash" \in Busy /\ "fetch" \in Busy
    BY DEF SyncPcs, Busy
  <1>1. ASSUME NEW s \in Syncs, IngestFetch(s) PROVE MailParts'
    <2> DEFINE q == io[s]
               v == [q EXCEPT !.pc = "hash"]
    <2>1. s \in Storers /\ q.pc = "fetch"
      BY <1>1 DEF Storers, IngestFetch
    <2>2. q \in SyncType /\ StorerOK(q, protocol, kept, keptSent, objects \cup overlap)
      BY <2>1, Types
    <2>3. \/ \E c \in BOOLEAN : io' = [io EXCEPT ![s] = Returned(s, c)]
          \/ io' = [io EXCEPT ![s] = v]
      BY <1>1, Zenon DEF IngestFetch
    <2>4. /\ v \in SyncType /\ v.pc = "hash" /\ v.box = q.box /\ v.todo = q.todo /\ v.fetched = q.fetched /\ v.src = q.src
      BY <1>0, <2>2, Moved
    <2> HIDE DEF v
    <2>5. StorerOK(v, protocol, kept, keptSent, objects \cup overlap) /\ \A b : ~RelyOn(v, b)
      BY <1>0, <2>1, <2>2, <2>4 DEF StorerOK, RelyOn
    <2>6. UNCHANGED <<protocol, serverVars, localVars, del, edit, deleteVars>> /\ faults' = faults
      BY <1>1 DEF IngestFetch
    <2>7. CASE io' = [io EXCEPT ![s] = v]
      BY <2>1, <2>5, <2>6, <2>7, StorerOnly
    <2>8. CASE \E c \in BOOLEAN : io' = [io EXCEPT ![s] = Returned(s, c)]
      BY <1>0, <2>1, <2>6, <2>8, ReturnInv
    <2> QED
      BY <2>3, <2>7, <2>8
  <1>2. ASSUME NEW o \in Outs, RecordSentCopy(o) PROVE MailParts'
    <2> DEFINE v == [IdleSync EXCEPT !.pc = "hash", !.box = "sent", !.src = o]
    <2>1. o \in Storers /\ o \in Sources /\ o \notin Inbox /\ "sent" \in {"inbox", "sent"}
      BY MailAssumption DEF Storers, Sources, Remote
    <2>2. io' = [io EXCEPT ![o] = v]
      BY <1>2 DEF RecordSentCopy
    <2>3. v \in SyncType
      BY <1>0, <2>1, Defaults, SyncEdits
    <2>4. v.pc = "hash" /\ v.box = "sent" /\ v.src = o /\ v.todo = IdleSync.todo /\ v.fetched = 0
      BY Defaults DEF SyncType
    <2>5. IdleSync.todo = {}
      BY DEF IdleSync
    <2> HIDE DEF v
    <2>6. StorerOK(v, protocol, kept, keptSent, objects \cup overlap) /\ \A b : ~RelyOn(v, b)
      BY <2>1, <2>3, <2>4, <2>5, MailAssumption DEF StorerOK, RelyOn
    <2> QED
      BY <1>2, <2>1, <2>2, <2>6, StorerOnly DEF RecordSentCopy
  <1> QED
    BY <1>1, <1>2

(* A lookup answers found for a message that was kept.                        *)
LEMMA LookupInv ==
  ASSUME MailParts, NEW p \in Storers, NEW pc \in {"hash", "sentcopy", "fallback"}, NEW found \in BOOLEAN,
         Lookup(p, pc, found), found => protocol = "list" \/ KeptIn(io[p].src, kept, keptSent),
         Fault \/ faults' = faults
  PROVE  MailParts'
  <1> DEFINE q == io[p]
             c == Raw[q.src]
             P == {c} \cup Att[c]
             v1 == [q EXCEPT !.pc = "markdup"]
             v2 == [q EXCEPT !.pc = "sentcopy"]
             v3 == [q EXCEPT !.pc = "fallback"]
             v4 == [q EXCEPT !.pc = "put", !.puts = P, !.refs = P]
  <1>1. q.pc = pc /\ q.pc \in Busy
    BY DEF Lookup, Busy
  <1>2. UNCHANGED <<protocol, serverVars, localVars, del, edit, deleteVars>>
    BY DEF Lookup
  <1>3. q \in SyncType /\ StorerOK(q, protocol, kept, keptSent, objects \cup overlap)
    BY Types
  <1>4. \/ io' = [io EXCEPT ![p] = Returned(p, TRUE)]
        \/ io' = [io EXCEPT ![p] = v1] /\ found /\ protocol # "list"
        \/ io' = [io EXCEPT ![p] = v2] /\ q.box = "sent"
        \/ io' = [io EXCEPT ![p] = v3] /\ protocol = "list"
        \/ io' = [io EXCEPT ![p] = v4]
    <2>1. io' = [io EXCEPT ![p] = IF found THEN Duplicate(p) ELSE NotDuplicate(p)]
      BY DEF Lookup
    <2>2. Duplicate(p) = Returned(p, TRUE) \/ (Duplicate(p) = v1 /\ protocol # "list")
      BY DEF Duplicate
    <2>3. NotDuplicate(p) = v4 \/ (NotDuplicate(p) = v2 /\ q.box = "sent") \/ (NotDuplicate(p) = v3 /\ protocol = "list")
      BY DEF NotDuplicate, Storing
    <2> HIDE DEF v1, v2, v3, v4
    <2>4. CASE found
      <3>1. io' = [io EXCEPT ![p] = Duplicate(p)]
        BY <2>1, <2>4, Zenon
      <3> QED
        BY <2>2, <2>4, <3>1
    <2>5. CASE ~found
      <3>1. io' = [io EXCEPT ![p] = NotDuplicate(p)]
        BY <2>1, <2>5, Zenon
      <3> QED
        BY <2>3, <3>1
    <2> QED
      BY <2>4, <2>5
  <1>5. {"markdup", "sentcopy", "fallback", "put"} \subseteq SyncPcs
    BY DEF SyncPcs, Busy
  <1>6. CASE io' = [io EXCEPT ![p] = Returned(p, TRUE)]
    BY <1>1, <1>2, <1>6, ReturnInv
  <1>7. CASE io' = [io EXCEPT ![p] = v1] /\ found /\ protocol # "list"
    <2>1. v1 \in SyncType /\ v1.pc = "markdup" /\ v1.box = q.box /\ v1.todo = q.todo /\ v1.fetched = q.fetched /\ v1.src = q.src
      BY <1>3, <1>5, Moved
    <2> HIDE DEF v1
    <2>2. StorerOK(v1, protocol, kept, keptSent, objects \cup overlap) /\ \A b : ~RelyOn(v1, b)
      BY <1>1, <1>3, <1>7, <2>1 DEF StorerOK, RelyOn
    <2> QED
      BY <1>2, <1>7, <2>2, StorerOnly
  <1>8. CASE io' = [io EXCEPT ![p] = v2] /\ q.box = "sent"
    <2>1. v2 \in SyncType /\ v2.pc = "sentcopy" /\ v2.box = q.box /\ v2.todo = q.todo /\ v2.fetched = q.fetched /\ v2.src = q.src
      BY <1>3, <1>5, Moved
    <2> HIDE DEF v2
    <2>2. StorerOK(v2, protocol, kept, keptSent, objects \cup overlap) /\ \A b : ~RelyOn(v2, b)
      BY <1>1, <1>3, <1>8, <2>1 DEF StorerOK, RelyOn
    <2> QED
      BY <1>2, <1>8, <2>2, StorerOnly
  <1>9. CASE io' = [io EXCEPT ![p] = v3] /\ protocol = "list"
    <2>1. v3 \in SyncType /\ v3.pc = "fallback" /\ v3.box = q.box /\ v3.todo = q.todo /\ v3.fetched = q.fetched /\ v3.src = q.src
      BY <1>3, <1>5, Moved
    <2> HIDE DEF v3
    <2>2. StorerOK(v3, protocol, kept, keptSent, objects \cup overlap) /\ \A b : ~RelyOn(v3, b)
      BY <1>1, <1>3, <1>9, <2>1 DEF StorerOK, RelyOn
    <2> QED
      BY <1>2, <1>9, <2>2, StorerOnly
  <1>10. CASE io' = [io EXCEPT ![p] = v4]
    <2>1. P \in SUBSET Objects
      BY <1>3, SyncFields, MailAssumption DEF Objects
    <2> HIDE DEF P
    <2>2. v4 \in SyncType
      <3>1. q \in SyncType /\ "put" \in SyncPcs
        BY <1>3, <1>5
      <3>2. \A S \in SUBSET Objects, T \in SUBSET Objects : [q EXCEPT !.pc = "put", !.puts = S, !.refs = T] \in SyncType
        BY <3>1, SyncEdits, Zenon
      <3> QED
        BY <2>1, <3>2, Zenon
    <2>3. /\ v4.pc = "put" /\ v4.box = q.box /\ v4.todo = q.todo /\ v4.fetched = q.fetched /\ v4.src = q.src
          /\ v4.puts = P /\ v4.refs = P
      BY <1>3 DEF SyncType
    <2> HIDE DEF v4
    <2>4. StorerOK(v4, protocol, kept, keptSent, objects \cup overlap) /\ \A b : ~RelyOn(v4, b)
      BY <1>1, <1>3, <2>2, <2>3 DEF StorerOK, RelyOn
    <2> QED
      BY <1>2, <1>10, <2>4, StorerOnly
  <1> QED
    BY <1>4, <1>6, <1>7, <1>8, <1>9, <1>10

LEMMA LiveKept ==
  ASSUME MailParts, NEW i \in Live
  PROVE  i \in Ids /\ mail[i].raw \in kept /\ (mail[i].box = "sent" => mail[i].raw \in keptSent)
  BY DEF MailParts, MailsOK, MailOK, Live

LEMMA LookupsInv ==
  ASSUME MailParts, NEW p \in Storers,
         IngestHash(p) \/ IngestSentCopy(p) \/ IngestFallback(p) \/ IngestBlind(p)
  PROVE  MailParts'
  <1> DEFINE m == io[p].src
  <1>1. CASE IngestHash(p)
    <2>1. Lookup(p, "hash", IsDuplicateHash(Raw[m])) /\ faults' = faults
      BY <1>1 DEF IngestHash
    <2>2. IsDuplicateHash(Raw[m]) \in BOOLEAN /\ (IsDuplicateHash(Raw[m]) => KeptIn(m, kept, keptSent))
      BY LiveKept DEF IsDuplicateHash, KeptIn
    <2> QED
      BY <2>1, <2>2, LookupInv
  <1>2. CASE IngestSentCopy(p)
    <2>1. Lookup(p, "sentcopy", HasSentCopy(Raw[m])) /\ faults' = faults
      BY <1>2 DEF IngestSentCopy
    <2>2. m \notin Inbox
      <3>1. io[p].pc = "sentcopy" /\ "sentcopy" \in Busy
        BY <2>1 DEF Lookup, Busy
      <3> QED
        BY <3>1, Types DEF StorerOK
    <2>3. HasSentCopy(Raw[m]) \in BOOLEAN /\ (HasSentCopy(Raw[m]) => KeptIn(m, kept, keptSent))
      BY <2>2, LiveKept DEF HasSentCopy, KeptIn
    <2> QED
      BY <2>1, <2>3, LookupInv
  <1>3. CASE IngestFallback(p)
    <2>1. Lookup(p, "fallback", KeyOf(m) \in cps) /\ faults' = faults
      BY <1>3 DEF IngestFallback
    <2>2. protocol = "list"
      BY <2>1, Types DEF Lookup, StorerOK
    <2>3. (KeyOf(m) \in cps) \in BOOLEAN
      OBVIOUS
    <2> QED
      BY <2>1, <2>2, <2>3, LookupInv
  <1>4. CASE IngestBlind(p)
    <2>1. Fault /\ \E pc \in {"hash", "sentcopy", "fallback"} : Lookup(p, pc, FALSE)
      BY <1>4 DEF IngestBlind
    <2> QED
      BY <2>1, LookupInv
  <1> QED
    BY <1>1, <1>2, <1>3, <1>4

(* Failures and endings of an ingest.                                         *)
LEMMA EndingsInv ==
  ASSUME MailParts, NEW p \in Storers,
         \/ IngestFails(p) \/ IngestMarkFails(p) \/ IngestPutFails(p) \/ IngestConflict(p)
         \/ p \in Syncs /\ (IngestNoRule(p) \/ IngestRuleDeleted(p))
  PROVE  MailParts'
  <1> DEFINE q == io[p]
             vars1 == <<protocol, serverVars, localVars, del, edit, deleteVars>>
  <1>1. q \in SyncType /\ StorerOK(q, protocol, kept, keptSent, objects \cup overlap)
    BY Types
  <1>2. {"rules", "markdup", "next", "put"} \subseteq SyncPcs /\ {"rules", "mark", "markdup", "put"} \subseteq Busy
    BY DEF SyncPcs, Busy
  <1>3. CASE IngestFails(p)
    BY <1>3, ReturnInv DEF IngestFails
  <1>4. CASE p \in Syncs /\ IngestNoRule(p)
    BY <1>2, <1>4, ReturnInv DEF IngestNoRule
  <1>5. CASE IngestMarkFails(p)
    <2> DEFINE v == [q EXCEPT !.pc = "rules"]
    <2>1. q.pc \in Busy /\ Fault /\ UNCHANGED vars1
      BY <1>2, <1>5 DEF IngestMarkFails
    <2>2. io' = [io EXCEPT ![p] = Returned(p, TRUE)] \/ io' = [io EXCEPT ![p] = v]
      <3>1. io' = [io EXCEPT ![p] = Marked(p)]
        BY <1>5 DEF IngestMarkFails
      <3>2. Marked(p) = Returned(p, TRUE) \/ Marked(p) = v
        BY DEF Marked
      <3> HIDE DEF v
      <3> QED
        BY <3>1, <3>2
    <2>3. v \in SyncType /\ v.pc = "rules" /\ v.box = q.box /\ v.todo = q.todo /\ v.fetched = q.fetched /\ v.src = q.src
      BY <1>1, <1>2, Moved
    <2> HIDE DEF v
    <2>4. StorerOK(v, protocol, kept, keptSent, objects \cup overlap) /\ \A b : ~RelyOn(v, b)
      BY <1>1, <2>1, <2>3 DEF StorerOK, RelyOn
    <2>5. CASE io' = [io EXCEPT ![p] = v]
      BY <2>1, <2>4, <2>5, StorerOnly
    <2>6. CASE io' = [io EXCEPT ![p] = Returned(p, TRUE)]
      BY <2>1, <2>6, ReturnInv
    <2> QED
      BY <2>2, <2>5, <2>6
  <1>6. CASE IngestPutFails(p)
    <2> DEFINE b == NextPut(p)
               S == q.puts \ {b}
               T == q.refs \ {b}
               v == [q EXCEPT !.puts = S, !.refs = T]
    <2>1. q.pc = "put" /\ Fault /\ UNCHANGED vars1
      BY <1>6 DEF IngestPutFails
    <2>2. io' = [io EXCEPT ![p] = Returned(p, FALSE)] \/ io' = [io EXCEPT ![p] = v]
      <3>1. io' = [io EXCEPT ![p] = IF b \in Raws THEN Returned(p, FALSE) ELSE v]
        BY <1>6 DEF IngestPutFails
      <3> HIDE DEF v
      <3> QED
        BY <3>1, Zenon
    <2> HIDE DEF b
    <2>3. S \in SUBSET Objects /\ T \in SUBSET Objects /\ T \ S \subseteq q.refs \ q.puts
      BY <1>1, SyncFields
    <2> HIDE DEF S, T
    <2>4. v \in SyncType
      <3>1. \A A \in SUBSET Objects, B \in SUBSET Objects : [q EXCEPT !.puts = A, !.refs = B] \in SyncType
        BY <1>1, <1>2, SyncEdits, Zenon
      <3> QED
        BY <2>3, <3>1, Zenon
    <2>5. /\ v.pc = q.pc /\ v.box = q.box /\ v.todo = q.todo /\ v.fetched = q.fetched /\ v.src = q.src
          /\ v.puts = S /\ v.refs = T
      BY <1>1 DEF SyncType
    <2> HIDE DEF v
    <2>6. \A o : RelyOn(v, o) => RelyOn(q, o)
      BY <2>3, <2>5 DEF RelyOn
    <2>7. StorerOK(v, protocol, kept, keptSent, objects \cup overlap)
      BY <1>1, <2>1, <2>4, <2>5, <2>6 DEF StorerOK
    <2>8. CASE io' = [io EXCEPT ![p] = v]
      BY <2>1, <2>6, <2>7, <2>8, StorerOnly
    <2>9. CASE io' = [io EXCEPT ![p] = Returned(p, FALSE)]
      BY <2>1, <2>9, ReturnInv
    <2> QED
      BY <2>2, <2>8, <2>9
  <1>7. CASE IngestConflict(p)
    <2> DEFINE v == [q EXCEPT !.pc = "markdup", !.refs = {}]
    <2>1. q.pc = "put" /\ faults' = faults /\ UNCHANGED vars1 /\ UniqueViolation(Raw[q.src])
      BY <1>7 DEF IngestConflict
    <2>2. io' = [io EXCEPT ![p] = Returned(p, FALSE)] \/ io' = [io EXCEPT ![p] = v]
      BY <1>7 DEF IngestConflict
    <2>3. v \in SyncType
      <3>1. \A B \in SUBSET Objects : [q EXCEPT !.pc = "markdup", !.refs = B] \in SyncType
        BY <1>1, <1>2, SyncEdits, Zenon
      <3>2. {} \in SUBSET Objects
        OBVIOUS
      <3> QED
        BY <3>1, <3>2, Zenon
    <2>4. v.pc = "markdup" /\ v.box = q.box /\ v.todo = q.todo /\ v.fetched = q.fetched /\ v.src = q.src
      BY <1>1 DEF SyncType
    <2> HIDE DEF v
    <2>5. Raw[q.src] \in kept
      BY <2>1, LiveKept DEF UniqueViolation
    <2>6. StorerOK(v, protocol, kept, keptSent, objects \cup overlap) /\ \A b : ~RelyOn(v, b)
      BY <1>1, <1>2, <2>1, <2>3, <2>4, <2>5 DEF StorerOK, RelyOn, KeptIn
    <2>7. CASE io' = [io EXCEPT ![p] = v]
      BY <2>1, <2>6, <2>7, StorerOnly
    <2>8. CASE io' = [io EXCEPT ![p] = Returned(p, FALSE)]
      BY <2>1, <2>8, ReturnInv
    <2> QED
      BY <2>2, <2>7, <2>8
  <1>8. CASE p \in Syncs /\ IngestRuleDeleted(p)
    <2> DEFINE v == [q EXCEPT !.pc = "next"]
    <2>1. io' = [io EXCEPT ![p] = v] /\ faults' = faults /\ UNCHANGED vars1
      BY <1>8 DEF IngestRuleDeleted
    <2>2. v \in SyncType /\ v.pc = "next" /\ v.box = q.box /\ v.todo = q.todo
      BY <1>1, <1>2, Moved
    <2> HIDE DEF v
    <2>3. v.pc \notin Busy /\ (v.box = "sent" => v.todo \cap Inbox = {})
      BY <1>1, <2>2 DEF StorerOK, Busy
    <2>4. StorerOK(v, protocol, kept, keptSent, objects \cup overlap) /\ \A b : ~RelyOn(v, b)
      BY <2>2, <2>3, Resting
    <2> QED
      BY <2>1, <2>4, StorerOnly
  <1> QED
    BY <1>3, <1>4, <1>5, <1>6, <1>7, <1>8

-----------------------------------------------------------------------------
(* Steps of an ingest that store something.                                   *)
LEMMA MailsGrow ==
  ASSUME MailsOK, mail' = mail, kept \subseteq kept', keptSent \subseteq keptSent',
         objects \cup overlap \subseteq objects' \cup overlap'
  PROVE  MailsOK'
  <1>1. \A i \in Ids : MailOK(mail[i], kept', keptSent', objects' \cup overlap')
    BY Grows DEF MailsOK
  <1> QED
    BY <1>1 DEF MailsOK

(* An object that some delete gave up before it was put is in overlap.        *)
LEMMA PutInv ==
  ASSUME MailParts, NEW p \in Storers, IngestPut(p)
  PROVE  MailParts'
  <1> USE DEF MailParts
  <1> DEFINE q == io[p]
             b == NextPut(p)
             S == q.puts \ {b}
             v == [q EXCEPT !.puts = S]
  <1>1. q \in SyncType /\ StorerOK(q, protocol, kept, keptSent, objects \cup overlap) /\ io \in [Storers -> SyncType]
    BY Types
  <1>2. /\ q.pc = "put" /\ q.puts # {} /\ objects' = objects \cup {b}
        /\ UNCHANGED <<protocol, server, flagged, foreign, mail, cps, kept, keptSent, held, del, edit, approval, sd, faults>>
    BY DEF IngestPut, serverVars, deleteVars
  <1>3. overlap \subseteq overlap' /\ overlap' \subseteq overlap \cup {b}
        /\ ((\E d \in Deleters : b \in del[d].orphans) => b \in overlap')
    BY DEF IngestPut
  <1>4. b \in q.puts
    BY <1>2 DEF NextPut
  <1>5. io' = [io EXCEPT ![p] = v]
    BY <1>1 DEF IngestPut
  <1> HIDE DEF b
  <1>6. S \in SUBSET Objects /\ b \in Objects
    BY <1>1, <1>4, SyncFields
  <1>7. v \in SyncType
    <2>1. \A A \in SUBSET Objects : [q EXCEPT !.puts = A] \in SyncType
      <3>1. "put" \in SyncPcs
        BY DEF SyncPcs, Busy
      <3> QED
        BY <1>1, <3>1, SyncEdits, Zenon
    <2> HIDE DEF S
    <2> QED
      BY <1>6, <2>1, Zenon
  <1>8. /\ v.pc = q.pc /\ v.box = q.box /\ v.todo = q.todo /\ v.fetched = q.fetched /\ v.src = q.src
        /\ v.puts = S /\ v.refs = q.refs
    BY <1>1 DEF SyncType
  <1> HIDE DEF v
  <1>9. \A o : RelyOn(v, o) => RelyOn(q, o) \/ o = b
    BY <1>8 DEF RelyOn
  <1>10. StorerOK(v, protocol, kept', keptSent', objects' \cup overlap')
    <2>1. \A o : RelyOn(v, o) => o \in objects' \cup overlap'
      BY <1>1, <1>2, <1>3, <1>9 DEF StorerOK
    <2> QED
      BY <1>1, <1>2, <1>7, <1>8, <2>1 DEF StorerOK
  <1>11. StorersOK' /\ \A r \in Storers : io'[r] = IF r = p THEN v ELSE io[r]
    BY <1>2, <1>3, <1>5, <1>10, StorerStep
  <1>12. MailsOK'
    BY <1>2, <1>3, MailsGrow
  <1>13. SeenOK' /\ RestOK'
    BY <1>2, <1>3, <1>6 DEF SeenOK, RestOK
  <1>14. PurgesOK'
    <2>1. ASSUME NEW d \in Deleters, NEW o \in del[d].orphans, o \notin overlap'
          PROVE  (\A r \in Storers : ~RelyOn(io'[r], o)) /\ \A i \in Ids : mail[i].live => o \notin mail[i].refs
      <3>1. o # b /\ o \notin overlap
        BY <1>3, <2>1
      <3>2. (\A r \in Storers : ~RelyOn(io[r], o)) /\ \A i \in Ids : mail[i].live => o \notin mail[i].refs
        BY <2>1, <3>1 DEF PurgesOK
      <3> QED
        BY <1>9, <1>11, <3>1, <3>2
    <2> QED
      BY <1>2, <2>1 DEF PurgesOK
  <1>15. SessionsOK'
    BY <1>2, SessionsGrow
  <1> QED
    BY <1>11, <1>12, <1>13, <1>14, <1>15

LEMMA MarkInv ==
  ASSUME MailParts, NEW p \in Storers, IngestMark(p)
  PROVE  MailParts'
  <1> USE DEF MailParts
  <1> DEFINE q == io[p]
             v == Marked(p)
             k == KeyOf(q.src)
  <1>1. q \in SyncType /\ StorerOK(q, protocol, kept, keptSent, objects \cup overlap) /\ q.src \in Sources
    BY Types, SyncFields
  <1>2. /\ q.pc \in {"mark", "markdup"} /\ cps' = cps \cup {k} /\ io' = [io EXCEPT ![p] = v]
        /\ UNCHANGED <<protocol, server, flagged, foreign, mail, objects, kept, keptSent, overlap, held, del, edit, approval,
                       sd, faults>>
    BY DEF IngestMark, serverVars, deleteVars
  <1>3. q.pc \in Busy /\ "rules" \in SyncPcs /\ "rules" \in Busy
    BY <1>2 DEF Busy, SyncPcs
  <1>4. StorerOK(v, protocol, kept, keptSent, objects \cup overlap) /\ \A b : ~RelyOn(v, b)
    <2>1. CASE v = Returned(p, TRUE)
      BY <1>3, <2>1, ReturnedOK
    <2>2. CASE v = [q EXCEPT !.pc = "rules"]
      <3>1. v \in SyncType /\ v.pc = "rules" /\ v.box = q.box /\ v.todo = q.todo /\ v.fetched = q.fetched /\ v.src = q.src
        BY <1>1, <1>3, <2>2, Moved
      <3> HIDE DEF v
      <3> QED
        BY <1>1, <1>3, <3>1 DEF StorerOK, RelyOn
    <2> QED
      BY <2>1, <2>2 DEF Marked
  <1> HIDE DEF v
  <1>5. StorersOK' /\ \A r \in Storers : io'[r] = IF r = p THEN v ELSE io[r]
    BY <1>2, <1>4, StorerStep
  <1>6. MailsOK' /\ RestOK'
    BY <1>2 DEF MailsOK, RestOK
  <1>7. PurgesOK'
    BY <1>2, <1>4, <1>5 DEF PurgesOK
  <1>8. SessionsOK'
    BY <1>2, SessionsGrow
  <1>9. SeenOK'
    <2>1. KeptIn(q.src, kept, keptSent) /\ (protocol = "list" => Raw[q.src] \in kept)
      BY <1>1, <1>2 DEF StorerOK, KeptIn
    <2>2. \/ k = q.src
          \/ k = Raw[q.src] /\ Raw[q.src] \in kept
      BY <2>1 DEF KeyOf
    <2>3. Raw[q.src] \in Raws /\ q.src \notin Raws /\ \A m \in Sources : m \notin Raws
      BY <1>1, MailAssumption
    <2>4. \A m \in Sources : m \in cps' => KeptIn(m, kept, keptSent)
      BY <1>2, <2>1, <2>2, <2>3 DEF SeenOK
    <2>5. cps' \subseteq Sources \cup Raws /\ cps' \cap Raws \subseteq kept
      BY <1>1, <1>2, <2>2, <2>3 DEF SeenOK
    <2> HIDE DEF k
    <2> QED
      BY <1>2, <2>4, <2>5 DEF SeenOK
  <1> QED
    BY <1>5, <1>6, <1>7, <1>8, <1>9

(* The unique index keeps contents apart; what the ingest put backs the row.  *)
LEMMA InsertInv ==
  ASSUME MailParts, NEW p \in Storers, IngestInsert(p)
  PROVE  MailParts'
  <1> USE DEF MailParts
  <1> DEFINE q == io[p]
             c == Raw[q.src]
             i == CHOOSE i \in FreshIds : TRUE
             row == [live |-> TRUE, raw |-> c, box |-> q.box, refs |-> q.refs, hold |-> FALSE]
             v == [q EXCEPT !.pc = "mark", !.id = i, !.refs = {}]
  <1>1. q \in SyncType /\ StorerOK(q, protocol, kept, keptSent, objects \cup overlap)
    BY Types
  <1>2. /\ q.pc = "put" /\ q.puts = {} /\ ~UniqueViolation(c) /\ FreshIds # {}
        /\ mail' = [mail EXCEPT ![i] = row] /\ kept' = kept \cup {c}
        /\ keptSent' = IF q.box = "sent" THEN keptSent \cup {c} ELSE keptSent
        /\ io' = [io EXCEPT ![p] = v]
        /\ UNCHANGED <<protocol, server, flagged, foreign, cps, objects, overlap, held, del, edit, approval, sd, faults>>
    BY DEF IngestInsert, serverVars, deleteVars
  <1>3. i \in Ids /\ i \notin Live
    <2>1. i \in FreshIds
      BY <1>2
    <2> HIDE DEF i
    <2> QED
      BY <2>1 DEF FreshIds
  <1> HIDE DEF i
  <1>4. c \in Raws /\ q.box \in {"inbox", "sent"} /\ q.refs \in SUBSET Objects
    BY <1>1, SyncFields, MailAssumption
  <1>5. row \in MailType /\ row.live /\ row.raw = c /\ row.box = q.box /\ row.refs = q.refs
    <2> HIDE DEF c, q
    <2> QED
      BY <1>4 DEF MailType
  <1> HIDE DEF row
  <1>6. kept \subseteq kept' /\ keptSent \subseteq keptSent' /\ c \in kept' /\ (q.box = "sent" => c \in keptSent')
        /\ kept' \subseteq Raws /\ keptSent' \subseteq kept'
    BY <1>2, <1>4 DEF SeenOK
  <1>7. \A b \in q.refs : RelyOn(q, b)
    BY <1>2 DEF RelyOn
  <1>8. q.refs \subseteq objects \cup overlap
    BY <1>1, <1>7 DEF StorerOK
  <1>9. v \in SyncType
    <2>1. "mark" \in SyncPcs /\ {} \in SUBSET Objects
      BY DEF SyncPcs, Busy
    <2>2. \A j \in Ids, T \in SUBSET Objects : [q EXCEPT !.pc = "mark", !.id = j, !.refs = T] \in SyncType
      BY <1>1, <2>1, SyncEdits, Zenon
    <2> QED
      BY <1>3, <2>1, <2>2, Zenon
  <1>10. v.pc = "mark" /\ v.box = q.box /\ v.todo = q.todo /\ v.fetched = q.fetched /\ v.src = q.src
    BY <1>1 DEF SyncType
  <1> HIDE DEF v
  <1>11. StorerOK(v, protocol, kept', keptSent', objects' \cup overlap') /\ \A b : ~RelyOn(v, b)
    <2>1. q.pc \in Busy
      BY <1>2 DEF Busy
    <2> QED
      BY <1>1, <1>6, <1>9, <1>10, <2>1 DEF StorerOK, RelyOn
  <1>12. StorersOK' /\ \A r \in Storers : io'[r] = IF r = p THEN v ELSE io[r]
    <2>1. UNCHANGED protocol /\ io' = [io EXCEPT ![p] = v] /\ objects \cup overlap \subseteq objects' \cup overlap'
      BY <1>2
    <2> QED
      BY <1>6, <1>11, <2>1, StorerStep
  <1>13. mail' \in [Ids -> MailType] /\ \A j \in Ids : mail'[j] = IF j = i THEN row ELSE mail[j]
    BY <1>2, <1>3, <1>5 DEF MailsOK
  <1>14. MailsOK'
    <2>1. \A j \in Ids : MailOK(mail[j], kept', keptSent', objects' \cup overlap')
      <3>1. objects \cup overlap \subseteq objects' \cup overlap'
        BY <1>2
      <3>2. ASSUME NEW j \in Ids
            PROVE  MailOK(mail[j], kept, keptSent, objects \cup overlap) =>
                     MailOK(mail[j], kept', keptSent', objects' \cup overlap')
        BY <1>6, <3>1 DEF MailOK
      <3> QED
        BY <3>2 DEF MailsOK
    <2>2. MailOK(row, kept', keptSent', objects' \cup overlap')
      BY <1>2, <1>5, <1>6, <1>8 DEF MailOK
    <2> QED
      BY <1>13, <2>1, <2>2 DEF MailsOK
  <1>15. SeenOK' /\ RestOK'
    <2>1. \A m \in Sources : m \in cps => KeptIn(m, kept', keptSent')
      BY <1>6, Grows DEF SeenOK
    <2> QED
      BY <1>2, <1>6, <2>1 DEF SeenOK, RestOK
  <1>16. PurgesOK'
    <2>1. ASSUME NEW d \in Deleters, NEW o \in del[d].orphans, o \notin overlap
          PROVE  (\A r \in Storers : ~RelyOn(io'[r], o)) /\ \A j \in Ids : mail'[j].live => o \notin mail'[j].refs
      <3>1. (\A r \in Storers : ~RelyOn(io[r], o)) /\ \A j \in Ids : mail[j].live => o \notin mail[j].refs
        BY <2>1 DEF PurgesOK
      <3>2. o \notin q.refs
        BY <1>7, <3>1
      <3> QED
        BY <1>5, <1>11, <1>12, <1>13, <3>1, <3>2
    <2> QED
      BY <1>2, <2>1 DEF PurgesOK
  <1>17. SessionsOK'
    BY <1>2, SessionsGrow
  <1> QED
    BY <1>12, <1>14, <1>15, <1>16, <1>17

(* UpdateMessage keeps what the invariant speaks of.                          *)
LEMMA HoldInv ==
  ASSUME MailsOK, PurgesOK, NEW i \in Ids, NEW h \in BOOLEAN, mail' = WriteHold(i, h),
         UNCHANGED <<kept, keptSent, objects, overlap, del>>,
         \A r \in Storers, b \in Objects : RelyOn(io'[r], b) => RelyOn(io[r], b)
  PROVE  MailsOK' /\ PurgesOK'
  <1> DEFINE row == [mail[i] EXCEPT !.hold = h]
  <1>1. mail \in [Ids -> MailType] /\ mail[i] \in MailType
    BY DEF MailsOK
  <1>2. row \in MailType
    BY <1>1, Zenon DEF MailType
  <1>3. row.live = mail[i].live /\ row.raw = mail[i].raw /\ row.box = mail[i].box /\ row.refs = mail[i].refs
    BY <1>1 DEF MailType
  <1>4. mail' = mail \/ mail' = [mail EXCEPT ![i] = row]
    BY DEF WriteHold
  <1> HIDE DEF row
  <1>5. /\ mail' \in [Ids -> MailType]
        /\ \A j \in Ids : /\ mail'[j].live = mail[j].live /\ mail'[j].raw = mail[j].raw
                          /\ mail'[j].box = mail[j].box /\ mail'[j].refs = mail[j].refs
    BY <1>1, <1>2, <1>3, <1>4
  <1>6. MailsOK'
    BY <1>5 DEF MailsOK, MailOK
  <1>7. PurgesOK'
    <2>1. \A d \in Deleters : del[d].orphans \subseteq Objects
      <3>1. \A d \in Deleters : del[d] \in DeleteType
        BY DEF PurgesOK
      <3> QED
        BY <3>1 DEF DeleteType
    <2> QED
      BY <1>5, <2>1 DEF PurgesOK
  <1> QED
    BY <1>6, <1>7

-----------------------------------------------------------------------------
(* Rules and crashes.                                                         *)
LEMMA QuietStep ==
  ASSUME MailParts, UNCHANGED <<protocol, serverVars, localVars, edit, deleteVars>>, Fault \/ faults' = faults,
         StorersOK', \A r \in Storers : \A b : RelyOn(io'[r], b) => RelyOn(io[r], b),
         del' \in [Deleters -> DeleteType], \A d \in Deleters : del'[d].orphans \subseteq del[d].orphans
  PROVE  MailParts'
  <1> USE DEF MailParts, serverVars, localVars, deleteVars
  <1>1. MailsOK' /\ SeenOK'
    BY DEF MailsOK, SeenOK
  <1>2. PurgesOK'
    BY DEF PurgesOK
  <1>3. SessionsOK'
    BY SessionsGrow
  <1>4. RestOK'
    BY Faults DEF RestOK
  <1> QED
    BY <1>1, <1>2, <1>3, <1>4

LEMMA DeleteRecords ==
  /\ \A i \in Ids : LET v == [IdleDelete EXCEPT !.pc = "check", !.id = i] IN v \in DeleteType /\ v.orphans = {}
  /\ \A q \in DeleteType : /\ q.id \in Ids /\ q.orphans \subseteq Objects
                           /\ [q EXCEPT !.pc = "tx"] \in DeleteType /\ [q EXCEPT !.pc = "tx"].orphans = q.orphans
                           /\ \A S \in SUBSET Objects : LET v == [q EXCEPT !.pc = "purge", !.orphans = S] IN
                                v \in DeleteType /\ v.orphans = S
                           /\ \A S \in SUBSET Objects : LET v == [q EXCEPT !.orphans = S] IN
                                v \in DeleteType /\ v.orphans = S
  <1> USE DEF DeleteType
  <1>1. ASSUME NEW i \in Ids
        PROVE  LET v == [IdleDelete EXCEPT !.pc = "check", !.id = i] IN v \in DeleteType /\ v.orphans = {}
    <2>1. [IdleDelete EXCEPT !.pc = "check", !.id = i] \in DeleteType
      BY Defaults, Zenon
    <2>2. [IdleDelete EXCEPT !.pc = "check", !.id = i].orphans = {}
      BY Defaults
    <2> QED
      BY <2>1, <2>2
  <1>2. ASSUME NEW q \in DeleteType
        PROVE  /\ q.id \in Ids /\ q.orphans \subseteq Objects
               /\ [q EXCEPT !.pc = "tx"] \in DeleteType /\ [q EXCEPT !.pc = "tx"].orphans = q.orphans
    <2>1. [q EXCEPT !.pc = "tx"] \in DeleteType
      BY Zenon
    <2> QED
      BY <2>1
  <1>3. ASSUME NEW q \in DeleteType, NEW S \in SUBSET Objects
        PROVE  LET v == [q EXCEPT !.pc = "purge", !.orphans = S] IN v \in DeleteType /\ v.orphans = S
    <2>1. [q EXCEPT !.pc = "purge", !.orphans = S] \in DeleteType
      BY Zenon
    <2> QED
      BY <2>1
  <1>4. ASSUME NEW q \in DeleteType, NEW S \in SUBSET Objects
        PROVE  LET v == [q EXCEPT !.orphans = S] IN v \in DeleteType /\ v.orphans = S
    <2>1. [q EXCEPT !.orphans = S] \in DeleteType
      BY Zenon
    <2> QED
      BY <2>1
  <1> HIDE DEF DeleteType
  <1> QED
    BY <1>1, <1>2, <1>3, <1>4, Zenon

LEMMA RulesInv ==
  ASSUME MailParts, NEW s \in Syncs, IngestRuleUpdate(s) \/ IngestRuleDelete(s)
  PROVE  MailParts'
  <1> USE DEF MailParts
  <1>1. s \in Storers /\ s \in Deleters
    BY DEF Storers, Deleters
  <1>2. io[s].pc = "rules" /\ "rules" \in Busy /\ "wait" \in SyncPcs /\ "wait" \notin Busy
    BY DEF IngestRuleUpdate, IngestRuleDelete, Busy, SyncPcs
  <1>3. io[s] \in SyncType /\ io[s].id \in Ids
    BY <1>1, Types, SyncFields
  <1> DEFINE w == Returned(s, TRUE)
  <1>4. /\ w \in SyncType /\ w.box = io[s].box /\ w.todo = io[s].todo
        /\ StorerOK(w, protocol, kept, keptSent, objects \cup overlap) /\ \A b : ~RelyOn(w, b)
    BY <1>1, <1>2, ReturnedOK
  <1> HIDE DEF w
  <1>5. CASE IngestRuleUpdate(s)
    <2>1. /\ mail' = WriteHold(io[s].id, FALSE) /\ io' = [io EXCEPT ![s] = w]
          /\ UNCHANGED <<protocol, server, flagged, foreign, cps, objects, kept, keptSent, overlap, held, del, edit, approval,
                         sd, faults>>
      BY <1>5 DEF IngestRuleUpdate, serverVars, deleteVars, w
    <2>2. StorersOK' /\ \A r \in Storers : io'[r] = IF r = s THEN w ELSE io[r]
      BY <1>1, <1>4, <2>1, StorerStep
    <2>3. \A r \in Storers, b \in Objects : RelyOn(io'[r], b) => RelyOn(io[r], b)
      BY <1>4, <2>2
    <2>4. MailsOK' /\ PurgesOK'
      BY <1>3, <2>1, <2>3, HoldInv
    <2>5. SeenOK' /\ RestOK'
      BY <2>1 DEF SeenOK, RestOK
    <2>6. SessionsOK'
      BY <2>1, SessionsGrow
    <2> QED
      BY <2>2, <2>4, <2>5, <2>6
  <1>6. CASE IngestRuleDelete(s)
    <2> DEFINE v == [w EXCEPT !.pc = "wait"]
               e == [IdleDelete EXCEPT !.pc = "check", !.id = io[s].id]
    <2>1. /\ del' = [del EXCEPT ![s] = e] /\ io' = [io EXCEPT ![s] = v]
          /\ UNCHANGED <<protocol, serverVars, localVars, edit, deleteVars>> /\ faults' = faults
      BY <1>6 DEF IngestRuleDelete, w
    <2>2. v \in SyncType /\ v.pc = "wait" /\ v.box = w.box /\ v.todo = w.todo
      BY <1>2, <1>4, Moved
    <2>3. e \in DeleteType /\ e.orphans = {}
      BY <1>3, DeleteRecords, Zenon
    <2> HIDE DEF v, e
    <2>4. StorerOK(v, protocol, kept, keptSent, objects \cup overlap) /\ \A b : ~RelyOn(v, b)
      <3>1. v.box = "sent" => v.todo \cap Inbox = {}
        BY <1>4, <2>2 DEF StorerOK
      <3> QED
        BY <1>2, <2>2, <3>1, Resting
    <2>5. StorersOK' /\ \A r \in Storers : io'[r] = IF r = s THEN v ELSE io[r]
      BY <1>1, <2>1, <2>4, StorerStep DEF localVars
    <2>6. del' \in [Deleters -> DeleteType] /\ \A d \in Deleters : del'[d].orphans \subseteq del[d].orphans
      BY <1>1, <2>1, <2>3 DEF PurgesOK
    <2>7. \A r \in Storers : \A b : RelyOn(io'[r], b) => RelyOn(io[r], b)
      BY <2>4, <2>5
    <2> QED
      BY <2>1, <2>5, <2>6, <2>7, QuietStep
  <1> QED
    BY <1>5, <1>6

LEMMA CrashInv ==
  ASSUME MailParts, NEW p \in Storers, Crash(p)
  PROVE  MailParts'
  <1> USE DEF MailParts
  <1> DEFINE x == IF p \in Outs THEN "done" ELSE "idle"
             v == [IdleSync EXCEPT !.pc = x]
  <1>1. x \in SyncPcs /\ x \notin Busy
    BY DEF SyncPcs, Busy
  <1>2. /\ Fault /\ io' = [io EXCEPT ![p] = v]
        /\ del' = (IF p \in Syncs THEN [del EXCEPT ![p] = IdleDelete] ELSE del)
        /\ UNCHANGED <<protocol, serverVars, localVars, edit, deleteVars>>
    BY DEF Crash
  <1> HIDE DEF x
  <1>3. v \in SyncType /\ v.pc = x /\ v.box = "inbox"
    BY <1>1, Moved, Defaults
  <1> HIDE DEF v
  <1>4. StorerOK(v, protocol, kept, keptSent, objects \cup overlap) /\ \A b : ~RelyOn(v, b)
    BY <1>1, <1>3, Resting
  <1>5. StorersOK' /\ \A r \in Storers : io'[r] = IF r = p THEN v ELSE io[r]
    BY <1>2, <1>4, StorerStep DEF localVars
  <1>6. del' \in [Deleters -> DeleteType] /\ \A d \in Deleters : del'[d].orphans \subseteq del[d].orphans
    <2>1. del \in [Deleters -> DeleteType] /\ IdleDelete \in DeleteType /\ IdleDelete.orphans = {}
      BY Defaults DEF PurgesOK
    <2>2. CASE p \in Syncs
      <3>1. del' = [del EXCEPT ![p] = IdleDelete]
        BY <1>2, <2>2
      <3> QED
        BY <2>1, <3>1
    <2>3. CASE p \notin Syncs
      BY <1>2, <2>1, <2>3
    <2> QED
      BY <2>2, <2>3
  <1>7. \A r \in Storers : \A b : RelyOn(io'[r], b) => RelyOn(io[r], b)
    BY <1>4, <1>5
  <1> QED
    BY <1>2, <1>5, <1>6, <1>7, QuietStep

-----------------------------------------------------------------------------
(* Local deletes.                                                             *)
LEMMA DeleteStepsInv ==
  ASSUME MailParts, NEW d \in Deleters,
         \/ DeleteCheck(d) \/ DeleteUnchecked(d) \/ DeleteEnd(d)
         \/ \E i \in Ids : DeleteCall(d, i)
  PROVE  MailParts'
  <1> DEFINE q == del[d]
             v == [q EXCEPT !.pc = "tx"]
             w(i) == [IdleDelete EXCEPT !.pc = "check", !.id = i]
  <1>1. del \in [Deleters -> DeleteType] /\ q \in DeleteType
    BY DEF MailParts, PurgesOK
  <1>2. UNCHANGED <<protocol, serverVars, localVars, io, edit, deleteVars>> /\ (Fault \/ faults' = faults)
    BY Zenon DEF DeleteCheck, DeleteUnchecked, DeleteEnd, DeleteCall
  <1>3. IdleDelete \in DeleteType /\ IdleDelete.orphans = {}
    BY Defaults
  <1>4. v \in DeleteType /\ v.orphans = q.orphans
    BY <1>1, DeleteRecords, Zenon
  <1>5. \A i \in Ids : w(i) \in DeleteType /\ w(i).orphans = {}
    BY DeleteRecords, Zenon
  <1>6. \E z \in DeleteType : z.orphans \subseteq q.orphans /\ del' = [del EXCEPT ![d] = z]
    <2>1. CASE DeleteCheck(d)
      <3>1. del' = [del EXCEPT ![d] = IF mail[del[d].id].live /\ mail[del[d].id].hold THEN IdleDelete ELSE v]
        BY <2>1 DEF DeleteCheck
      <3> HIDE DEF v, w
      <3> QED
        BY <1>3, <1>4, <3>1
    <2>2. CASE DeleteUnchecked(d)
      <3>1. del' = [del EXCEPT ![d] = v]
        BY <2>2 DEF DeleteUnchecked
      <3> HIDE DEF v, w
      <3> QED
        BY <1>4, <3>1
    <2>3. CASE DeleteEnd(d)
      BY <1>3, <2>3 DEF DeleteEnd
    <2>4. ASSUME NEW i \in Ids, DeleteCall(d, i)
          PROVE  \E z \in DeleteType : z.orphans \subseteq q.orphans /\ del' = [del EXCEPT ![d] = z]
      <3>1. del' = [del EXCEPT ![d] = w(i)]
        BY <2>4, Zenon DEF DeleteCall
      <3> HIDE DEF v, w
      <3> QED
        BY <1>5, <3>1
    <2> QED
      BY <2>1, <2>2, <2>3, <2>4
  <1> QED
    BY <1>2, <1>6, DeleteOnly

(* A delete gives up what no other message refers to; what an ingest has put  *)
(* and not yet inserted is then in overlap.                                   *)
LEMMA DeleteMessageInv ==
  ASSUME MailParts, NEW d \in Deleters, DeleteMessage(d)
  PROVE  MailParts'
  <1> USE DEF MailParts
  <1> DEFINE q == del[d]
             i == q.id
             O == Orphans(i)
             v == [q EXCEPT !.pc = "purge", !.orphans = O]
  <1>1. del \in [Deleters -> DeleteType] /\ q \in DeleteType /\ i \in Ids
    <2>1. del \in [Deleters -> DeleteType] /\ q \in DeleteType
      BY DEF PurgesOK
    <2> QED
      BY <2>1, DeleteRecords, Zenon
  <1>2. UNCHANGED <<protocol, server, flagged, foreign, cps, objects, kept, keptSent, io, edit, approval, sd, faults>>
    BY DEF DeleteMessage, serverVars, deleteVars
  <1>3. CASE ~mail[i].live
    <2>1. del' = [del EXCEPT ![d] = IdleDelete] /\ UNCHANGED <<mail, overlap, held>>
      BY <1>3 DEF DeleteMessage
    <2>2. IdleDelete \in DeleteType /\ IdleDelete.orphans \subseteq q.orphans
      BY Defaults
    <2> QED
      BY <1>2, <2>1, <2>2, DeleteOnly DEF serverVars, localVars, deleteVars
  <1>4. CASE mail[i].live
    <2>1. /\ del' = [del EXCEPT ![d] = v] /\ mail' = [mail EXCEPT ![i] = NoMail]
          /\ overlap' = overlap \cup {b \in O : ReliedOn(b)} /\ held' = held \ {i}
      BY <1>4 DEF DeleteMessage
    <2>2. \A j \in Ids : mail[j] \in MailType /\ mail[j].refs \subseteq Objects
      <3>1. \A j \in Ids : mail[j] \in MailType
        BY DEF MailsOK
      <3> QED
        BY <3>1 DEF MailType
    <2>3. O \in SUBSET Objects /\ \A b \in O, j \in Ids : mail[j].live /\ j # i => b \notin mail[j].refs
      BY <1>1, <2>2 DEF Orphans, Live
    <2> HIDE DEF O
    <2>4. v \in DeleteType /\ v.orphans = O
      BY <1>1, <2>3, DeleteRecords, Zenon
    <2> HIDE DEF v
    <2>5. mail' \in [Ids -> MailType] /\ (\A j \in Ids : mail'[j] = IF j = i THEN NoMail ELSE mail[j]) /\ ~NoMail.live
      <3>1. NoMail \in MailType /\ ~NoMail.live
        BY Defaults
      <3> HIDE DEF i
      <3> QED
        BY <1>1, <2>1, <3>1 DEF MailsOK
    <2>6. del' \in [Deleters -> DeleteType] /\ \A e \in Deleters : del'[e] = IF e = d THEN v ELSE del[e]
      BY <1>1, <2>1, <2>4
    <2>7. objects \cup overlap \subseteq objects' \cup overlap' /\ overlap' \subseteq Objects
      BY <1>2, <2>1, <2>3 DEF SeenOK
    <2> HIDE DEF i
    <2>8. StorersOK'
      <3>1. \A p \in Storers : StorerOK(io[p], protocol, kept, keptSent, objects' \cup overlap')
        BY <2>7, Grows DEF StorersOK
      <3> QED
        BY <1>2, <3>1 DEF StorersOK
    <2>9. MailsOK'
      <3>1. \A j \in Ids : MailOK(mail[j], kept, keptSent, objects' \cup overlap')
        BY <2>7 DEF MailsOK, MailOK
      <3>2. MailOK(NoMail, kept, keptSent, objects' \cup overlap')
        BY <2>5, Defaults DEF MailOK
      <3>4. \A j \in Ids : MailOK(mail'[j], kept, keptSent, objects' \cup overlap')
        BY <2>5, <3>1, <3>2
      <3> QED
        BY <1>2, <2>5, <3>4 DEF MailsOK
    <2>10. SeenOK' /\ RestOK'
      BY <1>2, <2>1, <2>7 DEF SeenOK, RestOK
    <2>11. PurgesOK'
      <3>1. ASSUME NEW e \in Deleters, NEW b \in del'[e].orphans, b \notin overlap'
            PROVE  (\A p \in Storers : ~RelyOn(io'[p], b)) /\ \A j \in Ids : mail'[j].live => b \notin mail'[j].refs
        <4>1. b \notin overlap
          BY <2>1, <3>1
        <4>2. CASE e = d
          <5>1. b \in O
            BY <2>4, <2>6, <3>1, <4>2
          <5>2. ~ReliedOn(b)
            BY <2>1, <3>1, <5>1
          <5>3. \A p \in Storers : ~RelyOn(io'[p], b)
            BY <1>2, <5>2 DEF ReliedOn, RelyOn
          <5> QED
            BY <2>3, <2>5, <5>1, <5>3
        <4>3. CASE e # d
          <5>1. (\A p \in Storers : ~RelyOn(io[p], b)) /\ \A j \in Ids : mail[j].live => b \notin mail[j].refs
            BY <2>6, <3>1, <4>1, <4>3 DEF PurgesOK
          <5> QED
            BY <1>2, <2>5, <5>1
        <4> QED
          BY <4>2, <4>3
      <3> QED
        BY <2>6, <3>1 DEF PurgesOK
    <2>12. SessionsOK'
      BY <1>2, SessionsGrow
    <2> QED
      BY <2>8, <2>9, <2>10, <2>11, <2>12
  <1> QED
    BY <1>3, <1>4

LEMMA DeletePurgeInv ==
  ASSUME MailParts, NEW d \in Deleters, DeletePurge(d)
  PROVE  MailParts'
  <1> USE DEF MailParts
  <1>1. PICK b \in del[d].orphans : objects' = objects \ {b} /\ del' = [del EXCEPT ![d].orphans = @ \ {b}]
    BY DEF DeletePurge
  <1> DEFINE q == del[d]
             S == q.orphans \ {b}
             v == [q EXCEPT !.orphans = S]
  <1>2. UNCHANGED <<protocol, server, flagged, foreign, mail, cps, kept, keptSent, overlap, held, io, edit, approval, sd, faults>>
    BY DEF DeletePurge, serverVars, deleteVars
  <1>3. del \in [Deleters -> DeleteType] /\ q \in DeleteType
    BY DEF PurgesOK
  <1>4. del' = [del EXCEPT ![d] = v]
    BY <1>1
  <1>5. S \in SUBSET Objects /\ S \subseteq q.orphans
    BY <1>3 DEF DeleteType
  <1> HIDE DEF S
  <1>6. v \in DeleteType /\ v.orphans = S
    BY <1>3, <1>5, DeleteRecords, Zenon
  <1> HIDE DEF v
  <1>7. del' \in [Deleters -> DeleteType] /\ \A e \in Deleters : del'[e].orphans \subseteq del[e].orphans
    BY <1>3, <1>4, <1>5, <1>6
  <1>8. \/ b \in overlap
        \/ (\A p \in Storers : ~RelyOn(io[p], b)) /\ \A i \in Ids : mail[i].live => b \notin mail[i].refs
    BY <1>1 DEF PurgesOK
  <1>9. StorersOK'
    <2>1. \A p \in Storers : StorerOK(io[p], protocol, kept, keptSent, objects' \cup overlap)
      BY <1>1, <1>8 DEF StorersOK, StorerOK
    <2> QED
      BY <1>2, <2>1 DEF StorersOK
  <1>10. MailsOK'
    <2>1. \A i \in Ids : MailOK(mail[i], kept, keptSent, objects' \cup overlap)
      BY <1>1, <1>8 DEF MailsOK, MailOK
    <2> QED
      BY <1>2, <2>1 DEF MailsOK
  <1>11. SeenOK' /\ RestOK'
    BY <1>1, <1>2 DEF SeenOK, RestOK
  <1>12. PurgesOK'
    BY <1>2, <1>7 DEF PurgesOK
  <1>13. SessionsOK'
    BY <1>2, SessionsGrow
  <1> QED
    BY <1>9, <1>10, <1>11, <1>12, <1>13

-----------------------------------------------------------------------------
(* Batch actions.                                                             *)
LEMMA EditsInv ==
  ASSUME MailParts, NEW u \in Clients,
         EditWrite(u) \/ \E i \in Ids, act \in {"hold", "unhold", "other"} : EditRead(u, i, act)
  PROVE  MailParts'
  <1> USE DEF MailParts
  <1>1. ASSUME NEW i \in Ids, NEW act \in {"hold", "unhold", "other"}, EditRead(u, i, act) PROVE MailParts'
    <2> DEFINE h == act = "hold" \/ (act = "other" /\ mail[i].hold)
               v == [pc |-> "write", id |-> i, asks |-> act = "hold", hold |-> h]
    <2>1. /\ UNCHANGED <<protocol, server, flagged, foreign, mail, cps, objects, kept, keptSent, overlap, io, del, approval, sd,
                         faults>>
          /\ edit' = [edit EXCEPT ![u] = v] /\ held' \subseteq held
      BY <1>1 DEF EditRead, serverVars, deleteVars
    <2>2. v \in EditType
      BY DEF EditType
    <2> HIDE DEF v
    <2>3. RestOK'
      BY <2>1, <2>2 DEF RestOK
    <2>4. StorersOK' /\ MailsOK' /\ SeenOK' /\ PurgesOK'
      BY <2>1 DEF StorersOK, MailsOK, SeenOK, PurgesOK
    <2>5. SessionsOK'
      BY <2>1, SessionsGrow
    <2> QED
      BY <2>3, <2>4, <2>5
  <1>2. CASE EditWrite(u)
    <2> DEFINE i == edit[u].id
               h == edit[u].hold
    <2>1. /\ UNCHANGED <<protocol, server, flagged, foreign, cps, objects, kept, keptSent, overlap, io, del, approval, sd, faults>>
          /\ mail' = WriteHold(i, h) /\ edit' = [edit EXCEPT ![u] = IdleEdit] /\ held' \subseteq held \cup {i}
      BY <1>2 DEF EditWrite, serverVars, deleteVars
    <2>2. i \in Ids /\ h \in BOOLEAN
      <3>1. edit[u] \in EditType
        BY DEF RestOK
      <3> QED
        BY <3>1 DEF EditType
    <2> HIDE DEF i, h
    <2>3. RestOK'
      BY <2>1, <2>2, Defaults DEF RestOK
    <2>4. MailsOK' /\ PurgesOK'
      BY <2>1, <2>2, HoldInv
    <2>5. StorersOK' /\ SeenOK'
      BY <2>1 DEF StorersOK, SeenOK
    <2>6. SessionsOK'
      BY <2>1, SessionsGrow
    <2> QED
      BY <2>3, <2>4, <2>5, <2>6
  <1> QED
    BY <1>1, <1>2

-----------------------------------------------------------------------------
(* The server.                                                                *)
LEMMA ServerOnly ==
  ASSUME MailParts, SessionsOK', UNCHANGED <<protocol, localVars, io, del, edit>>, Fault \/ faults' = faults
  PROVE  MailParts'
  <1> USE DEF MailParts, localVars
  <1>1. StorersOK' /\ MailsOK' /\ SeenOK' /\ PurgesOK'
    BY DEF StorersOK, MailsOK, SeenOK, PurgesOK
  <1>2. RestOK'
    BY Faults DEF RestOK
  <1> QED
    BY <1>1, <1>2

TokenOK(q, ap, sv, cp, sanc) ==
  /\ q.pc \in {"verify", "dele", "quit"} => ap.status = "used" /\ q.want \subseteq ap.uidls
  /\ q.pc \in {"dele", "quit"} => q.want \subseteq cp
  /\ q.marked \subseteq sanc /\ \A m \in q.marked : sv[m] # "none"
  /\ protocol \in {"pop3", "nolist"} => \A m \in q.deleted : sv[m] \in Left

LEMMA TokenFacts ==
  ASSUME SessionsOK
  PROVE  /\ \A t \in Tokens : TokenOK(sd[t], approval[t], server, cps, Sanctioned)
         /\ \A t \in Tokens : sd[t] \in SessionType /\ approval[t] \in ApprovalType
         /\ flagged \subseteq Sanctioned \cup foreign
         /\ \A m \in Remote : server[m] = "gone" => m \in Sanctioned \cup foreign
  <1>1. \A t \in Tokens : TokenOK(sd[t], approval[t], server, cps, Sanctioned)
    BY DEF SessionsOK, SessionInv, TokenOK, Pop3ReportTrue
  <1>2. \A m \in Remote : server[m] = "gone" => m \in Sanctioned \cup foreign
    BY DEF SessionsOK, SessionInv, DeletesApproved
  <1> QED
    BY <1>1, <1>2 DEF SessionsOK, SessionInv

(* A step of one session: nothing leaves the server that was neither          *)
(* sanctioned nor flagged by another client.                                  *)
LEMMA SessionStep ==
  ASSUME SessionsOK, NEW t \in Tokens, NEW v \in SessionType, NEW a \in ApprovalType,
         sd' = [sd EXCEPT ![t] = v], approval' = [approval EXCEPT ![t] = a],
         UNCHANGED <<protocol, cps>>, approval[t].status = "used" => a = approval[t],
         server' \in [Remote -> {"none", "here", "gone", "taken"}], flagged' \subseteq Inbox,
         flagged' \subseteq Sanctioned' \cup foreign', UNCHANGED foreign,
         \A m \in Remote : /\ server[m] # "none" => server'[m] # "none"
                           /\ server[m] \in Left => server'[m] \in Left
                           /\ server'[m] = "gone" => server[m] = "gone" \/ m \in Sanctioned \cup foreign,
         TokenOK(v, a, server', cps, Sanctioned')
  PROVE  SessionsOK'
  <1>1. approval \in [Tokens -> ApprovalType] /\ sd \in [Tokens -> SessionType] /\ Inbox \subseteq Remote
    BY DEF SessionsOK, Remote
  <1>2. approval' \in [Tokens -> ApprovalType] /\ \A u \in Tokens : approval'[u] = IF u = t THEN a ELSE approval[u]
    BY <1>1
  <1>3. sd' \in [Tokens -> SessionType] /\ \A u \in Tokens : sd'[u] = IF u = t THEN v ELSE sd[u]
    BY <1>1
  <1>4. Sanctioned \subseteq Sanctioned'
    BY <1>2 DEF Sanctioned
  <1>5. ASSUME NEW u \in Tokens PROVE TokenOK(sd'[u], approval'[u], server', cps, Sanctioned')
    <2>1. CASE u = t
      BY <1>2, <1>3, <2>1
    <2>2. CASE u # t
      <3>1. TokenOK(sd[u], approval[u], server, cps, Sanctioned) /\ sd[u] \in SessionType
        BY TokenFacts
      <3>2. sd[u].marked \subseteq Remote /\ sd[u].deleted \subseteq Remote
        BY <1>1, <3>1 DEF SessionType
      <3> QED
        BY <1>2, <1>3, <1>4, <2>2, <3>1, <3>2 DEF TokenOK
    <2> QED
      BY <2>1, <2>2
  <1>6. \A m \in Remote : server'[m] = "gone" => m \in Sanctioned' \cup foreign'
    BY <1>4, TokenFacts
  <1>7. DeletesApproved'
    BY <1>6 DEF DeletesApproved
  <1>8. Pop3ReportTrue'
    BY <1>5 DEF TokenOK, Pop3ReportTrue
  <1>9. SessionInv'
    BY <1>5, <1>7, <1>8 DEF SessionInv, TokenOK
  <1> QED
    BY <1>2, <1>3, <1>9 DEF SessionsOK

LEMMA ArriveInv ==
  ASSUME MailParts, NEW m \in Remote, Arrive(m)
  PROVE  MailParts'
  <1>1. SessionsOK
    BY DEF MailParts
  <1>2. /\ UNCHANGED <<protocol, localVars, io, del, edit, flagged, foreign, cps, approval, sd>> /\ faults' = faults
        /\ server' = [server EXCEPT ![m] = "here"] /\ server[m] = "none"
    BY DEF Arrive, localVars, deleteVars
  <1>3. server' \in [Remote -> {"none", "here", "gone", "taken"}] /\ \A n \in Remote : server'[n] = IF n = m THEN "here" ELSE server[n]
    BY <1>1, <1>2 DEF SessionsOK
  <1>4. ASSUME NEW t \in Tokens PROVE TokenOK(sd[t], approval[t], server', cps, Sanctioned)
    <2>1. TokenOK(sd[t], approval[t], server, cps, Sanctioned) /\ sd[t] \in SessionType
      BY <1>1, TokenFacts
    <2>2. sd[t].marked \subseteq Remote /\ sd[t].deleted \subseteq Remote
      BY <2>1 DEF SessionType, Remote
    <2> QED
      BY <1>2, <1>3, <2>1, <2>2 DEF TokenOK, Left
  <1>5. Sanctioned' = Sanctioned
    BY <1>2 DEF Sanctioned
  <1>6. DeletesApproved' /\ Pop3ReportTrue'
    <2>1. DeletesApproved'
      BY <1>1, <1>2, <1>3, <1>5 DEF SessionsOK, SessionInv, DeletesApproved
    <2>2. Pop3ReportTrue'
      BY <1>2, <1>4 DEF TokenOK, Pop3ReportTrue
    <2> QED
      BY <2>1, <2>2
  <1>7. SessionInv'
    BY <1>1, <1>2, <1>4, <1>5, <1>6 DEF SessionsOK, SessionInv, TokenOK
  <1>8. SessionsOK'
    BY <1>1, <1>2, <1>3, <1>7 DEF SessionsOK
  <1> QED
    BY <1>2, <1>8, ServerOnly

(* Another client flags what then may go, or takes a message itself.          *)
LEMMA OtherClientInv ==
  ASSUME MailParts, NEW m \in Others, OtherClientFlags(m) \/ OtherClientTakes(m)
  PROVE  MailParts'
  <1>1. SessionsOK /\ m \in Inbox /\ m \in Remote
    BY MailAssumption DEF MailParts, Remote
  <1>2. /\ UNCHANGED <<protocol, localVars, io, del, edit, cps, approval, sd>> /\ faults' = faults
        /\ foreign' \subseteq Inbox /\ foreign \subseteq foreign'
        /\ flagged' \subseteq flagged \cup foreign'
        /\ server' = server \/ (server[m] = "here" /\ server' = [server EXCEPT ![m] = "taken"])
    BY <1>1 DEF OtherClientFlags, OtherClientTakes, localVars, deleteVars, SessionsOK
  <1>3. /\ server' \in [Remote -> {"none", "here", "gone", "taken"}]
        /\ \A n \in Remote : server'[n] = server[n] \/ (server[n] = "here" /\ server'[n] = "taken")
    BY <1>1, <1>2 DEF SessionsOK
  <1>4. ASSUME NEW t \in Tokens PROVE TokenOK(sd[t], approval[t], server', cps, Sanctioned)
    <2>1. TokenOK(sd[t], approval[t], server, cps, Sanctioned) /\ sd[t] \in SessionType
      BY <1>1, TokenFacts
    <2>2. sd[t].marked \subseteq Remote /\ sd[t].deleted \subseteq Remote
      BY <2>1 DEF SessionType, Remote
    <2> QED
      BY <1>2, <1>3, <2>1, <2>2 DEF TokenOK, Left
  <1>5. Sanctioned' = Sanctioned
    BY <1>2 DEF Sanctioned
  <1>6. DeletesApproved'
    BY <1>1, <1>2, <1>3, <1>5 DEF SessionsOK, SessionInv, DeletesApproved
  <1>7. Pop3ReportTrue'
    BY <1>2, <1>4 DEF TokenOK, Pop3ReportTrue
  <1>8. flagged' \subseteq Sanctioned' \cup foreign' /\ flagged' \subseteq Inbox
    BY <1>1, <1>2, <1>5 DEF SessionsOK, SessionInv
  <1>9. SessionInv'
    BY <1>2, <1>4, <1>5, <1>6, <1>7, <1>8 DEF SessionInv, TokenOK
  <1>10. SessionsOK'
    BY <1>1, <1>2, <1>3, <1>8, <1>9 DEF SessionsOK
  <1> QED
    BY <1>2, <1>10, ServerOnly

(* What the steps make of a session.                                          *)
LEMMA SessionWant ==
  ASSUME NEW q \in SessionType, NEW x \in {"verify", "dele"}, NEW S \in SUBSET Inbox
  PROVE  LET v == [q EXCEPT !.pc = x, !.want = S] IN
         v \in SessionType /\ v.pc = x /\ v.want = S /\ v.marked = q.marked /\ v.deleted = q.deleted
  <1>1. [q EXCEPT !.pc = x, !.want = S] \in SessionType
    BY Zenon DEF SessionType
  <1> QED
    BY <1>1 DEF SessionType

LEMMA SessionMark ==
  ASSUME NEW q \in SessionType, NEW S \in SUBSET Inbox
  PROVE  LET v == [q EXCEPT !.pc = "quit", !.marked = S] IN
         v \in SessionType /\ v.pc = "quit" /\ v.want = q.want /\ v.marked = S /\ v.deleted = q.deleted
  <1>1. [q EXCEPT !.pc = "quit", !.marked = S] \in SessionType
    BY Zenon DEF SessionType
  <1> QED
    BY <1>1 DEF SessionType

LEMMA SessionDone ==
  ASSUME NEW q \in SessionType, NEW D \in SUBSET Inbox, NEW U \in SUBSET Inbox
  PROVE  LET v == [q EXCEPT !.pc = "done", !.marked = {}, !.want = {}, !.deleted = D, !.uncertain = U] IN
         v \in SessionType /\ v.pc = "done" /\ v.marked = {} /\ v.deleted = D
  <1>1. {} \in SUBSET Inbox
    OBVIOUS
  <1>2. [q EXCEPT !.pc = "done", !.marked = {}, !.want = {}, !.deleted = D, !.uncertain = U] \in SessionType
    BY <1>1, Zenon DEF SessionType
  <1> QED
    BY <1>2 DEF SessionType

(* Approvals come, go, and are used once, for exactly their list.             *)
LEMMA ApprovalsInv ==
  ASSUME MailParts, NEW t \in Tokens,
         RequestServerDelete(t) \/ ExpireApproval(t) \/ \E S \in SUBSET Inbox : ServerDelete(t, S)
  PROVE  MailParts'
  <1> DEFINE q == sd[t]
             b == approval[t]
  <1>1. SessionsOK
    BY DEF MailParts
  <1>2. /\ approval \in [Tokens -> ApprovalType] /\ sd \in [Tokens -> SessionType]
        /\ server \in [Remote -> {"none", "here", "gone", "taken"}] /\ flagged \subseteq Inbox /\ Inbox \subseteq Remote
        /\ b \in ApprovalType /\ q \in SessionType
    BY <1>1 DEF SessionsOK, Remote
  <1>3. TokenOK(q, b, server, cps, Sanctioned) /\ flagged \subseteq Sanctioned \cup foreign
    BY <1>1, TokenFacts
  <1>4. UNCHANGED <<protocol, localVars, io, del, edit, server, flagged, foreign, cps, faults>>
    BY Zenon DEF RequestServerDelete, ExpireApproval, ServerDelete, serverVars, localVars
  <1>5. b.status # "used"
    <2>1. b.status = "none" \/ b.status = "pending"
      BY Zenon DEF RequestServerDelete, ExpireApproval, ServerDelete, Consumable
    <2> QED
      BY <2>1
  <1>6. ASSUME NEW v \in SessionType, NEW a \in ApprovalType, sd' = [sd EXCEPT ![t] = v],
               approval' = [approval EXCEPT ![t] = a], \A sanc : Sanctioned \subseteq sanc => TokenOK(v, a, server, cps, sanc)
        PROVE  MailParts'
    <2>1. approval'[t] = a /\ \A u \in Tokens : u # t => approval'[u] = approval[u]
      BY <1>2, <1>6
    <2>2. Sanctioned \subseteq Sanctioned'
      BY <1>4, <1>5, <2>1 DEF Sanctioned
    <2>3. TokenOK(v, a, server', cps, Sanctioned') /\ flagged' \subseteq Sanctioned' \cup foreign'
      BY <1>3, <1>4, <1>6, <2>2
    <2>4. UNCHANGED <<protocol, cps, foreign>> /\ server' = server /\ flagged' = flagged
      BY <1>4
    <2>5. SessionsOK'
      BY <1>1, <1>2, <1>5, <1>6, <2>3, <2>4, SessionStep
    <2> QED
      BY <1>4, <2>5, ServerOnly
  <1>7. CASE RequestServerDelete(t) \/ ExpireApproval(t)
    <2>1. \E a \in ApprovalType : approval' = [approval EXCEPT ![t] = a]
      <3>1. CASE RequestServerDelete(t)
        <4> DEFINE S == Here(Inbox) \cap Stored
                   a == [status |-> "pending", uidls |-> S]
        <4>1. approval' = [approval EXCEPT ![t] = a]
          BY <3>1 DEF RequestServerDelete
        <4>2. S \in SUBSET Inbox
          BY DEF Stored
        <4> HIDE DEF S
        <4>3. a \in ApprovalType
          BY <4>2 DEF ApprovalType
        <4> QED
          BY <4>1, <4>3
      <3>2. CASE ExpireApproval(t)
        <4>1. approval' = [approval EXCEPT ![t] = [b EXCEPT !.status = "expired"]]
          BY <3>2 DEF ExpireApproval
        <4>2. [b EXCEPT !.status = "expired"] \in ApprovalType
          BY <1>2, Zenon DEF ApprovalType
        <4> QED
          BY <4>1, <4>2
      <3> QED
        BY <1>7, <3>1, <3>2
    <2>2. PICK a \in ApprovalType : approval' = [approval EXCEPT ![t] = a]
      BY <2>1
    <2>3. sd' = [sd EXCEPT ![t] = q]
      BY <1>2, <1>7 DEF RequestServerDelete, ExpireApproval
    <2>4. \A sanc : Sanctioned \subseteq sanc => TokenOK(q, a, server, cps, sanc)
      BY <1>3, <1>5 DEF TokenOK
    <2> QED
      BY <1>2, <1>6, <2>2, <2>3, <2>4
  <1>8. ASSUME NEW S \in SUBSET Inbox, ServerDelete(t, S) PROVE MailParts'
    <2> DEFINE v == [q EXCEPT !.pc = "verify", !.want = S]
               a == [b EXCEPT !.status = "used"]
    <2>1. sd' = [sd EXCEPT ![t] = v] /\ approval' = [approval EXCEPT ![t] = a] /\ S = b.uidls
      BY <1>8, Zenon DEF ServerDelete, Consumable
    <2>2. v \in SessionType /\ v.pc = "verify" /\ v.want = S /\ v.marked = q.marked /\ v.deleted = q.deleted
      BY <1>2, SessionWant, Zenon
    <2>3. a \in ApprovalType /\ a.status = "used" /\ a.uidls = b.uidls
      <3>1. a \in ApprovalType
        BY <1>2, Zenon DEF ApprovalType
      <3> QED
        BY <1>2, <3>1 DEF ApprovalType
    <2> HIDE DEF v, a
    <2>4. \A sanc : Sanctioned \subseteq sanc => TokenOK(v, a, server, cps, sanc)
      BY <1>3, <2>1, <2>2, <2>3 DEF TokenOK
    <2> QED
      BY <1>6, <2>1, <2>2, <2>3, <2>4
  <1> QED
    BY <1>7, <1>8

(* Marks and deletions: of what was wanted, seen and listed; QUIT removes     *)
(* what was marked or flagged.                                                *)
LEMMA SessionActionsInv ==
  ASSUME MailParts, NEW t \in Tokens,
         \/ ServerDeleteVerify(t) \/ ServerDeleteMark(t) \/ ServerDeleteSkip(t) \/ ServerDeleteQuit(t)
         \/ ServerDeleteUncertain(t) \/ ServerDeleteExpungeFails(t) \/ ServerDeleteAborts(t)
  PROVE  MailParts'
  <1> DEFINE q == sd[t]
             a == approval[t]
             Over(D, U) == [q EXCEPT !.pc = "done", !.marked = {}, !.want = {}, !.deleted = D, !.uncertain = U]
  <1>1. SessionsOK
    BY DEF MailParts
  <1>2. /\ approval \in [Tokens -> ApprovalType] /\ sd \in [Tokens -> SessionType]
        /\ server \in [Remote -> {"none", "here", "gone", "taken"}] /\ flagged \subseteq Inbox /\ Inbox \subseteq Remote
        /\ a \in ApprovalType /\ q \in SessionType
    BY <1>1 DEF SessionsOK, Remote
  <1>3. TokenOK(q, a, server, cps, Sanctioned) /\ flagged \subseteq Sanctioned \cup foreign
    BY <1>1, TokenFacts
  <1>4. q.want \subseteq Inbox /\ q.marked \subseteq Inbox /\ q.deleted \subseteq Inbox
    BY <1>2 DEF SessionType
  <1>5. UNCHANGED <<protocol, localVars, io, del, edit, approval, cps, foreign>> /\ (Fault \/ faults' = faults)
    BY Zenon DEF ServerDeleteVerify, ServerDeleteMark, ServerDeleteSkip, ServerDeleteQuit, ServerDeleteUncertain,
             ServerDeleteExpungeFails, ServerDeleteAborts, Mark, Remove, localVars, serverVars
  <1>6. Sanctioned' = Sanctioned /\ approval' = [approval EXCEPT ![t] = a]
    BY <1>2, <1>5 DEF Sanctioned
  <1>7. ASSUME NEW v \in SessionType, sd' = [sd EXCEPT ![t] = v], TokenOK(v, a, server', cps, Sanctioned),
               server' \in [Remote -> {"none", "here", "gone", "taken"}], flagged' \subseteq Inbox,
               flagged' \subseteq Sanctioned \cup foreign,
               \A m \in Remote : /\ server[m] # "none" => server'[m] # "none"
                                 /\ server[m] \in Left => server'[m] \in Left
                                 /\ server'[m] = "gone" => server[m] = "gone" \/ m \in Sanctioned \cup foreign
        PROVE  MailParts'
    <2>1. UNCHANGED <<protocol, cps, foreign>> /\ flagged' \subseteq Sanctioned' \cup foreign' /\ TokenOK(v, a, server', cps, Sanctioned')
      BY <1>5, <1>6, <1>7
    <2>2. SessionsOK'
      BY <1>1, <1>2, <1>6, <1>7, <2>1, SessionStep
    <2> QED
      BY <1>5, <2>2, ServerOnly
  <1>8. ASSUME NEW v \in SessionType, sd' = [sd EXCEPT ![t] = v], TokenOK(v, a, server, cps, Sanctioned),
               UNCHANGED <<server, flagged>>
        PROVE  MailParts'
    BY <1>2, <1>3, <1>7, <1>8
  <1>9. CASE ServerDeleteVerify(t)
    <2> DEFINE S == q.want \cap Stored
               v == [q EXCEPT !.pc = "dele", !.want = S]
    <2>1. sd' = [sd EXCEPT ![t] = v] /\ UNCHANGED <<server, flagged>> /\ q.pc = "verify"
      BY <1>9 DEF ServerDeleteVerify, serverVars
    <2>2. S \in SUBSET Inbox /\ S \subseteq q.want /\ S \subseteq cps /\ "dele" \in {"verify", "dele"}
      BY <1>4 DEF Stored
    <2> HIDE DEF S
    <2>3. v \in SessionType /\ v.pc = "dele" /\ v.want = S /\ v.marked = q.marked /\ v.deleted = q.deleted
      BY <1>2, <2>2, SessionWant, Zenon
    <2> HIDE DEF v
    <2>4. TokenOK(v, a, server, cps, Sanctioned)
      BY <1>3, <2>1, <2>2, <2>3 DEF TokenOK
    <2> QED
      BY <1>8, <2>1, <2>3, <2>4
  <1>10. ASSUME NEW S \in SUBSET (q.want \cap Here(Inbox)), Mark(t, S) PROVE MailParts'
    <2> DEFINE v == [q EXCEPT !.pc = "quit", !.marked = S]
    <2>1. q.pc = "dele" /\ sd' = [sd EXCEPT ![t] = v] /\ server' = server /\ flagged' \subseteq flagged \cup S
      BY <1>10 DEF Mark
    <2>2. S \in SUBSET Inbox /\ S \subseteq q.want /\ \A m \in S : server[m] = "here"
      BY <1>4 DEF Here
    <2>3. v \in SessionType /\ v.pc = "quit" /\ v.want = q.want /\ v.marked = S /\ v.deleted = q.deleted
      BY <1>2, <2>2, SessionMark, Zenon
    <2> HIDE DEF v
    <2>4. S \subseteq Sanctioned
      BY <1>3, <2>1, <2>2 DEF TokenOK, Sanctioned
    <2>5. TokenOK(v, a, server', cps, Sanctioned)
      BY <1>3, <2>1, <2>2, <2>3, <2>4 DEF TokenOK
    <2>6. flagged' \subseteq Inbox /\ flagged' \subseteq Sanctioned \cup foreign
      BY <1>2, <1>3, <2>1, <2>2, <2>4
    <2> QED
      BY <1>2, <1>7, <2>1, <2>3, <2>5, <2>6
  <1>11. ASSUME NEW D \in SUBSET Inbox, NEW U \in SUBSET Inbox,
                sd' = [sd EXCEPT ![t] = Over(D, U)],
                Remove(Committed(t)) \/ UNCHANGED <<server, flagged>>,
                protocol \in {"pop3", "nolist"} => \A m \in D : server'[m] \in Left
         PROVE  MailParts'
    <2> DEFINE v == Over(D, U)
               C == Committed(t)
    <2>1. v \in SessionType /\ v.pc = "done" /\ v.marked = {} /\ v.deleted = D
      BY <1>2, SessionDone, Zenon
    <2>2. sd' = [sd EXCEPT ![t] = v]
      BY <1>11
    <2> HIDE DEF v
    <2>3. TokenOK(v, a, server', cps, Sanctioned)
      BY <1>11, <2>1 DEF TokenOK
    <2>4. C \subseteq Sanctioned \cup foreign
      BY <1>3 DEF Committed, TokenOK
    <2> HIDE DEF C
    <2>5. /\ server' \in [Remote -> {"none", "here", "gone", "taken"}] /\ flagged' \subseteq flagged
          /\ \A m \in Remote : /\ server[m] # "none" => server'[m] # "none"
                               /\ server[m] \in Left => server'[m] \in Left
                               /\ server'[m] = "gone" => server[m] = "gone" \/ m \in Sanctioned \cup foreign
      <3>1. CASE UNCHANGED <<server, flagged>>
        BY <1>2, <3>1
      <3>2. CASE Remove(C)
        <4>1. /\ server' = [m \in Remote |-> IF m \in C /\ server[m] = "here" THEN "gone" ELSE server[m]]
              /\ flagged' = flagged \ C
          BY <3>2 DEF Remove
        <4> QED
          BY <1>2, <2>4, <4>1 DEF Left
      <3> QED
        BY <1>11, <3>1, <3>2 DEF C
    <2>6. flagged' \subseteq Inbox /\ flagged' \subseteq Sanctioned \cup foreign
      BY <1>2, <1>3, <2>5
    <2> QED
      BY <1>7, <2>1, <2>2, <2>3, <2>5, <2>6
  <1>12. CASE ServerDeleteQuit(t)
    <2>1. Report(t, TRUE) = Over(q.marked, {})
      BY DEF Report
    <2>2. sd' = [sd EXCEPT ![t] = Report(t, TRUE)] /\ Remove(Committed(t))
      BY <1>12 DEF ServerDeleteQuit
    <2>3. ASSUME protocol \in {"pop3", "nolist"}, NEW m \in q.marked PROVE server'[m] \in Left
      <3>1. Committed(t) = q.marked /\ m \in Remote /\ server[m] # "none"
        BY <1>2, <1>3, <1>4, <2>3 DEF Committed, TokenOK
      <3> QED
        BY <1>2, <2>2, <3>1 DEF Remove, Left
    <2>4. q.marked \in SUBSET Inbox /\ {} \in SUBSET Inbox
      BY <1>4
    <2> HIDE DEF Over
    <2> QED
      BY <1>11, <2>1, <2>2, <2>3, <2>4
  <1>13. CASE ServerDeleteUncertain(t)
    <2>1. Report(t, FALSE) = Over({}, q.marked)
      BY DEF Report
    <2>2. sd' = [sd EXCEPT ![t] = Report(t, FALSE)] /\ (Remove(Committed(t)) \/ UNCHANGED <<server, flagged>>)
      BY <1>13 DEF ServerDeleteUncertain, serverVars
    <2>3. q.marked \in SUBSET Inbox /\ {} \in SUBSET Inbox /\ \A m \in {} : server'[m] \in Left
      BY <1>4
    <2> HIDE DEF Over
    <2> QED
      BY <1>11, <2>1, <2>2, <2>3
  <1>14. CASE ServerDeleteExpungeFails(t)
    <2>1. Report(t, TRUE) = Over(q.marked, {})
      BY DEF Report
    <2>2. sd' = [sd EXCEPT ![t] = Report(t, TRUE)] /\ UNCHANGED <<server, flagged>> /\ protocol = "imap"
      BY <1>14 DEF ServerDeleteExpungeFails, serverVars
    <2>3. q.marked \in SUBSET Inbox /\ {} \in SUBSET Inbox
      BY <1>4
    <2> HIDE DEF Over
    <2> QED
      BY <1>11, <2>1, <2>2, <2>3
  <1>15. CASE ServerDeleteAborts(t)
    <2> DEFINE v == [NoSession EXCEPT !.pc = "done"]
    <2>1. sd' = [sd EXCEPT ![t] = v] /\ UNCHANGED <<server, flagged>>
      BY <1>15 DEF ServerDeleteAborts, serverVars
    <2>2. v \in SessionType /\ v.pc = "done" /\ v.marked = {} /\ v.deleted = {}
      BY DEF NoSession, SessionType
    <2> HIDE DEF v
    <2>3. TokenOK(v, a, server, cps, Sanctioned)
      BY <2>2 DEF TokenOK
    <2> QED
      BY <1>8, <2>1, <2>2, <2>3
  <1>16. CASE ServerDeleteMark(t)
    BY <1>10, <1>16 DEF ServerDeleteMark
  <1>17. CASE ServerDeleteSkip(t)
    BY <1>10, <1>17 DEF ServerDeleteSkip
  <1> QED
    BY <1>9, <1>12, <1>13, <1>14, <1>15, <1>16, <1>17

-----------------------------------------------------------------------------
(* The invariant.                                                             *)
LEMMA InitInv == Init => MailParts
  <1> SUFFICES ASSUME Init PROVE MailParts
    OBVIOUS
  <1> USE DEF Init
  <1>1. StorersOK
    <2>1. "idle" \notin Busy
      BY DEF Busy
    <2>2. StorerOK(IdleSync, protocol, kept, keptSent, objects \cup overlap)
      BY <2>1, Defaults, Resting
    <2> QED
      BY <2>2, Defaults DEF StorersOK
  <1>2. MailsOK
    BY Defaults DEF MailsOK, MailOK
  <1>3. SeenOK
    BY DEF SeenOK
  <1>4. PurgesOK
    BY Defaults DEF PurgesOK
  <1>5. SessionsOK
    <2>1. NoSession \in SessionType /\ NoSession.pc = "idle" /\ NoSession.marked = {} /\ NoSession.deleted = {}
      BY Defaults DEF NoSession
    <2>2. [status |-> "none", uidls |-> {}] \in ApprovalType
      BY DEF ApprovalType
    <2>3. DeletesApproved /\ Pop3ReportTrue
      BY <2>1 DEF DeletesApproved, Pop3ReportTrue
    <2>4. SessionInv
      BY <2>1, <2>3 DEF SessionInv
    <2> QED
      BY <2>1, <2>2, <2>4 DEF SessionsOK
  <1>6. RestOK
    BY Defaults, MailAssumption DEF RestOK
  <1> QED
    BY <1>1, <1>2, <1>3, <1>4, <1>5, <1>6 DEF MailParts

LEMMA StutterInv ==
  ASSUME MailParts, UNCHANGED vars
  PROVE  MailParts'
  <1>1. UNCHANGED <<protocol, server, flagged, foreign, cps, approval, sd>> /\ UNCHANGED <<localVars, io, del, edit>> /\ faults' = faults
    BY DEF vars, serverVars, localVars, deleteVars
  <1>2. SessionsOK'
    BY <1>1, SessionsGrow DEF MailParts
  <1> QED
    BY <1>1, <1>2, ServerOnly

LEMMA StepInv == MailParts /\ [Next]_vars => MailParts'
  <1> SUFFICES ASSUME MailParts, [Next]_vars PROVE MailParts'
    OBVIOUS
  <1>1. ASSUME NEW s \in Syncs, SyncStep(s) PROVE MailParts'
    <2>1. s \in Storers
      BY DEF Storers
    <2> QED
      BY <1>1, <2>1, LoopInv, BeginInv, EndingsInv, RulesInv DEF SyncStep
  <1>2. ASSUME NEW p \in Storers, Ingest(p) PROVE MailParts'
    BY <1>2, LookupsInv, PutInv, InsertInv, EndingsInv, MarkInv DEF Ingest
  <1>3. ASSUME NEW d \in Deleters, LocalDelete(d) PROVE MailParts'
    BY <1>3, DeleteStepsInv, DeleteMessageInv, DeletePurgeInv DEF LocalDelete
  <1>4. ASSUME NEW u \in Clients, NEW i \in Ids, DeleteCall(u, i) PROVE MailParts'
    <2>1. u \in Deleters
      BY DEF Deleters
    <2> QED
      BY <1>4, <2>1, DeleteStepsInv
  <1>5. ASSUME NEW t \in Tokens, ServerSession(t) PROVE MailParts'
    BY <1>5, SessionActionsInv DEF ServerSession
  <1>6. CASE Failure
    <2>1. ASSUME NEW s \in Syncs, SyncListNoSizes(s) \/ SyncNextBlind(s) PROVE MailParts'
      BY <2>1, LoopInv
    <2>2. ASSUME NEW p \in Storers,
                 IngestBlind(p) \/ IngestPutFails(p) \/ IngestMarkFails(p) \/ IngestFails(p) \/ Crash(p)
          PROVE  MailParts'
      BY <2>2, LookupsInv, EndingsInv, CrashInv
    <2>3. ASSUME NEW d \in Deleters, DeleteUnchecked(d) PROVE MailParts'
      BY <2>3, DeleteStepsInv
    <2>4. ASSUME NEW t \in Tokens,
                 \/ ServerDeleteSkip(t) \/ ServerDeleteUncertain(t) \/ ServerDeleteExpungeFails(t)
                 \/ ServerDeleteAborts(t)
          PROVE  MailParts'
      BY <2>4, SessionActionsInv
    <2> QED
      BY <1>6, <2>1, <2>2, <2>3, <2>4 DEF Failure
  <1>7. CASE \E m \in Remote : Arrive(m)
    BY <1>7, ArriveInv
  <1>12. CASE \E m \in Others : OtherClientFlags(m) \/ OtherClientTakes(m)
    BY <1>12, OtherClientInv
  <1>8. CASE \E o \in Outs : RecordSentCopy(o)
    BY <1>8, BeginInv
  <1>9. ASSUME NEW u \in Clients,
               EditWrite(u) \/ \E i \in Ids, act \in {"hold", "unhold", "other"} : EditRead(u, i, act)
        PROVE  MailParts'
    BY <1>9, EditsInv
  <1>10. ASSUME NEW t \in Tokens,
                RequestServerDelete(t) \/ ExpireApproval(t) \/ \E S \in SUBSET Inbox : ServerDelete(t, S)
         PROVE  MailParts'
    BY <1>10, ApprovalsInv
  <1>11. CASE UNCHANGED vars
    BY <1>11, StutterInv
  <1> QED
    BY <1>1, <1>2, <1>3, <1>4, <1>5, <1>6, <1>7, <1>8, <1>9, <1>10, <1>11, <1>12 DEF Next

(* Every state of the mail store satisfies the inductive invariant, type      *)
(* correctness included (sync.go, delete.go, send.go).                        *)
THEOREM MailInvariant == Spec => []MailInv
  <1>1. Init => MailInv
    BY InitInv, Parts
  <1>2. MailInv /\ [Next]_vars => MailInv'
    BY StepInv, Parts, PartsNext
  <1> QED
    BY <1>1, <1>2, PTL DEF Spec

(* A message has its objects on disk, unless a delete gave one up while an    *)
(* ingest relied on it (DeleteMessage, Objects.Put, Objects.Delete).          *)
THEOREM ObjectsSafety == Spec => []ObjectsBackMail
  <1>1. MailInv => ObjectsBackMail
    BY DEF MailInv, ObjectInv
  <1> QED
    BY <1>1, MailInvariant, PTL

(* A checkpoint stands only for mail that was kept: no failure between the    *)
(* fetch and AddCheckpoint makes a later sync pass over mail that was lost    *)
(* (ingestOne).                                                               *)
THEOREM CheckpointSafety == Spec => []CheckpointedWasKept
  <1>1. MailInv => CheckpointedWasKept
    BY DEF MailInv, KeptInv
  <1> QED
    BY <1>1, MailInvariant, PTL

(* Postra deletes mail on the server only if a sync had seen it and an        *)
(* approval that was used lists it, whichever of its sessions flagged it; on  *)
(* IMAP its EXPUNGE also takes what another client flagged (ServerDelete).    *)
THEOREM ApprovalSafety == Spec => []DeletesApproved
  <1>1. MailInv => DeletesApproved
    BY DEF MailInv, SessionInv
  <1> QED
    BY <1>1, MailInvariant, PTL

(* On POP3 a message that ServerDelete reports as deleted has left the server.*)
THEOREM Pop3Safety == Spec => []Pop3ReportTrue
  <1>1. MailInv => Pop3ReportTrue
    BY DEF MailInv, SessionInv
  <1> QED
    BY <1>1, MailInvariant, PTL
=============================================================================
