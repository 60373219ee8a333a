------------------------------ MODULE MailStore ------------------------------
(* The message store of one account (internal/application/sync.go,           *)
(* delete.go, the batch actions of query.go, recordSentCopy of send.go): mail *)
(* comes in from the server's inbox and Sent folder and from Postra's own     *)
(* sends, is deleted locally, and its server copies are deleted on approval.  *)
(*                                                                            *)
(* Rows change in transactions, objects on disk do not belong to any of them, *)
(* and two syncs of one account may overlap: the lock of StartSync is local   *)
(* to a replica. Every store call and every write to disk is a step. Objects  *)
(* are addressed by content, so messages share them; accounts meet only       *)
(* there, which shared attachments inside one account stand for.              *)
EXTENDS Naturals, FiniteSets

CONSTANTS
  Inbox,       \* messages of the server's inbox, known by their UIDL
  SentBox,     \* messages of the server's Sent folder (IMAP)
  Outs,        \* messages sent through Postra
  Raws,        \* contents, as their hash tells them apart
  Raw,         \* Raw[m]: the content of a message
  MsgId,       \* MsgId[c]: the Message-ID header of a content
  Files,       \* attachments
  Att,         \* Att[c]: the attachments of a content that are retained
  Number,      \* Number[m]: position in the folder, oldest first
  Oversize,    \* messages over sync.max_message_bytes
  Others,      \* inbox messages another mail client may delete
  Ids,         \* ids of local messages
  Syncs,       \* sync runs that may overlap
  Clients,     \* callers of LocalDelete and BatchUpdateMessages, one call at a time
  Tokens,      \* approvals of server deletion
  MaxPerSync,  \* sync.max_per_sync, 0 = unlimited
  MaxFaults    \* bound: crashes and failed calls

Remote  == Inbox \cup SentBox
Sources == Remote \cup Outs
Objects == Raws \cup Files
Storers == Syncs \cup Outs
Deleters == Syncs \cup Clients

ASSUME MailAssumption ==
  /\ Inbox # {} /\ Ids # {}
  /\ Inbox \cap SentBox = {} /\ Remote \cap Outs = {}
  /\ Sources \cap Raws = {} /\ Raws \cap Files = {}
  /\ Raw \in [Sources -> Raws]
  /\ DOMAIN MsgId = Raws
  /\ Att \in [Raws -> SUBSET Files]
  /\ Number \in [Remote -> Nat]
  /\ \A S \in SUBSET Remote : S # {} => \E m \in S : \A n \in S : Number[n] <= Number[m]
  /\ Oversize \subseteq Remote /\ Others \subseteq Inbox
  /\ Syncs \cap Outs = {} /\ Syncs \cap Clients = {}
  /\ {MaxPerSync, MaxFaults} \subseteq Nat

VARIABLES
  protocol,  \* of the account: "imap", "pop3", "nolist" (POP3 that refuses
             \* LIST), or "list" (POP3 without UIDL)
  server,    \* [Remote -> whether the message has come, is there, was removed]
  flagged,   \* IMAP: messages that carry the \Deleted flag
  foreign,   \* history: messages another client set the flag on
  mail,      \* [Ids -> the row of a local message]
  cps,       \* keys in sync_checkpoints
  objects,   \* objects on disk
  io,        \* [Storers -> a sync run or a recordSentCopy call]
  del,       \* [Deleters -> a LocalDelete call]
  edit,      \* [Clients -> a batch action between its read and its write]
  approval,  \* [Tokens -> status and the approved UIDLs]
  sd,        \* [Tokens -> the ServerDelete call that consumed the token]
  kept,      \* history: contents that were ever inserted
  keptSent,  \* history: contents that were ever inserted as sent mail
  overlap,   \* history: objects a delete gave up while an ingest relied on them
  held,      \* history: messages put on hold and never released by their owner
  faults

serverVars == <<server, flagged, foreign>>
localVars  == <<mail, cps, objects, kept, keptSent, overlap, held>>
deleteVars == <<approval, sd>>

vars == <<protocol, serverVars, localVars, io, del, edit, deleteVars, faults>>

-----------------------------------------------------------------------------
(* The data.                                                                 *)

Protocols == {"imap", "pop3", "nolist", "list"}

(* sync_checkpoints.uidl: the UIDL, or a key made from the content when the  *)
(* server has none (the "fb_" fallback).                                     *)
KeyOf(m) == IF protocol = "list" /\ m \in Inbox THEN Raw[m] ELSE m

Id0     == CHOOSE i \in Ids : TRUE
Source0 == CHOOSE m \in Inbox : TRUE
NoMail  == [live |-> FALSE, raw |-> Raw[Source0], box |-> "inbox", refs |-> {},
            hold |-> FALSE]

IdleSync == [pc |-> "idle", box |-> "inbox", todo |-> {}, fetched |-> 0,
             sizes |-> TRUE, src |-> Source0, puts |-> {}, refs |-> {}, id |-> Id0]
IdleDelete == [pc |-> "idle", id |-> Id0, orphans |-> {}]
IdleEdit   == [pc |-> "idle", id |-> Id0, asks |-> FALSE, hold |-> FALSE]
NoSession  == [pc |-> "idle", want |-> {}, marked |-> {}, deleted |-> {},
               uncertain |-> {}]

Init ==
  /\ protocol \in Protocols
  /\ server = [m \in Remote |-> "none"] /\ flagged = {} /\ foreign = {}
  /\ mail = [i \in Ids |-> NoMail]
  /\ cps = {} /\ objects = {}
  /\ io = [p \in Storers |-> IdleSync]
  /\ del = [d \in Deleters |-> IdleDelete]
  /\ edit = [u \in Clients |-> IdleEdit]
  /\ approval = [t \in Tokens |-> [status |-> "none", uidls |-> {}]]
  /\ sd = [t \in Tokens |-> NoSession]
  /\ kept = {} /\ keptSent = {} /\ overlap = {} /\ held = {}
  /\ faults = 0

Live == {i \in Ids : mail[i].live}

Here(box) == {m \in box : server[m] = "here"}

Newest(S) == CHOOSE m \in S : \A n \in S : Number[n] <= Number[m]

Fault == faults < MaxFaults /\ faults' = faults + 1

(* NewID: an id nobody has heard of.                                         *)
FreshIds ==
  Ids \ (Live \cup {del[d].id : d \in {d \in Deleters : del[d].pc # "idle"}}
              \cup {edit[u].id : u \in {u \in Clients : edit[u].pc # "idle"}}
              \cup {io[p].id : p \in {p \in Storers : io[p].pc \in {"mark", "rules"}}})

(* External: mail reaches a folder in order. A Sent folder exists on IMAP.   *)
Arrive(m) ==
  /\ server[m] = "none"
  /\ m \in SentBox => protocol = "imap"
  /\ \A n \in Remote : Number[n] < Number[m] /\ (n \in Inbox <=> m \in Inbox)
                         => server[n] # "none"
  /\ server' = [server EXCEPT ![m] = "here"]
  /\ UNCHANGED <<protocol, flagged, foreign, localVars, io, del, edit, deleteVars,
                 faults>>

(* External: the owner's other mail client sets \Deleted on a message, to be *)
(* expunged when someone does ...                                            *)
OtherClientFlags(m) ==
  /\ protocol = "imap" /\ server[m] = "here" /\ m \notin foreign
  /\ flagged' = flagged \cup {m} /\ foreign' = foreign \cup {m}
  /\ UNCHANGED <<protocol, server, localVars, io, del, edit, deleteVars, faults>>

(* ... or takes it off the server itself.                                    *)
OtherClientTakes(m) ==
  /\ server[m] = "here"
  /\ server' = [server EXCEPT ![m] = "taken"]
  /\ flagged' = flagged \ {m}
  /\ UNCHANGED <<protocol, foreign, localVars, io, del, edit, deleteVars, faults>>

-----------------------------------------------------------------------------
(* runSync: the loop over a folder.                                          *)

Budget(s) == MaxPerSync = 0 \/ io[s].fetched < MaxPerSync

(* ingestOne returned: nil counts towards the limit, whatever it did.        *)
Returned(p, counted) ==
  [IdleSync EXCEPT
     !.pc = IF p \in Outs THEN "done" ELSE "next",
     !.box = io[p].box, !.todo = io[p].todo, !.sizes = io[p].sizes,
     !.fetched = IF counted /\ MaxPerSync > 0 THEN io[p].fetched + 1
                                              ELSE io[p].fetched]

(* The folder is listed once. On POP3 a LIST that fails after UIDL leaves    *)
(* the sizes unknown; some servers refuse it every time.                     *)
SyncStart(s, sizes) ==
  /\ io[s].pc = "idle"
  /\ io' = [io EXCEPT ![s] = [IdleSync EXCEPT !.pc = "next", !.sizes = sizes,
                                              !.todo = Here(Inbox)]]
  /\ UNCHANGED <<protocol, serverVars, localVars, del, edit, deleteVars>>

SyncList(s) == SyncStart(s, protocol # "nolist") /\ UNCHANGED faults

SyncListNoSizes(s) == Fault /\ protocol = "pop3" /\ SyncStart(s, FALSE)

Seen(m) == protocol # "list" /\ m \in cps

\* Mutant: only what was fetched is measured.
TooBigUnread(s, m) == FALSE

(* Over the limit by the listed size: passed over without a fetch.           *)
TooBig(s, m) == io[s].sizes /\ m \in Oversize

Take(s, seen) ==
  LET m == Newest(io[s].todo) IN
  /\ io[s].pc = "next" /\ io[s].todo # {} /\ Budget(s)
  /\ io' = [io EXCEPT ![s] =
       IF seen \/ TooBig(s, m)
       THEN [@ EXCEPT !.todo = io[s].todo \ {m}]
       ELSE [@ EXCEPT !.todo = io[s].todo \ {m}, !.pc = "fetch", !.src = m]]
  /\ UNCHANGED <<protocol, serverVars, localVars, del, edit, deleteVars>>

SyncNext(s) == Take(s, Seen(Newest(io[s].todo))) /\ UNCHANGED faults

(* HasCheckpoint fails: the message is fetched again.                        *)
SyncNextBlind(s) == Fault /\ Take(s, FALSE)

FolderDone(s) == io[s].pc = "next" /\ (io[s].todo = {} \/ ~Budget(s))

(* sentFolderPass, with a limit of its own.                                  *)
SyncSent(s) ==
  /\ FolderDone(s) /\ io[s].box = "inbox" /\ protocol = "imap"
  /\ io' = [io EXCEPT ![s] = [@ EXCEPT !.box = "sent", !.todo = Here(SentBox),
                                       !.fetched = 0]]
  /\ UNCHANGED <<protocol, serverVars, localVars, del, edit, deleteVars, faults>>

(* The end; a sync IDLE woke, or one that cannot open the folder, skips Sent.*)
SyncEnd(s) ==
  /\ FolderDone(s)
  /\ io' = [io EXCEPT ![s] = IdleSync]
  /\ UNCHANGED <<protocol, serverVars, localVars, del, edit, deleteVars, faults>>

-----------------------------------------------------------------------------
(* ingestOne.                                                                *)

IngestFetch(s) ==
  /\ io[s].pc = "fetch"
  /\ io' = [io EXCEPT ![s] =
       IF server[@.src] # "here" THEN Returned(s, FALSE)
       ELSE IF @.src \in Oversize THEN Returned(s, TRUE)
       ELSE [@ EXCEPT !.pc = "hash"]]
  /\ UNCHANGED <<protocol, serverVars, localVars, del, edit, deleteVars, faults>>

(* recordSentCopy: what deliver sent is kept, by the same route.             *)
RecordSentCopy(o) ==
  /\ io[o].pc = "idle"
  /\ io' = [io EXCEPT ![o] = [IdleSync EXCEPT !.pc = "hash", !.box = "sent",
                                              !.src = o]]
  /\ UNCHANGED <<protocol, serverVars, localVars, del, edit, deleteVars, faults>>

Storing(p) ==
  LET c == Raw[io[p].src] IN
  [io[p] EXCEPT !.pc = "put", !.puts = {c} \cup Att[c], !.refs = {c} \cup Att[c]]

(* A message that is here already: sync remembers its UIDL, if it has one.   *)
Duplicate(p) ==
  IF p \in Outs \/ (protocol = "list") THEN Returned(p, TRUE)
                                       ELSE [io[p] EXCEPT !.pc = "markdup"]

IsDuplicateHash(c) == \E i \in Live : mail[i].raw = c

HasSentCopy(c) ==
  \E i \in Live : mail[i].box = "sent" /\ MsgId[mail[i].raw] = MsgId[c]

(* What follows a lookup that found nothing.                                 *)
NotDuplicate(p) ==
  IF io[p].pc = "hash" /\ io[p].box = "sent" THEN [io[p] EXCEPT !.pc = "sentcopy"]
  ELSE IF io[p].pc = "hash" /\ protocol = "list" THEN [io[p] EXCEPT !.pc = "fallback"]
  ELSE Storing(p)

Lookup(p, pc, found) ==
  /\ io[p].pc = pc
  /\ io' = [io EXCEPT ![p] = IF found THEN Duplicate(p) ELSE NotDuplicate(p)]
  /\ UNCHANGED <<protocol, serverVars, localVars, del, edit, deleteVars>>

IngestHash(p) ==
  Lookup(p, "hash", IsDuplicateHash(Raw[io[p].src])) /\ UNCHANGED faults

IngestSentCopy(p) ==
  Lookup(p, "sentcopy", HasSentCopy(Raw[io[p].src])) /\ UNCHANGED faults

IngestFallback(p) ==
  Lookup(p, "fallback", KeyOf(io[p].src) \in cps) /\ UNCHANGED faults

(* A lookup that fails finds nothing: its error is ignored.                  *)
IngestBlind(p) ==
  Fault /\ \E pc \in {"hash", "sentcopy", "fallback"} : Lookup(p, pc, FALSE)

-----------------------------------------------------------------------------
(* storeMessage.                                                             *)

NextPut(p) ==
  LET c == Raw[io[p].src] IN
  IF c \in io[p].puts THEN c ELSE CHOOSE b \in io[p].puts : TRUE

(* Objects.Put: an object that exists is left alone.                         *)
IngestPut(p) ==
  LET b == NextPut(p) IN
  /\ io[p].pc = "put" /\ io[p].puts # {}
  /\ objects' = objects \cup {b}
  /\ overlap' = IF \E d \in Deleters : b \in del[d].orphans
                THEN overlap \cup {b} ELSE overlap
  /\ io' = [io EXCEPT ![p].puts = @ \ {b}]
  /\ UNCHANGED <<protocol, serverVars, mail, cps, kept, keptSent, held, del,
                 edit, deleteVars, faults>>

\* Mutant: a message whose content was not stored is marked as seen.
IngestPutFailsMarked(p) ==
  LET b == NextPut(p) IN
  /\ Fault
  /\ io[p].pc = "put" /\ io[p].puts # {}
  /\ io' = [io EXCEPT ![p] =
       IF b \in Raws THEN [@ EXCEPT !.pc = "markdup", !.puts = {}, !.refs = {}]
       ELSE [@ EXCEPT !.puts = io[p].puts \ {b}, !.refs = io[p].refs \ {b}]]
  /\ UNCHANGED <<protocol, serverVars, localVars, del, edit, deleteVars>>

(* A full disk: without its content the message fails, without an attachment *)
(* it is stored all the same.                                                *)
IngestPutFails(p) ==
  LET b == NextPut(p) IN
  /\ Fault
  /\ io[p].pc = "put" /\ io[p].puts # {}
  /\ io' = [io EXCEPT ![p] =
       IF b \in Raws THEN Returned(p, FALSE)
       ELSE [@ EXCEPT !.puts = io[p].puts \ {b}, !.refs = io[p].refs \ {b}]]
  /\ UNCHANGED <<protocol, serverVars, localVars, del, edit, deleteVars>>

(* The unique index on (account_id, raw_hash).                               *)
UniqueViolation(c) == \E i \in Live : mail[i].raw = c

(* InsertMessage: the row, its body and its attachments.                     *)
IngestInsert(p) ==
  LET c == Raw[io[p].src]
      i == CHOOSE i \in FreshIds : TRUE
  IN /\ io[p].pc = "put" /\ io[p].puts = {}
     /\ ~UniqueViolation(c)
     /\ FreshIds # {}
     /\ mail' = [mail EXCEPT ![i] = [live |-> TRUE, raw |-> c, box |-> io[p].box,
                                     refs |-> io[p].refs, hold |-> FALSE]]
     /\ kept' = kept \cup {c}
     /\ keptSent' = IF io[p].box = "sent" THEN keptSent \cup {c} ELSE keptSent
     /\ io' = [io EXCEPT ![p] = [@ EXCEPT !.pc = "mark", !.id = i, !.refs = {}]]
     /\ UNCHANGED <<protocol, serverVars, cps, objects, overlap, held, del, edit,
                    deleteVars, faults>>

(* Another ingest was faster: SQLite's error is recognised as a duplicate,   *)
(* PostgreSQL's is not and counts as a failure.                              *)
IngestConflict(p) ==
  /\ io[p].pc = "put" /\ io[p].puts = {}
  /\ UniqueViolation(Raw[io[p].src])
  /\ \/ io' = [io EXCEPT ![p] = [@ EXCEPT !.pc = "markdup", !.refs = {}]]
     \/ io' = [io EXCEPT ![p] = Returned(p, FALSE)]
  /\ UNCHANGED <<protocol, serverVars, localVars, del, edit, deleteVars, faults>>

(* After AddCheckpoint the message is finished, or its rules are applied.    *)
Marked(p) ==
  IF io[p].pc = "mark" /\ io[p].box = "inbox"
  THEN [io[p] EXCEPT !.pc = "rules"]
  ELSE Returned(p, TRUE)

IngestMark(p) ==
  /\ io[p].pc \in {"mark", "markdup"}
  /\ cps' = cps \cup {KeyOf(io[p].src)}
  /\ io' = [io EXCEPT ![p] = Marked(p)]
  /\ UNCHANGED <<protocol, serverVars, mail, objects, kept, keptSent, overlap,
                 held, del, edit, deleteVars, faults>>

(* Its error is ignored.                                                     *)
IngestMarkFails(p) ==
  /\ Fault
  /\ io[p].pc \in {"mark", "markdup"}
  /\ io' = [io EXCEPT ![p] = Marked(p)]
  /\ UNCHANGED <<protocol, serverVars, localVars, del, edit, deleteVars>>

-----------------------------------------------------------------------------
(* evaluateRulesOnIngest works on the message as it was built, before anyone *)
(* could touch the row.                                                      *)

IngestNoRule(s) ==
  /\ io[s].pc = "rules" /\ del[s].pc = "idle"
  /\ io' = [io EXCEPT ![s] = Returned(s, TRUE)]
  /\ UNCHANGED <<protocol, serverVars, localVars, del, edit, deleteVars, faults>>

(* UpdateMessage writes every mutable column, the hold included.             *)
WriteHold(i, h) == IF mail[i].live THEN [mail EXCEPT ![i].hold = h] ELSE mail

IngestRuleUpdate(s) ==
  /\ io[s].pc = "rules" /\ del[s].pc = "idle"
  /\ mail' = WriteHold(io[s].id, FALSE)
  /\ io' = [io EXCEPT ![s] = Returned(s, TRUE)]
  /\ UNCHANGED <<protocol, serverVars, cps, objects, kept, keptSent, overlap,
                 held, del, edit, deleteVars, faults>>

IngestRuleDelete(s) ==
  /\ io[s].pc = "rules" /\ del[s].pc = "idle"
  /\ del' = [del EXCEPT ![s] = [IdleDelete EXCEPT !.pc = "check", !.id = io[s].id]]
  /\ io' = [io EXCEPT ![s] = [Returned(s, TRUE) EXCEPT !.pc = "wait"]]
  /\ UNCHANGED <<protocol, serverVars, localVars, edit, deleteVars, faults>>

IngestRuleDeleted(s) ==
  /\ io[s].pc = "wait" /\ del[s].pc = "idle"
  /\ io' = [io EXCEPT ![s].pc = "next"]
  /\ UNCHANGED <<protocol, serverVars, localVars, del, edit, deleteVars, faults>>

(* RETR or InsertMessage fails, or parsing panics: the sync goes on with the *)
(* next message.                                                             *)
IngestFails(p) ==
  /\ Fault
  /\ io[p].pc \in {"fetch", "hash", "put"}
  /\ io' = [io EXCEPT ![p] = Returned(p, FALSE)]
  /\ UNCHANGED <<protocol, serverVars, localVars, del, edit, deleteVars>>

(* The sync is cancelled or its process dies.                                *)
Crash(p) ==
  /\ Fault
  /\ io[p].pc \notin {"idle", "done"}
  /\ io' = [io EXCEPT ![p] = [IdleSync EXCEPT !.pc = IF p \in Outs THEN "done"
                                                                   ELSE "idle"]]
  /\ del' = IF p \in Syncs THEN [del EXCEPT ![p] = IdleDelete] ELSE del
  /\ UNCHANGED <<protocol, serverVars, localVars, edit, deleteVars>>

-----------------------------------------------------------------------------
(* LocalDelete.                                                              *)

DeleteCall(d, i) ==
  /\ del[d].pc = "idle" /\ edit[d].pc = "idle"
  /\ mail[i].live
  /\ del' = [del EXCEPT ![d] = [IdleDelete EXCEPT !.pc = "check", !.id = i]]
  /\ UNCHANGED <<protocol, serverVars, localVars, io, edit, deleteVars, faults>>

(* A message on hold is refused, on the row just read.                       *)
DeleteCheck(d) ==
  /\ del[d].pc = "check"
  /\ del' = [del EXCEPT ![d] =
       IF mail[del[d].id].live /\ mail[del[d].id].hold THEN IdleDelete
       ELSE [@ EXCEPT !.pc = "tx"]]
  /\ UNCHANGED <<protocol, serverVars, localVars, io, edit, deleteVars, faults>>

(* GetMessage fails: nothing is refused.                                     *)
DeleteUnchecked(d) ==
  /\ Fault
  /\ del[d].pc = "check"
  /\ del' = [del EXCEPT ![d].pc = "tx"]
  /\ UNCHANGED <<protocol, serverVars, localVars, io, edit, deleteVars>>

\* Mutant: every object of the message is given up.
OrphansAll(i) == mail[i].refs

(* Objects of the message that no other message refers to.                   *)
Orphans(i) == mail[i].refs \ UNION {mail[j].refs : j \in Live \ {i}}

(* An ingest that has put an object and not yet inserted its message.        *)
ReliedOn(b) == \E p \in Storers : /\ io[p].pc = "put"
                                  /\ b \in io[p].refs \ io[p].puts

(* DeleteMessage. Checkpoints stay.                                          *)
DeleteMessage(d) ==
  LET i == del[d].id IN
  /\ del[d].pc = "tx"
  /\ \/ /\ mail[i].live
        /\ del' = [del EXCEPT ![d] = [@ EXCEPT !.pc = "purge", !.orphans = Orphans(i)]]
        /\ mail' = [mail EXCEPT ![i] = NoMail]
        /\ overlap' = overlap \cup {b \in Orphans(i) : ReliedOn(b)}
        /\ held' = held \ {i}
     \/ /\ ~mail[i].live
        /\ del' = [del EXCEPT ![d] = IdleDelete]
        /\ UNCHANGED <<mail, overlap, held>>
  /\ UNCHANGED <<protocol, serverVars, cps, objects, kept, keptSent, io, edit,
                 deleteVars, faults>>

(* Objects.Delete, one orphan after the other.                               *)
DeletePurge(d) ==
  /\ del[d].pc = "purge" /\ del[d].orphans # {}
  /\ \E b \in del[d].orphans :
       /\ objects' = objects \ {b}
       /\ del' = [del EXCEPT ![d].orphans = @ \ {b}]
  /\ UNCHANGED <<protocol, serverVars, mail, cps, kept, keptSent, overlap, held,
                 io, edit, deleteVars, faults>>

DeleteEnd(d) ==
  /\ del[d].pc = "purge" /\ del[d].orphans = {}
  /\ del' = [del EXCEPT ![d] = IdleDelete]
  /\ UNCHANGED <<protocol, serverVars, localVars, io, edit, deleteVars, faults>>

-----------------------------------------------------------------------------
(* BatchUpdateMessages: GetMessage, then UpdateMessage with every column.    *)

EditRead(u, i, act) ==
  /\ edit[u].pc = "idle" /\ del[u].pc = "idle"
  /\ mail[i].live
  /\ edit' = [edit EXCEPT ![u] =
       [pc |-> "write", id |-> i, asks |-> act = "hold",
        hold |-> act = "hold" \/ (act = "other" /\ mail[i].hold)]]
  /\ held' = IF act = "unhold" THEN held \ {i} ELSE held
  /\ UNCHANGED <<protocol, serverVars, mail, cps, objects, kept, keptSent,
                 overlap, io, del, deleteVars, faults>>

EditWrite(u) ==
  LET i == edit[u].id IN
  /\ edit[u].pc = "write"
  /\ mail' = WriteHold(i, edit[u].hold)
  /\ held' = IF edit[u].asks /\ mail[i].live THEN held \cup {i} ELSE held
  /\ edit' = [edit EXCEPT ![u] = IdleEdit]
  /\ UNCHANGED <<protocol, serverVars, cps, objects, kept, keptSent, overlap, io,
                 del, deleteVars, faults>>

-----------------------------------------------------------------------------
(* Deletion on the server.                                                   *)

(* StoredUIDLs.                                                              *)
Stored == {m \in Inbox : m \in cps}

(* RequestServerDeleteApproval: bound to the candidates of a fresh preview.  *)
RequestServerDelete(t) ==
  /\ approval[t].status = "none"
  /\ protocol # "list"
  /\ Here(Inbox) \cap Stored # {}
  /\ approval' = [approval EXCEPT ![t] = [status |-> "pending",
                                          uidls |-> Here(Inbox) \cap Stored]]
  /\ UNCHANGED <<protocol, serverVars, localVars, io, del, edit, sd, faults>>

ExpireApproval(t) ==
  /\ approval[t].status = "pending"
  /\ approval' = [approval EXCEPT ![t].status = "expired"]
  /\ UNCHANGED <<protocol, serverVars, localVars, io, del, edit, sd, faults>>

(* serverDeletePayloadHash and VerifyAndConsume: exactly the approved set.   *)
Consumable(t, S) == approval[t].status = "pending" /\ S = approval[t].uidls

ServerDelete(t, S) ==
  /\ sd[t].pc = "idle"
  /\ Consumable(t, S)
  /\ approval' = [approval EXCEPT ![t].status = "used"]
  /\ sd' = [sd EXCEPT ![t] = [@ EXCEPT !.pc = "verify", !.want = S]]
  /\ UNCHANGED <<protocol, serverVars, localVars, io, del, edit, faults>>

(* "Re-verify local storage at execution time".                              *)
ServerDeleteVerify(t) ==
  /\ sd[t].pc = "verify"
  /\ sd' = [sd EXCEPT ![t] = [@ EXCEPT !.pc = "dele", !.want = sd[t].want \cap Stored]]
  /\ UNCHANGED <<protocol, serverVars, localVars, io, del, edit, approval, faults>>

(* DELE of each message that is still listed. On IMAP the flag is set on the *)
(* server at once, on POP3 the session remembers it.                         *)
Mark(t, S) ==
  /\ sd[t].pc = "dele"
  /\ sd' = [sd EXCEPT ![t] = [@ EXCEPT !.pc = "quit", !.marked = S]]
  /\ flagged' = IF protocol = "imap" THEN flagged \cup S ELSE flagged
  /\ UNCHANGED <<protocol, server, foreign, localVars, io, del, edit, approval>>

\* Mutant: the approved set is not consulted.
ServerDeleteMarkAll(t) == Mark(t, Here(Inbox)) /\ UNCHANGED faults

ServerDeleteMark(t) == Mark(t, sd[t].want \cap Here(Inbox)) /\ UNCHANGED faults

(* The server refuses some of them: they are skipped.                        *)
ServerDeleteSkip(t) ==
  /\ Fault
  /\ \E S \in SUBSET (sd[t].want \cap Here(Inbox)) :
       S # sd[t].want \cap Here(Inbox) /\ Mark(t, S)

(* What QUIT commits: the marks of the session, or on IMAP, where EXPUNGE    *)
(* precedes LOGOUT, every flagged message, whoever flagged it.               *)
Committed(t) ==
  IF sd[t].marked = {} THEN {} ELSE IF protocol = "imap" THEN flagged
                                                         ELSE sd[t].marked

Remove(S) ==
  /\ server' = [m \in Remote |-> IF m \in S /\ server[m] = "here" THEN "gone"
                                                                  ELSE server[m]]
  /\ flagged' = flagged \ S /\ UNCHANGED foreign

\* Mutant: a failed QUIT is reported like a good one.
ReportAllDeleted(t, ok) ==
  [sd[t] EXCEPT !.pc = "done", !.marked = {}, !.want = {}, !.deleted = sd[t].marked]

Report(t, ok) ==
  [sd[t] EXCEPT !.pc = "done", !.marked = {}, !.want = {},
                !.deleted   = IF ok THEN sd[t].marked ELSE {},
                !.uncertain = IF ok THEN {} ELSE sd[t].marked]

ServerDeleteQuit(t) ==
  /\ sd[t].pc = "quit"
  /\ Remove(Committed(t))
  /\ sd' = [sd EXCEPT ![t] = Report(t, TRUE)]
  /\ UNCHANGED <<protocol, localVars, io, del, edit, approval, faults>>

(* QUIT or LOGOUT fails: the server may or may not have done it.             *)
ServerDeleteUncertain(t) ==
  /\ Fault
  /\ sd[t].pc = "quit"
  /\ \/ Remove(Committed(t)) \/ UNCHANGED serverVars
  /\ sd' = [sd EXCEPT ![t] = Report(t, FALSE)]
  /\ UNCHANGED <<protocol, localVars, io, del, edit, approval>>

(* EXPUNGE fails and LOGOUT succeeds: the error of EXPUNGE is dropped.       *)
ServerDeleteExpungeFails(t) ==
  /\ Fault
  /\ sd[t].pc = "quit" /\ protocol = "imap" /\ sd[t].marked # {}
  /\ sd' = [sd EXCEPT ![t] = Report(t, TRUE)]
  /\ UNCHANGED <<protocol, serverVars, localVars, io, del, edit, approval>>

(* The server cannot be reached, or the process dies: POP3 forgets its marks.*)
ServerDeleteAborts(t) ==
  /\ Fault
  /\ sd[t].pc \in {"verify", "dele", "quit"}
  /\ sd' = [sd EXCEPT ![t] = [NoSession EXCEPT !.pc = "done"]]
  /\ UNCHANGED <<protocol, serverVars, localVars, io, del, edit, approval>>

-----------------------------------------------------------------------------

Ingest(p) ==
  \/ IngestHash(p) \/ IngestSentCopy(p) \/ IngestFallback(p)
  \/ IngestPut(p) \/ IngestInsert(p) \/ IngestConflict(p) \/ IngestMark(p)

SyncStep(s) ==
  \/ SyncList(s) \/ SyncNext(s) \/ SyncSent(s) \/ SyncEnd(s) \/ IngestFetch(s)
  \/ IngestNoRule(s) \/ IngestRuleUpdate(s) \/ IngestRuleDelete(s)
  \/ IngestRuleDeleted(s)

LocalDelete(d) ==
  DeleteCheck(d) \/ DeleteMessage(d) \/ DeletePurge(d) \/ DeleteEnd(d)

ServerSession(t) ==
  ServerDeleteVerify(t) \/ ServerDeleteMark(t) \/ ServerDeleteQuit(t)

Failure ==
  \/ \E s \in Syncs : SyncListNoSizes(s) \/ SyncNextBlind(s)
  \/ \E p \in Storers : \/ IngestBlind(p) \/ IngestPutFails(p)
                         \/ IngestMarkFails(p) \/ IngestFails(p) \/ Crash(p)
  \/ \E d \in Deleters : DeleteUnchecked(d)
  \/ \E t \in Tokens : \/ ServerDeleteSkip(t) \/ ServerDeleteUncertain(t)
                       \/ ServerDeleteExpungeFails(t) \/ ServerDeleteAborts(t)

Next ==
  \/ \E m \in Remote : Arrive(m)
  \/ \E m \in Others : OtherClientFlags(m) \/ OtherClientTakes(m)
  \/ \E s \in Syncs : SyncStep(s)
  \/ \E o \in Outs : RecordSentCopy(o)
  \/ \E p \in Storers : Ingest(p)
  \/ \E d \in Deleters : LocalDelete(d)
  \/ \E u \in Clients : \/ \E i \in Ids, act \in {"hold", "unhold", "other"} :
                             EditRead(u, i, act)
                        \/ EditWrite(u)
                        \/ \E i \in Ids : DeleteCall(u, i)
  \/ \E t \in Tokens : \/ RequestServerDelete(t) \/ ExpireApproval(t)
                       \/ \E S \in SUBSET Inbox : ServerDelete(t, S)
                       \/ ServerSession(t)
  \/ Failure

Spec == Init /\ [][Next]_vars

(* The scheduler starts syncs again and again, a sync that runs goes on, and *)
(* scheduled syncs never skip the Sent folder.                               *)
Fairness ==
  /\ \A s \in Syncs : /\ WF_vars(SyncStep(s)) /\ SF_vars(SyncSent(s))
                      /\ WF_vars(Ingest(s)) /\ WF_vars(LocalDelete(s))
  /\ \A d \in Clients : WF_vars(LocalDelete(d))

FairSpec == Spec /\ Fairness

-----------------------------------------------------------------------------
(* Properties.                                                               *)

MailType == [live : BOOLEAN, raw : Raws, box : {"inbox", "sent"},
             refs : SUBSET Objects, hold : BOOLEAN]

SyncType ==
  [pc : {"idle", "next", "fetch", "hash", "sentcopy", "fallback", "put", "mark",
         "markdup", "rules", "wait", "done"},
   box : {"inbox", "sent"}, todo : SUBSET Remote, fetched : 0..MaxPerSync,
   sizes : BOOLEAN, src : Sources, puts : SUBSET Objects, refs : SUBSET Objects,
   id : Ids]

DeleteType == [pc : {"idle", "check", "tx", "purge"}, id : Ids,
               orphans : SUBSET Objects]

EditType == [pc : {"idle", "write"}, id : Ids, asks : BOOLEAN, hold : BOOLEAN]

SessionType ==
  [pc : {"idle", "verify", "dele", "quit", "done"}, want : SUBSET Inbox,
   marked : SUBSET Inbox, deleted : SUBSET Inbox, uncertain : SUBSET Inbox]

TypeOK ==
  /\ protocol \in Protocols
  /\ server \in [Remote -> {"none", "here", "gone", "taken"}]
  /\ flagged \subseteq Inbox /\ foreign \subseteq Inbox
  /\ mail \in [Ids -> MailType]
  /\ cps \subseteq Sources \cup Raws
  /\ objects \subseteq Objects /\ overlap \subseteq Objects
  /\ io \in [Storers -> SyncType]
  /\ del \in [Deleters -> DeleteType]
  /\ edit \in [Clients -> EditType]
  /\ approval \in [Tokens -> [status : {"none", "pending", "used", "expired"},
                              uidls : SUBSET Inbox]]
  /\ sd \in [Tokens -> SessionType]
  /\ kept \subseteq Raws /\ keptSent \subseteq kept
  /\ held \subseteq Ids
  /\ faults \in 0..MaxFaults

(* The content was stored at some time; for sent mail a copy with the same   *)
(* Message-ID is as good.                                                    *)
Kept(m) ==
  \/ Raw[m] \in kept
  \/ m \notin Inbox /\ \E c \in keptSent : MsgId[c] = MsgId[Raw[m]]

(* A message is passed over as seen only if it was kept: no interleaving of  *)
(* syncs, crashes and failed statements makes a sync forget mail ("an        *)
(* interruption never loses ... mail", ingestOne).                           *)
CheckpointedWasKept ==
  /\ \A m \in Sources : m \in cps => Kept(m)
  /\ cps \cap Raws \subseteq kept

(* Every object a message refers to is on disk, unless a delete gave the     *)
(* object up while an ingest had already put it and not yet inserted its     *)
(* message (DeleteMessage, Objects.Put): deletes of finished messages never  *)
(* take shared content away.                                                 *)
ObjectsBackMail ==
  \A i \in Live : mail[i].refs \subseteq objects \cup overlap

(* Mail that may be deleted on the server: seen, and on a list that was      *)
(* approved and used.                                                        *)
Sanctioned ==
  {m \in cps : \E t \in Tokens : approval[t].status = "used" /\ m \in approval[t].uidls}

(* Postra takes off the server only mail that was listed in an approval and  *)
(* then consumed, and that a sync had seen (ServerDelete), or that another   *)
(* client had flagged for deletion: EXPUNGE does not tell them apart.        *)
DeletesApproved ==
  \A m \in Remote : server[m] = "gone" => m \in Sanctioned \cup foreign

Left == {"gone", "taken"}

(* On POP3 a message reported as deleted has left the server: QUIT answers   *)
(* for it.                                                                   *)
Pop3ReportTrue ==
  protocol \in {"pop3", "nolist"}
    => \A t \in Tokens : \A m \in sd[t].deleted : server[m] \in Left

(* What ServerDelete's comments say: exactly the approved UIDLs are deleted, *)
(* unsaved mail never. What another IMAP client flagged goes with them,      *)
(* approved or not, saved or not.                                            *)
ExactlyApproved == \A m \in Remote : server[m] = "gone" => m \in Sanctioned

(* What ServerDelete's comment says: an unclear outcome is reported as       *)
(* uncertain rather than assumed deleted. On IMAP the error of EXPUNGE is    *)
(* dropped, so the report says deleted and the message stays.                *)
DeletedIsGone ==
  \A t \in Tokens : \A m \in sd[t].deleted : server[m] \in Left

(* What ServerDelete's comment says: local storage is verified again, so     *)
(* unsaved mail is never deleted. The check reads checkpoints, and those     *)
(* outlive the message: mail deleted locally, by its owner or by a rule,     *)
(* counts as saved.                                                          *)
VerifiedIsStored ==
  [][\A t \in Tokens : sd[t].pc = "verify" /\ sd'[t].pc = "dele" =>
       \A m \in sd'[t].want : \E i \in Live : mail[i].raw = Raw[m]]_vars

(* What LocalDelete's comment says: a message under legal hold is never      *)
(* deleted locally. The hold is read before the transaction that deletes,    *)
(* and every batch action or rule writes back the hold it read earlier.      *)
HeldIsKept ==
  [][\A i \in held : mail[i].live => mail'[i].live]_vars

(* Newest first reaches the oldest: not without UIDLs, where each sync       *)
(* spends its limit on the newest mail again, and where LIST is refused only *)
(* if the oversize messages, fetched and counted every time, leave a part of *)
(* the limit.                                                                *)
ReachesOldest ==
  CASE protocol = "list"   -> FALSE
    [] protocol = "nolist" -> MaxPerSync = 0 \/ Cardinality(Oversize) < MaxPerSync
    [] OTHER               -> TRUE

(* Mail on the server is kept in the end, though every sync may stop at its  *)
(* limit, skip or fail: newest first does not starve the oldest (runSync),   *)
(* on the servers where it can reach it.                                     *)
EverythingFetched ==
  \A m \in Remote \ Oversize :
    server[m] = "here" /\ ReachesOldest ~> Kept(m) \/ server[m] # "here"

-----------------------------------------------------------------------------
(* The inductive invariant behind the safety properties, in named parts.     *)

(* An ingest is under way.                                                   *)
Busy == {"fetch", "hash", "sentcopy", "fallback", "put", "mark", "markdup", "rules"}

(* An ingest was begun within the limit, and works on the folder it says.    *)
FolderInv ==
  \A p \in Storers : LET q == io[p] IN
    /\ q.pc \in Busy /\ MaxPerSync > 0 => q.fetched < MaxPerSync
    /\ q.box = "sent" => q.todo \cap Inbox = {} /\ (q.pc \in Busy => q.src \notin Inbox)
    /\ q.pc = "sentcopy" => q.box = "sent"
    /\ q.pc = "fallback" => protocol = "list"

(* What is stored, and what an ingest is about to mark as seen, was kept.    *)
KeptInv ==
  /\ CheckpointedWasKept
  /\ \A i \in Live : mail[i].raw \in kept /\ (mail[i].box = "sent" => mail[i].raw \in keptSent)
  /\ \A p \in Storers : LET m == io[p].src IN
       /\ io[p].pc = "mark" => Raw[m] \in kept
       /\ io[p].pc = "markdup" => Kept(m) /\ (protocol = "list" => Raw[m] \in kept)

(* What an ingest has put is on disk. What a delete is about to remove is of *)
(* no use to a message or an ingest, or it is in overlap.                    *)
ObjectInv ==
  /\ ObjectsBackMail
  /\ \A p \in Storers : io[p].pc = "put" => io[p].refs \ io[p].puts \subseteq objects \cup overlap
  /\ \A d \in Deleters : \A b \in del[d].orphans \ overlap :
       ~ReliedOn(b) /\ \A i \in Live : b \notin mail[i].refs

SessionInv ==
  /\ DeletesApproved /\ Pop3ReportTrue
  /\ flagged \subseteq Sanctioned \cup foreign
  /\ \A t \in Tokens : LET q == sd[t] IN
       /\ q.pc \in {"verify", "dele", "quit"} => approval[t].status = "used" /\ q.want \subseteq approval[t].uidls
       /\ q.pc \in {"dele", "quit"} => q.want \subseteq cps
       /\ q.marked \subseteq Sanctioned /\ \A m \in q.marked : server[m] # "none"

MailInv == TypeOK /\ FolderInv /\ KeptInv /\ ObjectInv /\ SessionInv
=============================================================================
