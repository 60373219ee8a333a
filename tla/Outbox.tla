------------------------------- MODULE Outbox -------------------------------
(* The send path of Postra: drafts and their versions, one-time approvals,  *)
(* concurrent mail_send requests, the outbound table and the retry worker    *)
(* (internal/application/send.go, scheduler.go, compose.go and the drafts,   *)
(* approvals and outbound tables of the store).                              *)
(*                                                                           *)
(* Every statement or transaction that writes, and every check whose answer  *)
(* another actor may change before it is used, is a step of its own, so      *)
(* requests, the worker, edits and administrators interleave between them.   *)
(* Reads of a draft and of its account that follow each other are one step:  *)
(* the writes that could fall between them commute. Time                     *)
(* is abstracted to the events it causes: a token expires, a backoff         *)
(* elapses, sent rows leave the rate window.                                 *)
EXTENDS Naturals, FiniteSets

CONSTANTS
  Drafts,         \* draft ids
  Users,          \* user ids; each owns one mail account
  LocalUser,      \* the id userIDFrom answers when no principal is attached
  Owner,          \* Owner[d]: the user a draft belongs to
  Emails,         \* values of the account's From address
  Texts,          \* subject, body, recipients and attachments of a version
  Text,           \* Text[d][v]: what version v of draft d says
  Tokens,         \* approval tokens
  Reqs,           \* mail_send requests; a request creates at most one row
  Workers,        \* retry workers, one per replica
  ClientKeys,     \* idempotency keys chosen by clients
  MaxRetries,     \* send.max_retries, as configured
  MaxPerWindow,   \* send.max_per_minute / max_per_hour, 0 = unlimited
  MaxVersion,     \* bound: versions of one draft
  MaxChanges,     \* bound: account and policy changes
  MaxFaults,      \* bound: aborted requests, crashes and failed statements
  MaxMoves        \* bound: how often a leader loses its leadership

ASSUME ConstantsAssumption ==
  /\ Drafts # {} /\ Tokens # {} /\ Reqs # {} /\ Emails # {}
  /\ LocalUser \in Users
  /\ Owner \in [Drafts -> Users]
  /\ MaxVersion \in Nat \ {0}
  /\ Text \in [Drafts -> [1..MaxVersion -> Texts]]
  /\ Reqs \cap Workers = {}
  /\ {MaxRetries, MaxPerWindow, MaxChanges, MaxFaults, MaxMoves} \subseteq Nat

VARIABLES
  draft,       \* [Drafts -> status and current version]
  discarding,  \* drafts whose DiscardDraft has read the status, not yet written
  account,     \* [Users -> status and From address]
  editing,     \* account edits: the row as read and changed, not yet written
  policy,      \* what enforceSendPolicy and the DLP gate say of the messages
  approval,    \* [Tokens -> status and the payload hash it is bound to]
  req,         \* [Reqs -> the local state of a Send call]
  row,         \* [Reqs -> the outbound_messages row the request created]
  att,         \* [Procs -> the delivery attempt a request or worker is making]
  batch,       \* [Workers -> due rows listed and not yet taken]
  leading,     \* replicas whose IsLeader() answers true
  wire,        \* messages an SMTP server accepted
  accepted,    \* [Reqs -> how often the row's message was accepted]
  unrecorded,  \* [Reqs -> attempts on the row whose result was never stored]
  misread,     \* rows failed although the server took the message
  copies,      \* rows whose message was kept as sent mail
  changes, faults, moves  \* use of the bounds

draftVars == <<draft, discarding>>
adminVars == <<account, editing, policy, changes>>
sendVars  == <<req, row, att, batch>>
history   == <<wire, accepted, unrecorded, misread, copies>>
leadVars  == <<leading, moves>>

vars == <<draftVars, adminVars, approval, sendVars, history, leadVars, faults>>

-----------------------------------------------------------------------------
(* The data.                                                                 *)

Versions == 1..MaxVersion

Procs == Reqs \cup Workers

(* sendPayloadHash: equal hashes mean equal payloads. The digest binds the   *)
(* account, its From address, the text and the version number; it does not   *)
(* bind the draft id.                                                        *)
Payloads == [account : Users, email : Emails, version : Versions, text : Texts]

Payload(d, v, e) ==
  [account |-> Owner[d], email |-> e, version |-> v, text |-> Text[d][v]]

DefaultKey(d, v) == <<d, v>>

Keys == ClientKeys \cup (Drafts \X Versions)

MaxAttempts == IF MaxRetries = 0 THEN 1 ELSE MaxRetries

Terminal == {"sent", "failed", "uncertain"}

RowStatus == {"none", "queued", "retry_wait"} \cup Terminal

Results == {"ok", "temporary", "permanent", "uncertain"}

Draft0   == CHOOSE d \in Drafts : TRUE
Email0   == CHOOSE e \in Emails : TRUE
Token0   == CHOOSE t \in Tokens : TRUE
Req0     == CHOOSE r \in Reqs : TRUE
Payload0 == Payload(Draft0, 1, Email0)

IdleAttempt ==
  [pc |-> "idle", row |-> Req0, attempts |-> 0, payload |-> Payload0,
   result |-> "ok", fallback |-> FALSE]

Init ==
  /\ draft = [d \in Drafts |-> [status |-> "open", version |-> 1]]
  /\ discarding = {}
  /\ account = [u \in Users |-> [status |-> "active", email |-> Email0]]
  /\ editing = {}
  /\ policy = "open"
  /\ approval = [t \in Tokens |-> [status |-> "none", hash |-> Payload0]]
  /\ req = [r \in Reqs |-> [pc |-> "idle", draft |-> Draft0, version |-> 1,
                            email |-> Email0, key |-> DefaultKey(Draft0, 1),
                            token |-> Token0, granted |-> FALSE]]
  /\ row = [r \in Reqs |-> [status |-> "none", draft |-> Draft0, version |-> 1,
                            key |-> DefaultKey(Draft0, 1), attempts |-> 0,
                            due |-> FALSE]]
  /\ att = [p \in Procs |-> IdleAttempt]
  /\ batch = [w \in Workers |-> {}]
  /\ leading = {}
  /\ wire = {}
  /\ accepted = [r \in Reqs |-> 0]
  /\ unrecorded = [r \in Reqs |-> 0]
  /\ misread = {}
  /\ copies = {}
  /\ changes = 0 /\ faults = 0 /\ moves = 0

-----------------------------------------------------------------------------
(* Drafts.                                                                   *)

(* UpdateDraft, RewriteDraft, AddDraftAttachment, RemoveDraftAttachment:     *)
(* AddDraftVersion re-checks status='open' inside its transaction.           *)
UpdateDraft(d) ==
  /\ draft[d].status = "open"
  /\ draft[d].version < MaxVersion
  /\ draft' = [draft EXCEPT ![d].version = @ + 1]
  /\ UNCHANGED <<discarding, adminVars, approval, sendVars, history, leadVars,
                 faults>>

(* DiscardDraft reads the draft and refuses a sent one ...                   *)
DiscardCheck(d) ==
  /\ d \notin discarding
  /\ draft[d].status # "sent"
  /\ discarding' = discarding \cup {d}
  /\ UNCHANGED <<draft, adminVars, approval, sendVars, history, leadVars, faults>>

(* ... and then writes the status, whatever it has become.                   *)
DiscardWrite(d) ==
  /\ d \in discarding
  /\ discarding' = discarding \ {d}
  /\ draft' = [draft EXCEPT ![d].status = "discarded"]
  /\ UNCHANGED <<adminVars, approval, sendVars, history, leadVars, faults>>

-----------------------------------------------------------------------------
(* Accounts and policy.                                                      *)

(* UpdateAccount reads the account, refuses a deleted one and sets the From  *)
(* address or the status on its copy ...                                     *)
UpdateAccountRead(u) ==
  /\ changes < MaxChanges
  /\ account[u].status # "deleted"
  /\ \E s \in {account[u].status, "active", "disabled"}, e \in Emails :
       editing' = editing \cup
                    {[user |-> u, row |-> [status |-> s, email |-> e]]}
  /\ changes' = changes + 1
  /\ UNCHANGED <<draftVars, account, policy, approval, sendVars, history,
                 leadVars, faults>>

(* ... and writes every column of the copy back, whatever the row has become:*)
(* an account deleted meanwhile comes back.                                  *)
UpdateAccountWrite(x) ==
  /\ account' = [account EXCEPT ![x.user] = x.row]
  /\ editing' = editing \ {x}
  /\ UNCHANGED <<draftVars, policy, changes, approval, sendVars, history,
                 leadVars, faults>>

(* SetAccountStatus: DisableAccount, DeleteAccount, and the sync whose login *)
(* is refused (credential_error, which the send path treats as disabled).    *)
SetAccountStatus(u, s) ==
  /\ changes < MaxChanges
  /\ account[u].status # s
  /\ account' = [account EXCEPT ![u].status = s]
  /\ changes' = changes + 1
  /\ UNCHANGED <<draftVars, editing, policy, approval, sendVars, history,
                 leadVars, faults>>

(* An administrator changes the send policy: "closed" refuses the messages   *)
(* (enforceSendPolicy), "dlp" blocks what leaves the organisation            *)
(* (enforceDLP).                                                             *)
Policies == {"open", "dlp", "closed"}

SetPolicy ==
  /\ changes < MaxChanges
  /\ policy' \in Policies \ {policy}
  /\ changes' = changes + 1
  /\ UNCHANGED <<draftVars, account, editing, approval, sendVars, history,
                 leadVars, faults>>

-----------------------------------------------------------------------------
(* Approvals.                                                                *)

(* RequestSendApproval: PreviewSend hashes the current version and Issue     *)
(* stores the hash under a fresh token. The draft's status is not checked;   *)
(* a deleted account and the send policy are; what DLP would block is only a *)
(* warning in the preview.                                                   *)
RequestSendApproval(d, t) ==
  LET u == Owner[d] IN
  /\ approval[t].status = "none"
  /\ account[u].status # "deleted"
  /\ policy # "closed"
  /\ approval' = [approval EXCEPT ![t] =
       [status |-> "pending",
        hash   |-> Payload(d, draft[d].version, account[u].email)]]
  /\ UNCHANGED <<draftVars, adminVars, sendVars, history, leadVars, faults>>

(* The clock passes expires_at.                                              *)
ExpireApproval(t) ==
  /\ approval[t].status = "pending"
  /\ approval' = [approval EXCEPT ![t].status = "expired"]
  /\ UNCHANGED <<draftVars, adminVars, sendVars, history, leadVars, faults>>

-----------------------------------------------------------------------------
(* Send: one step per store call, in the order of the code.                  *)

(* GetDraft, GetAccount and the checks on the copies just read. The version  *)
(* and the account are those copies from here to the end of the call.        *)
SendStart(r, d, t, k) ==
  LET u == Owner[d] IN
  /\ req[r].pc = "idle"
  /\ account[u].status = "active"
  /\ policy = "open"
  /\ req' = [req EXCEPT ![r] =
       [pc |-> "lookup", draft |-> d, version |-> draft[d].version,
        email |-> account[u].email, key |-> k, token |-> t,
        granted |-> FALSE]]
  /\ UNCHANGED <<draftVars, adminVars, approval, row, att, batch, history,
                 leadVars, faults>>

(* GetOutboundByIdemKey is scoped to the user: a replay answers with the     *)
(* original outcome.                                                         *)
Replayed(r) ==
  \E q \in Reqs : /\ row[q].status # "none"
                  /\ row[q].key = req[r].key
                  /\ Owner[row[q].draft] = Owner[req[r].draft]

SendLookup(r) ==
  /\ req[r].pc = "lookup"
  /\ req' = [req EXCEPT ![r].pc = IF Replayed(r) THEN "done" ELSE "rate"]
  /\ UNCHANGED <<draftVars, adminVars, approval, row, att, batch, history,
                 leadVars, faults>>

(* CountSentSince: rows of the account with status 'sent', of which the      *)
(* window may hold all or some.                                              *)
SentRows(u) ==
  {q \in Reqs : row[q].status = "sent" /\ Owner[row[q].draft] = u}

RateAllows(n) == MaxPerWindow = 0 \/ n < MaxPerWindow

SendRate(r) ==
  /\ req[r].pc = "rate"
  /\ \E recent \in SUBSET SentRows(Owner[req[r].draft]) :
       req' = [req EXCEPT ![r].pc =
                 IF RateAllows(Cardinality(recent)) THEN "consume" ELSE "done"]
  /\ UNCHANGED <<draftVars, adminVars, approval, row, att, batch, history,
                 leadVars, faults>>

(* ConsumeApproval: pending, unexpired and bound to this hash, flipped to    *)
(* 'used' in the same transaction.                                           *)
RequestHash(r) == Payload(req[r].draft, req[r].version, req[r].email)

\* Mutant: a used token still passes.
ConsumableAgain(t, h) == approval[t].status # "none" /\ approval[t].hash = h

Consumable(t, h) == approval[t].status = "pending" /\ approval[t].hash = h

SendConsume(r) ==
  /\ req[r].pc = "consume"
  /\ Consumable(req[r].token, RequestHash(r))
  /\ approval' = [approval EXCEPT ![req[r].token].status = "used"]
  /\ req' = [req EXCEPT ![r].pc = "create", ![r].granted = TRUE]
  /\ UNCHANGED <<draftVars, adminVars, row, att, batch, history, leadVars,
                 faults>>

SendRefused(r) ==
  /\ req[r].pc = "consume"
  /\ ~Consumable(req[r].token, RequestHash(r))
  /\ req' = [req EXCEPT ![r].pc = "done"]
  /\ UNCHANGED <<draftVars, adminVars, approval, row, att, batch, history,
                 leadVars, faults>>

(* CreateOutbound: the idempotency key is UNIQUE over all users.             *)
KeyTaken(k) == \E q \in Reqs : row[q].status # "none" /\ row[q].key = k

NewRow(r) ==
  [status |-> "queued", draft |-> req[r].draft, version |-> req[r].version,
   key |-> req[r].key, attempts |-> 0, due |-> FALSE]

FirstAttempt(r) ==
  [pc |-> "gate", row |-> r, attempts |-> 0, payload |-> RequestHash(r),
   result |-> "ok", fallback |-> FALSE]

SendCreate(r) ==
  /\ req[r].pc = "create"
  /\ ~KeyTaken(req[r].key)
  /\ row' = [row EXCEPT ![r] = NewRow(r)]
  /\ req' = [req EXCEPT ![r].pc = "deliver"]
  /\ att' = [att EXCEPT ![r] = FirstAttempt(r)]
  /\ UNCHANGED <<draftVars, adminVars, approval, batch, history, leadVars,
                 faults>>

(* On a conflict the call fails, with its token already used.                *)
SendConflict(r) ==
  /\ req[r].pc = "create"
  /\ KeyTaken(req[r].key)
  /\ req' = [req EXCEPT ![r].pc = "done"]
  /\ UNCHANGED <<draftVars, adminVars, approval, row, att, batch, history,
                 leadVars, faults>>

-----------------------------------------------------------------------------
(* deliver and applySendResult, run by a request or by the worker.           *)

(* The checks before SMTP: policy and DLP again, attachments, MIME, secret.  *)
DeliverGate(p) ==
  /\ att[p].pc = "gate"
  /\ policy = "open"
  /\ att' = [att EXCEPT ![p].pc = "smtp"]
  /\ UNCHANGED <<draftVars, adminVars, approval, req, row, batch, history,
                 leadVars, faults>>

\* Mutant: the error of a failed check is dropped.
DeliverRefusedSilently(p) ==
  /\ att[p].pc = "gate"
  /\ att' = [att EXCEPT ![p].pc = "record", ![p].result = "ok"]
  /\ UNCHANGED <<draftVars, adminVars, approval, req, row, batch, history,
                 leadVars, faults>>

(* Any of them may fail, and fails the attempt permanently.                  *)
DeliverRefused(p) ==
  /\ att[p].pc = "gate"
  /\ att' = [att EXCEPT ![p].pc = "record", ![p].result = "permanent"]
  /\ UNCHANGED <<draftVars, adminVars, approval, req, row, batch, history,
                 leadVars, faults>>

(* The server takes the message.                                             *)
Accept(p) ==
  /\ wire' = wire \cup {[row |-> att[p].row, payload |-> att[p].payload,
                         fallback |-> att[p].fallback]}
  /\ accepted' = [accepted EXCEPT ![att[p].row] = @ + 1]

(* A confirmed delivery, kept as sent mail (recordSentCopy: a failure there  *)
(* is logged, and the Message-ID makes a repeat harmless).                   *)
SmtpAccepted(p) ==
  /\ att[p].pc = "smtp"
  /\ Accept(p)
  /\ att' = [att EXCEPT ![p].pc = "record", ![p].result = "ok"]
  /\ \/ /\ copies' = copies \cup {att[p].row}
        /\ UNCHANGED faults
     \/ /\ faults < MaxFaults /\ faults' = faults + 1
        /\ UNCHANGED copies
  /\ UNCHANGED <<draftVars, adminVars, approval, req, row, batch, unrecorded,
                 misread, leadVars>>

(* The connection is lost after the payload: the server may have taken it.   *)
SmtpUncertain(p) ==
  /\ att[p].pc = "smtp"
  /\ Accept(p) \/ UNCHANGED <<wire, accepted>>
  /\ att' = [att EXCEPT ![p].pc = "record", ![p].result = "uncertain"]
  /\ UNCHANGED <<draftVars, adminVars, approval, req, row, batch, unrecorded,
                 misread, copies, leadVars, faults>>

(* The reply to the final dot is damaged in a way isConnectionLost does not  *)
(* recognise: a plain error, so the attempt fails although the server has    *)
(* the message.                                                              *)
SmtpMisread(p) ==
  /\ att[p].pc = "smtp"
  /\ Accept(p)
  /\ misread' = misread \cup {att[p].row}
  /\ att' = [att EXCEPT ![p].pc = "record", ![p].result = "permanent"]
  /\ UNCHANGED <<draftVars, adminVars, approval, req, row, batch, unrecorded,
                 copies, leadVars, faults>>

(* A 4xx reply or a network error before the end of DATA is temporary; a 5xx *)
(* reply, a rejected login and any reply to the final dot but 250 are        *)
(* permanent.                                                                *)
SmtpFailed(p) ==
  /\ att[p].pc = "smtp"
  /\ \E res \in {"temporary", "permanent"} :
       att' = [att EXCEPT ![p].pc = "record", ![p].result = res]
  /\ UNCHANGED <<draftVars, adminVars, approval, req, row, batch, history,
                 leadVars, faults>>

\* Mutant: one retry too many.
SettledStatusExtraRetry(n, res) ==
  IF res = "ok" THEN "sent"
  ELSE IF res = "uncertain" THEN "uncertain"
  ELSE IF res = "temporary" /\ n <= MaxAttempts THEN "retry_wait"
  ELSE "failed"

\* Mutant: a lost response counts as delivered.
SettledStatusOptimistic(n, res) ==
  IF res \in {"ok", "uncertain"} THEN "sent"
  ELSE IF res = "temporary" /\ n < MaxAttempts THEN "retry_wait"
  ELSE "failed"

\* Mutant: a lost response is retried.
SettledStatusRetriesUncertain(n, res) ==
  IF res = "ok" THEN "sent"
  ELSE IF res # "permanent" /\ n < MaxAttempts THEN "retry_wait"
  ELSE "failed"

(* applySendResult: a temporary failure goes back to the queue while         *)
(* attempts remain, an uncertain result never does.                          *)
SettledStatus(n, res) ==
  IF res = "ok" THEN "sent"
  ELSE IF res = "uncertain" THEN "uncertain"
  ELSE IF res = "temporary" /\ n < MaxAttempts THEN "retry_wait"
  ELSE "failed"

SettledRow(o, n, res) ==
  [o EXCEPT !.status = SettledStatus(n, res), !.attempts = n, !.due = FALSE]

(* Whose drafts SetDraftStatus reaches: a request acts as its user, the      *)
(* worker carries no principal and acts as the local user.                   *)
ActsFor(p, u) == p \in Reqs \/ u = LocalUser

(* A request returns after its attempt; the worker goes on.                  *)
Finish(p) == IF p \in Reqs THEN [req EXCEPT ![p].pc = "done"] ELSE req

(* The outcome is stored: UpdateOutbound or MarkOutboundRetry. After a       *)
(* delivery the draft is still to be marked.                                 *)
ApplySendResult(p) ==
  LET a == att[p] IN
  /\ a.pc = "record"
  /\ row' = [row EXCEPT ![a.row] = SettledRow(@, a.attempts + 1, a.result)]
  /\ att' = [att EXCEPT ![p] = IF a.result = "ok" THEN [a EXCEPT !.pc = "mark"]
                                                 ELSE IdleAttempt]
  /\ req' = Finish(p)
  /\ UNCHANGED <<draftVars, adminVars, approval, batch, history, leadVars,
                 faults>>

(* SetDraftStatus, whose error is ignored.                                   *)
MarkDraftSent(p) ==
  LET d == row[att[p].row].draft IN
  /\ att[p].pc = "mark"
  /\ att' = [att EXCEPT ![p] = IdleAttempt]
  /\ \/ /\ draft' = IF ActsFor(p, Owner[d])
                    THEN [draft EXCEPT ![d].status = "sent"] ELSE draft
        /\ UNCHANGED faults
     \/ /\ faults < MaxFaults /\ faults' = faults + 1
        /\ UNCHANGED draft
  /\ UNCHANGED <<discarding, adminVars, approval, req, row, batch, history,
                 leadVars>>

(* An attempt whose outcome is not stored yet.                               *)
Active(p) == att[p].pc \in {"gate", "smtp", "record"}

(* The outcome is lost: the request's context is cancelled or its process    *)
(* dies, or the statement fails and the error is dropped, in which case a    *)
(* delivered draft is still marked.                                          *)
LoseResult(p) ==
  /\ Active(p)
  /\ faults < MaxFaults
  /\ faults' = faults + 1
  /\ unrecorded' = [unrecorded EXCEPT ![att[p].row] = @ + 1]
  /\ \/ att' = [att EXCEPT ![p] = IdleAttempt]
     \/ /\ att[p].pc = "record" /\ att[p].result = "ok"
        /\ att' = [att EXCEPT ![p].pc = "mark"]
  /\ req' = Finish(p)
  /\ UNCHANGED <<draftVars, adminVars, approval, row, batch, wire, accepted,
                 misread, copies, leadVars>>

(* A request ends before it reaches delivery.                                *)
AbortSend(r) ==
  /\ req[r].pc \in {"lookup", "rate", "consume", "create"}
  /\ faults < MaxFaults
  /\ faults' = faults + 1
  /\ req' = [req EXCEPT ![r].pc = "done"]
  /\ UNCHANGED <<draftVars, adminVars, approval, row, att, batch, history,
                 leadVars>>

-----------------------------------------------------------------------------
(* The retry worker.                                                         *)

(* next_attempt_at passes.                                                   *)
BackoffElapses(r) ==
  /\ row[r].status = "retry_wait" /\ ~row[r].due
  /\ row' = [row EXCEPT ![r].due = TRUE]
  /\ UNCHANGED <<draftVars, adminVars, approval, req, att, batch, history,
                 leadVars, faults>>

\* Mutant: rows still being delivered by their request are listed too.
DueRowsUnfinished == {r \in Reqs : row[r].status \in {"queued", "retry_wait"}}

\* Mutant: the last retry of the budget is never listed.
DueRowsShort ==
  {r \in Reqs : /\ row[r].status = "retry_wait" /\ row[r].due
               /\ row[r].attempts + 1 < MaxAttempts}

(* ListDueRetries.                                                           *)
DueRows == {r \in Reqs : row[r].status = "retry_wait" /\ row[r].due}

(* A tick of RunRetryWorker: IsLeader is read once, the due rows are copied. *)
WorkerTick(w) ==
  /\ w \in leading
  /\ att[w].pc = "idle" /\ batch[w] = {}
  /\ DueRows # {}
  /\ batch' = [batch EXCEPT ![w] =
                 {[row |-> r, attempts |-> row[r].attempts] : r \in DueRows}]
  /\ UNCHANGED <<draftVars, adminVars, approval, req, row, att, history,
                 leadVars, faults>>

(* The next row of the batch: draft, version and account as they are now.    *)
(* Neither the row nor the account's status is looked at again.              *)
RetryAttempt(o, v, fb) ==
  LET d == row[o.row].draft IN
  [pc |-> "gate", row |-> o.row, attempts |-> o.attempts,
   payload |-> Payload(d, v, account[Owner[d]].email),
   result |-> "ok", fallback |-> fb]

\* Mutant: the current version of the draft is retried.
WorkerTakeCurrent(w) ==
  /\ att[w].pc = "idle"
  /\ \E o \in batch[w] :
       /\ batch' = [batch EXCEPT ![w] = @ \ {o}]
       /\ att' = [att EXCEPT ![w] =
                    RetryAttempt(o, draft[row[o.row].draft].version, FALSE)]
  /\ UNCHANGED <<draftVars, adminVars, approval, req, row, history, leadVars,
                 faults>>

WorkerTake(w) ==
  /\ att[w].pc = "idle"
  /\ \E o \in batch[w] :
       /\ batch' = [batch EXCEPT ![w] = @ \ {o}]
       /\ att' = [att EXCEPT ![w] = RetryAttempt(o, row[o.row].version, FALSE)]
  /\ UNCHANGED <<draftVars, adminVars, approval, req, row, history, leadVars,
                 faults>>

(* GetDraftVersion fails: the worker falls back to the current version.      *)
WorkerFallback(w) ==
  /\ att[w].pc = "idle"
  /\ faults < MaxFaults /\ faults' = faults + 1
  /\ \E o \in batch[w] :
       /\ batch' = [batch EXCEPT ![w] = @ \ {o}]
       /\ att' = [att EXCEPT ![w] =
                    RetryAttempt(o, draft[row[o.row].draft].version, TRUE)]
  /\ UNCHANGED <<draftVars, adminVars, approval, req, row, history, leadVars>>

(* GetDraft or GetAccount fails: the row is failed.                          *)
WorkerUnavailable(w) ==
  /\ att[w].pc = "idle"
  /\ faults < MaxFaults /\ faults' = faults + 1
  /\ \E o \in batch[w] :
       /\ batch' = [batch EXCEPT ![w] = @ \ {o}]
       /\ row' = [row EXCEPT ![o.row] = SettledRow(@, o.attempts, "permanent")]
  /\ UNCHANGED <<draftVars, adminVars, approval, req, att, history, leadVars>>

(* The worker's process dies or its tick panics (guard recovers): the rest   *)
(* of the batch is dropped and stays due.                                    *)
WorkerCrash(w) ==
  /\ batch[w] # {} \/ att[w].pc # "idle"
  /\ faults < MaxFaults /\ faults' = faults + 1
  /\ unrecorded' = IF Active(w) THEN [unrecorded EXCEPT ![att[w].row] = @ + 1]
                                ELSE unrecorded
  /\ att' = [att EXCEPT ![w] = IdleAttempt]
  /\ batch' = [batch EXCEPT ![w] = {}]
  /\ UNCHANGED <<draftVars, adminVars, approval, req, row, wire, accepted,
                 misread, copies, leadVars>>

(* Leadership, as module LeaderLease hands it out: two replicas may both     *)
(* believe they lead for some seconds, and a batch in progress is not        *)
(* interrupted when leadership is lost.                                      *)
GainLeadership(w) ==
  /\ w \notin leading
  /\ leading' = leading \cup {w}
  /\ UNCHANGED <<draftVars, adminVars, approval, sendVars, history, moves,
                 faults>>

LoseLeadership(w) ==
  /\ w \in leading
  /\ moves < MaxMoves
  /\ moves' = moves + 1
  /\ leading' = leading \ {w}
  /\ UNCHANGED <<draftVars, adminVars, approval, sendVars, history, faults>>

-----------------------------------------------------------------------------

Send(r) ==
  \/ \E d \in Drafts, t \in Tokens :
       \E k \in ClientKeys \cup {DefaultKey(d, draft[d].version)} :
         SendStart(r, d, t, k)
  \/ SendLookup(r) \/ SendRate(r) \/ SendConsume(r) \/ SendRefused(r)
  \/ SendCreate(r) \/ SendConflict(r)

Smtp(p) == SmtpAccepted(p) \/ SmtpUncertain(p) \/ SmtpMisread(p) \/ SmtpFailed(p)

(* What a delivery does on its own, without the mail server.                 *)
LocalSteps(p) ==
  \/ DeliverGate(p) \/ DeliverRefused(p)
  \/ ApplySendResult(p) \/ MarkDraftSent(p)

Deliver(p) == LocalSteps(p) \/ Smtp(p)

EditAccount ==
  \/ \E u \in Users : \/ UpdateAccountRead(u)
                      \/ \E s \in {"disabled", "deleted"} : SetAccountStatus(u, s)
  \/ \E x \in editing : UpdateAccountWrite(x)

ProcessRetries(w) ==
  WorkerTick(w) \/ WorkerTake(w) \/ WorkerFallback(w) \/ WorkerUnavailable(w)

Next ==
  \/ \E d \in Drafts : UpdateDraft(d) \/ DiscardCheck(d) \/ DiscardWrite(d)
  \/ EditAccount
  \/ SetPolicy
  \/ \E t \in Tokens : \/ \E d \in Drafts : RequestSendApproval(d, t)
                       \/ ExpireApproval(t)
  \/ \E r \in Reqs : Send(r) \/ AbortSend(r) \/ BackoffElapses(r)
  \/ \E p \in Procs : Deliver(p) \/ LoseResult(p)
  \/ \E w \in Workers :
       \/ ProcessRetries(w) \/ WorkerCrash(w)
       \/ GainLeadership(w) \/ LoseLeadership(w)

Spec == Init /\ [][Next]_vars

(* Requests and the worker keep running until they end or are cut off, time  *)
(* passes, and a leader is elected when there is none. Users, administrators *)
(* and faults are never obliged to act, and neither is the mail server:      *)
(* after the dial the SMTP client sets no deadline.                          *)
Fairness ==
  /\ \A r \in Reqs : WF_vars(BackoffElapses(r))
  /\ \A p \in Procs : WF_vars(LocalSteps(p))
  /\ \A w \in Workers : WF_vars(ProcessRetries(w))
  /\ WF_vars(leading = {} /\ \E w \in Workers : GainLeadership(w))

FairSpec == Spec /\ Fairness

-----------------------------------------------------------------------------
(* Properties.                                                               *)

DraftType == [status : {"open", "sent", "discarded"}, version : Versions]

AccountType == [status : {"active", "disabled", "deleted"}, email : Emails]

ApprovalType ==
  [status : {"none", "pending", "used", "expired"}, hash : Payloads]

ReqType ==
  [pc : {"idle", "lookup", "rate", "consume", "create", "deliver", "done"},
   draft : Drafts, version : Versions, email : Emails, key : Keys,
   token : Tokens, granted : BOOLEAN]

RowType ==
  [status : RowStatus, draft : Drafts, version : Versions, key : Keys,
   attempts : 0..MaxAttempts, due : BOOLEAN]

AttemptType ==
  [pc : {"idle", "gate", "smtp", "record", "mark"}, row : Reqs,
   attempts : 0..(MaxAttempts - 1), payload : Payloads,
   result : Results, fallback : BOOLEAN]

ListedType == [row : Reqs, attempts : 0..(MaxAttempts - 1)]

MessageType == [row : Reqs, payload : Payloads, fallback : BOOLEAN]

TypeOK ==
  /\ draft \in [Drafts -> DraftType]
  /\ discarding \subseteq Drafts
  /\ account \in [Users -> AccountType]
  /\ editing \subseteq [user : Users, row : AccountType]
  /\ policy \in Policies
  /\ approval \in [Tokens -> ApprovalType]
  /\ req \in [Reqs -> ReqType]
  /\ row \in [Reqs -> RowType]
  /\ att \in [Procs -> AttemptType]
  /\ batch \in [Workers -> SUBSET ListedType]
  /\ leading \subseteq Workers
  /\ wire \subseteq MessageType
  /\ accepted \in [Reqs -> Nat]
  /\ unrecorded \in [Reqs -> Nat]
  /\ misread \subseteq Reqs /\ copies \subseteq Reqs
  /\ changes \in 0..MaxChanges /\ faults \in 0..MaxFaults
  /\ moves \in 0..MaxMoves

(* Nothing leaves without an approval: every message a server accepted       *)
(* belongs to a request that consumed a token, and unless the worker fell    *)
(* back to the current version it is the text and version the token was      *)
(* issued for.                                                               *)
ApprovedVersion ==
  \A m \in wire :
    LET q == req[m.row]
        h == approval[q.token].hash
    IN /\ q.granted /\ approval[q.token].status = "used"
       /\ h.account = m.payload.account
       /\ m.fallback \/ (h.version = m.payload.version /\ h.text = m.payload.text)

(* An approval token authorises one request: two requests never hold the     *)
(* same token (ConsumeApproval).                                             *)
OneShotToken ==
  \A r, s \in Reqs :
    req[r].granted /\ req[s].granted /\ req[r].token = req[s].token => r = s

(* A message is accepted twice only if an earlier attempt's result was never *)
(* stored.                                                                   *)
NoUnexplainedDuplicate == \A r \in Reqs : accepted[r] <= 1 + unrecorded[r]

(* The stored outcome is true: 'sent' and a kept copy mean a server accepted *)
(* the message; 'failed' means none did, unless a result was lost or the     *)
(* final reply was damaged.                                                  *)
OutcomeTruthful ==
  \A r \in Reqs :
    /\ row[r].status = "sent" => accepted[r] > 0
    /\ row[r].status = "failed" /\ unrecorded[r] = 0 /\ r \notin misread
         => accepted[r] = 0
    /\ r \in copies => accepted[r] > 0

(* What the comment on sendPayloadHash and the README say of the token: it   *)
(* binds the From address too, so every message is exactly what was          *)
(* approved. The worker reads the account again for each retry, so an        *)
(* address changed while the row waits goes out unapproved.                  *)
ApprovedPayload ==
  \A m \in wire : approval[req[m.row].token].hash = m.payload

(* What the comment on applySendResult says: an uncertain result is never    *)
(* retried automatically. When leadership moves or overlaps, two workers may *)
(* list the same row; neither looks at it again before delivery, so a row    *)
(* one of them has settled as uncertain is sent once more by the other.      *)
UncertainNeverRetried ==
  [][\A r \in Reqs : row[r].status = "uncertain"
                       => accepted'[r] = accepted[r]]_vars

(* A mail server that falls silent in the middle of an exchange.             *)
Held(p) == [](att[p].pc = "smtp")

(* Every accepted send settles, unless its result was lost while the row was *)
(* still 'queued' (nothing recovers a queued row), or a mail server is       *)
(* silent for ever: it holds the request it was given, or the worker and     *)
(* with it every retry that waits for it.                                    *)
EverySendSettles ==
  \A r \in Reqs :
    row[r].status \in {"queued", "retry_wait"}
      ~> \/ row[r].status \in Terminal
         \/ row[r].status = "queued" /\ unrecorded[r] > 0
         \/ Held(r) \/ \E w \in Workers : Held(w)

-----------------------------------------------------------------------------
(* The inductive invariants behind the properties.                           *)

(* A row waiting for a retry has attempts left.                              *)
RetryBudget ==
  \A r \in Reqs : row[r].status = "retry_wait" => row[r].attempts < MaxAttempts

(* A granted request is past ConsumeApproval; its token is used and bound to *)
(* the payload the request read.                                             *)
GrantOK ==
  \A r \in Reqs :
    /\ req[r].granted =>
         /\ req[r].pc \in {"create", "deliver", "done"}
         /\ approval[req[r].token].status = "used"
         /\ approval[req[r].token].hash
              = Payload(req[r].draft, req[r].version, req[r].email)
    /\ req[r].pc \in {"create", "deliver"} => req[r].granted

(* A row belongs to a granted request and repeats its draft, version and key.*)
RowOK ==
  \A r \in Reqs :
    row[r].status # "none" =>
      /\ req[r].granted /\ req[r].pc \in {"deliver", "done"}
      /\ row[r].draft = req[r].draft /\ row[r].version = req[r].version
      /\ row[r].key = req[r].key

(* Workers list existing rows only.                                          *)
ListedOK ==
  \A w \in Workers : \A o \in batch[w] : row[o.row].status # "none"

(* An attempt carries the account of its row's draft and, unless it fell     *)
(* back, the row's version.                                                  *)
AttemptOK ==
  \A p \in Procs :
    att[p].pc # "idle" =>
      LET q == row[att[p].row] IN
      /\ q.status # "none"
      /\ att[p].payload.account = Owner[q.draft]
      /\ \/ att[p].fallback
         \/ /\ att[p].payload.version = q.version
            /\ att[p].payload.text = Text[q.draft][q.version]

(* Who may deliver what, for any number of workers.                          *)
AuthorityInv ==
  OneShotToken /\ GrantOK /\ RowOK /\ ListedOK /\ AttemptOK /\ ApprovedVersion

(* With a single worker every attempt has its row to itself: a request's row *)
(* stays 'queued' while it delivers, the worker's stays 'retry_wait', and    *)
(* the rest of its batch is still waiting with the attempts it was listed    *)
(* with.                                                                     *)
ExclusiveAttempt ==
  /\ \A r \in Reqs :
       Active(r) => /\ att[r].row = r
                    /\ row[r].status = "queued"
                    /\ req[r].pc = "deliver"
  /\ \A w \in Workers :
       /\ Active(w) => row[att[w].row].status = "retry_wait"
       /\ \A o \in batch[w] :
            /\ row[o.row].status = "retry_wait"
            /\ row[o.row].attempts = o.attempts
            /\ Active(w) => o.row # att[w].row
  /\ \A p \in Procs :
       att[p].pc = "record" /\ att[p].result = "ok"
         => \E m \in wire : m.row = att[p].row
  /\ \A r \in Reqs :
       row[r].status = "sent" => \E m \in wire : m.row = r

(* One replica, so one worker.                                               *)
OneWorker == \A v, w \in Workers : v = w

(* While a row is open and no attempt on it has a result that may have       *)
(* reached the server, each acceptance is explained by a lost result.        *)
AttemptsExplained ==
  \A r \in Reqs :
    /\ row[r].status \in {"none", "queued", "retry_wait"}
    /\ \A p \in Procs : att[p].pc = "record" /\ att[p].row = r
                          => att[p].result = "temporary"
    => accepted[r] <= unrecorded[r]

(* A result waiting to be stored says what the server did.                   *)
ResultTrue ==
  \A p \in Procs :
    LET r == att[p].row IN
    att[p].pc = "record" =>
      /\ att[p].result = "ok" => accepted[r] > 0
      /\ att[p].result = "permanent" /\ unrecorded[r] = 0 /\ r \notin misread
           => accepted[r] = 0

(* What one worker and any number of requests know of the deliveries.        *)
DeliveryInv ==
  /\ ExclusiveAttempt /\ AttemptsExplained /\ ResultTrue
  /\ NoUnexplainedDuplicate /\ OutcomeTruthful

-----------------------------------------------------------------------------
(* Outbox implements SendContract.                                           *)

AbstractOutcome(s) == IF s \in {"queued", "retry_wait"} THEN "open" ELSE s

tokenBar     == [t \in Tokens |-> approval[t].status]
holderBar    == [r \in Reqs |-> IF req[r].granted THEN {req[r].token} ELSE {}]
outcomeBar   == [r \in Reqs |-> AbstractOutcome(row[r].status)]
deliveredBar == {m.row : m \in wire}

Contract == INSTANCE SendContract WITH
  token <- tokenBar, holder <- holderBar, outcome <- outcomeBar,
  delivered <- deliveredBar

(* Drafts, versions, retries, crashes and lost results are invisible to the  *)
(* caller of mail_send: with one worker every step is a step of the contract *)
(* or none.                                                                  *)
ImplementsContract == Contract!Spec
=============================================================================
