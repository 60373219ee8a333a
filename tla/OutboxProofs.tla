---------------------------- MODULE OutboxProofs ----------------------------
(* Proofs about Outbox, for every value of its constants.                    *)
EXTENDS Outbox, TLAPS

(* MaxAttempts is a positive number whatever send.max_retries says.          *)
LEMMA MaxAttemptsPositive == MaxAttempts \in Nat /\ MaxAttempts > 0
  BY ConstantsAssumption DEF MaxAttempts

(* The arbitrary members used as defaults are members.                       *)
LEMMA DefaultsTyped ==
  /\ Draft0 \in Drafts /\ Email0 \in Emails /\ Token0 \in Tokens
  /\ Req0 \in Reqs /\ 1 \in Versions
  BY ConstantsAssumption DEF Draft0, Email0, Token0, Req0, Versions

(* sendPayloadHash is defined for every draft, version and address.          *)
LEMMA PayloadTyped ==
  ASSUME NEW d \in Drafts, NEW v \in Versions, NEW e \in Emails
  PROVE  Payload(d, v, e) \in Payloads
  BY ConstantsAssumption DEF Payload, Payloads, Versions

LEMMA KeyTyped ==
  ASSUME NEW d \in Drafts, NEW v \in Versions
  PROVE  DefaultKey(d, v) \in Keys
  BY DEF DefaultKey, Keys

LEMMA IdleAttemptTyped == IdleAttempt \in AttemptType
  BY MaxAttemptsPositive, DefaultsTyped, PayloadTyped
     DEF IdleAttempt, AttemptType, Payload0, Results

(* Field updates keep the records of each table well-formed.                 *)
LEMMA ReqUpdate ==
  ASSUME NEW f \in [Reqs -> ReqType], NEW r \in Reqs,
         NEW x \in {"idle", "lookup", "rate", "consume", "create", "deliver",
                    "done"}
  PROVE  /\ [f EXCEPT ![r].pc = x] \in [Reqs -> ReqType]
         /\ [f EXCEPT ![r].pc = x, ![r].granted = TRUE] \in [Reqs -> ReqType]
  BY DEF ReqType

LEMMA RowUpdate ==
  ASSUME NEW f \in [Reqs -> RowType], NEW r \in Reqs
  PROVE  /\ [f EXCEPT ![r].due = TRUE] \in [Reqs -> RowType]
         /\ \A o \in RowType : [f EXCEPT ![r] = o] \in [Reqs -> RowType]
  BY DEF RowType

LEMMA AttemptUpdate ==
  ASSUME NEW f \in [Procs -> AttemptType], NEW p \in Procs,
         NEW x \in {"idle", "gate", "smtp", "record", "mark"}, NEW res \in Results
  PROVE  /\ [f EXCEPT ![p].pc = x] \in [Procs -> AttemptType]
         /\ [f EXCEPT ![p].pc = x, ![p].result = res] \in [Procs -> AttemptType]
  BY DEF AttemptType

LEMMA DraftUpdate ==
  ASSUME NEW f \in [Drafts -> DraftType], NEW d \in Drafts,
         NEW s \in {"open", "sent", "discarded"}
  PROVE  [f EXCEPT ![d].status = s] \in [Drafts -> DraftType]
  BY DEF DraftType

LEMMA ApprovalUpdate ==
  ASSUME NEW f \in [Tokens -> ApprovalType], NEW t \in Tokens,
         NEW s \in {"none", "pending", "used", "expired"}
  PROVE  [f EXCEPT ![t].status = s] \in [Tokens -> ApprovalType]
  BY DEF ApprovalType

(* A record's fields have the types of its table.                            *)
LEMMA FieldsTyped ==
  /\ \A q \in ReqType : /\ q.draft \in Drafts /\ q.version \in Versions
                        /\ q.email \in Emails /\ q.key \in Keys
                        /\ q.token \in Tokens /\ q.granted \in BOOLEAN
  /\ \A o \in RowType : /\ o.draft \in Drafts /\ o.version \in Versions
                        /\ o.key \in Keys /\ o.attempts \in 0..MaxAttempts
                        /\ o.status \in RowStatus
  /\ \A a \in AttemptType : /\ a.row \in Reqs /\ a.payload \in Payloads
                            /\ a.attempts \in 0..(MaxAttempts - 1)
                            /\ a.result \in Results
                            /\ a.fallback \in BOOLEAN
  /\ \A o \in ListedType : /\ o.row \in Reqs
                           /\ o.attempts \in 0..(MaxAttempts - 1)
  BY DEF ReqType, RowType, AttemptType, ListedType

LEMMA WireTyped ==
  ASSUME TypeOK
  PROVE  \A m \in wire : m.row \in Reqs
  BY DEF TypeOK, MessageType

(* applySendResult leaves a well-formed row, and a row it sends back to the  *)
(* retry queue has attempts left.                                            *)
LEMMA SettledRowTyped ==
  ASSUME NEW o \in RowType, NEW n \in 0..MaxAttempts, NEW res \in Results
  PROVE  /\ SettledRow(o, n, res) \in RowType
         /\ SettledRow(o, n, res).status \in Terminal \cup {"retry_wait"}
         /\ SettledRow(o, n, res).status = "retry_wait"
              => SettledRow(o, n, res).attempts < MaxAttempts
         /\ SettledRow(o, n, res).draft = o.draft
         /\ SettledRow(o, n, res).version = o.version
         /\ SettledRow(o, n, res).key = o.key
         /\ SettledRow(o, n, res).status = "sent" <=> res = "ok"
  BY MaxAttemptsPositive DEF SettledRow, SettledStatus, RowType, RowStatus, Terminal, Results

(* What a request sends, stores and attempts is well-formed.                 *)
LEMMA RequestHashTyped ==
  ASSUME TypeOK, NEW r \in Reqs
  PROVE  RequestHash(r) \in Payloads
  BY FieldsTyped, PayloadTyped DEF RequestHash, TypeOK

LEMMA NewRowTyped ==
  ASSUME TypeOK, NEW r \in Reqs
  PROVE  NewRow(r) \in RowType
  BY MaxAttemptsPositive, FieldsTyped DEF NewRow, TypeOK, RowType, RowStatus

LEMMA FirstAttemptTyped ==
  ASSUME TypeOK, NEW r \in Reqs
  PROVE  FirstAttempt(r) \in AttemptType
  BY RequestHashTyped, MaxAttemptsPositive DEF FirstAttempt, AttemptType, Results

(* So is what the worker attempts, whatever version it takes.                *)
LEMMA RetryAttemptTyped ==
  ASSUME TypeOK, NEW o \in ListedType, NEW v \in Versions, NEW fb \in BOOLEAN
  PROVE  RetryAttempt(o, v, fb) \in AttemptType
  <1>1. /\ o.row \in Reqs /\ o.attempts \in 0..(MaxAttempts - 1)
        /\ row[o.row].draft \in Drafts
    BY FieldsTyped DEF TypeOK
  <1>2. account[Owner[row[o.row].draft]].email \in Emails
    BY <1>1, ConstantsAssumption DEF TypeOK, AccountType
  <1>3. Payload(row[o.row].draft, v, account[Owner[row[o.row].draft]].email)
          \in Payloads
    BY <1>1, <1>2, PayloadTyped
  <1>4. QED
    BY <1>1, <1>3 DEF RetryAttempt, AttemptType, Results

-----------------------------------------------------------------------------
(* Type correctness. RetryBudget makes it inductive: the attempts a worker   *)
(* copies from a waiting row leave room for one more.                        *)

TypeInv == TypeOK /\ RetryBudget

LEMMA TypeInit == Init => TypeInv
  <1> SUFFICES ASSUME Init PROVE TypeInv
    OBVIOUS
  <1>1. TypeOK
    BY ConstantsAssumption, MaxAttemptsPositive, DefaultsTyped, PayloadTyped,
       KeyTyped, IdleAttemptTyped
       DEF Init, TypeOK, DraftType, AccountType, ApprovalType, ReqType,
           RowType, RowStatus, Payload0, Policies
  <1>2. RetryBudget
    BY <1>1 DEF Init, RetryBudget
  <1>3. QED
    BY <1>1, <1>2 DEF TypeInv

LEMMA TypeStep == TypeInv /\ [Next]_vars => TypeInv'
  <1> SUFFICES ASSUME TypeOK, RetryBudget, [Next]_vars
               PROVE  TypeOK' /\ RetryBudget'
    BY DEF TypeInv
  <1>1. ASSUME NEW d \in Drafts, UpdateDraft(d)
       PROVE  TypeOK' /\ RetryBudget'
    <2>1. draft' \in [Drafts -> DraftType]
      BY <1>1, ConstantsAssumption DEF UpdateDraft, TypeOK, DraftType, Versions
    <2>2. TypeOK'
      BY <1>1, <2>1 DEF UpdateDraft, TypeOK, draftVars, adminVars, sendVars,
         history, leadVars
    <2>3. RetryBudget'
      BY <1>1 DEF UpdateDraft, RetryBudget, draftVars, adminVars, sendVars,
         history, leadVars
    <2>4. QED
      BY <2>2, <2>3
  <1>2. ASSUME NEW d \in Drafts, DiscardCheck(d)
       PROVE  TypeOK' /\ RetryBudget'
    <2>1. discarding' \subseteq Drafts
      BY <1>2 DEF DiscardCheck, TypeOK
    <2>2. TypeOK'
      BY <1>2, <2>1 DEF DiscardCheck, TypeOK, draftVars, adminVars, sendVars,
         history, leadVars
    <2>3. RetryBudget'
      BY <1>2 DEF DiscardCheck, RetryBudget, draftVars, adminVars, sendVars,
         history, leadVars
    <2>4. QED
      BY <2>2, <2>3
  <1>3. ASSUME NEW d \in Drafts, DiscardWrite(d)
       PROVE  TypeOK' /\ RetryBudget'
    <2>1. draft' \in [Drafts -> DraftType]
      BY <1>3, DraftUpdate DEF DiscardWrite, TypeOK
    <2>2. discarding' \subseteq Drafts
      BY <1>3 DEF DiscardWrite, TypeOK
    <2>3. TypeOK'
      BY <1>3, <2>1, <2>2 DEF DiscardWrite, TypeOK, draftVars, adminVars,
         sendVars, history, leadVars
    <2>4. RetryBudget'
      BY <1>3 DEF DiscardWrite, RetryBudget, draftVars, adminVars, sendVars,
         history, leadVars
    <2>5. QED
      BY <2>3, <2>4
  <1>4. ASSUME EditAccount
       PROVE  TypeOK' /\ RetryBudget'
    <2>1. /\ account' \in [Users -> AccountType]
          /\ editing' \subseteq [user : Users, row : AccountType]
          /\ changes' \in 0..MaxChanges
      <3>1. ASSUME NEW u \in Users, UpdateAccountRead(u) PROVE <2>1!:
        <4>1. account[u].status \in {"active", "disabled", "deleted"}
          BY DEF TypeOK, AccountType
        <4>2. PICK s \in {account[u].status, "active", "disabled"}, e \in Emails :
                editing' = editing \cup
                             {[user |-> u, row |-> [status |-> s, email |-> e]]}
          BY <3>1 DEF UpdateAccountRead
        <4>3. [user |-> u, row |-> [status |-> s, email |-> e]]
                \in [user : Users, row : AccountType]
          BY <4>1 DEF AccountType
        <4>4. QED
          BY <3>1, <4>2, <4>3, ConstantsAssumption DEF UpdateAccountRead, TypeOK
      <3>2. ASSUME NEW u \in Users, NEW s \in {"disabled", "deleted"},
                   SetAccountStatus(u, s) PROVE <2>1!:
        <4>1. account' \in [Users -> AccountType]
          BY <3>2 DEF SetAccountStatus, TypeOK, AccountType
        <4>2. QED
          BY <3>2, <4>1, ConstantsAssumption DEF SetAccountStatus, TypeOK
      <3>3. ASSUME NEW x \in editing, UpdateAccountWrite(x) PROVE <2>1!:
        <4>1. x \in [user : Users, row : AccountType]
          BY DEF TypeOK
        <4>2. x.user \in Users /\ x.row \in AccountType
          BY <4>1
        <4>3. QED
          BY <3>3, <4>2 DEF UpdateAccountWrite, TypeOK
      <3>4. QED
        BY <1>4, <3>1, <3>2, <3>3 DEF EditAccount
    <2>2. UNCHANGED <<draft, discarding, policy, approval, req, row, att, batch,
                      leading, wire, accepted, unrecorded, misread, copies,
                      faults, moves>>
      BY <1>4 DEF EditAccount, UpdateAccountRead, UpdateAccountWrite,
         SetAccountStatus, draftVars, sendVars, history, leadVars
    <2>3. TypeOK'
      BY <2>1, <2>2 DEF TypeOK
    <2>4. RetryBudget'
      BY <2>2 DEF RetryBudget
    <2>5. QED
      BY <2>3, <2>4
  <1>5. ASSUME SetPolicy
       PROVE  TypeOK' /\ RetryBudget'
    <2>1. policy' \in Policies
      BY <1>5 DEF SetPolicy, TypeOK
    <2>2. changes' \in 0..MaxChanges
      BY <1>5, ConstantsAssumption DEF SetPolicy, TypeOK
    <2>3. TypeOK'
      BY <1>5, <2>1, <2>2 DEF SetPolicy, TypeOK, draftVars, adminVars,
         sendVars, history, leadVars
    <2>4. RetryBudget'
      BY <1>5 DEF SetPolicy, RetryBudget, draftVars, adminVars, sendVars,
         history, leadVars
    <2>5. QED
      BY <2>3, <2>4
  <1>6. ASSUME NEW d \in Drafts, NEW t \in Tokens, RequestSendApproval(d, t)
       PROVE  TypeOK' /\ RetryBudget'
    <2>1. approval' \in [Tokens -> ApprovalType]
      BY <1>6, ConstantsAssumption, PayloadTyped DEF RequestSendApproval,
         TypeOK, ApprovalType, AccountType, DraftType
    <2>2. TypeOK'
      BY <1>6, <2>1 DEF RequestSendApproval, TypeOK, draftVars, adminVars,
         sendVars, history, leadVars
    <2>3. RetryBudget'
      BY <1>6 DEF RequestSendApproval, RetryBudget, draftVars, adminVars,
         sendVars, history, leadVars
    <2>4. QED
      BY <2>2, <2>3
  <1>7. ASSUME NEW t \in Tokens, ExpireApproval(t)
       PROVE  TypeOK' /\ RetryBudget'
    <2>1. approval' \in [Tokens -> ApprovalType]
      BY <1>7, ApprovalUpdate DEF ExpireApproval, TypeOK
    <2>2. TypeOK'
      BY <1>7, <2>1 DEF ExpireApproval, TypeOK, draftVars, adminVars, sendVars,
         history, leadVars
    <2>3. RetryBudget'
      BY <1>7 DEF ExpireApproval, RetryBudget, draftVars, adminVars, sendVars,
         history, leadVars
    <2>4. QED
      BY <2>2, <2>3
  <1>8. ASSUME NEW r \in Reqs, NEW d \in Drafts, NEW t \in Tokens,
              NEW k \in ClientKeys \cup {DefaultKey(d, draft[d].version)},
              SendStart(r, d, t, k)
       PROVE  TypeOK' /\ RetryBudget'
    <2>1. req' \in [Reqs -> ReqType]
      <3>1. k \in Keys
        BY KeyTyped DEF Keys, TypeOK, DraftType
      <3>2. [pc |-> "lookup", draft |-> d, version |-> draft[d].version,
             email |-> account[Owner[d]].email, key |-> k, token |-> t,
             granted |-> FALSE] \in ReqType
        BY <3>1, ConstantsAssumption DEF TypeOK, ReqType, AccountType,
           DraftType
      <3>3. QED
        BY <1>8, <3>2 DEF SendStart, TypeOK
    <2>2. TypeOK'
      BY <1>8, <2>1 DEF SendStart, TypeOK, draftVars, adminVars, sendVars,
         history, leadVars
    <2>3. RetryBudget'
      BY <1>8 DEF SendStart, RetryBudget, draftVars, adminVars, sendVars,
         history, leadVars
    <2>4. QED
      BY <2>2, <2>3
  <1>9. ASSUME NEW r \in Reqs, SendLookup(r)
       PROVE  TypeOK' /\ RetryBudget'
    <2>1. req' \in [Reqs -> ReqType]
      BY <1>9, ReqUpdate DEF SendLookup, TypeOK
    <2>2. TypeOK'
      BY <1>9, <2>1 DEF SendLookup, TypeOK, draftVars, adminVars, sendVars,
         history, leadVars
    <2>3. RetryBudget'
      BY <1>9 DEF SendLookup, RetryBudget, draftVars, adminVars, sendVars,
         history, leadVars
    <2>4. QED
      BY <2>2, <2>3
  <1>10. ASSUME NEW r \in Reqs, SendRate(r)
       PROVE  TypeOK' /\ RetryBudget'
    <2>1. req' \in [Reqs -> ReqType]
      <3>1. PICK x \in {"consume", "done"} : req' = [req EXCEPT ![r].pc = x]
        BY <1>10 DEF SendRate
      <3>2. QED
        BY <3>1, ReqUpdate DEF TypeOK
    <2>2. TypeOK'
      BY <1>10, <2>1 DEF SendRate, TypeOK, draftVars, adminVars, sendVars,
         history, leadVars
    <2>3. RetryBudget'
      BY <1>10 DEF SendRate, RetryBudget, draftVars, adminVars, sendVars,
         history, leadVars
    <2>4. QED
      BY <2>2, <2>3
  <1>11. ASSUME NEW r \in Reqs, SendConsume(r)
       PROVE  TypeOK' /\ RetryBudget'
    <2>1. req' \in [Reqs -> ReqType]
      BY <1>11, ReqUpdate DEF SendConsume, TypeOK
    <2>2. approval' \in [Tokens -> ApprovalType]
      <3>1. req[r].token \in Tokens
        BY FieldsTyped DEF TypeOK
      <3>2. [approval EXCEPT ![req[r].token].status = "used"]
              \in [Tokens -> ApprovalType]
        BY <3>1, ApprovalUpdate DEF TypeOK
      <3>3. QED
        BY <1>11, <3>2 DEF SendConsume
    <2>3. TypeOK'
      BY <1>11, <2>1, <2>2 DEF SendConsume, TypeOK, draftVars, adminVars,
         sendVars, history, leadVars
    <2>4. RetryBudget'
      BY <1>11 DEF SendConsume, RetryBudget, draftVars, adminVars, sendVars,
         history, leadVars
    <2>5. QED
      BY <2>3, <2>4
  <1>12. ASSUME NEW r \in Reqs, SendRefused(r)
       PROVE  TypeOK' /\ RetryBudget'
    <2>1. req' \in [Reqs -> ReqType]
      BY <1>12, ReqUpdate DEF SendRefused, TypeOK
    <2>2. TypeOK'
      BY <1>12, <2>1 DEF SendRefused, TypeOK, draftVars, adminVars, sendVars,
         history, leadVars
    <2>3. RetryBudget'
      BY <1>12 DEF SendRefused, RetryBudget, draftVars, adminVars, sendVars,
         history, leadVars
    <2>4. QED
      BY <2>2, <2>3
  <1>13. ASSUME NEW r \in Reqs, SendCreate(r)
       PROVE  TypeOK' /\ RetryBudget'
    <2>1. req' \in [Reqs -> ReqType]
      BY <1>13, ReqUpdate DEF SendCreate, TypeOK
    <2>2. row' \in [Reqs -> RowType]
      BY <1>13, NewRowTyped DEF SendCreate, TypeOK
    <2>3. att' \in [Procs -> AttemptType]
      BY <1>13, FirstAttemptTyped DEF SendCreate, TypeOK, Procs
    <2>4. RetryBudget'
      BY <1>13, <2>2 DEF SendCreate, TypeOK, RetryBudget, NewRow
    <2>5. TypeOK'
      BY <1>13, <2>1, <2>2, <2>3, <2>4 DEF SendCreate, TypeOK, draftVars,
         adminVars, sendVars, history, leadVars
    <2>6. QED
      BY <2>1, <2>2, <2>3, <2>4, <2>5
  <1>14. ASSUME NEW r \in Reqs, SendConflict(r)
       PROVE  TypeOK' /\ RetryBudget'
    <2>1. req' \in [Reqs -> ReqType]
      BY <1>14, ReqUpdate DEF SendConflict, TypeOK
    <2>2. TypeOK'
      BY <1>14, <2>1 DEF SendConflict, TypeOK, draftVars, adminVars, sendVars,
         history, leadVars
    <2>3. RetryBudget'
      BY <1>14 DEF SendConflict, RetryBudget, draftVars, adminVars, sendVars,
         history, leadVars
    <2>4. QED
      BY <2>2, <2>3
  <1>15. ASSUME NEW r \in Reqs, AbortSend(r)
       PROVE  TypeOK' /\ RetryBudget'
    <2>1. req' \in [Reqs -> ReqType]
      BY <1>15, ReqUpdate DEF AbortSend, TypeOK
    <2>2. faults' \in 0..MaxFaults
      BY <1>15, ConstantsAssumption DEF AbortSend, TypeOK
    <2>3. TypeOK'
      BY <1>15, <2>1, <2>2 DEF AbortSend, TypeOK, draftVars, adminVars,
         sendVars, history, leadVars
    <2>4. RetryBudget'
      BY <1>15 DEF AbortSend, RetryBudget, draftVars, adminVars, sendVars,
         history, leadVars
    <2>5. QED
      BY <2>3, <2>4
  <1>16. ASSUME NEW r \in Reqs, BackoffElapses(r)
       PROVE  TypeOK' /\ RetryBudget'
    <2>1. row' \in [Reqs -> RowType]
      BY <1>16, RowUpdate DEF BackoffElapses, TypeOK
    <2>2. RetryBudget'
      BY <1>16, <2>1 DEF BackoffElapses, TypeOK, RetryBudget, RowType
    <2>3. TypeOK'
      BY <1>16, <2>1, <2>2 DEF BackoffElapses, TypeOK, draftVars, adminVars,
         sendVars, history, leadVars
    <2>4. QED
      BY <2>1, <2>2, <2>3
  <1>17. ASSUME NEW p \in Procs, DeliverGate(p)
       PROVE  TypeOK' /\ RetryBudget'
    <2>1. att' \in [Procs -> AttemptType]
      BY <1>17, AttemptUpdate DEF DeliverGate, TypeOK, Results
    <2>2. TypeOK'
      BY <1>17, <2>1 DEF DeliverGate, TypeOK, draftVars, adminVars, sendVars,
         history, leadVars
    <2>3. RetryBudget'
      BY <1>17 DEF DeliverGate, RetryBudget, draftVars, adminVars, sendVars,
         history, leadVars
    <2>4. QED
      BY <2>2, <2>3
  <1>18. ASSUME NEW p \in Procs, DeliverRefused(p)
       PROVE  TypeOK' /\ RetryBudget'
    <2>1. att' \in [Procs -> AttemptType]
      BY <1>18, AttemptUpdate DEF DeliverRefused, TypeOK, Results
    <2>2. TypeOK'
      BY <1>18, <2>1 DEF DeliverRefused, TypeOK, draftVars, adminVars,
         sendVars, history, leadVars
    <2>3. RetryBudget'
      BY <1>18 DEF DeliverRefused, RetryBudget, draftVars, adminVars, sendVars,
         history, leadVars
    <2>4. QED
      BY <2>2, <2>3
  <1>19. ASSUME NEW p \in Procs, SmtpAccepted(p)
       PROVE  TypeOK' /\ RetryBudget'
    <2>1. att' \in [Procs -> AttemptType]
      BY <1>19, AttemptUpdate DEF SmtpAccepted, TypeOK, Results
    <2>2. wire' \subseteq MessageType
      BY <1>19, FieldsTyped DEF SmtpAccepted, TypeOK, MessageType, Accept
    <2>3. accepted' \in [Reqs -> Nat]
      <3>1. att[p].row \in Reqs
        BY FieldsTyped DEF TypeOK
      <3>2. QED
        BY <1>19, <3>1 DEF SmtpAccepted, Accept, TypeOK
    <2>4. copies' \subseteq Reqs
      BY <1>19, FieldsTyped DEF SmtpAccepted, TypeOK
    <2>5. faults' \in 0..MaxFaults
      BY <1>19, ConstantsAssumption DEF SmtpAccepted, TypeOK
    <2>6. TypeOK'
      BY <1>19, <2>1, <2>2, <2>3, <2>4, <2>5 DEF SmtpAccepted, Accept, TypeOK,
         draftVars, adminVars, sendVars, history, leadVars
    <2>7. RetryBudget'
      BY <1>19 DEF SmtpAccepted, RetryBudget, draftVars, adminVars, sendVars,
         history, leadVars
    <2>8. QED
      BY <2>6, <2>7
  <1>20. ASSUME NEW p \in Procs, SmtpUncertain(p)
       PROVE  TypeOK' /\ RetryBudget'
    <2>1. att' \in [Procs -> AttemptType]
      BY <1>20, AttemptUpdate DEF SmtpUncertain, TypeOK, Results
    <2>2. wire' \subseteq MessageType
      BY <1>20, FieldsTyped DEF SmtpUncertain, TypeOK, MessageType, Accept
    <2>3. accepted' \in [Reqs -> Nat]
      <3>1. att[p].row \in Reqs
        BY FieldsTyped DEF TypeOK
      <3>2. QED
        BY <1>20, <3>1 DEF SmtpUncertain, Accept, TypeOK
    <2>4. TypeOK'
      BY <1>20, <2>1, <2>2, <2>3 DEF SmtpUncertain, Accept, TypeOK, draftVars,
         adminVars, sendVars, history, leadVars
    <2>5. RetryBudget'
      BY <1>20 DEF SmtpUncertain, RetryBudget, draftVars, adminVars, sendVars,
         history, leadVars
    <2>6. QED
      BY <2>4, <2>5
  <1>21. ASSUME NEW p \in Procs, SmtpMisread(p)
       PROVE  TypeOK' /\ RetryBudget'
    <2>1. att' \in [Procs -> AttemptType]
      BY <1>21, AttemptUpdate DEF SmtpMisread, TypeOK, Results
    <2>2. wire' \subseteq MessageType
      BY <1>21, FieldsTyped DEF SmtpMisread, TypeOK, MessageType, Accept
    <2>3. accepted' \in [Reqs -> Nat]
      <3>1. att[p].row \in Reqs
        BY FieldsTyped DEF TypeOK
      <3>2. QED
        BY <1>21, <3>1 DEF SmtpMisread, Accept, TypeOK
    <2>4. misread' \subseteq Reqs
      BY <1>21, FieldsTyped DEF SmtpMisread, TypeOK
    <2>5. TypeOK'
      BY <1>21, <2>1, <2>2, <2>3, <2>4 DEF SmtpMisread, Accept, TypeOK,
         draftVars, adminVars, sendVars, history, leadVars
    <2>6. RetryBudget'
      BY <1>21 DEF SmtpMisread, RetryBudget, draftVars, adminVars, sendVars,
         history, leadVars
    <2>7. QED
      BY <2>5, <2>6
  <1>22. ASSUME NEW p \in Procs, SmtpFailed(p)
       PROVE  TypeOK' /\ RetryBudget'
    <2>1. att' \in [Procs -> AttemptType]
      <3>1. PICK res \in Results :
              att' = [att EXCEPT ![p].pc = "record", ![p].result = res]
        BY <1>22 DEF SmtpFailed, Results
      <3>2. QED
        BY <3>1, AttemptUpdate DEF TypeOK
    <2>2. TypeOK'
      BY <1>22, <2>1 DEF SmtpFailed, TypeOK, draftVars, adminVars, sendVars,
         history, leadVars
    <2>3. RetryBudget'
      BY <1>22 DEF SmtpFailed, RetryBudget, draftVars, adminVars, sendVars,
         history, leadVars
    <2>4. QED
      BY <2>2, <2>3
  <1>23. ASSUME NEW p \in Procs, ApplySendResult(p)
       PROVE  TypeOK' /\ RetryBudget'
    <2>1. row' \in [Reqs -> RowType]
      <3>1. /\ att[p].row \in Reqs /\ att[p].result \in Results
            /\ att[p].attempts + 1 \in 0..MaxAttempts
        BY MaxAttemptsPositive, FieldsTyped DEF TypeOK
      <3>2. SettledRow(row[att[p].row], att[p].attempts + 1, att[p].result)
              \in RowType
        BY <3>1, SettledRowTyped DEF TypeOK
      <3>3. QED
        BY <1>23, <3>1, <3>2 DEF ApplySendResult, TypeOK
    <2>2. att' \in [Procs -> AttemptType]
      <3>1. [att[p] EXCEPT !.pc = "mark"] \in AttemptType
        BY DEF TypeOK, AttemptType
      <3>2. QED
        BY <1>23, <3>1, IdleAttemptTyped DEF ApplySendResult, TypeOK
    <2>3. req' \in [Reqs -> ReqType]
      BY <1>23, ReqUpdate DEF ApplySendResult, Finish, TypeOK
    <2>4. RetryBudget'
      <3>1. /\ att[p].row \in Reqs /\ att[p].result \in Results
            /\ att[p].attempts + 1 \in 0..MaxAttempts
        BY MaxAttemptsPositive, FieldsTyped DEF TypeOK
      <3>2. LET o == SettledRow(row[att[p].row], att[p].attempts + 1,
                                att[p].result)
            IN  o.status = "retry_wait" => o.attempts < MaxAttempts
        BY <3>1, SettledRowTyped DEF TypeOK
      <3>3. QED
        BY <1>23, <3>1, <3>2 DEF ApplySendResult, TypeOK, RetryBudget
    <2>5. TypeOK'
      BY <1>23, <2>1, <2>2, <2>3, <2>4 DEF ApplySendResult, TypeOK, draftVars,
         adminVars, sendVars, history, leadVars
    <2>6. QED
      BY <2>1, <2>2, <2>3, <2>4, <2>5
  <1>24. ASSUME NEW p \in Procs, MarkDraftSent(p)
       PROVE  TypeOK' /\ RetryBudget'
    <2>1. draft' \in [Drafts -> DraftType]
      <3>1. row[att[p].row].draft \in Drafts
        BY FieldsTyped DEF TypeOK
      <3>2. [draft EXCEPT ![row[att[p].row].draft].status = "sent"]
              \in [Drafts -> DraftType]
        BY <3>1, DraftUpdate DEF TypeOK
      <3>3. QED
        BY <1>24, <3>2 DEF MarkDraftSent, TypeOK
    <2>2. att' \in [Procs -> AttemptType]
      BY <1>24, IdleAttemptTyped DEF MarkDraftSent, TypeOK
    <2>3. faults' \in 0..MaxFaults
      BY <1>24, ConstantsAssumption DEF MarkDraftSent, TypeOK
    <2>4. TypeOK'
      BY <1>24, <2>1, <2>2, <2>3 DEF MarkDraftSent, TypeOK, draftVars,
         adminVars, sendVars, history, leadVars
    <2>5. RetryBudget'
      BY <1>24 DEF MarkDraftSent, RetryBudget, draftVars, adminVars, sendVars,
         history, leadVars
    <2>6. QED
      BY <2>4, <2>5
  <1>25. ASSUME NEW p \in Procs, LoseResult(p)
       PROVE  TypeOK' /\ RetryBudget'
    <2>1. unrecorded' \in [Reqs -> Nat]
      <3>1. att[p].row \in Reqs
        BY FieldsTyped DEF TypeOK
      <3>2. QED
        BY <1>25, <3>1 DEF LoseResult, TypeOK
    <2>2. att' \in [Procs -> AttemptType]
      <3>1. /\ [att EXCEPT ![p] = IdleAttempt] \in [Procs -> AttemptType]
            /\ [att EXCEPT ![p].pc = "mark"] \in [Procs -> AttemptType]
        BY IdleAttemptTyped, AttemptUpdate DEF TypeOK, Results
      <3>2. QED
        BY <1>25, <3>1 DEF LoseResult
    <2>3. req' \in [Reqs -> ReqType]
      BY <1>25, ReqUpdate DEF LoseResult, Finish, TypeOK
    <2>4. faults' \in 0..MaxFaults
      BY <1>25, ConstantsAssumption DEF LoseResult, TypeOK
    <2>5. TypeOK'
      BY <1>25, <2>1, <2>2, <2>3, <2>4 DEF LoseResult, TypeOK, draftVars,
         adminVars, sendVars, history, leadVars
    <2>6. RetryBudget'
      BY <1>25 DEF LoseResult, RetryBudget, draftVars, adminVars, sendVars,
         history, leadVars
    <2>7. QED
      BY <2>5, <2>6
  <1>26. ASSUME NEW w \in Workers, WorkerTick(w)
       PROVE  TypeOK' /\ RetryBudget'
    <2>1. batch' \in [Workers -> SUBSET ListedType]
      <3>1. ASSUME NEW r \in DueRows
            PROVE  [row |-> r, attempts |-> row[r].attempts] \in ListedType
        <4>1. row[r].attempts \in 0..MaxAttempts /\ row[r].attempts <
           MaxAttempts
          BY FieldsTyped DEF DueRows, TypeOK, RetryBudget
        <4>2. QED
          BY <4>1, MaxAttemptsPositive DEF ListedType, DueRows
      <3>2. QED
        BY <1>26, <3>1 DEF WorkerTick, TypeOK
    <2>2. TypeOK'
      BY <1>26, <2>1 DEF WorkerTick, TypeOK, draftVars, adminVars, sendVars,
         history, leadVars
    <2>3. RetryBudget'
      BY <1>26 DEF WorkerTick, RetryBudget, draftVars, adminVars, sendVars,
         history, leadVars
    <2>4. QED
      BY <2>2, <2>3
  <1>27. ASSUME NEW w \in Workers, WorkerTake(w)
       PROVE  TypeOK' /\ RetryBudget'
    <2>1. batch' \in [Workers -> SUBSET ListedType]
      <3>1. PICK o \in batch[w] :
              batch' = [batch EXCEPT ![w] = @ \ {o}]
        BY <1>27 DEF WorkerTake
      <3>2. QED
        BY <3>1 DEF TypeOK
    <2>2. att' \in [Procs -> AttemptType]
      <3>1. PICK o \in batch[w] :
              att' = [att EXCEPT ![w] = RetryAttempt(o, row[o.row].version,
                 FALSE)]
        BY <1>27 DEF WorkerTake
      <3>2. o \in ListedType
        BY DEF TypeOK
      <3>3. row[o.row].version \in Versions
        BY <3>2, FieldsTyped DEF TypeOK
      <3>4. RetryAttempt(o, row[o.row].version, FALSE) \in AttemptType
        BY <3>2, <3>3, RetryAttemptTyped
      <3>5. QED
        BY <3>1, <3>4 DEF TypeOK
    <2>3. TypeOK'
      BY <1>27, <2>1, <2>2 DEF WorkerTake, TypeOK, draftVars, adminVars,
         sendVars, history, leadVars
    <2>4. RetryBudget'
      BY <1>27 DEF WorkerTake, RetryBudget, draftVars, adminVars, sendVars,
         history, leadVars
    <2>5. QED
      BY <2>3, <2>4
  <1>28. ASSUME NEW w \in Workers, WorkerFallback(w)
       PROVE  TypeOK' /\ RetryBudget'
    <2>1. batch' \in [Workers -> SUBSET ListedType]
      <3>1. PICK o \in batch[w] :
              batch' = [batch EXCEPT ![w] = @ \ {o}]
        BY <1>28 DEF WorkerFallback
      <3>2. QED
        BY <3>1 DEF TypeOK
    <2>2. att' \in [Procs -> AttemptType]
      <3>1. PICK o \in batch[w] :
              att' = [att EXCEPT ![w] = RetryAttempt(o,
                 draft[row[o.row].draft].version, TRUE)]
        BY <1>28 DEF WorkerFallback
      <3>2. o \in ListedType
        BY DEF TypeOK
      <3>3. draft[row[o.row].draft].version \in Versions
        BY <3>2, FieldsTyped DEF TypeOK, DraftType
      <3>4. RetryAttempt(o, draft[row[o.row].draft].version, TRUE) \in
         AttemptType
        BY <3>2, <3>3, RetryAttemptTyped
      <3>5. QED
        BY <3>1, <3>4 DEF TypeOK
    <2>3. faults' \in 0..MaxFaults
      BY <1>28, ConstantsAssumption DEF WorkerFallback, TypeOK
    <2>4. TypeOK'
      BY <1>28, <2>1, <2>2, <2>3 DEF WorkerFallback, TypeOK, draftVars,
         adminVars, sendVars, history, leadVars
    <2>5. RetryBudget'
      BY <1>28 DEF WorkerFallback, RetryBudget, draftVars, adminVars, sendVars,
         history, leadVars
    <2>6. QED
      BY <2>4, <2>5
  <1>29. ASSUME NEW w \in Workers, WorkerUnavailable(w)
       PROVE  TypeOK' /\ RetryBudget'
    <2>1. batch' \in [Workers -> SUBSET ListedType]
      <3>1. PICK o \in batch[w] :
              batch' = [batch EXCEPT ![w] = @ \ {o}]
        BY <1>29 DEF WorkerUnavailable
      <3>2. QED
        BY <3>1 DEF TypeOK
    <2>2. row' \in [Reqs -> RowType]
      <3>1. PICK o \in batch[w] :
              row' = [row EXCEPT ![o.row] =
                        SettledRow(row[o.row], o.attempts, "permanent")]
        BY <1>29 DEF WorkerUnavailable
      <3>2. /\ o.row \in Reqs /\ o.attempts \in 0..MaxAttempts
            /\ "permanent" \in Results
        BY MaxAttemptsPositive, FieldsTyped DEF TypeOK, Results
      <3>3. SettledRow(row[o.row], o.attempts, "permanent") \in RowType
        BY <3>2, SettledRowTyped DEF TypeOK
      <3>4. QED
        BY <3>1, <3>2, <3>3 DEF TypeOK
    <2>3. faults' \in 0..MaxFaults
      BY <1>29, ConstantsAssumption DEF WorkerUnavailable, TypeOK
    <2>4. RetryBudget'
      <3>1. PICK o \in batch[w] :
              row' = [row EXCEPT ![o.row] =
                        SettledRow(row[o.row], o.attempts, "permanent")]
        BY <1>29 DEF WorkerUnavailable
      <3>2. /\ o.row \in Reqs /\ o.attempts \in 0..MaxAttempts
            /\ "permanent" \in Results
        BY MaxAttemptsPositive, FieldsTyped DEF TypeOK, Results
      <3>3. LET q == SettledRow(row[o.row], o.attempts, "permanent")
            IN  q.status = "retry_wait" => q.attempts < MaxAttempts
        BY <3>2, SettledRowTyped DEF TypeOK
      <3>4. QED
        BY <3>1, <3>2, <3>3 DEF TypeOK, RetryBudget
    <2>5. TypeOK'
      BY <1>29, <2>1, <2>2, <2>3, <2>4 DEF WorkerUnavailable, TypeOK,
         draftVars, adminVars, sendVars, history, leadVars
    <2>6. QED
      BY <2>1, <2>2, <2>3, <2>4, <2>5
  <1>30. ASSUME NEW w \in Workers, WorkerCrash(w)
       PROVE  TypeOK' /\ RetryBudget'
    <2>1. unrecorded' \in [Reqs -> Nat]
      <3>1. att[w].row \in Reqs
        BY FieldsTyped DEF TypeOK, Procs
      <3>2. QED
        BY <1>30, <3>1 DEF WorkerCrash, TypeOK
    <2>2. att' \in [Procs -> AttemptType]
      BY <1>30, IdleAttemptTyped DEF WorkerCrash, TypeOK, Procs
    <2>3. batch' \in [Workers -> SUBSET ListedType]
      BY <1>30 DEF WorkerCrash, TypeOK
    <2>4. faults' \in 0..MaxFaults
      BY <1>30, ConstantsAssumption DEF WorkerCrash, TypeOK
    <2>5. TypeOK'
      BY <1>30, <2>1, <2>2, <2>3, <2>4 DEF WorkerCrash, TypeOK, draftVars,
         adminVars, sendVars, history, leadVars
    <2>6. RetryBudget'
      BY <1>30 DEF WorkerCrash, RetryBudget, draftVars, adminVars, sendVars,
         history, leadVars
    <2>7. QED
      BY <2>5, <2>6
  <1>31. ASSUME NEW w \in Workers, GainLeadership(w)
       PROVE  TypeOK' /\ RetryBudget'
    <2>1. leading' \subseteq Workers
      BY <1>31 DEF GainLeadership, TypeOK
    <2>2. TypeOK'
      BY <1>31, <2>1 DEF GainLeadership, TypeOK, draftVars, adminVars,
         sendVars, history, leadVars
    <2>3. RetryBudget'
      BY <1>31 DEF GainLeadership, RetryBudget, draftVars, adminVars, sendVars,
         history, leadVars
    <2>4. QED
      BY <2>2, <2>3
  <1>32. ASSUME NEW w \in Workers, LoseLeadership(w)
       PROVE  TypeOK' /\ RetryBudget'
    <2>1. leading' \subseteq Workers
      BY <1>32 DEF LoseLeadership, TypeOK
    <2>2. moves' \in 0..MaxMoves
      BY <1>32, ConstantsAssumption DEF LoseLeadership, TypeOK
    <2>3. TypeOK'
      BY <1>32, <2>1, <2>2 DEF LoseLeadership, TypeOK, draftVars, adminVars,
         sendVars, history, leadVars
    <2>4. RetryBudget'
      BY <1>32 DEF LoseLeadership, RetryBudget, draftVars, adminVars, sendVars,
         history, leadVars
    <2>5. QED
      BY <2>3, <2>4
  <1>33. ASSUME UNCHANGED vars PROVE TypeOK' /\ RetryBudget'
    BY <1>33 DEF vars, TypeOK, RetryBudget, draftVars, adminVars, sendVars,
       history, leadVars
  <1>34. QED
    BY <1>1, <1>2, <1>3, <1>4, <1>5, <1>6, <1>7, <1>8, <1>9, <1>10, <1>11,
       <1>12, <1>13, <1>14, <1>15, <1>16, <1>17, <1>18, <1>19, <1>20, <1>21,
       <1>22, <1>23, <1>24, <1>25, <1>26, <1>27, <1>28, <1>29, <1>30, <1>31,
       <1>32, <1>33
       DEF Next, Send, Deliver, LocalSteps, Smtp, ProcessRetries

(* Every variable keeps its type, and no row, attempt or listed retry ever   *)
(* goes beyond the retry budget of applySendResult.                          *)
THEOREM TypeCorrect == Spec => []TypeOK
  <1>1. Spec => []TypeInv
    BY TypeInit, TypeStep, PTL DEF Spec
  <1>2. TypeInv => TypeOK
    BY DEF TypeInv
  <1>3. QED
    BY <1>1, <1>2, PTL

-----------------------------------------------------------------------------
(* Authority: nothing leaves without its own approval. The chain from the    *)
(* message back to the token is the invariant: message, attempt, row,        *)
(* request, token.                                                           *)

LEMMA AuthorityInit == Init => AuthorityInv
  BY DEF Init, AuthorityInv, OneShotToken, GrantOK, RowOK, ListedOK, AttemptOK,
         ApprovedVersion, IdleAttempt

LEMMA AuthorityStep == TypeOK /\ AuthorityInv /\ [Next]_vars => AuthorityInv'
  <1> SUFFICES ASSUME TypeOK, OneShotToken, GrantOK, RowOK, ListedOK,
     AttemptOK,
                      ApprovedVersion, [Next]_vars
               PROVE  AuthorityInv'
    BY DEF AuthorityInv
  <1>1. ASSUME NEW d \in Drafts, UpdateDraft(d)
       PROVE  AuthorityInv'
    <2>1. UNCHANGED <<req, approval, row, batch, att, wire>>
      BY <1>1 DEF UpdateDraft, draftVars, adminVars, sendVars, history,
         leadVars
    <2>2. QED
      BY <2>1 DEF AuthorityInv, OneShotToken, GrantOK, RowOK, ListedOK,
         AttemptOK, ApprovedVersion
  <1>2. ASSUME NEW d \in Drafts, DiscardCheck(d)
       PROVE  AuthorityInv'
    <2>1. UNCHANGED <<req, approval, row, batch, att, wire>>
      BY <1>2 DEF DiscardCheck, draftVars, adminVars, sendVars, history,
         leadVars
    <2>2. QED
      BY <2>1 DEF AuthorityInv, OneShotToken, GrantOK, RowOK, ListedOK,
         AttemptOK, ApprovedVersion
  <1>3. ASSUME NEW d \in Drafts, DiscardWrite(d)
       PROVE  AuthorityInv'
    <2>1. UNCHANGED <<req, approval, row, batch, att, wire>>
      BY <1>3 DEF DiscardWrite, draftVars, adminVars, sendVars, history,
         leadVars
    <2>2. QED
      BY <2>1 DEF AuthorityInv, OneShotToken, GrantOK, RowOK, ListedOK,
         AttemptOK, ApprovedVersion
  <1>4. ASSUME EditAccount
       PROVE  AuthorityInv'
    <2>1. UNCHANGED <<req, approval, row, batch, att, wire>>
      BY <1>4 DEF EditAccount, UpdateAccountRead, UpdateAccountWrite,
         SetAccountStatus, draftVars, sendVars, history, leadVars
    <2>2. QED
      BY <2>1 DEF AuthorityInv, OneShotToken, GrantOK, RowOK, ListedOK,
         AttemptOK, ApprovedVersion
  <1>5. ASSUME SetPolicy
       PROVE  AuthorityInv'
    <2>1. UNCHANGED <<req, approval, row, batch, att, wire>>
      BY <1>5 DEF SetPolicy, draftVars, adminVars, sendVars, history, leadVars
    <2>2. QED
      BY <2>1 DEF AuthorityInv, OneShotToken, GrantOK, RowOK, ListedOK,
         AttemptOK, ApprovedVersion
  <1>6. ASSUME NEW d \in Drafts, NEW t \in Tokens, RequestSendApproval(d, t)
       PROVE  AuthorityInv'
    <2>1. UNCHANGED <<req, row, batch, att, wire>>
      BY <1>6 DEF RequestSendApproval, draftVars, adminVars, sendVars, history,
         leadVars
    <2>2. GrantOK'
      BY <1>6, <2>1 DEF RequestSendApproval, GrantOK, TypeOK
    <2>3. ApprovedVersion'
      BY <1>6, <2>1 DEF RequestSendApproval, ApprovedVersion, TypeOK
    <2>4. OneShotToken' /\ RowOK' /\ ListedOK' /\ AttemptOK'
      BY <2>1 DEF OneShotToken, RowOK, ListedOK, AttemptOK
    <2>5. QED
      BY <2>2, <2>3, <2>4 DEF AuthorityInv
  <1>7. ASSUME NEW t \in Tokens, ExpireApproval(t)
       PROVE  AuthorityInv'
    <2>1. UNCHANGED <<req, row, batch, att, wire>>
      BY <1>7 DEF ExpireApproval, draftVars, adminVars, sendVars, history,
         leadVars
    <2>2. GrantOK'
      BY <1>7, <2>1 DEF ExpireApproval, GrantOK, TypeOK
    <2>3. ApprovedVersion'
      BY <1>7, <2>1 DEF ExpireApproval, ApprovedVersion, TypeOK
    <2>4. OneShotToken' /\ RowOK' /\ ListedOK' /\ AttemptOK'
      BY <2>1 DEF OneShotToken, RowOK, ListedOK, AttemptOK
    <2>5. QED
      BY <2>2, <2>3, <2>4 DEF AuthorityInv
  <1>8. ASSUME NEW r \in Reqs, NEW d \in Drafts, NEW t \in Tokens,
              NEW k \in ClientKeys \cup {DefaultKey(d, draft[d].version)},
              SendStart(r, d, t, k)
       PROVE  AuthorityInv'
    <2>1. UNCHANGED <<approval, row, batch, att, wire>>
      BY <1>8 DEF SendStart, draftVars, adminVars, sendVars, history, leadVars
    <2>2. OneShotToken'
      BY <1>8, <2>1 DEF SendStart, OneShotToken, TypeOK
    <2>3. GrantOK'
      BY <1>8, <2>1 DEF SendStart, GrantOK, TypeOK
    <2>4. RowOK'
      BY <1>8, <2>1 DEF SendStart, RowOK, TypeOK
    <2>5. ApprovedVersion'
      <3>1. \A q \in Reqs : q # r => req'[q] = req[q]
        BY <1>8 DEF SendStart, TypeOK
      <3>2. ASSUME NEW m \in wire
            PROVE  m.row \in Reqs /\ m.row # r
        BY <1>8, WireTyped DEF SendStart, ApprovedVersion, GrantOK
      <3>3. QED
        BY <2>1, <3>1, <3>2 DEF ApprovedVersion
    <2>6. ListedOK' /\ AttemptOK'
      BY <2>1 DEF ListedOK, AttemptOK
    <2>7. QED
      BY <2>2, <2>3, <2>4, <2>5, <2>6 DEF AuthorityInv
  <1>9. ASSUME NEW r \in Reqs, SendLookup(r)
       PROVE  AuthorityInv'
    <2>1. UNCHANGED <<approval, row, batch, att, wire>>
      BY <1>9 DEF SendLookup, draftVars, adminVars, sendVars, history, leadVars
    <2>2. OneShotToken'
      BY <1>9, <2>1 DEF SendLookup, OneShotToken, TypeOK
    <2>3. GrantOK'
      BY <1>9, <2>1 DEF SendLookup, GrantOK, TypeOK
    <2>4. RowOK'
      BY <1>9, <2>1 DEF SendLookup, RowOK, TypeOK
    <2>5. ApprovedVersion'
      BY <1>9, <2>1 DEF SendLookup, ApprovedVersion, TypeOK
    <2>6. ListedOK' /\ AttemptOK'
      BY <2>1 DEF ListedOK, AttemptOK
    <2>7. QED
      BY <2>2, <2>3, <2>4, <2>5, <2>6 DEF AuthorityInv
  <1>10. ASSUME NEW r \in Reqs, SendRate(r)
       PROVE  AuthorityInv'
    <2>1. UNCHANGED <<approval, row, batch, att, wire>>
      BY <1>10 DEF SendRate, draftVars, adminVars, sendVars, history, leadVars
    <2>2. OneShotToken'
      BY <1>10, <2>1 DEF SendRate, OneShotToken, TypeOK
    <2>3. GrantOK'
      BY <1>10, <2>1 DEF SendRate, GrantOK, TypeOK
    <2>4. RowOK'
      BY <1>10, <2>1 DEF SendRate, RowOK, TypeOK
    <2>5. ApprovedVersion'
      BY <1>10, <2>1 DEF SendRate, ApprovedVersion, TypeOK
    <2>6. ListedOK' /\ AttemptOK'
      BY <2>1 DEF ListedOK, AttemptOK
    <2>7. QED
      BY <2>2, <2>3, <2>4, <2>5, <2>6 DEF AuthorityInv
  <1>11. ASSUME NEW r \in Reqs, SendConsume(r)
       PROVE  AuthorityInv'
    <2>1. UNCHANGED <<row, batch, att, wire>>
      BY <1>11 DEF SendConsume, draftVars, adminVars, sendVars, history,
         leadVars
    <2>2. /\ \A q \in Reqs : q # r => req'[q] = req[q]
          /\ req'[r].draft = req[r].draft /\ req'[r].version = req[r].version
          /\ req'[r].email = req[r].email /\ req'[r].token = req[r].token
          /\ req'[r].pc = "create" /\ req'[r].granted
      BY <1>11 DEF SendConsume, TypeOK, ReqType
    <2>3. /\ req[r].token \in Tokens
          /\ \A t \in Tokens : t # req[r].token => approval'[t] = approval[t]
          /\ approval'[req[r].token].status = "used"
          /\ approval'[req[r].token].hash = approval[req[r].token].hash
          /\ approval[req[r].token].status = "pending"
          /\ approval[req[r].token].hash
               = Payload(req[r].draft, req[r].version, req[r].email)
      <3>1. req[r].token \in Tokens
        BY FieldsTyped DEF TypeOK
      <3>2. QED
        BY <1>11, <3>1 DEF SendConsume, Consumable, RequestHash, TypeOK,
           ApprovalType
    <2>4. \A q \in Reqs : /\ req[q].granted => req[q].token # req[r].token
                            /\ req[q].token \in Tokens
      BY <2>3, FieldsTyped DEF GrantOK, TypeOK
    <2>5. OneShotToken'
      BY <2>2, <2>4 DEF OneShotToken
    <2>6. GrantOK'
      BY <2>2, <2>3, <2>4 DEF GrantOK
    <2>7. RowOK'
      BY <1>11, <2>1 DEF SendConsume, RowOK, TypeOK
    <2>8. ApprovedVersion'
      <3>1. ASSUME NEW m \in wire
            PROVE  m.row \in Reqs /\ m.row # r
        BY <1>11, WireTyped DEF SendConsume, ApprovedVersion, GrantOK
      <3>2. QED
        BY <2>1, <2>2, <2>3, <2>4, <3>1 DEF ApprovedVersion
    <2>9. ListedOK' /\ AttemptOK'
      BY <2>1 DEF ListedOK, AttemptOK
    <2>10. QED
      BY <2>5, <2>6, <2>7, <2>8, <2>9 DEF AuthorityInv
  <1>12. ASSUME NEW r \in Reqs, SendRefused(r)
       PROVE  AuthorityInv'
    <2>1. UNCHANGED <<approval, row, batch, att, wire>>
      BY <1>12 DEF SendRefused, draftVars, adminVars, sendVars, history,
         leadVars
    <2>2. OneShotToken'
      BY <1>12, <2>1 DEF SendRefused, OneShotToken, TypeOK
    <2>3. GrantOK'
      BY <1>12, <2>1 DEF SendRefused, GrantOK, TypeOK
    <2>4. RowOK'
      BY <1>12, <2>1 DEF SendRefused, RowOK, TypeOK
    <2>5. ApprovedVersion'
      BY <1>12, <2>1 DEF SendRefused, ApprovedVersion, TypeOK
    <2>6. ListedOK' /\ AttemptOK'
      BY <2>1 DEF ListedOK, AttemptOK
    <2>7. QED
      BY <2>2, <2>3, <2>4, <2>5, <2>6 DEF AuthorityInv
  <1>13. ASSUME NEW r \in Reqs, SendCreate(r)
       PROVE  AuthorityInv'
    <2>1. UNCHANGED <<approval, batch, wire>>
      BY <1>13 DEF SendCreate, draftVars, adminVars, sendVars, history,
         leadVars
    <2>2. /\ \A q \in Reqs : q # r => row'[q] = row[q] /\ req'[q] = req[q]
          /\ row'[r] = NewRow(r)
          /\ req'[r].draft = req[r].draft /\ req'[r].version = req[r].version
          /\ req'[r].key = req[r].key /\ req'[r].pc = "deliver"
          /\ req'[r].granted /\ req[r].granted
      BY <1>13 DEF SendCreate, TypeOK, ReqType, GrantOK
    <2>3. row[r].status = "none"
      BY <1>13 DEF SendCreate, RowOK
    <2>4. OneShotToken'
      BY <1>13, <2>1 DEF SendCreate, OneShotToken, TypeOK
    <2>5. GrantOK'
      BY <1>13, <2>1 DEF SendCreate, GrantOK, TypeOK
    <2>6. RowOK'
      BY <2>2 DEF RowOK, NewRow
    <2>7. ListedOK'
      BY <2>1, <2>2, FieldsTyped DEF ListedOK, NewRow, TypeOK
    <2>8. AttemptOK'
      <3>1. \A x \in Procs : x # r => att'[x] = att[x]
        BY <1>13 DEF SendCreate, TypeOK
      <3>2. att'[r] = FirstAttempt(r)
        BY <1>13 DEF SendCreate, TypeOK, Procs
      <3>3. \A x \in Procs : att[x].row \in Reqs
        BY FieldsTyped DEF TypeOK
      <3>4. \A x \in Procs : att[x].pc # "idle" => att[x].row # r
        BY <2>3 DEF AttemptOK
      <3>5. /\ att'[r].row = r
            /\ att'[r].payload.account = Owner[row'[r].draft]
            /\ att'[r].payload.version = row'[r].version
            /\ att'[r].payload.text = Text[row'[r].draft][row'[r].version]
            /\ row'[r].status # "none"
        BY <2>2, <3>2 DEF FirstAttempt, NewRow, RequestHash, Payload
      <3>6. QED
        BY <2>2, <3>1, <3>3, <3>4, <3>5 DEF AttemptOK
    <2>9. ApprovedVersion'
      BY <1>13, <2>1 DEF SendCreate, ApprovedVersion, TypeOK
    <2>10. QED
      BY <2>4, <2>5, <2>6, <2>7, <2>8, <2>9 DEF AuthorityInv
  <1>14. ASSUME NEW r \in Reqs, SendConflict(r)
       PROVE  AuthorityInv'
    <2>1. UNCHANGED <<approval, row, batch, att, wire>>
      BY <1>14 DEF SendConflict, draftVars, adminVars, sendVars, history,
         leadVars
    <2>2. OneShotToken'
      BY <1>14, <2>1 DEF SendConflict, OneShotToken, TypeOK
    <2>3. GrantOK'
      BY <1>14, <2>1 DEF SendConflict, GrantOK, TypeOK
    <2>4. RowOK'
      BY <1>14, <2>1 DEF SendConflict, RowOK, TypeOK
    <2>5. ApprovedVersion'
      BY <1>14, <2>1 DEF SendConflict, ApprovedVersion, TypeOK
    <2>6. ListedOK' /\ AttemptOK'
      BY <2>1 DEF ListedOK, AttemptOK
    <2>7. QED
      BY <2>2, <2>3, <2>4, <2>5, <2>6 DEF AuthorityInv
  <1>15. ASSUME NEW r \in Reqs, AbortSend(r)
       PROVE  AuthorityInv'
    <2>1. UNCHANGED <<approval, row, batch, att, wire>>
      BY <1>15 DEF AbortSend, draftVars, adminVars, sendVars, history, leadVars
    <2>2. OneShotToken'
      BY <1>15, <2>1 DEF AbortSend, OneShotToken, TypeOK
    <2>3. GrantOK'
      BY <1>15, <2>1 DEF AbortSend, GrantOK, TypeOK
    <2>4. RowOK'
      BY <1>15, <2>1 DEF AbortSend, RowOK, TypeOK
    <2>5. ApprovedVersion'
      BY <1>15, <2>1 DEF AbortSend, ApprovedVersion, TypeOK
    <2>6. ListedOK' /\ AttemptOK'
      BY <2>1 DEF ListedOK, AttemptOK
    <2>7. QED
      BY <2>2, <2>3, <2>4, <2>5, <2>6 DEF AuthorityInv
  <1>16. ASSUME NEW r \in Reqs, BackoffElapses(r)
       PROVE  AuthorityInv'
    <2>1. UNCHANGED <<req, approval, batch, att, wire>>
      BY <1>16 DEF BackoffElapses, draftVars, adminVars, sendVars, history,
         leadVars
    <2>2. RowOK'
      BY <1>16, <2>1 DEF BackoffElapses, RowOK, TypeOK
    <2>3. ListedOK'
      BY <1>16, <2>1 DEF BackoffElapses, ListedOK, TypeOK
    <2>4. AttemptOK'
      BY <1>16, <2>1 DEF BackoffElapses, AttemptOK, TypeOK
    <2>5. OneShotToken' /\ GrantOK' /\ ApprovedVersion'
      BY <2>1 DEF OneShotToken, GrantOK, ApprovedVersion
    <2>6. QED
      BY <2>2, <2>3, <2>4, <2>5 DEF AuthorityInv
  <1>17. ASSUME NEW p \in Procs, DeliverGate(p)
       PROVE  AuthorityInv'
    <2>1. UNCHANGED <<req, approval, row, batch, wire>>
      BY <1>17 DEF DeliverGate, draftVars, adminVars, sendVars, history,
         leadVars
    <2>2. AttemptOK'
      BY <1>17, <2>1 DEF DeliverGate, AttemptOK, TypeOK
    <2>3. OneShotToken' /\ GrantOK' /\ RowOK' /\ ListedOK' /\ ApprovedVersion'
      BY <2>1 DEF OneShotToken, GrantOK, RowOK, ListedOK, ApprovedVersion
    <2>4. QED
      BY <2>2, <2>3 DEF AuthorityInv
  <1>18. ASSUME NEW p \in Procs, DeliverRefused(p)
       PROVE  AuthorityInv'
    <2>1. UNCHANGED <<req, approval, row, batch, wire>>
      BY <1>18 DEF DeliverRefused, draftVars, adminVars, sendVars, history,
         leadVars
    <2>2. AttemptOK'
      BY <1>18, <2>1 DEF DeliverRefused, AttemptOK, TypeOK
    <2>3. OneShotToken' /\ GrantOK' /\ RowOK' /\ ListedOK' /\ ApprovedVersion'
      BY <2>1 DEF OneShotToken, GrantOK, RowOK, ListedOK, ApprovedVersion
    <2>4. QED
      BY <2>2, <2>3 DEF AuthorityInv
  <1>19. ASSUME NEW p \in Procs, SmtpAccepted(p)
       PROVE  AuthorityInv'
    <2>1. UNCHANGED <<req, approval, row, batch>>
      BY <1>19 DEF SmtpAccepted, draftVars, adminVars, sendVars, history,
         leadVars
    <2>2. AttemptOK'
      BY <1>19, <2>1 DEF SmtpAccepted, AttemptOK, TypeOK
    <2>3. ApprovedVersion'
      <3>1. /\ att[p].row \in Reqs /\ att[p].pc # "idle"
        BY <1>19, FieldsTyped DEF SmtpAccepted, TypeOK
      <3>2. LET q == row[att[p].row] IN
            /\ q.status # "none"
            /\ att[p].payload.account = Owner[q.draft]
            /\ \/ att[p].fallback
               \/ /\ att[p].payload.version = q.version
                  /\ att[p].payload.text = Text[q.draft][q.version]
        BY <3>1 DEF AttemptOK
      <3>3. LET q == req[att[p].row] IN
            /\ q.granted
            /\ row[att[p].row].draft = q.draft
            /\ row[att[p].row].version = q.version
        BY <3>1, <3>2 DEF RowOK
      <3>4. LET q == req[att[p].row]
                h == approval[q.token].hash
            IN /\ approval[q.token].status = "used"
               /\ h = Payload(q.draft, q.version, q.email)
        BY <3>1, <3>3 DEF GrantOK
      <3>5. LET q == req[att[p].row]
                h == approval[q.token].hash
            IN /\ h.account = Owner[q.draft] /\ h.version = q.version
               /\ h.text = Text[q.draft][q.version]
        BY <3>4 DEF Payload
      <3>6. ASSUME NEW m \in wire', m \notin wire
            PROVE  /\ m.row = att[p].row /\ m.payload = att[p].payload
                   /\ m.fallback = att[p].fallback
        BY <1>19, <3>6 DEF SmtpAccepted, Accept
      <3>7. QED
        BY <2>1, <3>2, <3>3, <3>4, <3>5, <3>6 DEF ApprovedVersion
    <2>4. OneShotToken' /\ GrantOK' /\ RowOK' /\ ListedOK'
      BY <2>1 DEF OneShotToken, GrantOK, RowOK, ListedOK
    <2>5. QED
      BY <2>2, <2>3, <2>4 DEF AuthorityInv
  <1>20. ASSUME NEW p \in Procs, SmtpUncertain(p)
       PROVE  AuthorityInv'
    <2>1. UNCHANGED <<req, approval, row, batch>>
      BY <1>20 DEF SmtpUncertain, draftVars, adminVars, sendVars, history,
         leadVars
    <2>2. AttemptOK'
      BY <1>20, <2>1 DEF SmtpUncertain, AttemptOK, TypeOK
    <2>3. ApprovedVersion'
      <3>1. /\ att[p].row \in Reqs /\ att[p].pc # "idle"
        BY <1>20, FieldsTyped DEF SmtpUncertain, TypeOK
      <3>2. LET q == row[att[p].row] IN
            /\ q.status # "none"
            /\ att[p].payload.account = Owner[q.draft]
            /\ \/ att[p].fallback
               \/ /\ att[p].payload.version = q.version
                  /\ att[p].payload.text = Text[q.draft][q.version]
        BY <3>1 DEF AttemptOK
      <3>3. LET q == req[att[p].row] IN
            /\ q.granted
            /\ row[att[p].row].draft = q.draft
            /\ row[att[p].row].version = q.version
        BY <3>1, <3>2 DEF RowOK
      <3>4. LET q == req[att[p].row]
                h == approval[q.token].hash
            IN /\ approval[q.token].status = "used"
               /\ h = Payload(q.draft, q.version, q.email)
        BY <3>1, <3>3 DEF GrantOK
      <3>5. LET q == req[att[p].row]
                h == approval[q.token].hash
            IN /\ h.account = Owner[q.draft] /\ h.version = q.version
               /\ h.text = Text[q.draft][q.version]
        BY <3>4 DEF Payload
      <3>6. ASSUME NEW m \in wire', m \notin wire
            PROVE  /\ m.row = att[p].row /\ m.payload = att[p].payload
                   /\ m.fallback = att[p].fallback
        BY <1>20, <3>6 DEF SmtpUncertain, Accept
      <3>7. QED
        BY <2>1, <3>2, <3>3, <3>4, <3>5, <3>6 DEF ApprovedVersion
    <2>4. OneShotToken' /\ GrantOK' /\ RowOK' /\ ListedOK'
      BY <2>1 DEF OneShotToken, GrantOK, RowOK, ListedOK
    <2>5. QED
      BY <2>2, <2>3, <2>4 DEF AuthorityInv
  <1>21. ASSUME NEW p \in Procs, SmtpMisread(p)
       PROVE  AuthorityInv'
    <2>1. UNCHANGED <<req, approval, row, batch>>
      BY <1>21 DEF SmtpMisread, draftVars, adminVars, sendVars, history,
         leadVars
    <2>2. AttemptOK'
      BY <1>21, <2>1 DEF SmtpMisread, AttemptOK, TypeOK
    <2>3. ApprovedVersion'
      <3>1. /\ att[p].row \in Reqs /\ att[p].pc # "idle"
        BY <1>21, FieldsTyped DEF SmtpMisread, TypeOK
      <3>2. LET q == row[att[p].row] IN
            /\ q.status # "none"
            /\ att[p].payload.account = Owner[q.draft]
            /\ \/ att[p].fallback
               \/ /\ att[p].payload.version = q.version
                  /\ att[p].payload.text = Text[q.draft][q.version]
        BY <3>1 DEF AttemptOK
      <3>3. LET q == req[att[p].row] IN
            /\ q.granted
            /\ row[att[p].row].draft = q.draft
            /\ row[att[p].row].version = q.version
        BY <3>1, <3>2 DEF RowOK
      <3>4. LET q == req[att[p].row]
                h == approval[q.token].hash
            IN /\ approval[q.token].status = "used"
               /\ h = Payload(q.draft, q.version, q.email)
        BY <3>1, <3>3 DEF GrantOK
      <3>5. LET q == req[att[p].row]
                h == approval[q.token].hash
            IN /\ h.account = Owner[q.draft] /\ h.version = q.version
               /\ h.text = Text[q.draft][q.version]
        BY <3>4 DEF Payload
      <3>6. ASSUME NEW m \in wire', m \notin wire
            PROVE  /\ m.row = att[p].row /\ m.payload = att[p].payload
                   /\ m.fallback = att[p].fallback
        BY <1>21, <3>6 DEF SmtpMisread, Accept
      <3>7. QED
        BY <2>1, <3>2, <3>3, <3>4, <3>5, <3>6 DEF ApprovedVersion
    <2>4. OneShotToken' /\ GrantOK' /\ RowOK' /\ ListedOK'
      BY <2>1 DEF OneShotToken, GrantOK, RowOK, ListedOK
    <2>5. QED
      BY <2>2, <2>3, <2>4 DEF AuthorityInv
  <1>22. ASSUME NEW p \in Procs, SmtpFailed(p)
       PROVE  AuthorityInv'
    <2>1. UNCHANGED <<req, approval, row, batch, wire>>
      BY <1>22 DEF SmtpFailed, draftVars, adminVars, sendVars, history,
         leadVars
    <2>2. AttemptOK'
      BY <1>22, <2>1 DEF SmtpFailed, AttemptOK, TypeOK
    <2>3. OneShotToken' /\ GrantOK' /\ RowOK' /\ ListedOK' /\ ApprovedVersion'
      BY <2>1 DEF OneShotToken, GrantOK, RowOK, ListedOK, ApprovedVersion
    <2>4. QED
      BY <2>2, <2>3 DEF AuthorityInv
  <1>23. ASSUME NEW p \in Procs, ApplySendResult(p)
       PROVE  AuthorityInv'
    <2>1. UNCHANGED <<approval, batch, wire>>
      BY <1>23 DEF ApplySendResult, draftVars, adminVars, sendVars, history,
         leadVars
    <2>2. \A q \in Reqs :
            /\ req'[q].draft = req[q].draft /\ req'[q].version = req[q].version
            /\ req'[q].email = req[q].email /\ req'[q].key = req[q].key
            /\ req'[q].token = req[q].token /\ req'[q].granted = req[q].granted
            /\ req'[q].pc = req[q].pc \/ req'[q].pc = "done"
      BY <1>23 DEF ApplySendResult, Finish, TypeOK, ReqType
    <2>3. /\ att[p].row \in Reqs
          /\ \A q \in Reqs : q # att[p].row => row'[q] = row[q]
          /\ row'[att[p].row].draft = row[att[p].row].draft
          /\ row'[att[p].row].version = row[att[p].row].version
          /\ row'[att[p].row].key = row[att[p].row].key
          /\ row[att[p].row].status # "none" /\ row'[att[p].row].status #
             "none"
      <3>1. /\ att[p].row \in Reqs /\ att[p].result \in Results
            /\ att[p].attempts + 1 \in 0..MaxAttempts
        BY MaxAttemptsPositive, FieldsTyped DEF TypeOK
      <3>2. row' = [row EXCEPT ![att[p].row] =
                SettledRow(row[att[p].row], att[p].attempts + 1,
                   att[p].result)]
        BY <1>23 DEF ApplySendResult
      <3>3. row[att[p].row].status # "none"
        BY <1>23 DEF ApplySendResult, AttemptOK
      <3>4. QED
        BY <3>1, <3>2, <3>3, SettledRowTyped DEF TypeOK, Terminal
    <2>4. /\ \A x \in Procs : x # p => att'[x] = att[x]
          /\ \/ att'[p].pc = "idle"
             \/ /\ att[p].pc # "idle"
                /\ att'[p].row = att[p].row /\ att'[p].payload = att[p].payload
                /\ att'[p].fallback = att[p].fallback
      BY <1>23 DEF ApplySendResult, IdleAttempt, TypeOK, AttemptType
    <2>5. OneShotToken'
      BY <2>2 DEF OneShotToken
    <2>6. GrantOK'
      BY <2>1, <2>2 DEF GrantOK
    <2>7. RowOK'
      BY <2>2, <2>3 DEF RowOK
    <2>8. ListedOK'
      BY <2>1, <2>3, FieldsTyped DEF ListedOK, TypeOK
    <2>9. AttemptOK'
      <3>1. \A x \in Procs : att[x].row \in Reqs
        BY FieldsTyped DEF TypeOK
      <3>2. SUFFICES ASSUME NEW x \in Procs, att'[x].pc # "idle"
                     PROVE  LET q == row'[att'[x].row] IN
                            /\ q.status # "none"
                            /\ att'[x].payload.account = Owner[q.draft]
                            /\ \/ att'[x].fallback
                               \/ /\ att'[x].payload.version = q.version
                                  /\ att'[x].payload.text =
                                     Text[q.draft][q.version]
        BY DEF AttemptOK
      <3>3. /\ att[x].pc # "idle" /\ att'[x].row = att[x].row
            /\ att'[x].payload = att[x].payload
            /\ att'[x].fallback = att[x].fallback
        BY <2>4, <3>2
      <3>4. /\ row'[att[x].row].draft = row[att[x].row].draft
            /\ row'[att[x].row].version = row[att[x].row].version
            /\ row[att[x].row].status # "none" => row'[att[x].row].status #
               "none"
        BY <2>3, <3>1
      <3>5. QED
        BY <3>3, <3>4 DEF AttemptOK
    <2>10. ApprovedVersion'
      BY <2>1, <2>2, WireTyped DEF ApprovedVersion
    <2>11. QED
      BY <2>5, <2>6, <2>7, <2>8, <2>9, <2>10 DEF AuthorityInv
  <1>24. ASSUME NEW p \in Procs, MarkDraftSent(p)
       PROVE  AuthorityInv'
    <2>1. UNCHANGED <<req, approval, row, batch, wire>>
      BY <1>24 DEF MarkDraftSent, draftVars, adminVars, sendVars, history,
         leadVars
    <2>2. AttemptOK'
      <3>1. att' = [att EXCEPT ![p] = IdleAttempt]
        BY <1>24 DEF MarkDraftSent
      <3>2. QED
        BY <2>1, <3>1 DEF AttemptOK, IdleAttempt, TypeOK
    <2>3. OneShotToken' /\ GrantOK' /\ RowOK' /\ ListedOK' /\ ApprovedVersion'
      BY <2>1 DEF OneShotToken, GrantOK, RowOK, ListedOK, ApprovedVersion
    <2>4. QED
      BY <2>2, <2>3 DEF AuthorityInv
  <1>25. ASSUME NEW p \in Procs, LoseResult(p)
       PROVE  AuthorityInv'
    <2>1. UNCHANGED <<approval, row, batch, wire>>
      BY <1>25 DEF LoseResult, draftVars, adminVars, sendVars, history,
         leadVars
    <2>2. \A q \in Reqs :
            /\ req'[q].draft = req[q].draft /\ req'[q].version = req[q].version
            /\ req'[q].email = req[q].email /\ req'[q].key = req[q].key
            /\ req'[q].token = req[q].token /\ req'[q].granted = req[q].granted
            /\ req'[q].pc = req[q].pc \/ req'[q].pc = "done"
      BY <1>25 DEF LoseResult, Finish, TypeOK, ReqType
    <2>3. \/ att' = [att EXCEPT ![p] = IdleAttempt]
          \/ att' = [att EXCEPT ![p].pc = "mark"] /\ att[p].pc # "idle"
      BY <1>25 DEF LoseResult
    <2>4. OneShotToken'
      BY <2>2 DEF OneShotToken
    <2>5. GrantOK'
      BY <2>1, <2>2 DEF GrantOK
    <2>6. RowOK'
      BY <2>1, <2>2 DEF RowOK
    <2>7. AttemptOK'
      <3>1. CASE att' = [att EXCEPT ![p] = IdleAttempt]
        BY <2>1, <3>1 DEF AttemptOK, IdleAttempt, TypeOK
      <3>2. CASE att' = [att EXCEPT ![p].pc = "mark"] /\ att[p].pc # "idle"
        <4>1. \A q \in Procs : /\ att'[q].pc # "idle" => att[q].pc # "idle"
                               /\ att'[q].row = att[q].row
                               /\ att'[q].payload = att[q].payload
                               /\ att'[q].fallback = att[q].fallback
          BY <3>2 DEF TypeOK, AttemptType
        <4>2. QED
          BY <2>1, <4>1 DEF AttemptOK
      <3>3. QED
        BY <2>3, <3>1, <3>2
    <2>8. ApprovedVersion'
      BY <2>1, <2>2, WireTyped DEF ApprovedVersion
    <2>9. ListedOK'
      BY <2>1 DEF ListedOK
    <2>10. QED
      BY <2>4, <2>5, <2>6, <2>7, <2>8, <2>9 DEF AuthorityInv
  <1>26. ASSUME NEW w \in Workers, WorkerTick(w)
       PROVE  AuthorityInv'
    <2>1. UNCHANGED <<req, approval, row, att, wire>>
      BY <1>26 DEF WorkerTick, draftVars, adminVars, sendVars, history,
         leadVars
    <2>2. ListedOK'
      <3>1. \A x \in Workers : x # w => batch'[x] = batch[x]
        BY <1>26 DEF WorkerTick, TypeOK
      <3>2. batch'[w] = {[row |-> r, attempts |-> row[r].attempts] : r \in
         DueRows}
        BY <1>26 DEF WorkerTick, TypeOK
      <3>3. \A o \in batch'[w] : row[o.row].status # "none"
        BY <3>2 DEF DueRows
      <3>4. QED
        BY <2>1, <3>1, <3>3 DEF ListedOK
    <2>3. OneShotToken' /\ GrantOK' /\ RowOK' /\ AttemptOK' /\ ApprovedVersion'
      BY <2>1 DEF OneShotToken, GrantOK, RowOK, AttemptOK, ApprovedVersion
    <2>4. QED
      BY <2>2, <2>3 DEF AuthorityInv
  <1>27. ASSUME NEW w \in Workers, WorkerTake(w)
       PROVE  AuthorityInv'
    <2>1. UNCHANGED <<req, approval, row, wire>>
      BY <1>27 DEF WorkerTake, draftVars, adminVars, sendVars, history,
         leadVars
    <2>2. ListedOK'
      BY <1>27, <2>1 DEF WorkerTake, ListedOK, TypeOK
    <2>3. AttemptOK'
      <3>1. PICK o \in batch[w] :
              att' = [att EXCEPT ![w] = RetryAttempt(o, row[o.row].version,
                 FALSE)]
        BY <1>27 DEF WorkerTake
      <3>2. row[o.row].status # "none"
        BY DEF ListedOK
      <3>3. /\ att'[w].row = o.row
            /\ att'[w].payload.account = Owner[row[o.row].draft]
            /\ att'[w].payload.version = row[o.row].version
            /\ att'[w].payload.text =
               Text[row[o.row].draft][row[o.row].version]
            /\ att'[w].fallback = FALSE
        BY <3>1 DEF RetryAttempt, Payload, TypeOK, Procs
      <3>4. \A x \in Procs : x # w => att'[x] = att[x]
        BY <3>1 DEF TypeOK
      <3>5. QED
        BY <2>1, <3>2, <3>3, <3>4 DEF AttemptOK
    <2>4. OneShotToken' /\ GrantOK' /\ RowOK' /\ ApprovedVersion'
      BY <2>1 DEF OneShotToken, GrantOK, RowOK, ApprovedVersion
    <2>5. QED
      BY <2>2, <2>3, <2>4 DEF AuthorityInv
  <1>28. ASSUME NEW w \in Workers, WorkerFallback(w)
       PROVE  AuthorityInv'
    <2>1. UNCHANGED <<req, approval, row, wire>>
      BY <1>28 DEF WorkerFallback, draftVars, adminVars, sendVars, history,
         leadVars
    <2>2. ListedOK'
      BY <1>28, <2>1 DEF WorkerFallback, ListedOK, TypeOK
    <2>3. AttemptOK'
      <3>1. PICK o \in batch[w] :
              att' = [att EXCEPT ![w] = RetryAttempt(o,
                 draft[row[o.row].draft].version, TRUE)]
        BY <1>28 DEF WorkerFallback
      <3>2. row[o.row].status # "none"
        BY DEF ListedOK
      <3>3. /\ att'[w].row = o.row
            /\ att'[w].payload.account = Owner[row[o.row].draft]
            /\ att'[w].payload.version = draft[row[o.row].draft].version
            /\ att'[w].payload.text =
               Text[row[o.row].draft][draft[row[o.row].draft].version]
            /\ att'[w].fallback = TRUE
        BY <3>1 DEF RetryAttempt, Payload, TypeOK, Procs
      <3>4. \A x \in Procs : x # w => att'[x] = att[x]
        BY <3>1 DEF TypeOK
      <3>5. QED
        BY <2>1, <3>2, <3>3, <3>4 DEF AttemptOK
    <2>4. OneShotToken' /\ GrantOK' /\ RowOK' /\ ApprovedVersion'
      BY <2>1 DEF OneShotToken, GrantOK, RowOK, ApprovedVersion
    <2>5. QED
      BY <2>2, <2>3, <2>4 DEF AuthorityInv
  <1>29. ASSUME NEW w \in Workers, WorkerUnavailable(w)
       PROVE  AuthorityInv'
    <2>1. UNCHANGED <<req, approval, att, wire>>
      BY <1>29 DEF WorkerUnavailable, draftVars, adminVars, sendVars, history,
         leadVars
    <2>2. PICK o \in batch[w] :
             /\ batch' = [batch EXCEPT ![w] = @ \ {o}]
             /\ row' = [row EXCEPT ![o.row] =
                          SettledRow(row[o.row], o.attempts, "permanent")]
      BY <1>29 DEF WorkerUnavailable
    <2>3. /\ o.row \in Reqs
          /\ \A q \in Reqs : q # o.row => row'[q] = row[q]
          /\ row'[o.row].draft = row[o.row].draft
          /\ row'[o.row].version = row[o.row].version
          /\ row'[o.row].key = row[o.row].key
          /\ row[o.row].status # "none" /\ row'[o.row].status # "none"
      <3>1. /\ o.row \in Reqs /\ o.attempts \in 0..MaxAttempts
            /\ "permanent" \in Results
        BY MaxAttemptsPositive, FieldsTyped DEF TypeOK, Results
      <3>2. row[o.row].status # "none"
        BY DEF ListedOK
      <3>3. QED
        BY <2>2, <3>1, <3>2, SettledRowTyped DEF TypeOK, Terminal
    <2>4. RowOK'
      BY <2>1, <2>3 DEF RowOK
    <2>5. ListedOK'
      <3>1. \A x \in Workers : batch'[x] \subseteq batch[x]
        BY <2>2 DEF TypeOK
      <3>2. QED
        BY <2>3, <3>1, FieldsTyped DEF ListedOK, TypeOK
    <2>6. AttemptOK'
      <3>1. \A x \in Procs : att[x].row \in Reqs
        BY FieldsTyped DEF TypeOK
      <3>2. QED
        BY <2>1, <2>3, <3>1 DEF AttemptOK
    <2>7. OneShotToken' /\ GrantOK' /\ ApprovedVersion'
      BY <2>1 DEF OneShotToken, GrantOK, ApprovedVersion
    <2>8. QED
      BY <2>4, <2>5, <2>6, <2>7 DEF AuthorityInv
  <1>30. ASSUME NEW w \in Workers, WorkerCrash(w)
       PROVE  AuthorityInv'
    <2>1. UNCHANGED <<req, approval, row, wire>>
      BY <1>30 DEF WorkerCrash, draftVars, adminVars, sendVars, history,
         leadVars
    <2>2. ListedOK'
      <3>1. \A x \in Workers : batch'[x] \subseteq batch[x]
        BY <1>30 DEF WorkerCrash, TypeOK
      <3>2. QED
        BY <2>1, <3>1 DEF ListedOK
    <2>3. AttemptOK'
      <3>1. att' = [att EXCEPT ![w] = IdleAttempt]
        BY <1>30 DEF WorkerCrash
      <3>2. QED
        BY <2>1, <3>1 DEF AttemptOK, IdleAttempt, TypeOK, Procs
    <2>4. OneShotToken' /\ GrantOK' /\ RowOK' /\ ApprovedVersion'
      BY <2>1 DEF OneShotToken, GrantOK, RowOK, ApprovedVersion
    <2>5. QED
      BY <2>2, <2>3, <2>4 DEF AuthorityInv
  <1>31. ASSUME NEW w \in Workers, GainLeadership(w)
       PROVE  AuthorityInv'
    <2>1. UNCHANGED <<req, approval, row, batch, att, wire>>
      BY <1>31 DEF GainLeadership, draftVars, adminVars, sendVars, history,
         leadVars
    <2>2. QED
      BY <2>1 DEF AuthorityInv, OneShotToken, GrantOK, RowOK, ListedOK,
         AttemptOK, ApprovedVersion
  <1>32. ASSUME NEW w \in Workers, LoseLeadership(w)
       PROVE  AuthorityInv'
    <2>1. UNCHANGED <<req, approval, row, batch, att, wire>>
      BY <1>32 DEF LoseLeadership, draftVars, adminVars, sendVars, history,
         leadVars
    <2>2. QED
      BY <2>1 DEF AuthorityInv, OneShotToken, GrantOK, RowOK, ListedOK,
         AttemptOK, ApprovedVersion
  <1>33. ASSUME UNCHANGED vars PROVE AuthorityInv'
    BY <1>33 DEF vars, draftVars, adminVars, sendVars, history, leadVars,
       AuthorityInv, OneShotToken, GrantOK, RowOK, ListedOK, AttemptOK,
       ApprovedVersion
  <1>34. QED
    BY <1>1, <1>2, <1>3, <1>4, <1>5, <1>6, <1>7, <1>8, <1>9, <1>10, <1>11,
       <1>12, <1>13, <1>14, <1>15, <1>16, <1>17, <1>18, <1>19, <1>20, <1>21,
       <1>22, <1>23, <1>24, <1>25, <1>26, <1>27, <1>28, <1>29, <1>30, <1>31,
       <1>32, <1>33
       DEF Next, Send, Deliver, LocalSteps, Smtp, ProcessRetries

(* For any number of requests, tokens, workers and leadership changes, and   *)
(* whatever fails: each message a server accepted was authorised by a token  *)
(* of its own request, and unless GetDraftVersion failed it is the version   *)
(* that token approved.                                                      *)
THEOREM Authority == Spec => []AuthorityInv
  <1>1. Spec => []TypeOK
    BY TypeCorrect
  <1>2. QED
    BY <1>1, AuthorityInit, AuthorityStep, PTL DEF Spec

(* The two conjuncts a caller relies on.                                     *)
COROLLARY ApprovedOnce == Spec => [](OneShotToken /\ ApprovedVersion)
  <1>1. AuthorityInv => OneShotToken /\ ApprovedVersion
    BY DEF AuthorityInv
  <1>2. QED
    BY <1>1, Authority, PTL

-----------------------------------------------------------------------------
(* What Outbox delivers, with one worker: the truth of the stored outcomes  *)
(* and the contract of SendContract.                                         *)

deliveryVars == <<row, att, batch, wire, accepted, unrecorded, misread, copies>>

(* The part of Next that touches rows, attempts or what the servers took.    *)
DeliveryStep ==
  \/ \E r \in Reqs : SendCreate(r) \/ BackoffElapses(r)
  \/ \E p \in Procs : Deliver(p) \/ LoseResult(p)
  \/ \E w \in Workers : ProcessRetries(w) \/ WorkerCrash(w)

LEMMA OtherSteps ==
  ASSUME TypeOK, [Next]_vars, ~DeliveryStep
  PROVE  /\ UNCHANGED deliveryVars
         /\ \A r \in Reqs : req[r].pc = "deliver" => req'[r].pc = "deliver"
  <1> USE DEF deliveryVars, draftVars, adminVars, sendVars, history, leadVars
  <1>1. ASSUME NEW d \in Drafts,
               UpdateDraft(d) \/ DiscardCheck(d) \/ DiscardWrite(d)
        PROVE  UNCHANGED <<deliveryVars, req>>
    BY <1>1 DEF UpdateDraft, DiscardCheck, DiscardWrite
  <1>2. ASSUME EditAccount PROVE UNCHANGED <<deliveryVars, req>>
    BY <1>2 DEF EditAccount, UpdateAccountRead, UpdateAccountWrite,
       SetAccountStatus
  <1>3. ASSUME SetPolicy PROVE UNCHANGED <<deliveryVars, req>>
    BY <1>3 DEF SetPolicy
  <1>4. ASSUME NEW t \in Tokens,
               (\E d \in Drafts : RequestSendApproval(d, t)) \/ ExpireApproval(t)
        PROVE  UNCHANGED <<deliveryVars, req>>
    BY <1>4 DEF RequestSendApproval, ExpireApproval
  <1>5. ASSUME NEW r \in Reqs, NEW d \in Drafts, NEW t \in Tokens, NEW k,
               SendStart(r, d, t, k)
        PROVE  /\ UNCHANGED deliveryVars
               /\ \A q \in Reqs : req[q].pc = "deliver" => req'[q].pc = "deliver"
    BY <1>5 DEF SendStart, TypeOK
  <1>6. ASSUME NEW r \in Reqs,
               \/ SendLookup(r) \/ SendRate(r) \/ SendConsume(r)
               \/ SendRefused(r) \/ SendConflict(r) \/ AbortSend(r)
        PROVE  /\ UNCHANGED deliveryVars
               /\ \A q \in Reqs : req[q].pc = "deliver" => req'[q].pc = "deliver"
    BY <1>6 DEF SendLookup, SendRate, SendConsume, SendRefused, SendConflict,
       AbortSend, TypeOK
  <1>7. ASSUME NEW w \in Workers, GainLeadership(w) \/ LoseLeadership(w)
        PROVE  UNCHANGED <<deliveryVars, req>>
    BY <1>7 DEF GainLeadership, LoseLeadership
  <1>8. CASE UNCHANGED vars
    BY <1>8 DEF vars
  <1>9. CASE Next
    BY <1>1, <1>2, <1>3, <1>4, <1>5, <1>6, <1>7, <1>9
       DEF Next, Send, DeliveryStep
  <1>10. QED
    BY <1>8, <1>9

-----------------------------------------------------------------------------
(* Rows.                                                                     *)

(* applySendResult keeps what the row is about.                              *)
LEMMA SettledRowKept ==
  ASSUME NEW o \in RowType, NEW n \in 0..MaxAttempts, NEW res \in Results
  PROVE  /\ SettledRow(o, n, res).draft = o.draft
         /\ SettledRow(o, n, res).version = o.version
         /\ SettledRow(o, n, res).key = o.key
         /\ SettledRow(o, n, res).status = SettledStatus(n, res)
         /\ SettledRow(o, n, res).attempts = n
         /\ SettledRow(o, n, res).due = FALSE
         /\ SettledRow(o, n, res).status # "none"
  BY DEF SettledRow, SettledStatus, RowType

-----------------------------------------------------------------------------
(* Deliveries with one worker.                                               *)

LEMMA AttemptFields ==
  ASSUME TypeOK
  PROVE  /\ \A p \in Procs : /\ att[p].row \in Reqs /\ att[p].result \in Results
                             /\ att[p].attempts + 1 \in 0..MaxAttempts
         /\ \A r \in Reqs : accepted[r] \in Nat /\ unrecorded[r] \in Nat
         /\ \A w \in Workers : \A o \in batch[w] :
              o.row \in Reqs /\ o.attempts \in 0..MaxAttempts
         /\ \A w \in Workers : w \in Procs /\ w \notin Reqs
         /\ \A r \in Reqs : r \in Procs
  <1>1. \A p \in Procs : att[p] \in AttemptType
    BY DEF TypeOK
  <1>2. \A p \in Procs : /\ att[p].row \in Reqs /\ att[p].result \in Results
                        /\ att[p].attempts \in 0..(MaxAttempts - 1)
    BY <1>1, FieldsTyped
  <1>3. \A n \in 0..(MaxAttempts - 1) : n + 1 \in 0..MaxAttempts
                                       /\ n \in 0..MaxAttempts
    BY MaxAttemptsPositive
  <1>4. \A w \in Workers : \A o \in batch[w] : o \in ListedType
    BY DEF TypeOK
  <1>5. \A w \in Workers : \A o \in batch[w] :
          o.row \in Reqs /\ o.attempts \in 0..MaxAttempts
    BY <1>3, <1>4, FieldsTyped
  <1>6. QED
    BY <1>2, <1>3, <1>5, ConstantsAssumption DEF TypeOK, Procs

(* An attempt works on an open row, and on one nobody else works on.         *)
LEMMA OpenRow ==
  ASSUME TypeOK, ExclusiveAttempt, NEW p \in Procs, Active(p)
  PROVE  row[att[p].row].status \in {"queued", "retry_wait"}
  BY DEF ExclusiveAttempt, Procs

LEMMA OwnRow ==
  ASSUME TypeOK, OneWorker, ExclusiveAttempt, NEW p \in Procs, NEW x \in Procs,
         Active(p), Active(x), p # x
  PROVE  att[p].row # att[x].row
  BY DEF ExclusiveAttempt, OneWorker, Procs

(* Before its result is known, an attempt has nothing unexplained behind it. *)
LEMMA BeforeResult ==
  ASSUME TypeOK, OneWorker, DeliveryInv, NEW p \in Procs, Active(p),
         att[p].pc = "record" => att[p].result = "temporary"
  PROVE  accepted[att[p].row] <= unrecorded[att[p].row]
  <1>1. att[p].row \in Reqs
    BY AttemptFields
  <1>2. row[att[p].row].status \in {"queued", "retry_wait"}
    BY OpenRow DEF DeliveryInv
  <1>3. \A x \in Procs : att[x].pc = "record" /\ att[x].row = att[p].row
                         => att[x].result = "temporary"
    BY OwnRow DEF DeliveryInv, Active
  <1>4. QED
    BY <1>1, <1>2, <1>3 DEF DeliveryInv, AttemptsExplained

(* Nor has a row the idle worker has listed.                                 *)
LEMMA ListedRow ==
  ASSUME TypeOK, OneWorker, DeliveryInv, NEW w \in Workers, NEW o \in batch[w],
         ~Active(w)
  PROVE  /\ o.row \in Reqs /\ row[o.row].status = "retry_wait"
         /\ \A x \in Procs : Active(x) => att[x].row # o.row
         /\ accepted[o.row] <= unrecorded[o.row]
  <1>1. o.row \in Reqs
    BY AttemptFields
  <1>2. row[o.row].status = "retry_wait"
    BY DEF DeliveryInv, ExclusiveAttempt
  <1>3. \A x \in Procs : Active(x) => att[x].row # o.row
    <2> SUFFICES ASSUME NEW x \in Procs, Active(x) PROVE att[x].row # o.row
      OBVIOUS
    <2>1. x \in Reqs
      BY DEF OneWorker, Procs
    <2>2. QED
      BY <1>2, <2>1 DEF DeliveryInv, ExclusiveAttempt
  <1>4. QED
    BY <1>1, <1>2, <1>3 DEF DeliveryInv, AttemptsExplained, Active

(* A delivery under way moves on: the rest of ExclusiveAttempt stays.        *)
LEMMA AttemptMoved ==
  ASSUME TypeOK, ExclusiveAttempt, NEW p \in Procs, Active(p), Active(p)',
         UNCHANGED <<row, batch, req>>, wire \subseteq wire',
         \A x \in Procs : x # p => att'[x] = att[x],
         att'[p].row = att[p].row,
         att'[p].pc = "record" /\ att'[p].result = "ok"
           => \E m \in wire' : m.row = att[p].row
  PROVE  ExclusiveAttempt'
  <1>1. \A x \in Procs : (Active(x)' <=> Active(x)) /\ att'[x].row = att[x].row
    BY DEF Active
  <1>2. \A r \in Reqs : r \in Procs
    BY DEF Procs
  <1>3. \A w \in Workers : w \in Procs
    BY DEF Procs
  <1>4. \A r \in Reqs :
          Active(r)' => /\ att'[r].row = r
                        /\ row'[r].status = "queued"
                        /\ req'[r].pc = "deliver"
    BY <1>1, <1>2 DEF ExclusiveAttempt
  <1>5. \A w \in Workers :
          /\ Active(w)' => row'[att'[w].row].status = "retry_wait"
          /\ \A o \in batch'[w] :
               /\ row'[o.row].status = "retry_wait"
               /\ row'[o.row].attempts = o.attempts
               /\ Active(w)' => o.row # att'[w].row
    BY <1>1, <1>3 DEF ExclusiveAttempt
  <1>6. \A x \in Procs : att'[x].pc = "record" /\ att'[x].result = "ok"
                          => \E m \in wire' : m.row = att'[x].row
    BY <1>1 DEF ExclusiveAttempt
  <1>7. \A r \in Reqs : row'[r].status = "sent" => \E m \in wire' : m.row = r
    BY DEF ExclusiveAttempt
  <1>8. QED
    BY <1>4, <1>5, <1>6, <1>7 DEF ExclusiveAttempt

LEMMA DeliveryInit == Init => DeliveryInv
  BY DEF Init, DeliveryInv, ExclusiveAttempt, AttemptsExplained, ResultTrue,
     NoUnexplainedDuplicate, OutcomeTruthful, Active, IdleAttempt, Procs

LEMMA DeliveryStepKept ==
  TypeOK /\ AuthorityInv /\ OneWorker /\ DeliveryInv /\ [Next]_vars => DeliveryInv'
  <1> SUFFICES ASSUME TypeOK, AuthorityInv, OneWorker, DeliveryInv, [Next]_vars
               PROVE  DeliveryInv'
    OBVIOUS
  <1>a. /\ ExclusiveAttempt /\ AttemptsExplained /\ ResultTrue
        /\ NoUnexplainedDuplicate /\ OutcomeTruthful
    BY DEF DeliveryInv
  <1>1. CASE ~DeliveryStep
    <2>1. UNCHANGED deliveryVars
      BY <1>1, OtherSteps
    <2>2. \A r \in Reqs : req[r].pc = "deliver" => req'[r].pc = "deliver"
      BY <1>1, OtherSteps
    <2>3. ExclusiveAttempt'
      BY <1>a, <2>1, <2>2 DEF ExclusiveAttempt, Active, deliveryVars
    <2>4. QED
      BY <1>a, <2>1, <2>3 DEF DeliveryInv, AttemptsExplained, ResultTrue,
         NoUnexplainedDuplicate, OutcomeTruthful, deliveryVars
  <1>2. ASSUME NEW r \in Reqs, SendCreate(r) PROVE DeliveryInv'
    <2>1. /\ UNCHANGED <<batch, wire, accepted, unrecorded, misread, copies>>
          /\ row'[r].status = "queued" /\ req'[r].pc = "deliver"
          /\ att'[r].pc = "gate" /\ att'[r].row = r
          /\ \A q \in Reqs : q # r => row'[q] = row[q] /\ req'[q] = req[q]
          /\ \A x \in Procs : x # r => att'[x] = att[x]
      BY <1>2, AttemptFields DEF SendCreate, NewRow, FirstAttempt, TypeOK, history
    <2>2. row[r].status = "none"
      BY <1>2 DEF SendCreate, AuthorityInv, RowOK
    <2>3. \A x \in Procs : Active(x) => att[x].row # r
      BY <1>a, <2>2, OpenRow
    <2>4. \A x \in Procs : x # r => (Active(x)' <=> Active(x))
      BY <2>1 DEF Active
    <2>5. accepted[r] <= unrecorded[r]
      BY <1>a, <2>2, <2>3 DEF AttemptsExplained, Active
    <2>6. ExclusiveAttempt'
      <3>1. \A q \in Reqs :
              Active(q)' => /\ att'[q].row = q
                            /\ row'[q].status = "queued"
                            /\ req'[q].pc = "deliver"
        BY <1>a, <2>1, <2>4, AttemptFields DEF ExclusiveAttempt
      <3>2. \A w \in Workers :
              /\ Active(w)' => row'[att'[w].row].status = "retry_wait"
              /\ \A o \in batch'[w] :
                   /\ row'[o.row].status = "retry_wait"
                   /\ row'[o.row].attempts = o.attempts
                   /\ Active(w)' => o.row # att'[w].row
        BY <1>a, <2>1, <2>2, <2>3, <2>4, AttemptFields DEF ExclusiveAttempt
      <3>3. QED
        BY <1>a, <2>1, <3>1, <3>2 DEF ExclusiveAttempt
    <2>7. AttemptsExplained'
      <3>1. ~Active(r)
        BY <1>a, <2>3, AttemptFields DEF ExclusiveAttempt
      <3>2. QED
        BY <1>a, <2>1, <2>5, <3>1, AttemptFields DEF AttemptsExplained, Active
    <2>8. ResultTrue' /\ NoUnexplainedDuplicate' /\ OutcomeTruthful'
      BY <1>a, <2>1, AttemptFields
         DEF ResultTrue, NoUnexplainedDuplicate, OutcomeTruthful
    <2>9. QED
      BY <2>6, <2>7, <2>8 DEF DeliveryInv
  <1>3. ASSUME NEW r \in Reqs, BackoffElapses(r) PROVE DeliveryInv'
    <2>1. /\ UNCHANGED <<att, batch, wire, accepted, unrecorded, misread,
                         copies, req>>
          /\ \A q \in Reqs : /\ row'[q].status = row[q].status
                             /\ row'[q].attempts = row[q].attempts
      BY <1>3 DEF BackoffElapses, TypeOK, RowType, history
    <2>2. ExclusiveAttempt'
      BY <1>a, <2>1, AttemptFields DEF ExclusiveAttempt, Active
    <2>3. AttemptsExplained' /\ ResultTrue' /\ NoUnexplainedDuplicate'
      BY <1>a, <2>1 DEF AttemptsExplained, ResultTrue, NoUnexplainedDuplicate
    <2>4. OutcomeTruthful'
      BY <1>a, <2>1 DEF OutcomeTruthful
    <2>5. QED
      BY <2>2, <2>3, <2>4 DEF DeliveryInv
  <1>4. ASSUME NEW p \in Procs, DeliverGate(p) \/ DeliverRefused(p) \/ SmtpFailed(p)
        PROVE  DeliveryInv'
    <2>1. /\ UNCHANGED <<row, batch, wire, accepted, unrecorded, misread,
                         copies, req>>
          /\ \A x \in Procs : x # p => att'[x] = att[x]
          /\ att'[p].row = att[p].row /\ att[p].pc \in {"gate", "smtp"}
          /\ \/ att'[p].pc = "smtp"
             \/ /\ att'[p].pc = "record"
                /\ att'[p].result \in {"temporary", "permanent"}
      BY <1>4 DEF DeliverGate, DeliverRefused, SmtpFailed, TypeOK, AttemptType,
         history
    <2>2. Active(p) /\ Active(p)' /\ att[p].pc # "record"
      BY <2>1 DEF Active
    <2>3. accepted[att[p].row] <= unrecorded[att[p].row]
      BY <2>2, BeforeResult
    <2>4. ExclusiveAttempt'
      BY <1>a, <2>1, <2>2, AttemptMoved
    <2>5. AttemptsExplained'
      BY <1>a, <2>1, <2>3 DEF AttemptsExplained
    <2>6. ResultTrue'
      BY <1>a, <2>1, <2>3, AttemptFields DEF ResultTrue
    <2>7. NoUnexplainedDuplicate' /\ OutcomeTruthful'
      BY <1>a, <2>1 DEF NoUnexplainedDuplicate, OutcomeTruthful
    <2>8. QED
      BY <2>4, <2>5, <2>6, <2>7 DEF DeliveryInv
  <1>5. ASSUME NEW p \in Procs, SmtpAccepted(p) \/ SmtpUncertain(p) \/ SmtpMisread(p)
        PROVE  DeliveryInv'
    <2> DEFINE r == att[p].row
    <2>1. /\ UNCHANGED <<row, batch, unrecorded, req>>
          /\ \A x \in Procs : x # p => att'[x] = att[x]
          /\ att'[p].row = r /\ att[p].pc = "smtp" /\ att'[p].pc = "record"
          /\ att'[p].result \in {"ok", "uncertain", "permanent"}
      BY <1>5 DEF SmtpAccepted, SmtpUncertain, SmtpMisread, TypeOK, AttemptType,
         history
    <2>2. /\ Accept(p) \/ UNCHANGED <<wire, accepted>>
          /\ att'[p].result = "ok" => Accept(p)
          /\ att'[p].result = "permanent" => r \in misread'
          /\ misread \subseteq misread' /\ copies \subseteq copies'
          /\ copies' # copies => copies' = copies \cup {r} /\ Accept(p)
      BY <1>5 DEF SmtpAccepted, SmtpUncertain, SmtpMisread, TypeOK, AttemptType
    <2>3. r \in Reqs /\ Active(p) /\ Active(p)' /\ att[p].pc # "record"
      BY <2>1, AttemptFields DEF Active
    <2>4. /\ \A q \in Reqs : q # r => accepted'[q] = accepted[q]
          /\ accepted'[r] \in {accepted[r], accepted[r] + 1}
          /\ Accept(p) => accepted'[r] = accepted[r] + 1
      BY <2>2, <2>3 DEF Accept, TypeOK
    <2>5. accepted[r] <= unrecorded[r]
      BY <2>3, BeforeResult
    <2>6. row[r].status \in {"queued", "retry_wait"}
      BY <1>a, <2>3, OpenRow
    <2>7. ExclusiveAttempt'
      <3>1. wire \subseteq wire' /\ (Accept(p) => \E m \in wire' : m.row = r)
        BY <2>2 DEF Accept
      <3>2. QED
        BY <1>a, <2>1, <2>2, <2>3, <3>1, AttemptMoved
    <2>8. AttemptsExplained'
      BY <1>a, <2>1, <2>3, <2>4 DEF AttemptsExplained
    <2>9. ResultTrue'
      <3>1. \A x \in Procs : x # p /\ att[x].pc = "record" => att[x].row # r
        BY <1>a, <2>3, OwnRow DEF Active
      <3>2. QED
        BY <1>a, <2>1, <2>2, <2>3, <2>4, <3>1, AttemptFields DEF ResultTrue
    <2>10. NoUnexplainedDuplicate'
      BY <1>a, <2>1, <2>3, <2>4, <2>5, AttemptFields DEF NoUnexplainedDuplicate
    <2>11. OutcomeTruthful'
      BY <1>a, <2>1, <2>2, <2>3, <2>4, <2>6, AttemptFields DEF OutcomeTruthful
    <2>12. QED
      BY <2>7, <2>8, <2>9, <2>10, <2>11 DEF DeliveryInv
  <1>6. ASSUME NEW p \in Procs, ApplySendResult(p) PROVE DeliveryInv'
    <2> DEFINE r == att[p].row
               res == att[p].result
               n == att[p].attempts + 1
    <2>1. /\ UNCHANGED <<batch, wire, accepted, unrecorded, misread, copies>>
          /\ \A x \in Procs : x # p => att'[x] = att[x]
          /\ row' = [row EXCEPT ![r] = SettledRow(row[r], n, res)]
          /\ att[p].pc = "record" /\ ~Active(p)'
          /\ \A q \in Reqs : q # p => req'[q] = req[q]
      BY <1>6 DEF ApplySendResult, TypeOK, AttemptType, IdleAttempt, Finish,
         Active, history
    <2>2. r \in Reqs /\ res \in Results /\ n \in 0..MaxAttempts /\ Active(p)
      BY <2>1, AttemptFields DEF Active
    <2>3. /\ \A q \in Reqs : q # r => row'[q] = row[q]
          /\ row'[r].status = SettledStatus(n, res)
      <3>1. row[r] \in RowType /\ DOMAIN row = Reqs
        BY <2>2 DEF TypeOK
      <3>2. SettledRow(row[r], n, res).status = SettledStatus(n, res)
        BY <2>2, <3>1, SettledRowKept, Zenon
      <3>3. QED
        BY <2>1, <2>2, <3>1, <3>2
    <2>4. /\ row'[r].status = "sent" => res = "ok"
          /\ row'[r].status = "failed" => res \in {"temporary", "permanent"}
          /\ row'[r].status \in {"none", "queued", "retry_wait"}
               => res = "temporary"
      BY <2>2, <2>3 DEF SettledStatus, Results
    <2>5. \A x \in Procs : x # p => (Active(x)' <=> Active(x))
      BY <2>1 DEF Active
    <2>6. \A x \in Procs : x # p /\ Active(x) => att[x].row # r
      BY <1>a, <2>2, OwnRow
    <2>7. ExclusiveAttempt'
      <3>1. \A q \in Reqs :
              Active(q)' => /\ att'[q].row = q
                            /\ row'[q].status = "queued"
                            /\ req'[q].pc = "deliver"
        BY <1>a, <2>1, <2>3, <2>5, <2>6, AttemptFields DEF ExclusiveAttempt
      <3>2. \A w \in Workers : \A o \in batch[w] : o.row # r
        <4>1. CASE p \in Reqs
          BY <1>a, <2>2, <4>1 DEF ExclusiveAttempt
        <4>2. CASE p \in Workers
          BY <1>a, <2>2, <4>2 DEF ExclusiveAttempt, OneWorker
        <4>3. QED
          BY <4>1, <4>2 DEF Procs
      <3>3. \A w \in Workers :
              /\ Active(w)' => row'[att'[w].row].status = "retry_wait"
              /\ \A o \in batch'[w] :
                   /\ row'[o.row].status = "retry_wait"
                   /\ row'[o.row].attempts = o.attempts
                   /\ Active(w)' => o.row # att'[w].row
        BY <1>a, <2>1, <2>3, <2>5, <2>6, <3>2, AttemptFields DEF ExclusiveAttempt
      <3>4. \A x \in Procs : att'[x].pc = "record" /\ att'[x].result = "ok"
                              => \E m \in wire' : m.row = att'[x].row
        BY <1>a, <2>1 DEF ExclusiveAttempt, Active
      <3>5. \A q \in Reqs : row'[q].status = "sent" => \E m \in wire' : m.row = q
        BY <1>a, <2>1, <2>3, <2>4 DEF ExclusiveAttempt
      <3>6. QED
        BY <3>1, <3>3, <3>4, <3>5 DEF ExclusiveAttempt
    <2>8. AttemptsExplained'
      <3>1. res = "temporary" => accepted[r] <= unrecorded[r]
        BY <2>2, BeforeResult
      <3>2. QED
        BY <1>a, <2>1, <2>2, <2>3, <2>4, <3>1 DEF AttemptsExplained
    <2>9. ResultTrue'
      BY <1>a, <2>1 DEF ResultTrue, Active
    <2>10. NoUnexplainedDuplicate'
      BY <1>a, <2>1 DEF NoUnexplainedDuplicate
    <2>11. OutcomeTruthful'
      <3>1. res = "temporary" => accepted[r] <= unrecorded[r]
        BY <2>2, BeforeResult
      <3>2. /\ row'[r].status = "sent" => accepted[r] > 0
            /\ row'[r].status = "failed" /\ unrecorded[r] = 0 /\ r \notin misread
                 => accepted[r] = 0
        BY <1>a, <2>1, <2>2, <2>4, <3>1, AttemptFields DEF ResultTrue
      <3>3. QED
        BY <1>a, <2>1, <2>3, <3>2 DEF OutcomeTruthful
    <2>12. QED
      BY <2>7, <2>8, <2>9, <2>10, <2>11 DEF DeliveryInv
  <1>7. ASSUME NEW p \in Procs, MarkDraftSent(p) PROVE DeliveryInv'
    <2>1. /\ UNCHANGED <<row, batch, wire, accepted, unrecorded, misread, copies,
                         req>>
          /\ \A x \in Procs : x # p => att'[x] = att[x]
          /\ att'[p].pc = "idle" /\ att[p].pc = "mark"
      BY <1>7 DEF MarkDraftSent, IdleAttempt, TypeOK, history
    <2>2. ExclusiveAttempt'
      BY <1>a, <2>1, AttemptFields DEF ExclusiveAttempt, Active
    <2>3. AttemptsExplained' /\ ResultTrue'
      BY <1>a, <2>1 DEF AttemptsExplained, ResultTrue
    <2>4. NoUnexplainedDuplicate' /\ OutcomeTruthful'
      BY <1>a, <2>1 DEF NoUnexplainedDuplicate, OutcomeTruthful
    <2>5. QED
      BY <2>2, <2>3, <2>4 DEF DeliveryInv
  <1>8. ASSUME NEW p \in Procs, LoseResult(p) PROVE DeliveryInv'
    <2> DEFINE r == att[p].row
    <2>1. /\ UNCHANGED <<row, batch, wire, accepted, misread, copies>>
          /\ \A x \in Procs : x # p => att'[x] = att[x]
          /\ att'[p].pc \in {"idle", "mark"} /\ Active(p)
          /\ \A q \in Reqs : q # p => req'[q] = req[q]
          /\ unrecorded' = [unrecorded EXCEPT ![r] = @ + 1]
      <3>1. \A q \in Reqs : q # p => req'[q] = req[q]
        BY <1>8 DEF LoseResult, Finish, TypeOK
      <3>2. /\ \A x \in Procs : x # p => att'[x] = att[x]
            /\ att'[p].pc \in {"idle", "mark"}
        BY <1>8 DEF LoseResult, IdleAttempt, TypeOK, AttemptType
      <3>3. QED
        BY <1>8, <3>1, <3>2 DEF LoseResult
    <2>2. r \in Reqs /\ ~Active(p)'
      BY <2>1, AttemptFields DEF Active
    <2>3. /\ unrecorded'[r] = unrecorded[r] + 1
          /\ \A q \in Reqs : q # r => unrecorded'[q] = unrecorded[q]
      BY <2>1, <2>2 DEF TypeOK
    <2>4. ExclusiveAttempt'
      BY <1>a, <2>1, <2>2, AttemptFields DEF ExclusiveAttempt, Active
    <2>5. AttemptsExplained'
      BY <1>a, <2>1, <2>2, <2>3, AttemptFields
         DEF AttemptsExplained, NoUnexplainedDuplicate
    <2>6. ResultTrue' /\ NoUnexplainedDuplicate' /\ OutcomeTruthful'
      BY <1>a, <2>1, <2>2, <2>3, AttemptFields
         DEF ResultTrue, NoUnexplainedDuplicate, OutcomeTruthful
    <2>7. QED
      BY <2>4, <2>5, <2>6 DEF DeliveryInv
  <1>9. ASSUME NEW w \in Workers, WorkerTick(w) PROVE DeliveryInv'
    <2>1. /\ UNCHANGED <<row, att, wire, accepted, unrecorded, misread, copies,
                         req>>
          /\ \A v \in Workers : v # w => batch'[v] = batch[v]
          /\ batch'[w] = {[row |-> r, attempts |-> row[r].attempts] : r \in DueRows}
          /\ att[w].pc = "idle"
      BY <1>9 DEF WorkerTick, TypeOK, history
    <2>2. \A o \in batch'[w] : /\ row[o.row].status = "retry_wait"
                               /\ row[o.row].attempts = o.attempts
      BY <2>1 DEF DueRows
    <2>3. ExclusiveAttempt'
      BY <1>a, <2>1, <2>2 DEF ExclusiveAttempt, Active
    <2>4. QED
      BY <1>a, <2>1, <2>3 DEF DeliveryInv, AttemptsExplained, ResultTrue,
         NoUnexplainedDuplicate, OutcomeTruthful
  <1>10. ASSUME NEW w \in Workers, WorkerTake(w) \/ WorkerFallback(w)
         PROVE  DeliveryInv'
    <2>1. /\ UNCHANGED <<row, wire, accepted, unrecorded, misread, copies, req>>
          /\ att[w].pc = "idle"
      BY <1>10 DEF WorkerTake, WorkerFallback, history
    <2>2. PICK o \in batch[w] :
            /\ batch' = [batch EXCEPT ![w] = @ \ {o}]
            /\ att'[w].pc = "gate" /\ att'[w].row = o.row
            /\ \A x \in Procs : x # w => att'[x] = att[x]
      <3>1. PICK o \in batch[w] :
              /\ batch' = [batch EXCEPT ![w] = @ \ {o}]
              /\ \/ att' = [att EXCEPT ![w] =
                              RetryAttempt(o, row[o.row].version, FALSE)]
                 \/ att' = [att EXCEPT ![w] =
                              RetryAttempt(o, draft[row[o.row].draft].version, TRUE)]
        BY <1>10 DEF WorkerTake, WorkerFallback
      <3>2. w \in Procs /\ att \in [Procs -> AttemptType]
        BY DEF TypeOK, Procs
      <3>3. \A x \in Procs : x # w => att'[x] = att[x]
        BY <3>1, <3>2
      <3>4. att'[w].pc = "gate" /\ att'[w].row = o.row
        BY <3>1, <3>2 DEF RetryAttempt
      <3>5. QED
        BY <3>1, <3>3, <3>4
    <2>3. /\ \A v \in Workers : v # w => batch'[v] = batch[v]
          /\ batch'[w] = batch[w] \ {o} /\ w \in Procs /\ w \notin Reqs
      BY <2>2, AttemptFields DEF TypeOK
    <2>4. \A x \in batch'[w] : x.row # o.row
      <3>1. SUFFICES ASSUME NEW x \in batch[w], x.row = o.row PROVE x = o
        BY <2>3
      <3>2. x.attempts = o.attempts
        BY <1>a, <3>1 DEF ExclusiveAttempt
      <3>3. x \in ListedType /\ o \in ListedType
        BY DEF TypeOK
      <3>4. QED
        BY <3>1, <3>2, <3>3 DEF ListedType
    <2>5. ExclusiveAttempt'
      <3>1. \A q \in Reqs :
              Active(q)' => /\ att'[q].row = q
                            /\ row'[q].status = "queued"
                            /\ req'[q].pc = "deliver"
        BY <1>a, <2>1, <2>2, <2>3, AttemptFields DEF ExclusiveAttempt, Active
      <3>2. \A v \in Workers :
              /\ Active(v)' => row'[att'[v].row].status = "retry_wait"
              /\ \A x \in batch'[v] :
                   /\ row'[x.row].status = "retry_wait"
                   /\ row'[x.row].attempts = x.attempts
                   /\ Active(v)' => x.row # att'[v].row
        <4>1. \A v \in Workers : v = w
          BY DEF OneWorker
        <4>2. QED
          BY <1>a, <2>1, <2>2, <2>3, <2>4, <4>1 DEF ExclusiveAttempt
      <3>3. \A x \in Procs : att'[x].pc = "record" /\ att'[x].result = "ok"
                              => \E m \in wire' : m.row = att'[x].row
        BY <1>a, <2>1, <2>2 DEF ExclusiveAttempt
      <3>4. \A q \in Reqs : row'[q].status = "sent" => \E m \in wire' : m.row = q
        BY <1>a, <2>1 DEF ExclusiveAttempt
      <3>5. QED
        BY <3>1, <3>2, <3>3, <3>4 DEF ExclusiveAttempt
    <2>6. AttemptsExplained'
      BY <1>a, <2>1, <2>2 DEF AttemptsExplained
    <2>7. ResultTrue' /\ NoUnexplainedDuplicate' /\ OutcomeTruthful'
      BY <1>a, <2>1, <2>2 DEF ResultTrue, NoUnexplainedDuplicate, OutcomeTruthful
    <2>8. QED
      BY <2>5, <2>6, <2>7 DEF DeliveryInv
  <1>11. ASSUME NEW w \in Workers, WorkerUnavailable(w) PROVE DeliveryInv'
    <2>1. /\ UNCHANGED <<att, wire, accepted, unrecorded, misread, copies, req>>
          /\ att[w].pc = "idle" /\ ~Active(w)
      BY <1>11 DEF WorkerUnavailable, Active, history
    <2>2. PICK o \in batch[w] :
            /\ batch' = [batch EXCEPT ![w] = @ \ {o}]
            /\ row' = [row EXCEPT ![o.row] =
                         SettledRow(row[o.row], o.attempts, "permanent")]
      BY <1>11 DEF WorkerUnavailable
    <2>3. /\ o.row \in Reqs /\ row[o.row].status = "retry_wait"
          /\ \A x \in Procs : Active(x) => att[x].row # o.row
          /\ accepted[o.row] <= unrecorded[o.row]
      BY <2>1, ListedRow
    <2>4. /\ \A q \in Reqs : q # o.row => row'[q] = row[q]
          /\ row'[o.row].status = "failed"
      <3>1. row[o.row] \in RowType /\ o.attempts \in 0..MaxAttempts
            /\ "permanent" \in Results
        BY <2>3, AttemptFields DEF TypeOK, Results
      <3>2. SettledRow(row[o.row], o.attempts, "permanent").status
              = SettledStatus(o.attempts, "permanent")
        BY <3>1, SettledRowKept, Zenon
      <3>3. QED
        BY <2>2, <2>3, <3>2 DEF TypeOK, SettledStatus
    <2>5. /\ \A v \in Workers : v = w /\ batch'[v] = batch[v] \ {o}
      BY <2>2 DEF OneWorker, TypeOK
    <2>6. \A x \in batch'[w] : x.row # o.row
      <3>1. SUFFICES ASSUME NEW x \in batch[w], x.row = o.row PROVE x = o
        BY <2>5
      <3>2. x.attempts = o.attempts
        BY <1>a, <3>1 DEF ExclusiveAttempt
      <3>3. x \in ListedType /\ o \in ListedType
        BY DEF TypeOK
      <3>4. QED
        BY <3>1, <3>2, <3>3 DEF ListedType
    <2>7. ExclusiveAttempt'
      <3>1. \A q \in Reqs :
              Active(q)' => /\ att'[q].row = q
                            /\ row'[q].status = "queued"
                            /\ req'[q].pc = "deliver"
        BY <1>a, <2>1, <2>3, <2>4, AttemptFields DEF ExclusiveAttempt, Active
      <3>2. \A v \in Workers :
              /\ Active(v)' => row'[att'[v].row].status = "retry_wait"
              /\ \A x \in batch'[v] :
                   /\ row'[x.row].status = "retry_wait"
                   /\ row'[x.row].attempts = x.attempts
                   /\ Active(v)' => x.row # att'[v].row
        BY <1>a, <2>1, <2>4, <2>5, <2>6, AttemptFields DEF ExclusiveAttempt, Active
      <3>3. \A x \in Procs : att'[x].pc = "record" /\ att'[x].result = "ok"
                              => \E m \in wire' : m.row = att'[x].row
        BY <1>a, <2>1 DEF ExclusiveAttempt
      <3>4. \A q \in Reqs : row'[q].status = "sent" => \E m \in wire' : m.row = q
        BY <1>a, <2>1, <2>4 DEF ExclusiveAttempt
      <3>5. QED
        BY <3>1, <3>2, <3>3, <3>4 DEF ExclusiveAttempt
    <2>8. AttemptsExplained'
      BY <1>a, <2>1, <2>4 DEF AttemptsExplained
    <2>9. ResultTrue' /\ NoUnexplainedDuplicate'
      BY <1>a, <2>1 DEF ResultTrue, NoUnexplainedDuplicate
    <2>10. OutcomeTruthful'
      BY <1>a, <2>1, <2>3, <2>4, AttemptFields DEF OutcomeTruthful
    <2>11. QED
      BY <2>7, <2>8, <2>9, <2>10 DEF DeliveryInv
  <1>12. ASSUME NEW w \in Workers, WorkerCrash(w) PROVE DeliveryInv'
    <2> DEFINE r == att[w].row
    <2>1. /\ UNCHANGED <<row, wire, accepted, misread, copies, req>>
          /\ \A x \in Procs : x # w => att'[x] = att[x]
          /\ att'[w].pc = "idle" /\ w \in Procs /\ r \in Reqs
          /\ \A v \in Workers : batch'[v] \subseteq batch[v]
          /\ unrecorded' = IF Active(w) THEN [unrecorded EXCEPT ![r] = @ + 1]
                                        ELSE unrecorded
      BY <1>12, AttemptFields DEF WorkerCrash, IdleAttempt, TypeOK
    <2>2. /\ \A q \in Reqs : unrecorded'[q] \in Nat
                              /\ unrecorded'[q] >= unrecorded[q]
          /\ Active(w) => unrecorded'[r] = unrecorded[r] + 1
      BY <2>1 DEF TypeOK
    <2>3. ExclusiveAttempt'
      BY <1>a, <2>1, AttemptFields DEF ExclusiveAttempt, Active
    <2>4. AttemptsExplained'
      <3>1. SUFFICES ASSUME NEW q \in Reqs,
                            row[q].status \in {"none", "queued", "retry_wait"},
                            \A p \in Procs : att'[p].pc = "record" /\ att'[p].row = q
                                               => att'[p].result = "temporary"
                     PROVE  accepted[q] <= unrecorded'[q]
        BY <2>1 DEF AttemptsExplained
      <3>2. CASE Active(w) /\ q = r
        BY <1>a, <2>2, <3>2, AttemptFields DEF NoUnexplainedDuplicate
      <3>3. CASE ~(Active(w) /\ q = r)
        <4>1. \A p \in Procs : att[p].pc = "record" /\ att[p].row = q
                                => att[p].result = "temporary"
          BY <2>1, <3>1, <3>3 DEF Active
        <4>2. accepted[q] <= unrecorded[q]
          BY <1>a, <3>1, <4>1 DEF AttemptsExplained
        <4>3. QED
          BY <2>2, <4>2, AttemptFields
      <3>4. QED
        BY <3>2, <3>3
    <2>5. ResultTrue'
      BY <1>a, <2>1, <2>2, AttemptFields DEF ResultTrue
    <2>6. NoUnexplainedDuplicate' /\ OutcomeTruthful'
      BY <1>a, <2>1, <2>2, AttemptFields DEF NoUnexplainedDuplicate, OutcomeTruthful
    <2>7. QED
      BY <2>3, <2>4, <2>5, <2>6 DEF DeliveryInv
  <1>13. QED
    BY <1>1, <1>2, <1>3, <1>4, <1>5, <1>6, <1>7, <1>8, <1>9, <1>10, <1>11, <1>12
       DEF DeliveryStep, Deliver, LocalSteps, Smtp, ProcessRetries

(* With one worker, any number of requests and any faults, an attempt has    *)
(* its row to itself and stored outcomes are true (deliver, applySendResult, *)
(* RunRetryWorker).                                                          *)
THEOREM Deliveries == ASSUME OneWorker PROVE Spec => []DeliveryInv
  <1>1. TypeOK /\ AuthorityInv /\ DeliveryInv /\ [Next]_vars => DeliveryInv'
    BY DeliveryStepKept
  <1>2. QED
    BY <1>1, DeliveryInit, TypeCorrect, Authority, PTL DEF Spec

(* No row is delivered by two at once.                                       *)
COROLLARY RowsNotShared == ASSUME OneWorker PROVE Spec => []ExclusiveAttempt
  <1>1. DeliveryInv => ExclusiveAttempt
    BY DEF DeliveryInv
  <1>2. QED
    BY <1>1, Deliveries, PTL

(* A message is accepted more often than once only by as much as results of  *)
(* earlier attempts were lost.                                               *)
COROLLARY DuplicatesExplained ==
  ASSUME OneWorker PROVE Spec => []NoUnexplainedDuplicate
  <1>1. DeliveryInv => NoUnexplainedDuplicate
    BY DEF DeliveryInv
  <1>2. QED
    BY <1>1, Deliveries, PTL

(* 'sent' is never stored for a message no server took, and 'failed' only    *)
(* for one none took, unless a result was lost or misread.                   *)
COROLLARY OutcomesTrue == ASSUME OneWorker PROVE Spec => []OutcomeTruthful
  <1>1. DeliveryInv => OutcomeTruthful
    BY DEF DeliveryInv
  <1>2. QED
    BY <1>1, Deliveries, PTL

-----------------------------------------------------------------------------
(* Outbox implements SendContract: what each part of the mapping depends on. *)

LEMMA SameTokens ==
  ASSUME \A t \in Tokens : approval'[t].status = approval[t].status
  PROVE  tokenBar' = tokenBar
  BY DEF tokenBar

LEMMA SameHolders ==
  ASSUME \A r \in Reqs : /\ req'[r].granted = req[r].granted
                         /\ req[r].granted => req'[r].token = req[r].token
  PROVE  holderBar' = holderBar
  BY DEF holderBar

LEMMA SameOutcomes ==
  ASSUME \A r \in Reqs : AbstractOutcome(row'[r].status) = AbstractOutcome(row[r].status)
  PROVE  outcomeBar' = outcomeBar
  BY DEF outcomeBar

LEMMA SameDelivered == UNCHANGED wire => deliveredBar' = deliveredBar
  BY DEF deliveredBar

LEMMA ContractInit == Init => Contract!Init
  <1> SUFFICES ASSUME Init PROVE Contract!Init
    OBVIOUS
  <1>1. tokenBar = [t \in Tokens |-> "none"]
    BY DEF Init, tokenBar
  <1>2. holderBar = [r \in Reqs |-> {}]
    BY DEF Init, holderBar
  <1>3. outcomeBar = [r \in Reqs |-> "none"]
    BY DEF Init, outcomeBar, AbstractOutcome
  <1>4. deliveredBar = {}
    BY DEF Init, deliveredBar
  <1>5. QED
    BY <1>1, <1>2, <1>3, <1>4 DEF Contract!Init

LEMMA ContractStep ==
  TypeOK /\ AuthorityInv /\ DeliveryInv /\ [Next]_vars
    => [Contract!Next]_(Contract!vars)
  <1> SUFFICES ASSUME TypeOK, AuthorityInv, DeliveryInv, [Next]_vars
               PROVE  Contract!Next \/ UNCHANGED Contract!vars
    OBVIOUS
  <1> DEFINE Stutter == UNCHANGED <<tokenBar, holderBar, outcomeBar, deliveredBar>>
  <1>0. Stutter => UNCHANGED Contract!vars
    BY DEF Contract!vars
  <1>1. ASSUME NEW d \in Drafts,
               UpdateDraft(d) \/ DiscardCheck(d) \/ DiscardWrite(d)
        PROVE  Stutter
    <2>1. UNCHANGED <<approval, req, row, wire>>
      BY <1>1 DEF UpdateDraft, DiscardCheck, DiscardWrite, sendVars, history
    <2>2. QED
      BY <2>1 DEF tokenBar, holderBar, outcomeBar, deliveredBar
  <1>2. ASSUME EditAccount PROVE Stutter
    <2>1. UNCHANGED <<approval, req, row, wire>>
      BY <1>2 DEF EditAccount, UpdateAccountRead, UpdateAccountWrite,
         SetAccountStatus, sendVars, history
    <2>2. QED
      BY <2>1 DEF tokenBar, holderBar, outcomeBar, deliveredBar
  <1>3. ASSUME SetPolicy PROVE Stutter
    <2>1. UNCHANGED <<approval, req, row, wire>>
      BY <1>3 DEF SetPolicy, sendVars, history
    <2>2. QED
      BY <2>1 DEF tokenBar, holderBar, outcomeBar, deliveredBar
  <1>4. ASSUME NEW t \in Tokens, NEW d \in Drafts, RequestSendApproval(d, t)
        PROVE  Contract!Next
    <2>1. tokenBar[t] = "none"
      BY <1>4 DEF RequestSendApproval, tokenBar
    <2>2. tokenBar' = [tokenBar EXCEPT ![t] = "pending"]
      BY <1>4 DEF RequestSendApproval, tokenBar, TypeOK
    <2>3. UNCHANGED <<req, row, wire>>
      BY <1>4 DEF RequestSendApproval, sendVars, history
    <2>4. UNCHANGED <<holderBar, outcomeBar, deliveredBar>>
      BY <2>3 DEF holderBar, outcomeBar, deliveredBar
    <2>5. Contract!Issue(t)
      BY <2>1, <2>2, <2>4 DEF Contract!Issue
    <2>6. QED
      BY <2>5 DEF Contract!Next
  <1>5. ASSUME NEW t \in Tokens, ExpireApproval(t) PROVE Contract!Next
    <2>1. tokenBar[t] = "pending"
      BY <1>5 DEF ExpireApproval, tokenBar
    <2>2. tokenBar' = [tokenBar EXCEPT ![t] = "expired"]
      BY <1>5 DEF ExpireApproval, tokenBar, TypeOK, ApprovalType
    <2>3. UNCHANGED <<req, row, wire>>
      BY <1>5 DEF ExpireApproval, sendVars, history
    <2>4. UNCHANGED <<holderBar, outcomeBar, deliveredBar>>
      BY <2>3 DEF holderBar, outcomeBar, deliveredBar
    <2>5. Contract!Expire(t)
      BY <2>1, <2>2, <2>4 DEF Contract!Expire
    <2>6. QED
      BY <2>5 DEF Contract!Next
  <1>6. ASSUME NEW r \in Reqs, NEW d \in Drafts, NEW t \in Tokens, NEW k,
               SendStart(r, d, t, k)
        PROVE  Stutter
    <2>1. UNCHANGED <<approval, row, wire>>
      BY <1>6 DEF SendStart, history
    <2>2. \A q \in Reqs : q # r => req'[q] = req[q]
      BY <1>6 DEF SendStart, TypeOK
    <2>3. req[r].granted = FALSE /\ req'[r].granted = FALSE
      BY <1>6, FieldsTyped DEF SendStart, AuthorityInv, GrantOK, TypeOK
    <2>4. holderBar' = holderBar
      BY <2>2, <2>3, SameHolders
    <2>5. QED
      BY <2>1, <2>4 DEF tokenBar, outcomeBar, deliveredBar
  <1>7. ASSUME NEW r \in Reqs,
               \/ SendLookup(r) \/ SendRate(r) \/ SendRefused(r)
               \/ SendConflict(r) \/ AbortSend(r)
        PROVE  Stutter
    <2>1. UNCHANGED <<approval, row, wire>>
      BY <1>7 DEF SendLookup, SendRate, SendRefused, SendConflict, AbortSend,
         history
    <2>2. \A q \in Reqs : req'[q].granted = req[q].granted
                         /\ req'[q].token = req[q].token
      <3>1. \E x : req' = [req EXCEPT ![r].pc = x]
        BY <1>7 DEF SendLookup, SendRate, SendRefused, SendConflict, AbortSend
      <3>2. PICK x : req' = [req EXCEPT ![r].pc = x]
        BY <3>1
      <3>3. QED
        BY <3>2 DEF TypeOK, ReqType
    <2>3. holderBar' = holderBar
      BY <2>2, SameHolders
    <2>4. QED
      BY <2>1, <2>3 DEF tokenBar, outcomeBar, deliveredBar
  <1>8. ASSUME NEW r \in Reqs, SendConsume(r) PROVE Contract!Next
    <2> DEFINE t == req[r].token
    <2>1. t \in Tokens
      BY FieldsTyped DEF TypeOK
    <2>2. tokenBar[t] = "pending" /\ holderBar[r] = {}
      BY <1>8, <2>1, FieldsTyped DEF SendConsume, Consumable, tokenBar, holderBar,
         AuthorityInv, GrantOK, TypeOK
    <2>3. tokenBar' = [tokenBar EXCEPT ![t] = "used"]
      BY <1>8, <2>1 DEF SendConsume, tokenBar, TypeOK, ApprovalType
    <2>4. holderBar' = [holderBar EXCEPT ![r] = {t}]
      <3>1. /\ req'[r].granted = TRUE /\ req'[r].token = t
            /\ \A q \in Reqs : q # r => req'[q] = req[q]
        BY <1>8 DEF SendConsume, TypeOK, ReqType
      <3>2. QED
        BY <3>1 DEF holderBar
    <2>5. UNCHANGED <<row, wire>>
      BY <1>8 DEF SendConsume, history
    <2>6. UNCHANGED <<outcomeBar, deliveredBar>>
      BY <2>5 DEF outcomeBar, deliveredBar
    <2>7. Contract!Authorise(r, t)
      BY <2>2, <2>3, <2>4, <2>6 DEF Contract!Authorise
    <2>8. QED
      BY <2>1, <2>7 DEF Contract!Next
  <1>9. ASSUME NEW r \in Reqs, SendCreate(r) PROVE Contract!Next
    <2>1. UNCHANGED <<approval, wire>>
      BY <1>9 DEF SendCreate, history
    <2>2. /\ req[r].granted /\ row[r].status = "none"
      BY <1>9 DEF SendCreate, AuthorityInv, GrantOK, RowOK
    <2>3. \A q \in Reqs : req'[q].granted = req[q].granted
                         /\ req'[q].token = req[q].token
      BY <1>9 DEF SendCreate, TypeOK, ReqType
    <2>4. holderBar' = holderBar
      BY <2>3, SameHolders
    <2>5. /\ row'[r].status = "queued"
          /\ \A q \in Reqs : q # r => row'[q] = row[q]
      BY <1>9 DEF SendCreate, NewRow, TypeOK
    <2>6. outcomeBar[r] = "none" /\ outcomeBar' = [outcomeBar EXCEPT ![r] = "open"]
      BY <2>2, <2>5 DEF outcomeBar, AbstractOutcome
    <2>7. holderBar[r] # {}
      BY <2>2 DEF holderBar
    <2>8. UNCHANGED <<tokenBar, deliveredBar>>
      BY <2>1 DEF tokenBar, deliveredBar
    <2>9. Contract!Open(r)
      BY <2>4, <2>6, <2>7, <2>8 DEF Contract!Open
    <2>10. QED
      BY <2>9 DEF Contract!Next
  <1>10. ASSUME NEW r \in Reqs, BackoffElapses(r) PROVE Stutter
    <2>1. UNCHANGED <<approval, req, wire>>
      BY <1>10 DEF BackoffElapses, history
    <2>2. \A q \in Reqs : row'[q].status = row[q].status
      BY <1>10 DEF BackoffElapses, TypeOK, RowType
    <2>3. QED
      BY <2>1, <2>2, SameOutcomes DEF tokenBar, holderBar, deliveredBar
  <1>11. ASSUME NEW p \in Procs,
                DeliverGate(p) \/ DeliverRefused(p) \/ SmtpFailed(p) \/ MarkDraftSent(p)
         PROVE  Stutter
    <2>1. UNCHANGED <<approval, req, row, wire>>
      BY <1>11 DEF DeliverGate, DeliverRefused, SmtpFailed, MarkDraftSent, history
    <2>2. QED
      BY <2>1 DEF tokenBar, holderBar, outcomeBar, deliveredBar
  <1>12. ASSUME NEW p \in Procs,
                SmtpAccepted(p) \/ SmtpUncertain(p) \/ SmtpMisread(p)
         PROVE  Stutter \/ Contract!Next
    <2> DEFINE r == att[p].row
    <2>1. UNCHANGED <<approval, req, row>> /\ Active(p)
      BY <1>12 DEF SmtpAccepted, SmtpUncertain, SmtpMisread, Active
    <2>2. UNCHANGED <<tokenBar, holderBar, outcomeBar>>
      BY <2>1 DEF tokenBar, holderBar, outcomeBar
    <2>3. CASE UNCHANGED wire
      BY <2>2, <2>3, SameDelivered
    <2>4. CASE Accept(p)
      <3>1. deliveredBar' = deliveredBar \cup {r}
        <4>1. PICK m : m.row = r /\ wire' = wire \cup {m}
          BY <2>4 DEF Accept
        <4>2. QED
          BY <4>1 DEF deliveredBar
      <3>2. r \in Reqs
        BY AttemptFields
      <3>3. row[r].status \in {"queued", "retry_wait"}
        BY <2>1, OpenRow DEF DeliveryInv
      <3>4. outcomeBar[r] = "open"
        BY <3>2, <3>3 DEF outcomeBar, AbstractOutcome
      <3>5. Contract!Deliver(r)
        BY <2>2, <3>1, <3>4 DEF Contract!Deliver
      <3>6. QED
        BY <3>2, <3>5 DEF Contract!Next
    <2>5. QED
      BY <1>12, <2>3, <2>4 DEF SmtpAccepted, SmtpUncertain, SmtpMisread
  <1>13. ASSUME NEW p \in Procs, ApplySendResult(p) PROVE Stutter \/ Contract!Next
    <2> DEFINE r == att[p].row
               res == att[p].result
               n == att[p].attempts + 1
    <2>1. /\ UNCHANGED <<approval, wire>> /\ att[p].pc = "record"
          /\ row' = [row EXCEPT ![r] = SettledRow(row[r], n, res)]
      BY <1>13 DEF ApplySendResult, history
    <2>2. r \in Reqs /\ res \in Results /\ n \in 0..MaxAttempts /\ Active(p)
      BY <2>1, AttemptFields DEF Active
    <2>3. \A q \in Reqs : req'[q].granted = req[q].granted
                         /\ req'[q].token = req[q].token
      BY <1>13 DEF ApplySendResult, Finish, TypeOK, ReqType
    <2>4. UNCHANGED <<tokenBar, holderBar, deliveredBar>>
      BY <2>1, <2>3, SameHolders DEF tokenBar, deliveredBar
    <2>5. /\ \A q \in Reqs : q # r => row'[q] = row[q]
          /\ row'[r].status = SettledStatus(n, res)
      <3>1. row[r] \in RowType /\ row \in [Reqs -> RowType]
        BY <2>2 DEF TypeOK
      <3>2. SettledRow(row[r], n, res).status = SettledStatus(n, res)
        BY <2>2, <3>1, SettledRowKept, Zenon
      <3>3. QED
        BY <2>1, <2>2, <3>1, <3>2
    <2>6. row[r].status \in {"queued", "retry_wait"}
      BY <2>2, OpenRow DEF DeliveryInv
    <2>7. CASE SettledStatus(n, res) = "retry_wait"
      BY <2>4, <2>5, <2>6, <2>7, SameOutcomes DEF AbstractOutcome
    <2>8. CASE SettledStatus(n, res) # "retry_wait"
      <3> DEFINE o == SettledStatus(n, res)
      <3>1. o \in {"sent", "failed", "uncertain"} /\ (o = "sent" => res = "ok")
        BY <2>2, <2>8 DEF SettledStatus, Results
      <3>2. outcomeBar[r] = "open" /\ outcomeBar' = [outcomeBar EXCEPT ![r] = o]
        BY <2>2, <2>5, <2>6, <3>1 DEF outcomeBar, AbstractOutcome
      <3>3. o = "sent" => r \in deliveredBar
        BY <2>1, <3>1 DEF DeliveryInv, ExclusiveAttempt, deliveredBar
      <3>4. Contract!Settle(r, o)
        BY <2>4, <3>2, <3>3 DEF Contract!Settle
      <3>5. QED
        BY <2>2, <3>1, <3>4 DEF Contract!Next, Contract!Settled
    <2>9. QED
      BY <2>7, <2>8
  <1>14. ASSUME NEW p \in Procs, LoseResult(p) PROVE Stutter
    <2>1. UNCHANGED <<approval, row, wire>>
      BY <1>14 DEF LoseResult
    <2>2. \A q \in Reqs : req'[q].granted = req[q].granted
                         /\ req'[q].token = req[q].token
      BY <1>14 DEF LoseResult, Finish, TypeOK, ReqType
    <2>3. QED
      BY <2>1, <2>2, SameHolders DEF tokenBar, outcomeBar, deliveredBar
  <1>15. ASSUME NEW w \in Workers,
                \/ WorkerTick(w) \/ WorkerTake(w) \/ WorkerFallback(w)
                \/ WorkerCrash(w) \/ GainLeadership(w) \/ LoseLeadership(w)
         PROVE  Stutter
    <2>1. UNCHANGED <<approval, req, row, wire>>
      BY <1>15 DEF WorkerTick, WorkerTake, WorkerFallback, WorkerCrash,
         GainLeadership, LoseLeadership, sendVars, history
    <2>2. QED
      BY <2>1 DEF tokenBar, holderBar, outcomeBar, deliveredBar
  <1>16. ASSUME NEW w \in Workers, WorkerUnavailable(w) PROVE Contract!Next
    <2>1. UNCHANGED <<approval, req, wire>>
      BY <1>16 DEF WorkerUnavailable, history
    <2>2. UNCHANGED <<tokenBar, holderBar, deliveredBar>>
      BY <2>1 DEF tokenBar, holderBar, deliveredBar
    <2>3. PICK o \in batch[w] :
            row' = [row EXCEPT ![o.row] =
                      SettledRow(row[o.row], o.attempts, "permanent")]
      BY <1>16 DEF WorkerUnavailable
    <2>4. o.row \in Reqs /\ o.attempts \in 0..MaxAttempts
          /\ row[o.row].status = "retry_wait"
      BY AttemptFields DEF DeliveryInv, ExclusiveAttempt
    <2>5. /\ \A q \in Reqs : q # o.row => row'[q] = row[q]
          /\ row'[o.row].status = "failed"
      <3>1. row[o.row] \in RowType /\ "permanent" \in Results
        BY <2>4 DEF TypeOK, Results
      <3>2. SettledRow(row[o.row], o.attempts, "permanent").status
              = SettledStatus(o.attempts, "permanent")
        BY <2>4, <3>1, SettledRowKept, Zenon
      <3>3. QED
        BY <2>3, <2>4, <3>2 DEF TypeOK, SettledStatus
    <2>6. /\ outcomeBar[o.row] = "open"
          /\ outcomeBar' = [outcomeBar EXCEPT ![o.row] = "failed"]
      BY <2>4, <2>5 DEF outcomeBar, AbstractOutcome
    <2>7. Contract!Settle(o.row, "failed")
      BY <2>2, <2>6 DEF Contract!Settle
    <2>8. QED
      BY <2>4, <2>7 DEF Contract!Next, Contract!Settled
  <1>17. CASE UNCHANGED vars
    BY <1>17, <1>0 DEF vars, sendVars, history, tokenBar, holderBar, outcomeBar,
       deliveredBar
  <1>18. CASE Next
    BY <1>0, <1>1, <1>2, <1>3, <1>4, <1>5, <1>6, <1>7, <1>8, <1>9, <1>10, <1>11,
       <1>12, <1>13, <1>14, <1>15, <1>16, <1>18
       DEF Next, Send, Deliver, LocalSteps, Smtp, ProcessRetries
  <1>19. QED
    BY <1>17, <1>18

(* Drafts, versions, retries, crashes and lost results are invisible to the  *)
(* caller of mail_send: with one worker every behaviour of the send path is  *)
(* one the contract allows.                                                  *)
THEOREM Refinement == ASSUME OneWorker PROVE Spec => ImplementsContract
  <1>1. Spec => []DeliveryInv
    BY Deliveries
  <1>2. QED
    BY <1>1, ContractInit, ContractStep, TypeCorrect, Authority, PTL
       DEF Spec, ImplementsContract, Contract!Spec
=============================================================================
