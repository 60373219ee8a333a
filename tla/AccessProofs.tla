---------------------------- MODULE AccessProofs ----------------------------
(* Proofs about who comes in and what they may do then: Identity, for any    *)
(* number of users, people, requests at once and requests in all (a person   *)
(* has one account, and sessions follow the password they were opened with), *)
(* and Gateway, for any key and token scopes, policies and switches (an      *)
(* effect happens only where the caller's rights allow it).                  *)
EXTENDS Identity, TLAPS

CONSTANTS ScopeSets, TokenScopes, Switchable, Policies, MaxChanges
VARIABLES role, active, key, permitted, enabled, stored, cached, deleteRule,
          req, stream, changes

G == INSTANCE Gateway

SessionType == [user : UserIds, by : Subjects \cup Passwords, late : BOOLEAN]

(* The tables that no session depends on.                                    *)
RestOK ==
  /\ boxes \subseteq UserIds \X Emails
  /\ mail \subseteq UserIds \X Blobs /\ objects \subseteq Blobs
  /\ requests \in 0..MaxRequests

-----------------------------------------------------------------------------
(* Writes to users.                                                          *)

(* What a statement may write: rows that stay, and identities kept apart.    *)
Apart(rows) ==
  \A u, v \in UserIds :
    /\ rows[u].status # "absent" /\ rows[v].status # "absent"
    /\ rows[u].subject = rows[v].subject
    => u = v \/ rows[u].subject = None

Sound(rows) ==
  /\ rows \in [UserIds -> UserType]
  /\ \A u \in UserIds : Exists(u) => rows[u].status # "absent"
  /\ Apart(rows)

(* The hash of every user outside W stays.                                   *)
KeepsHash(rows, W) == \A u \in UserIds \ W : Exists(u) => rows[u].hash = users[u].hash

LEMMA AbsentType == Absent \in UserType /\ NoOp \in OpType /\ Absent.subject = None
  <1>1. Plain(None) \in Logins
    BY DEF Plain, Logins
  <1>2. Absent \in UserType
    BY <1>1 DEF Absent, UserType
  <1> QED
    BY <1>2, IdentityAssumption DEF NoOp, OpType, Absent

(* A row written over one that exists: the unique index on the identity, or  *)
(* a row without one, keeps identities apart (UpdateUser).                   *)
LEMMA UpdateSound ==
  ASSUME TypeOK, UniqueIdentity, NEW u \in UserIds, NEW row \in UserType,
         row.status # "absent", Unique(u, row) \/ row.subject = None
  PROVE  Sound(UpdateUser(u, row)) /\ KeepsHash(UpdateUser(u, row), {})
  <1> DEFINE new == [row EXCEPT !.hash = users[u].hash]
             rows == UpdateUser(u, row)
  <1>1. new \in UserType /\ new.status = row.status /\ new.subject = row.subject /\ new.hash = users[u].hash
    BY DEF TypeOK, UserType
  <1>2. /\ rows \in [UserIds -> UserType] /\ rows[u] = new
        /\ \A v \in UserIds \ {u} : rows[v] = users[v]
    BY <1>1 DEF UpdateUser, TypeOK
  <1> HIDE DEF new, rows
  <1>3. Apart(rows)
    BY <1>1, <1>2 DEF Apart, UniqueIdentity, Unique, Exists
  <1>4. KeepsHash(rows, {})
    BY <1>1, <1>2 DEF KeepsHash
  <1> QED
    BY <1>1, <1>2, <1>3, <1>4 DEF Sound, Exists, rows

(* Nothing is written.                                                       *)
LEMMA SameSound ==
  ASSUME TypeOK, UniqueIdentity
  PROVE  Sound(users) /\ KeepsHash(users, {})
  BY DEF TypeOK, UniqueIdentity, Sound, Apart, KeepsHash, Exists

LEMMA TryUpdateSound ==
  ASSUME TypeOK, UniqueIdentity, NEW u \in UserIds, NEW row \in UserType, row.status # "absent"
  PROVE  Sound(TryUpdateUser(u, row)) /\ KeepsHash(TryUpdateUser(u, row), {})
  BY UpdateSound, SameSound DEF TryUpdateUser

(* A new row, or the local user's at the start of the program.               *)
LEMMA InsertSound ==
  ASSUME TypeOK, UniqueIdentity, NEW u \in UserIds, NEW row \in UserType,
         row.status # "absent", Unique(u, row) \/ row.subject = None
  PROVE  Sound([users EXCEPT ![u] = row]) /\ KeepsHash([users EXCEPT ![u] = row], {u})
  <1> DEFINE rows == [users EXCEPT ![u] = row]
  <1>1. /\ rows \in [UserIds -> UserType] /\ rows[u] = row
        /\ \A v \in UserIds \ {u} : rows[v] = users[v]
    BY DEF TypeOK
  <1> HIDE DEF rows
  <1>2. Apart(rows)
    BY <1>1 DEF Apart, UniqueIdentity, Unique, Exists
  <1>3. KeepsHash(rows, {u})
    BY <1>1 DEF KeepsHash
  <1> QED
    BY <1>1, <1>2, <1>3 DEF Sound, Exists, rows

LEMMA PasswordSound ==
  ASSUME TypeOK, UniqueIdentity, NEW u \in UserIds, NEW w \in Passwords
  PROVE  Sound(SetUserPassword(u, w)) /\ KeepsHash(SetUserPassword(u, w), {u})
  <1> DEFINE new == [users[u] EXCEPT !.hash = w, !.provider = "local"]
             rows == SetUserPassword(u, w)
  <1>1. new \in UserType /\ new.status = users[u].status /\ new.subject = users[u].subject
    <2>1. users[u] \in UserType
      BY DEF TypeOK
    <2> QED
      BY <2>1 DEF UserType
  <1>2. /\ rows \in [UserIds -> UserType] /\ rows[u] = new
        /\ \A v \in UserIds \ {u} : rows[v] = users[v]
    BY <1>1 DEF SetUserPassword, TypeOK
  <1> HIDE DEF new, rows
  <1>3. Apart(rows)
    BY <1>1, <1>2 DEF Apart, UniqueIdentity, Exists
  <1>4. KeepsHash(rows, {u})
    BY <1>1, <1>2 DEF KeepsHash
  <1> QED
    BY <1>1, <1>2, <1>3, <1>4 DEF Sound, Exists, rows

(* What a sound statement leaves true: the account an identity was given     *)
(* stays, and the identity is its own unless the history says it was lost.   *)
LEMMA Saved ==
  ASSUME TypeOK, NEW rows, Sound(rows), Save(rows)
  PROVE  /\ users' = rows
         /\ unlinked' \subseteq Subjects
         /\ UniqueIdentity'
         /\ \A u \in UserIds : Exists(u) => rows[u].status # "absent"
         /\ \A u \in UserIds : \A x : Holds(users, unlinked, u, x) => Holds(rows, unlinked', u, x)
  <1>1. users' = rows /\ unlinked \subseteq unlinked'
    BY DEF Save
  <1>2. unlinked' \subseteq Subjects
    BY DEF Save, TypeOK, UserType
  <1>3. UniqueIdentity'
    BY <1>1 DEF Sound, Apart, UniqueIdentity, Exists
  <1>4. ASSUME NEW u \in UserIds, NEW x, Holds(users, unlinked, u, x)
        PROVE  Holds(rows, unlinked', u, x)
    <2>1. users[u].subject \notin {None, rows[u].subject} => users[u].subject \in unlinked'
      BY DEF Save
    <2>2. x \in Subjects => x # None
      BY IdentityAssumption
    <2> QED
      BY <1>1, <1>4, <2>1, <2>2 DEF Holds, Sound, Exists
  <1> QED
    BY <1>1, <1>2, <1>3, <1>4 DEF Sound

-----------------------------------------------------------------------------
(* One step of the invariant.                                                *)

(* The requests outside P stay as they are, or are cut off; those that log   *)
(* in as a user of W are.                                                    *)
Moves(P, W) ==
  /\ op' \in [Procs -> OpType]
  /\ \A q \in Procs \ P :
       /\ op'[q] \in {op[q], [op[q] EXCEPT !.late = TRUE]}
       /\ op[q].id \in W /\ op[q].pc \in {"touch", "session"} => op'[q].late

(* Every session was one before, and a session of a user of W is late or     *)
(* about to be deleted; P no longer owes a deletion.                         *)
Inherits(P, W) ==
  /\ sessions' \subseteq SessionType
  /\ \A x \in sessions' : \E y \in sessions : x.user = y.user /\ x.by = y.by /\ (y.late => x.late)
  /\ \A x \in sessions' : x.user \in W /\ ~x.late => \E q \in Procs : op'[q].id = x.user /\ op'[q].pc = "revoke"
  /\ \A q \in P : op[q].pc = "revoke" => \A x \in sessions' : x.user # op[q].id \/ x.late

(* A request that is cut off has nothing more to keep.                       *)
LEMMA CutOK ==
  ASSUME NEW r \in OpType, NEW rows, NEW lost, RequestOK(r, rows, lost)
  PROVE  RequestOK([r EXCEPT !.late = TRUE], rows, lost)
  <1> DEFINE c == [r EXCEPT !.late = TRUE]
  <1>1. c.pc = r.pc /\ c.id = r.id /\ c.row = r.row /\ c.by = r.by /\ c.late
    BY DEF OpType
  <1> HIDE DEF c
  <1>2. RequestOK(c, rows, lost)
    BY <1>1 DEF RequestOK
  <1> QED
    BY <1>2 DEF c

(* What a request knows survives a write that keeps the hash it relies on.   *)
LEMMA KnowledgeStays ==
  ASSUME IdentityInv, NEW rows, Sound(rows), Save(rows), NEW r \in OpType,
         RequestOK(r, users, unlinked), rows[r.id].hash = users[r.id].hash \/ ~Exists(r.id) \/ r.late
  PROVE  RequestOK(r, rows, unlinked')
  <1>1. r.id \in UserIds
    BY DEF OpType
  <1>2. /\ Exists(r.id) => rows[r.id].status # "absent"
        /\ Holds(users, unlinked, r.id, r.by) => Holds(rows, unlinked', r.id, r.by)
    BY <1>1, Saved DEF IdentityInv
  <1>3. Holds(users, unlinked, r.id, r.by) => Exists(r.id)
    BY DEF Holds, Exists
  <1> QED
    BY <1>2, <1>3 DEF RequestOK, Exists

LEMMA RequestsStay ==
  ASSUME IdentityInv, NEW rows, Sound(rows), Save(rows), NEW P, NEW W, KeepsHash(rows, W), Moves(P, W),
         \A q \in P \cap Procs : RequestOK(op'[q], rows, unlinked')
  PROVE  RequestInv'
  <1>1. ASSUME NEW q \in Procs \ P
        PROVE  RequestOK(op'[q], rows, unlinked')
    <2>1. op[q] \in OpType /\ op[q].id \in UserIds /\ RequestOK(op[q], users, unlinked)
      BY DEF IdentityInv, TypeOK, OpType, RequestInv
    <2>2. op'[q] \in {op[q], [op[q] EXCEPT !.late = TRUE]}
      BY DEF Moves
    <2> DEFINE c == [op[q] EXCEPT !.late = TRUE]
    <2>3. c \in OpType /\ c.late /\ c.id = op[q].id
      BY <2>1 DEF OpType
    <2>4. RequestOK(c, users, unlinked)
      BY <2>1, CutOK
    <2> HIDE DEF c
    <2>5. RequestOK(c, rows, unlinked')
      BY <2>3, <2>4, KnowledgeStays
    <2>6. CASE op'[q] = op[q]
      <3>1. CASE op[q].id \notin W \/ op[q].late
        <4>1. rows[op[q].id].hash = users[op[q].id].hash \/ ~Exists(op[q].id) \/ op[q].late
          BY <2>1, <3>1 DEF KeepsHash
        <4> QED
          BY <2>1, <2>6, <4>1, KnowledgeStays
      <3>2. CASE op[q].id \in W /\ ~op[q].late
        <4>1. op[q].pc \notin {"touch", "session"}
          BY <2>6, <3>2 DEF Moves
        <4>2. /\ Exists(op[q].id) => rows[op[q].id].status # "absent"
              /\ Holds(users, unlinked, op[q].id, op[q].by) => Holds(rows, unlinked', op[q].id, op[q].by)
          BY <2>1, Saved DEF IdentityInv
        <4> QED
          BY <2>1, <2>6, <4>1, <4>2 DEF RequestOK, Exists
      <3> QED
        BY <3>1, <3>2
    <2> QED
      BY <2>2, <2>5, <2>6 DEF c
  <1>2. users' = rows
    BY DEF Save
  <1>3. \A q \in Procs : RequestOK(op'[q], users', unlinked')
    BY <1>1, <1>2
  <1> QED
    BY <1>3 DEF RequestInv

LEMMA SessionsStay ==
  ASSUME IdentityInv, NEW rows, Sound(rows), Save(rows), NEW P \in SUBSET Procs, NEW W, KeepsHash(rows, W),
         Moves(P, W), Inherits(P, W)
  PROVE  SessionInv' /\ SessionsFollowPassword'
  <1>1. users' = rows
    BY DEF Save
  <1>2. ASSUME NEW x \in sessions'
        PROVE  /\ Holds(users', unlinked', x.user, x.by)
               /\ x.by \in Passwords /\ ~x.late =>
                    x.by = users'[x.user].hash \/ \E q \in Procs : op'[q].id = x.user /\ op'[q].pc \in {"revoke"}
    <2>1. PICK y \in sessions : x.user = y.user /\ x.by = y.by /\ (y.late => x.late)
      BY <1>2 DEF Inherits
    <2>2. x.user \in UserIds /\ Holds(users, unlinked, x.user, x.by)
      BY <1>2, <2>1 DEF IdentityInv, SessionInv, Inherits, SessionType
    <2>3. Holds(users', unlinked', x.user, x.by)
      BY <1>1, <2>2, Saved DEF IdentityInv
    <2>4. ASSUME x.by \in Passwords, ~x.late
          PROVE  x.by = users'[x.user].hash \/ \E q \in Procs : op'[q].id = x.user /\ op'[q].pc \in {"revoke"}
      <3>1. CASE x.user \in W
        BY <1>2, <2>4, <3>1 DEF Inherits
      <3>2. CASE x.user \notin W /\ x.by = users[x.user].hash
        BY <1>1, <2>2, <3>2 DEF KeepsHash, Holds, Exists
      <3>3. ASSUME NEW q \in Procs, op[q].id = x.user, op[q].pc = "revoke"
            PROVE  op'[q].id = x.user /\ op'[q].pc = "revoke"
        <4>1. q \notin P
          BY <1>2, <2>4, <3>3 DEF Inherits
        <4>2. op[q] \in OpType /\ op'[q] \in {op[q], [op[q] EXCEPT !.late = TRUE]}
          BY <4>1 DEF Moves, IdentityInv, TypeOK
        <4> QED
          BY <3>3, <4>2 DEF OpType
      <3> QED
        BY <2>1, <2>4, <3>1, <3>2, <3>3 DEF IdentityInv, SessionsFollowPassword, Pending
    <2> QED
      BY <2>3, <2>4
  <1> QED
    BY <1>2 DEF SessionInv, SessionsFollowPassword, Pending

(* The step lemma: what each action has to show, for the requests P that it  *)
(* moves and the users W whose hash it writes.                               *)
LEMMA Step ==
  ASSUME IdentityInv, NEW rows, Sound(rows), Save(rows), NEW P \in SUBSET Procs, NEW W, KeepsHash(rows, W),
         Moves(P, W), Inherits(P, W), \A q \in P : RequestOK(op'[q], rows, unlinked'), RestOK'
  PROVE  IdentityInv'
  <1>1. UniqueIdentity' /\ users' = rows /\ unlinked' \subseteq Subjects
    BY Saved DEF IdentityInv
  <1>2. RequestInv'
    BY RequestsStay
  <1>3. SessionInv' /\ SessionsFollowPassword'
    BY SessionsStay
  <1>4. TypeOK'
    BY <1>1 DEF TypeOK, RestOK, Sound, Moves, Inherits, SessionType
  <1> QED
    BY <1>1, <1>2, <1>3, <1>4 DEF IdentityInv

-----------------------------------------------------------------------------
(* How actions move requests and sessions.                                   *)

LEMMA NoSave ==
  ASSUME UNCHANGED <<users, unlinked>>
  PROVE  Save(users)
  BY DEF Save

LEMMA PlainMove ==
  ASSUME TypeOK, NEW p \in Procs, NEW r \in OpType, op' = [op EXCEPT ![p] = r]
  PROVE  Moves({p}, {}) /\ op'[p] = r
  BY DEF TypeOK, Moves

(* CutOff makes every login as u late, the request's own too.                *)
LEMMA CutMove ==
  ASSUME TypeOK, NEW p \in Procs, NEW r \in OpType, NEW u, CutOff(u, [op EXCEPT ![p] = r])
  PROVE  /\ Moves({p}, {u}) /\ Moves({p}, {})
         /\ r.pc \notin {"touch", "bind", "mailbox", "session"} => op'[p] = r
         /\ r.pc = "session" /\ r.id = u => op'[p] = [r EXCEPT !.late = TRUE]
  <1> DEFINE next == [op EXCEPT ![p] = r]
  <1>1. next \in [Procs -> OpType] /\ next[p] = r /\ \A q \in Procs \ {p} : next[q] = op[q]
    BY DEF TypeOK
  <1> HIDE DEF next
  <1>2. op' = [q \in Procs |-> IF next[q].id = u /\ next[q].pc \in {"touch", "bind", "mailbox", "session"}
                              THEN [next[q] EXCEPT !.late = TRUE] ELSE next[q]]
    BY <1>1 DEF CutOff, next
  <1>3. \A q \in Procs : [next[q] EXCEPT !.late = TRUE] \in OpType /\ [next[q] EXCEPT !.late = TRUE].late
    BY <1>1 DEF OpType
  <1>4. op' \in [Procs -> OpType]
    BY <1>1, <1>2, <1>3
  <1>5. \A q \in Procs \ {p} :
          /\ op'[q] \in {op[q], [op[q] EXCEPT !.late = TRUE]}
          /\ op[q].id = u /\ op[q].pc \in {"touch", "session"} => op'[q].late
    BY <1>1, <1>2, <1>3
  <1>6. Moves({p}, {u}) /\ Moves({p}, {})
    BY <1>4, <1>5 DEF Moves
  <1> QED
    BY <1>1, <1>2, <1>6

LEMMA SameSessions ==
  ASSUME TypeOK, NEW p \in Procs, op[p].pc # "revoke", sessions' = sessions
  PROVE  Inherits({p}, {})
  BY DEF TypeOK, Inherits, SessionType

(* Outlived makes the sessions of u late.                                    *)
LEMMA OutlivedAll ==
  ASSUME TypeOK, NEW u, sessions' = Outlived(u), NEW x \in sessions'
  PROVE  /\ x \in SessionType
         /\ \E y \in sessions : x.user = y.user /\ x.by = y.by /\ (y.late => x.late)
         /\ x.user = u => x.late
  <1>1. PICK y \in sessions : x = [y EXCEPT !.late = @ \/ y.user = u]
    BY DEF Outlived
  <1>2. y \in SessionType
    BY DEF TypeOK, SessionType
  <1> QED
    BY <1>1, <1>2 DEF SessionType

LEMMA OutlivedSessions ==
  ASSUME TypeOK, NEW P \in SUBSET Procs, \A p \in P : op[p].pc # "revoke", NEW u, sessions' = Outlived(u)
  PROVE  Inherits(P, {u}) /\ Inherits(P, {})
  BY OutlivedAll DEF Inherits

(* A step that changes one request and nothing it depends on.                *)
LEMMA Quiet ==
  ASSUME IdentityInv, UNCHANGED <<users, unlinked>>, sessions' = sessions, NEW p \in Procs,
         NEW r \in OpType, op' = [op EXCEPT ![p] = r], op[p].pc # "revoke",
         RequestOK(r, users, unlinked), RestOK'
  PROVE  IdentityInv'
  <1>1. TypeOK /\ UniqueIdentity
    BY DEF IdentityInv
  <1>2. Sound(users) /\ KeepsHash(users, {}) /\ Save(users) /\ unlinked' = unlinked
    BY <1>1, SameSound, NoSave
  <1>3. Moves({p}, {}) /\ op'[p] = r /\ Inherits({p}, {})
    BY <1>1, PlainMove, SameSessions
  <1>4. \A q \in {p} : RequestOK(op'[q], users, unlinked')
    BY <1>2, <1>3
  <1> QED
    BY <1>2, <1>3, <1>4, Step

(* Nothing that sessions or requests depend on changes.                      *)
LEMMA Outside ==
  ASSUME IdentityInv, UNCHANGED <<users, unlinked, op>>, sessions' \subseteq sessions, RestOK'
  PROVE  IdentityInv'
  <1>1. TypeOK /\ UniqueIdentity
    BY DEF IdentityInv
  <1>2. Sound(users) /\ KeepsHash(users, {}) /\ Save(users)
    BY <1>1, SameSound, NoSave
  <1>3. Moves({}, {}) /\ Inherits({}, {})
    BY <1>1 DEF TypeOK, Moves, Inherits, SessionType
  <1>4. \A q \in {} : RequestOK(op'[q], users, unlinked')
    OBVIOUS
  <1>5. {} \in SUBSET Procs
    OBVIOUS
  <1> QED
    BY <1>2, <1>3, <1>4, <1>5, Step

(* A request begins: what it has read is what RequestOK asks.                *)
LEMMA BeginsOK ==
  ASSUME IdentityInv, NEW p \in Procs, NEW pc \in {"touch", "tombstone", "link", "edit", "reset", "setup", "account"},
         NEW u \in UserIds, NEW row \in UserType, NEW by \in Subjects \cup Passwords \cup {None, "new"},
         Begin(p, pc, u, row, by), UNCHANGED <<users, unlinked, sessions, boxes, mail, objects>>,
         pc \notin {"link", "reset"} => row.status # "absent",
         pc \in {"tombstone", "link"} => by \in Subjects,
         pc = "touch" => by \in Subjects \cup Passwords /\ Holds(users, unlinked, u, by),
         pc = "touch" /\ by \in Passwords => users[u].hash = by,
         pc \in {"reset", "setup"} => by \in Passwords,
         pc = "setup" => u = Root,
         pc = "tombstone" => row.subject = None,
         pc = "account" => row.email # None
  PROVE  IdentityInv'
  <1> DEFINE r == [NoOp EXCEPT !.pc = pc, !.id = u, !.row = row, !.by = by]
  <1>1. /\ r \in OpType /\ op' = [op EXCEPT ![p] = r] /\ op[p].pc = "idle"
        /\ r.pc = pc /\ r.id = u /\ r.row = row /\ r.by = by /\ r.late = FALSE
        /\ requests' \in 0..MaxRequests
    <2>1. NoOp \in OpType /\ NoOp.late = FALSE
      BY AbsentType DEF NoOp
    <2>2. r \in OpType /\ r.pc = pc /\ r.id = u /\ r.row = row /\ r.by = by /\ r.late = FALSE
      BY <2>1 DEF OpType
    <2>3. requests' \in 0..MaxRequests
      BY IdentityAssumption DEF Begin, IdentityInv, TypeOK
    <2> QED
      BY <2>2, <2>3 DEF Begin
  <1> HIDE DEF r
  <1>2. RequestOK(r, users, unlinked)
    BY <1>1 DEF RequestOK
  <1>3. RestOK'
    BY <1>1 DEF RestOK, IdentityInv, TypeOK
  <1> QED
    BY <1>1, <1>2, <1>3, Quiet

-----------------------------------------------------------------------------
(* The rows that requests prepare.                                           *)

LEMMA RowAt ==
  ASSUME TypeOK, NEW u \in UserIds
  PROVE  users[u] \in UserType
  BY DEF TypeOK

LEMMA TombstoneType ==
  ASSUME NEW u \in UserIds, NEW row \in UserType
  PROVE  /\ TombstoneUserIdentity(u, row) \in UserType
         /\ TombstoneUserIdentity(u, row).status = "deleted"
         /\ TombstoneUserIdentity(u, row).subject = None
         /\ TombstoneUserIdentity(u, row).hash = row.hash
  <1>1. <<"deleted", u>> \in Logins
    BY DEF Logins
  <1> QED
    BY <1>1 DEF TombstoneUserIdentity, UserType

LEMMA AdminRowType ==
  ASSUME TypeOK, NEW n \in Names
  PROVE  AdminRow(n) \in UserType /\ AdminRow(n).status = "active" /\ AdminRow(n).subject = users[Root].subject
  <1>1. Plain(n) \in Logins /\ users[Root] \in UserType
    BY IdentityAssumption, RowAt DEF Plain, Logins
  <1> QED
    BY <1>1 DEF AdminRow, UserType

(* The row that links an account (linkExistingLocalUser).                    *)
LEMMA LinkedType ==
  ASSUME TypeOK, NEW u \in UserIds, NEW s \in Subjects
  PROVE  /\ Linked(u, s) \in UserType
         /\ Linked(u, s).subject = s /\ Linked(u, s).status = users[u].status
  <1>1. users[u] \in UserType
    BY RowAt
  <1>2. Claims[s].email \in Emails \cup {None}
    BY IdentityAssumption
  <1> DEFINE e == IF users[u].email = None THEN Claims[s].email ELSE users[u].email
             o == IF Claims[s].adminGroup THEN "admin" ELSE users[u].role
  <1>3. e \in Emails \cup {None} /\ o \in {"user", "admin"}
    BY <1>1, <1>2 DEF UserType
  <1>4. Linked(u, s) = [users[u] EXCEPT !.subject = s, !.email = e, !.role = o]
    BY <1>1 DEF Linked, UserType
  <1> HIDE DEF e, o
  <1> QED
    BY <1>1, <1>3, <1>4 DEF UserType

(* The row that provisioning creates.                                        *)
LEMMA NewRowType ==
  ASSUME NEW s \in Subjects
  PROVE  NewUserRow(s) \in UserType /\ NewUserRow(s).subject = s /\ NewUserRow(s).status = "active"
  <1> DEFINE c == Claims[s]
             n == CASE c.name # None -> Plain(c.name)
                    [] c.name = None /\ c.email # None -> Plain(c.email)
                    [] OTHER -> <<"oidc", s>>
             l == IF GetUserByLogin(n) = {} THEN n ELSE <<n[1], s>>
             o == IF c.adminGroup THEN "admin" ELSE "user"
  <1>1. c.name \in Names \cup {None} /\ c.email \in Emails \cup {None}
    BY IdentityAssumption
  <1>2. n \in Logins /\ n[1] \in Names \cup Emails \cup {"oidc"}
    BY <1>1 DEF Logins, Plain
  <1>3. l \in Logins
    BY <1>2 DEF Logins
  <1>4. o \in {"user", "admin"}
    OBVIOUS
  <1>5. NewUserRow(s) = [Absent EXCEPT !.login = l, !.email = c.email, !.status = "active",
                                       !.provider = "oidc", !.subject = s, !.role = o]
    BY DEF NewUserRow
  <1> HIDE DEF n, l, o, c
  <1> QED
    BY <1>1, <1>3, <1>4, <1>5, AbsentType DEF UserType

-----------------------------------------------------------------------------
(* Requests begin.                                                           *)

LEMMA AuthenticateInv ==
  ASSUME IdentityInv, NEW p \in Procs, NEW n \in Names, NEW w \in Passwords, AuthenticateLocal(p, n, w)
  PROVE  IdentityInv'
  <1>1. PICK u \in UserIds : Active(u) /\ users[u].hash = w /\ Begin(p, "touch", u, users[u], w)
    BY DEF AuthenticateLocal, GetUserByLogin
  <1>2. w \in Subjects \cup Passwords /\ w \notin Subjects
    BY IdentityAssumption
  <1>3. Holds(users, unlinked, u, w) /\ users[u].status # "absent" /\ users[u] \in UserType
    BY <1>1, <1>2, RowAt DEF Holds, Active, IdentityInv
  <1> QED
    BY <1>1, <1>2, <1>3, BeginsOK DEF AuthenticateLocal

LEMMA ResolveInv ==
  ASSUME IdentityInv, NEW p \in Procs, NEW s \in Subjects, ResolveOIDCIdentity(p, s)
  PROVE  IdentityInv'
  <1> USE DEF ResolveOIDCIdentity
  <1>1. s \notin Passwords /\ Root \in UserIds /\ Absent \in UserType
    BY IdentityAssumption, AbsentType
  <1>2. ASSUME NEW u \in GetUserByOIDC(s), Active(u), Begin(p, "touch", u, users[u], s)
        PROVE  IdentityInv'
    <2>1. u \in UserIds /\ Holds(users, unlinked, u, s) /\ users[u].status # "absent"
      BY <1>2 DEF GetUserByOIDC, Holds, Exists
    <2>2. users[u] \in UserType
      BY <2>1, RowAt DEF IdentityInv
    <2> QED
      BY <1>1, <1>2, <2>1, <2>2, BeginsOK
  <1>3. ASSUME NEW u \in GetUserByOIDC(s), Begin(p, "tombstone", u, TombstoneUserIdentity(u, users[u]), s)
        PROVE  IdentityInv'
    <2>1. u \in UserIds
      BY DEF GetUserByOIDC
    <2> DEFINE row == TombstoneUserIdentity(u, users[u])
    <2>2. row \in UserType /\ row.status # "absent" /\ row.subject = None
      BY <2>1, RowAt, TombstoneType DEF IdentityInv
    <2> HIDE DEF row
    <2>3. Begin(p, "tombstone", u, row, s)
      BY <1>3 DEF row
    <2> QED
      BY <2>1, <2>2, <2>3, BeginsOK
  <1>4. CASE Begin(p, "link", Root, Absent, s)
    BY <1>1, <1>4, BeginsOK
  <1> QED
    BY <1>2, <1>3, <1>4

LEMMA AdminBeginsInv ==
  ASSUME IdentityInv, NEW p \in Procs, NEW a \in UserIds, NEW u \in UserIds,
         \/ \E e \in Edits : AdminEditUser(p, a, u, e)
         \/ AdminDeleteUser(p, a, u)
         \/ \E w \in Passwords : AdminResetPassword(p, a, u, w)
  PROVE  IdentityInv'
  <1>1. users[u] \in UserType
    BY RowAt DEF IdentityInv
  <1>2. ASSUME NEW e \in Edits, AdminEditUser(p, a, u, e)
        PROVE  IdentityInv'
    <2> DEFINE m == IF e.named THEN e.email ELSE users[u].email
               row == [users[u] EXCEPT !.role = e.role, !.status = e.status, !.email = m]
    <2>1. e.role \in {"user", "admin"} /\ e.status \in {"active", "disabled"} /\ m \in Emails \cup {None}
      BY <1>1, IdentityAssumption DEF UserType
    <2>2. Begin(p, "edit", u, row, None) /\ UNCHANGED <<users, unlinked, sessions, boxes, mail, objects>>
      <3>1. row = [users[u] EXCEPT !.role = e.role, !.status = e.status,
                                   !.email = IF e.named THEN e.email ELSE @]
        BY <1>1 DEF UserType
      <3> QED
        BY <1>2, <3>1 DEF AdminEditUser
    <2> HIDE DEF m
    <2>3. row \in UserType /\ row.status # "absent"
      BY <1>1, <2>1 DEF UserType
    <2> HIDE DEF row
    <2> QED
      BY <2>2, <2>3, BeginsOK
  <1>3. CASE AdminDeleteUser(p, a, u)
    <2> DEFINE row == TombstoneUserIdentity(u, users[u])
    <2>1. row \in UserType /\ row.status # "absent"
      BY <1>1, TombstoneType
    <2>2. Begin(p, "edit", u, row, None) /\ UNCHANGED <<users, unlinked, sessions, boxes, mail, objects>>
      BY <1>3 DEF AdminDeleteUser
    <2> HIDE DEF row
    <2> QED
      BY <2>1, <2>2, BeginsOK
  <1>4. ASSUME NEW w \in Passwords, AdminResetPassword(p, a, u, w)
        PROVE  IdentityInv'
    BY <1>1, <1>4, BeginsOK DEF AdminResetPassword
  <1> QED
    BY <1>2, <1>3, <1>4

LEMMA SetupBeginsInv ==
  ASSUME IdentityInv, NEW p \in Procs, NEW n \in Names, NEW w \in Passwords, SetupInitialAdmin(p, n, w)
  PROVE  IdentityInv'
  <1>1. AdminRow(n) \in UserType /\ AdminRow(n).status # "absent" /\ Root \in UserIds
    BY AdminRowType, IdentityAssumption DEF IdentityInv
  <1> QED
    BY <1>1, BeginsOK DEF SetupInitialAdmin

-----------------------------------------------------------------------------
(* Requests go on.                                                           *)

(* The request at its next step.                                             *)
Went(p, pc) == [op[p] EXCEPT !.pc = pc]

LEMMA WentOK ==
  ASSUME TypeOK, NEW p \in Procs,
         NEW pc \in {"touch", "session", "link", "bind", "create", "mailbox", "revoke", "setpw"}
  PROVE  /\ Went(p, pc) \in OpType
         /\ Went(p, pc).pc = pc /\ Went(p, pc).id = op[p].id /\ Went(p, pc).row = op[p].row
         /\ Went(p, pc).by = op[p].by /\ Went(p, pc).late = op[p].late
         /\ [op EXCEPT ![p].pc = pc] = [op EXCEPT ![p] = Went(p, pc)]
  <1>1. op[p] \in OpType
    BY DEF TypeOK
  <1>2. [op EXCEPT ![p].pc = pc] = [op EXCEPT ![p] = Went(p, pc)]
    BY DEF Went
  <1> QED
    BY <1>1, <1>2 DEF Went, OpType

(* A request that has ended owes nothing.                                    *)
LEMMA EndedOK ==
  ASSUME NEW rows, NEW lost
  PROVE  RequestOK(NoOp, rows, lost) /\ NoOp.pc = "idle"
  BY DEF RequestOK, NoOp

LEMMA OpAt ==
  ASSUME IdentityInv, NEW p \in Procs
  PROVE  op[p] \in OpType /\ op[p].id \in UserIds /\ op[p].row \in UserType /\ RequestOK(op[p], users, unlinked)
  BY DEF IdentityInv, TypeOK, OpType, RequestInv

(* A statement writes users, and the request that made it goes on.           *)
LEMMA WriteStep ==
  ASSUME IdentityInv, NEW p \in Procs, NEW rows, Sound(rows), Save(rows), KeepsHash(rows, {}),
         NEW r \in OpType, op' = [op EXCEPT ![p] = r], op[p].pc # "revoke",
         RequestOK(r, rows, unlinked'), UNCHANGED <<sessions, boxes, mail, objects, requests>>
  PROVE  IdentityInv'
  <1>1. Moves({p}, {}) /\ op'[p] = r /\ Inherits({p}, {})
    BY PlainMove, SameSessions DEF IdentityInv
  <1>2. RestOK'
    BY DEF RestOK, IdentityInv, TypeOK
  <1>3. \A q \in {p} : RequestOK(op'[q], rows, unlinked')
    BY <1>1
  <1> QED
    BY <1>1, <1>2, <1>3, Step

LEMMA TouchInv ==
  ASSUME IdentityInv, NEW p \in Procs, TouchLogin(p)
  PROVE  IdentityInv'
  <1> DEFINE pc == IF op[p].by \in Subjects THEN "mailbox" ELSE "session"
             r == Went(p, pc)
             rows == TryUpdateUser(op[p].id, op[p].row)
  <1>1. /\ op[p].pc = "touch" /\ Save(rows) /\ op' = [op EXCEPT ![p].pc = pc]
        /\ UNCHANGED <<sessions, boxes, mail, objects, requests>>
    BY DEF TouchLogin, At, Goto
  <1>2. /\ op[p] \in OpType /\ op[p].id \in UserIds /\ op[p].row \in UserType /\ op[p].row.status # "absent"
        /\ RequestOK(op[p], users, unlinked)
    BY <1>1, OpAt DEF RequestOK
  <1>3. Sound(rows) /\ KeepsHash(rows, {})
    BY <1>2, TryUpdateSound DEF IdentityInv
  <1>4. /\ r \in OpType /\ r.pc = pc /\ r.id = op[p].id /\ r.row = op[p].row /\ r.by = op[p].by
        /\ r.late = op[p].late /\ op' = [op EXCEPT ![p] = r]
    BY <1>1, WentOK DEF IdentityInv
  <1>5. RequestOK(op[p], rows, unlinked')
    <2>1. rows[op[p].id].hash = users[op[p].id].hash \/ ~Exists(op[p].id)
      BY <1>2, <1>3 DEF KeepsHash
    <2> HIDE DEF rows
    <2> QED
      BY <1>1, <1>2, <1>3, <2>1, KnowledgeStays
  <1> HIDE DEF rows, r
  <1>6. RequestOK(r, rows, unlinked')
    BY <1>1, <1>4, <1>5, IdentityAssumption DEF RequestOK
  <1> HIDE DEF pc
  <1> QED
    BY <1>1, <1>3, <1>4, <1>6, WriteStep

LEMMA ReleaseInv ==
  ASSUME IdentityInv, NEW p \in Procs, ReleaseIdentity(p)
  PROVE  IdentityInv'
  <1> DEFINE r == Went(p, "link")
             u == op[p].id
             rows == UpdateUser(u, op[p].row)
  <1>1. /\ op[p].pc = "tombstone" /\ Save(rows) /\ CutOff(u, [op EXCEPT ![p].pc = "link"])
        /\ sessions' = Outlived(u) /\ UNCHANGED <<boxes, mail, objects, requests>>
    BY DEF ReleaseIdentity, At
  <1>2. /\ u \in UserIds /\ op[p].row \in UserType /\ op[p].row.status # "absent"
        /\ op[p].row.subject = None /\ op[p].by \in Subjects
    BY <1>1, OpAt DEF RequestOK
  <1>3. Sound(rows) /\ KeepsHash(rows, {})
    BY <1>2, UpdateSound DEF IdentityInv
  <1>4. r \in OpType /\ r.pc = "link" /\ r.by = op[p].by /\ CutOff(u, [op EXCEPT ![p] = r])
    BY <1>1, WentOK DEF IdentityInv
  <1> HIDE DEF rows, r
  <1>5. Moves({p}, {}) /\ op'[p] = r
    BY <1>4, CutMove DEF IdentityInv
  <1>6. Inherits({p}, {})
    BY <1>1, OutlivedSessions DEF IdentityInv
  <1>7. \A q \in {p} : RequestOK(op'[q], rows, unlinked')
    BY <1>2, <1>4, <1>5 DEF RequestOK
  <1>8. RestOK'
    BY <1>1 DEF RestOK, IdentityInv, TypeOK
  <1> QED
    BY <1>1, <1>3, <1>5, <1>6, <1>7, <1>8, Step

(* A login that provisions ends here, or has a row to create.                *)
LEMMA ProvisionOK ==
  ASSUME IdentityInv, NEW p \in Procs, Provision(p), op[p].by \in Subjects
  PROVE  \E r \in OpType : op' = [op EXCEPT ![p] = r] /\ \A rows, lost : RequestOK(r, rows, lost)
  <1>1. CASE op' = [op EXCEPT ![p] = NoOp]
    BY <1>1, AbsentType, EndedOK
  <1>2. CASE op' = [op EXCEPT ![p].pc = "create", ![p].row = NewUserRow(op[p].by)]
    <2> DEFINE row == NewUserRow(op[p].by)
               r == [op[p] EXCEPT !.pc = "create", !.row = row]
    <2>1. row \in UserType /\ row.subject = op[p].by /\ row.status = "active"
      BY NewRowType
    <2>2. op[p] \in OpType
      BY OpAt
    <2> HIDE DEF row
    <2>3. r \in OpType /\ r.pc = "create" /\ r.row = row /\ r.by = op[p].by
      BY <2>1, <2>2 DEF OpType
    <2>4. op' = [op EXCEPT ![p] = r]
      BY <1>2, <2>2 DEF row, IdentityInv, TypeOK
    <2> HIDE DEF r
    <2>5. \A rs, lost : RequestOK(r, rs, lost)
      BY <2>1, <2>3 DEF RequestOK
    <2> QED
      BY <2>3, <2>4, <2>5
  <1> QED
    BY <1>1, <1>2 DEF Provision, End

LEMMA LinkInv ==
  ASSUME IdentityInv, NEW p \in Procs, LinkExistingLocalUser(p)
  PROVE  IdentityInv'
  <1> DEFINE s == op[p].by
  <1>1. op[p].pc = "link" /\ UNCHANGED <<users, unlinked, sessions, boxes, mail, objects, requests>>
    BY DEF LinkExistingLocalUser, At
  <1>2. s \in Subjects /\ op[p] \in OpType /\ RestOK'
    BY <1>1, OpAt DEF RequestOK, RestOK, IdentityInv, TypeOK
  <1>3. CASE Provision(p)
    <2>1. PICK r \in OpType : op' = [op EXCEPT ![p] = r] /\ \A rows, lost : RequestOK(r, rows, lost)
      BY <1>2, <1>3, ProvisionOK
    <2> QED
      BY <1>1, <1>2, <2>1, Quiet
  <1>4. ASSUME NEW u \in UserIds, Active(u),
               op' = [op EXCEPT ![p].pc = "bind", ![p].id = u, ![p].row = Linked(u, s)]
        PROVE  IdentityInv'
    <2> DEFINE row == Linked(u, s)
               r == [op[p] EXCEPT !.pc = "bind", !.id = u, !.row = row]
    <2>1. row \in UserType /\ row.subject = s /\ row.status # "absent" /\ users[u].status # "absent"
      BY <1>2, <1>4, LinkedType DEF IdentityInv, Active
    <2> HIDE DEF row
    <2>2. r \in OpType /\ r.pc = "bind" /\ r.id = u /\ r.row = row /\ r.by = s
      BY <1>2, <2>1 DEF OpType
    <2>3. op' = [op EXCEPT ![p] = r]
      BY <1>2, <1>4 DEF row, IdentityInv, TypeOK
    <2> HIDE DEF r
    <2>4. RequestOK(r, users, unlinked)
      BY <1>2, <2>1, <2>2 DEF RequestOK
    <2> QED
      BY <1>1, <1>2, <2>2, <2>3, <2>4, Quiet
  <1>5. \/ Provision(p)
        \/ \E u \in UserIds : Active(u) /\ op' = [op EXCEPT ![p].pc = "bind", ![p].id = u, ![p].row = Linked(u, s)]
    BY DEF LinkExistingLocalUser, OidcLinkCandidate, GetUserByEmail, GetUserByLogin, MayLink
  <1> QED
    BY <1>3, <1>4, <1>5

LEMMA BindInv ==
  ASSUME IdentityInv, NEW p \in Procs, BindIdentity(p)
  PROVE  IdentityInv'
  <1>1. op[p].pc = "bind" /\ UNCHANGED <<sessions, boxes, mail, objects, requests>>
    BY DEF BindIdentity, At
  <1>2. /\ op[p].id \in UserIds /\ op[p].row \in UserType /\ op[p].row.status # "absent"
        /\ op[p].by \in Subjects /\ op[p].row.subject = op[p].by
    BY <1>1, OpAt DEF RequestOK
  <1> DEFINE u == op[p].id
             rows == UpdateUser(u, op[p].row)
             r == Went(p, "mailbox")
  <1>3. CASE Unique(u, op[p].row) /\ Save(rows) /\ Goto(p, "mailbox")
    <2>1. Sound(rows) /\ KeepsHash(rows, {})
      BY <1>2, <1>3, UpdateSound DEF IdentityInv
    <2>2. /\ r \in OpType /\ r.pc = "mailbox" /\ r.id = u /\ r.by = op[p].by
          /\ op' = [op EXCEPT ![p] = r]
      BY <1>3, WentOK DEF IdentityInv, Goto
    <2>3. Holds(rows, unlinked', u, op[p].by)
      <3>1. rows[u] = [op[p].row EXCEPT !.hash = users[u].hash]
        BY <1>2 DEF UpdateUser, IdentityInv, TypeOK
      <3>2. rows[u].status = op[p].row.status /\ rows[u].subject = op[p].row.subject
        BY <1>2, <3>1 DEF UserType
      <3> QED
        BY <1>2, <3>2 DEF Holds
    <2> HIDE DEF rows, r
    <2>4. RequestOK(r, rows, unlinked')
      BY <1>2, <2>2, <2>3 DEF RequestOK
    <2> QED
      BY <1>1, <1>3, <2>1, <2>2, <2>4, WriteStep
  <1>4. CASE Save(users) /\ Provision(p)
    <2>1. PICK r2 \in OpType : op' = [op EXCEPT ![p] = r2] /\ \A rs, lost : RequestOK(r2, rs, lost)
      BY <1>2, <1>4, ProvisionOK
    <2>2. Sound(users) /\ KeepsHash(users, {})
      BY SameSound DEF IdentityInv
    <2> QED
      BY <1>1, <1>4, <2>1, <2>2, WriteStep
  <1> QED
    BY <1>3, <1>4 DEF BindIdentity

LEMMA NewIdOK ==
  ASSUME NEW u \in NewId
  PROVE  u \in UserIds /\ ~Exists(u)
  BY DEF NewId

(* A row where there was none.                                               *)
LEMMA NewRowSound ==
  ASSUME TypeOK, UniqueIdentity, NEW u \in NewId, NEW row \in UserType,
         row.status # "absent", Unique(u, row) \/ row.subject = None
  PROVE  Sound([users EXCEPT ![u] = row]) /\ KeepsHash([users EXCEPT ![u] = row], {})
  <1>1. u \in UserIds /\ ~Exists(u)
    BY NewIdOK
  <1>2. Sound([users EXCEPT ![u] = row]) /\ KeepsHash([users EXCEPT ![u] = row], {u})
    BY <1>1, InsertSound
  <1> QED
    BY <1>1, <1>2 DEF KeepsHash

(* Of two first logins of one person one creates the account, and the other  *)
(* finds it (createOIDCUser).                                                *)
LEMMA CreateInv ==
  ASSUME IdentityInv, NEW p \in Procs, CreateOIDCUser(p)
  PROVE  IdentityInv'
  <1> DEFINE row == op[p].row
  <1>1. op[p].pc = "create" /\ UNCHANGED <<sessions, boxes, mail, objects, requests>>
    BY DEF CreateOIDCUser, At
  <1>2. /\ op[p] \in OpType /\ row \in UserType /\ row.status # "absent"
        /\ op[p].by \in Subjects /\ row.subject = op[p].by /\ op[p].by \notin Passwords
    BY <1>1, OpAt, IdentityAssumption DEF RequestOK
  <1>3. Sound(users) /\ KeepsHash(users, {})
    BY SameSound DEF IdentityInv
  <1>4. ASSUME NEW u \in NewId, Unique(u, row), Save([users EXCEPT ![u] = row]),
               op' = [op EXCEPT ![p].pc = "mailbox", ![p].id = u]
        PROVE  IdentityInv'
    <2> DEFINE rows == [users EXCEPT ![u] = row]
               r == [op[p] EXCEPT !.pc = "mailbox", !.id = u]
    <2>1. Sound(rows) /\ KeepsHash(rows, {}) /\ u \in UserIds
      BY <1>2, <1>4, NewRowSound, NewIdOK DEF IdentityInv
    <2>2. r \in OpType /\ r.pc = "mailbox" /\ r.id = u /\ r.by = op[p].by
      BY <1>2, <2>1 DEF OpType
    <2>3. op' = [op EXCEPT ![p] = r]
      BY <1>2, <1>4 DEF IdentityInv, TypeOK
    <2>4. rows[u] = row
      BY <2>1 DEF IdentityInv, TypeOK
    <2> HIDE DEF rows, r
    <2>5. RequestOK(r, rows, unlinked')
      BY <1>2, <2>2, <2>4 DEF RequestOK, Holds
    <2>6. Save(rows)
      BY <1>4 DEF rows
    <2> QED
      BY <1>1, <2>1, <2>2, <2>3, <2>5, <2>6, WriteStep
  <1>5. ASSUME NEW u \in GetUserByOIDC(row.subject), Active(u), Save(users),
               op' = [op EXCEPT ![p].pc = "touch", ![p].id = u, ![p].row = users[u]]
        PROVE  IdentityInv'
    <2> DEFINE r == [op[p] EXCEPT !.pc = "touch", !.id = u, !.row = users[u]]
    <2>1. u \in UserIds /\ users[u].subject = op[p].by /\ users[u].status # "absent"
      BY <1>2 DEF GetUserByOIDC, Exists
    <2>2. users[u] \in UserType
      BY <2>1, RowAt DEF IdentityInv
    <2>3. r \in OpType /\ r.pc = "touch" /\ r.id = u /\ r.by = op[p].by /\ r.row = users[u]
      BY <1>2, <2>1, <2>2 DEF OpType
    <2>4. op' = [op EXCEPT ![p] = r]
      BY <1>2, <1>5 DEF IdentityInv, TypeOK
    <2> HIDE DEF r
    <2>5. RequestOK(r, users, unlinked')
      BY <1>2, <2>1, <2>3 DEF RequestOK, Holds
    <2> QED
      BY <1>1, <1>3, <1>5, <2>3, <2>4, <2>5, WriteStep
  <1>6. CASE Save(users) /\ op' = [op EXCEPT ![p] = NoOp]
    <2>1. NoOp \in OpType /\ RequestOK(NoOp, users, unlinked')
      BY AbsentType, EndedOK
    <2> QED
      BY <1>1, <1>3, <1>6, <2>1, WriteStep
  <1> QED
    BY <1>4, <1>5, <1>6 DEF CreateOIDCUser, End

LEMMA MailboxInv ==
  ASSUME IdentityInv, NEW p \in Procs, AutoProvisionMail(p)
  PROVE  IdentityInv'
  <1> DEFINE r == Went(p, "session")
  <1>1. op[p].pc = "mailbox" /\ UNCHANGED <<users, unlinked, sessions, mail, objects, requests>>
    BY DEF AutoProvisionMail, At
  <1>2. op[p].id \in UserIds /\ op[p].row \in UserType /\ RequestOK(op[p], users, unlinked)
    BY OpAt
  <1>3. RestOK'
    <2>1. op[p].row.email \in Emails \cup {None}
      BY <1>2 DEF UserType
    <2>2. boxes' \subseteq boxes \cup {<<op[p].id, op[p].row.email>>} /\ (boxes' = boxes \/ op[p].row.email # None)
      BY DEF AutoProvisionMail
    <2> QED
      BY <1>1, <1>2, <2>1, <2>2 DEF RestOK, IdentityInv, TypeOK
  <1>4. /\ r \in OpType /\ r.pc = "session" /\ r.id = op[p].id /\ r.by = op[p].by
        /\ op' = [op EXCEPT ![p] = r]
    BY WentOK DEF IdentityInv, AutoProvisionMail, Goto
  <1> HIDE DEF r
  <1>5. RequestOK(r, users, unlinked)
    <2>1. op[p].by \in Subjects /\ op[p].by \notin Passwords
      BY <1>1, <1>2, IdentityAssumption DEF RequestOK
    <2> QED
      BY <1>1, <1>2, <1>4, <2>1 DEF RequestOK
  <1> QED
    BY <1>1, <1>3, <1>4, <1>5, Quiet

(* The session is opened with what the request has verified (CreateSession). *)
LEMMA SessionOpenInv ==
  ASSUME IdentityInv, NEW p \in Procs, CreateSession(p)
  PROVE  IdentityInv'
  <1> DEFINE new == [user |-> op[p].id, by |-> op[p].by, late |-> op[p].late]
  <1>1. /\ op[p].pc = "session" /\ UNCHANGED <<users, unlinked, boxes, mail, objects, requests>>
        /\ sessions' = sessions \cup {new} /\ op' = [op EXCEPT ![p] = NoOp]
    BY DEF CreateSession, At, End
  <1>2. op[p] \in OpType /\ RequestOK(op[p], users, unlinked)
    BY OpAt
  <1>3. Sound(users) /\ KeepsHash(users, {}) /\ Save(users)
    BY <1>1, SameSound, NoSave DEF IdentityInv
  <1>4. Moves({p}, {}) /\ op'[p] = NoOp
    BY <1>1, AbsentType, PlainMove DEF IdentityInv
  <1>5. RequestInv'
    <2>1. \A q \in {p} \cap Procs : RequestOK(op'[q], users, unlinked')
      BY <1>4, EndedOK
    <2> QED
      BY <1>3, <1>4, <2>1, RequestsStay
  <1>6. new \in SessionType /\ Holds(users, unlinked, new.user, new.by)
    BY <1>1, <1>2 DEF RequestOK, OpType, SessionType
  <1>7. new.by \in Passwords /\ ~new.late => new.by = users[new.user].hash
    BY <1>1, <1>2 DEF RequestOK
  <1> HIDE DEF new
  <1>8. SessionInv'
    BY <1>1, <1>6 DEF SessionInv, IdentityInv
  <1>9. SessionsFollowPassword'
    <2>1. \A q \in Procs : op[q].pc = "revoke" => op'[q] = op[q]
      BY <1>1 DEF IdentityInv, TypeOK
    <2> QED
      BY <1>1, <1>7, <2>1 DEF SessionsFollowPassword, Pending, IdentityInv
  <1>10. TypeOK'
    BY <1>1, <1>4, <1>6 DEF TypeOK, IdentityInv, SessionType, Moves
  <1>11. UniqueIdentity'
    BY <1>1 DEF UniqueIdentity, Exists, IdentityInv
  <1> QED
    BY <1>5, <1>8, <1>9, <1>10, <1>11 DEF IdentityInv

-----------------------------------------------------------------------------
(* Administration.                                                           *)

LEMMA AdminWriteInv ==
  ASSUME IdentityInv, NEW p \in Procs, AdminWrite(p)
  PROVE  IdentityInv'
  <1> DEFINE u == op[p].id
             row == op[p].row
             rows == UpdateUser(u, row)
  <1>1. op[p].pc = "edit" /\ UNCHANGED <<sessions, boxes, mail, objects, requests>>
    BY DEF AdminWrite, At
  <1>2. u \in UserIds /\ row \in UserType /\ row.status # "absent"
    BY <1>1, OpAt DEF RequestOK
  <1>3. NoOp \in OpType /\ \A rs, lost : RequestOK(NoOp, rs, lost)
    BY AbsentType, EndedOK
  <1>4. CASE Unique(u, row) /\ Save(rows)
    <2>1. Sound(rows) /\ KeepsHash(rows, {})
      BY <1>2, <1>4, UpdateSound DEF IdentityInv
    <2>2. CASE op' = [op EXCEPT ![p] = NoOp]
      <3> HIDE DEF rows
      <3> QED
        BY <1>1, <1>3, <1>4, <2>1, <2>2, WriteStep
    <2>3. CASE CutOff(u, [op EXCEPT ![p].pc = "revoke"])
      <3> DEFINE r == Went(p, "revoke")
      <3>1. r \in OpType /\ r.pc = "revoke" /\ CutOff(u, [op EXCEPT ![p] = r])
        BY <2>3, WentOK DEF IdentityInv
      <3> HIDE DEF rows, r
      <3>2. Moves({p}, {}) /\ op'[p] = r
        BY <3>1, CutMove DEF IdentityInv
      <3>3. Inherits({p}, {})
        BY <1>1, SameSessions DEF IdentityInv
      <3>4. \A q \in {p} : RequestOK(op'[q], rows, unlinked')
        BY <3>1, <3>2 DEF RequestOK
      <3>5. RestOK'
        BY <1>1 DEF RestOK, IdentityInv, TypeOK
      <3> QED
        BY <1>4, <2>1, <3>2, <3>3, <3>4, <3>5, Step
    <2>4. op' = [op EXCEPT ![p] = NoOp] \/ CutOff(u, [op EXCEPT ![p].pc = "revoke"])
      <3>1. \/ IF row.status = "active" THEN End(p) ELSE CutOff(u, [op EXCEPT ![p].pc = "revoke"])
            \/ End(p)
        BY DEF AdminWrite
      <3> QED
        BY <3>1 DEF End
    <2> QED
      BY <2>2, <2>3, <2>4
  <1>5. CASE Save(users) /\ op' = [op EXCEPT ![p] = NoOp]
    <2>1. Sound(users) /\ KeepsHash(users, {})
      BY SameSound DEF IdentityInv
    <2> QED
      BY <1>1, <1>3, <1>5, <2>1, WriteStep
  <1> QED
    BY <1>4, <1>5 DEF AdminWrite, End

(* The deletion that the request owed is done (DeleteUserSessions).          *)
LEMMA RevokeInv ==
  ASSUME IdentityInv, NEW p \in Procs, DeleteUserSessions(p)
  PROVE  IdentityInv'
  <1>1. /\ UNCHANGED <<users, unlinked, boxes, mail, objects, requests>>
        /\ op' = [op EXCEPT ![p] = NoOp]
        /\ sessions' = {x \in sessions : x.user # op[p].id} \/ sessions' = Outlived(op[p].id)
    BY DEF DeleteUserSessions, At, End
  <1>2. Sound(users) /\ KeepsHash(users, {}) /\ Save(users)
    BY <1>1, SameSound, NoSave DEF IdentityInv
  <1>3. Moves({p}, {}) /\ op'[p] = NoOp
    BY <1>1, AbsentType, PlainMove DEF IdentityInv
  <1>4. Inherits({p}, {})
    <2>1. CASE sessions' = {x \in sessions : x.user # op[p].id}
      BY <1>1, <2>1 DEF Inherits, SessionType, IdentityInv, TypeOK
    <2>2. CASE sessions' = Outlived(op[p].id)
      BY <1>1, <2>2, OutlivedAll DEF Inherits, IdentityInv
    <2> QED
      BY <1>1, <2>1, <2>2
  <1>5. \A q \in {p} : RequestOK(op'[q], users, unlinked')
    BY <1>3, EndedOK
  <1>6. RestOK'
    BY <1>1 DEF RestOK, IdentityInv, TypeOK
  <1> QED
    BY <1>2, <1>3, <1>4, <1>5, <1>6, Step

(* The password is replaced: the sessions that it opened are about to be     *)
(* deleted, and logins past their check are late (AdminResetPassword).       *)
LEMMA ResetInv ==
  ASSUME IdentityInv, NEW p \in Procs, ResetWrite(p)
  PROVE  IdentityInv'
  <1> DEFINE u == op[p].id
             rows == SetUserPassword(u, op[p].by)
             r == Went(p, "revoke")
  <1>1. /\ op[p].pc = "reset" /\ Save(rows) /\ CutOff(u, [op EXCEPT ![p].pc = "revoke"])
        /\ UNCHANGED <<sessions, boxes, mail, objects, requests>>
    BY DEF ResetWrite, At
  <1>2. u \in UserIds /\ op[p].by \in Passwords
    BY <1>1, OpAt DEF RequestOK
  <1>3. Sound(rows) /\ KeepsHash(rows, {u})
    BY <1>2, PasswordSound DEF IdentityInv
  <1>4. r \in OpType /\ r.pc = "revoke" /\ r.id = u /\ CutOff(u, [op EXCEPT ![p] = r])
    BY <1>1, WentOK DEF IdentityInv
  <1> HIDE DEF rows, r
  <1>5. Moves({p}, {u}) /\ op'[p] = r
    BY <1>4, CutMove DEF IdentityInv
  <1>6. Inherits({p}, {u})
    BY <1>1, <1>4, <1>5 DEF Inherits, SessionType, IdentityInv, TypeOK
  <1>7. \A q \in {p} : RequestOK(op'[q], rows, unlinked')
    BY <1>4, <1>5 DEF RequestOK
  <1>8. RestOK'
    BY <1>1 DEF RestOK, IdentityInv, TypeOK
  <1> QED
    BY <1>1, <1>3, <1>5, <1>6, <1>7, <1>8, Step

LEMMA CreateUserInv ==
  ASSUME IdentityInv, NEW a, NEW c \in NewUsers, AdminCreateUser(a, c.name, c.email, c.role, c.password)
  PROVE  IdentityInv'
  <1> DEFINE row == [Absent EXCEPT !.login = Plain(c.name), !.email = c.email, !.role = c.role,
                                   !.status = "active", !.hash = c.password]
  <1>1. PICK u \in NewId : Unique(u, row) /\ Save([users EXCEPT ![u] = row])
    BY DEF AdminCreateUser
  <1>2. row \in UserType /\ row.status # "absent"
    <2>1. /\ c.name \in Names /\ c.email \in Emails \cup {None} /\ c.role \in {"user", "admin"}
          /\ c.password \in Passwords
      BY IdentityAssumption
    <2>2. Plain(c.name) \in Logins
      BY <2>1 DEF Plain, Logins
    <2> QED
      BY <2>1, <2>2, AbsentType DEF UserType
  <1> HIDE DEF row
  <1> DEFINE rows == [users EXCEPT ![u] = row]
  <1>3. Sound(rows) /\ KeepsHash(rows, {}) /\ Save(rows)
    BY <1>1, <1>2, NewRowSound DEF IdentityInv
  <1> HIDE DEF rows
  <1>4. Moves({}, {}) /\ Inherits({}, {})
    BY DEF AdminCreateUser, IdentityInv, TypeOK, Moves, Inherits, SessionType
  <1>5. RestOK'
    BY IdentityAssumption DEF AdminCreateUser, IdentityInv, TypeOK, RestOK
  <1>6. {} \in SUBSET Procs /\ \A q \in {} : RequestOK(op'[q], rows, unlinked')
    OBVIOUS
  <1> QED
    BY <1>3, <1>4, <1>5, <1>6, Step

-----------------------------------------------------------------------------
(* The first administrator.                                                  *)

LEMMA SetupWriteInv ==
  ASSUME IdentityInv, NEW p \in Procs, SetupWrite(p)
  PROVE  IdentityInv'
  <1> DEFINE row == op[p].row
             rows == UpdateUser(Root, row)
             r == Went(p, "setpw")
  <1>1. op[p].pc = "setup" /\ UNCHANGED <<sessions, boxes, mail, objects, requests>>
    BY DEF SetupWrite, At
  <1>2. Root \in UserIds /\ row \in UserType /\ row.status # "absent" /\ op[p].id = Root /\ op[p].by \in Passwords
    BY <1>1, OpAt, IdentityAssumption DEF RequestOK
  <1>3. CASE Unique(Root, row) /\ Save(rows) /\ Goto(p, "setpw")
    <2>1. Sound(rows) /\ KeepsHash(rows, {})
      BY <1>2, <1>3, UpdateSound DEF IdentityInv
    <2>2. r \in OpType /\ r.pc = "setpw" /\ r.id = Root /\ r.by = op[p].by /\ op' = [op EXCEPT ![p] = r]
      BY <1>2, <1>3, WentOK DEF IdentityInv, Goto
    <2>3. rows[Root].status # "absent"
      <3>1. rows[Root] = [row EXCEPT !.hash = users[Root].hash]
        BY <1>2 DEF UpdateUser, IdentityInv, TypeOK
      <3> QED
        BY <1>2, <3>1 DEF UserType
    <2> HIDE DEF rows, r
    <2>4. RequestOK(r, rows, unlinked')
      BY <1>2, <2>2, <2>3 DEF RequestOK
    <2> QED
      BY <1>1, <1>3, <2>1, <2>2, <2>4, WriteStep
  <1>4. CASE Save(users) /\ op' = [op EXCEPT ![p] = NoOp]
    <2>1. Sound(users) /\ KeepsHash(users, {}) /\ NoOp \in OpType /\ RequestOK(NoOp, users, unlinked')
      BY SameSound, AbsentType, EndedOK DEF IdentityInv
    <2> QED
      BY <1>1, <1>4, <2>1, WriteStep
  <1> QED
    BY <1>3, <1>4 DEF SetupWrite, End

LEMMA SetupPasswordInv ==
  ASSUME IdentityInv, NEW p \in Procs, SetupPassword(p)
  PROVE  IdentityInv'
  <1> DEFINE rows == SetUserPassword(Root, op[p].by)
             r == Went(p, "session")
             c == [r EXCEPT !.late = TRUE]
  <1>1. /\ op[p].pc = "setpw" /\ Save(rows) /\ CutOff(Root, [op EXCEPT ![p].pc = "session"])
        /\ sessions' = Outlived(Root) /\ UNCHANGED <<boxes, mail, objects, requests>>
    BY DEF SetupPassword, At
  <1>2. op[p].id = Root /\ Root \in UserIds /\ op[p].by \in Passwords /\ op[p].by \notin Subjects /\ Exists(Root)
    BY <1>1, OpAt, IdentityAssumption DEF RequestOK, Exists
  <1>3. Sound(rows) /\ KeepsHash(rows, {Root})
    BY <1>2, PasswordSound DEF IdentityInv
  <1>4. /\ r \in OpType /\ r.pc = "session" /\ r.id = Root /\ r.by = op[p].by
        /\ CutOff(Root, [op EXCEPT ![p] = r])
    BY <1>1, <1>2, WentOK DEF IdentityInv
  <1> HIDE DEF rows, r
  <1>5. c.pc = "session" /\ c.id = Root /\ c.by = op[p].by /\ c.late
    BY <1>4 DEF OpType
  <1>6. Moves({p}, {Root}) /\ op'[p] = c
    BY <1>4, CutMove DEF IdentityInv
  <1> HIDE DEF c
  <1>7. Inherits({p}, {Root})
    BY <1>1, OutlivedSessions DEF IdentityInv
  <1>8. Holds(rows, unlinked', Root, op[p].by)
    BY <1>2, <1>3 DEF Sound, Holds
  <1>9. \A q \in {p} : RequestOK(op'[q], rows, unlinked')
    BY <1>2, <1>5, <1>6, <1>8 DEF RequestOK
  <1>10. RestOK'
    BY <1>1 DEF RestOK, IdentityInv, TypeOK
  <1> QED
    BY <1>1, <1>3, <1>6, <1>7, <1>9, <1>10, Step

LEMMA BootstrapInv ==
  ASSUME IdentityInv, NEW n \in Names, NEW w \in Passwords, BootstrapAdmin(n, w)
  PROVE  IdentityInv'
  <1> DEFINE row == [AdminRow(n) EXCEPT !.hash = w]
             rows == [users EXCEPT ![Root] = row]
  <1>1. /\ \A p \in Procs : op[p].pc = "idle"
        /\ Unique(Root, AdminRow(n)) /\ Save(rows) /\ sessions' = Outlived(Root)
        /\ UNCHANGED <<boxes, mail, objects, op>>
    BY DEF BootstrapAdmin
  <1>2. AdminRow(n) \in UserType /\ AdminRow(n).status = "active" /\ Root \in UserIds
    BY AdminRowType, IdentityAssumption DEF IdentityInv
  <1>3. row \in UserType /\ row.status # "absent" /\ row.subject = AdminRow(n).subject /\ row.login = AdminRow(n).login
    BY <1>2 DEF UserType
  <1> HIDE DEF row
  <1>4. Unique(Root, row)
    BY <1>1, <1>3 DEF Unique
  <1>5. Sound(rows) /\ KeepsHash(rows, {Root})
    BY <1>2, <1>3, <1>4, InsertSound DEF IdentityInv
  <1>6. Moves({}, {Root})
    BY <1>1 DEF Moves, IdentityInv, TypeOK
  <1>7. {} \in SUBSET Procs /\ Inherits({}, {Root})
    BY <1>1, OutlivedSessions DEF IdentityInv
  <1>8. RestOK'
    BY IdentityAssumption DEF BootstrapAdmin, IdentityInv, TypeOK, RestOK
  <1>9. \A q \in {} : RequestOK(op'[q], rows, unlinked')
    OBVIOUS
  <1> HIDE DEF rows
  <1> QED
    BY <1>1, <1>5, <1>6, <1>7, <1>8, <1>9, Step

-----------------------------------------------------------------------------
(* Mail accounts that administrators provision, and the purge.               *)

LEMMA TargetInv ==
  ASSUME IdentityInv, NEW p \in Procs, NEW a, NEW e \in Emails, ProvisionTarget(p, a, e)
  PROVE  IdentityInv'
  <1>1. UNCHANGED <<sessions, boxes, mail, objects>> /\ e # None /\ e \in Emails \cup {None}
    BY IdentityAssumption DEF ProvisionTarget
  <1>2. ASSUME NEW u \in GetUserByEmail(e), Begin(p, "account", u, [users[u] EXCEPT !.email = e], None), Save(users)
        PROVE  IdentityInv'
    <2> DEFINE row == [users[u] EXCEPT !.email = e]
    <2>1. u \in UserIds /\ users[u].status = "active"
      BY DEF GetUserByEmail, Active
    <2>2. users[u] \in UserType
      BY <2>1, RowAt DEF IdentityInv
    <2>3. row \in UserType /\ row.status # "absent" /\ row.email # None
      BY <1>1, <2>1, <2>2 DEF UserType
    <2>4. UNCHANGED <<users, unlinked>>
      BY <1>2 DEF Save
    <2>5. Begin(p, "account", u, row, None)
      BY <1>2
    <2> HIDE DEF row
    <2> QED
      BY <1>1, <2>1, <2>3, <2>4, <2>5, BeginsOK
  <1> DEFINE gone(u) == users[u].status = "deleted" /\ (users[u].email = e \/ users[u].login = Plain(e))
             released == [u \in UserIds |-> IF gone(u) THEN TombstoneUserIdentity(u, users[u]) ELSE users[u]]
             row == [Absent EXCEPT !.login = Plain(e), !.email = e, !.status = "active", !.provider = "oidc"]
  <1>3. ASSUME NEW u \in NewId, Save([released EXCEPT ![u] = row]), Begin(p, "account", u, row, "new")
        PROVE  IdentityInv'
    <2> DEFINE rows == [released EXCEPT ![u] = row]
    <2>1. u \in UserIds /\ ~Exists(u)
      BY NewIdOK
    <2>2. row \in UserType /\ row.status = "active" /\ row.subject = None /\ row.email = e
      <3>1. Plain(e) \in Logins
        BY DEF Plain, Logins
      <3> QED
        BY <1>1, <3>1, AbsentType DEF UserType, Absent
    <2> HIDE DEF row
    <2>3. ASSUME NEW v \in UserIds \ {u}
          PROVE  /\ rows[v] \in UserType /\ rows[v].hash = users[v].hash
                 /\ Exists(v) <=> rows[v].status # "absent"
                 /\ rows[v].subject \in {None, users[v].subject}
      <3>1. rows[v] = IF gone(v) THEN TombstoneUserIdentity(v, users[v]) ELSE users[v]
        BY <2>3
      <3>2. users[v] \in UserType
        BY <2>3, RowAt DEF IdentityInv
      <3> QED
        BY <3>1, <3>2, TombstoneType DEF Exists
    <2>4. rows \in [UserIds -> UserType] /\ rows[u] = row
      BY <2>1, <2>2, <2>3
    <2> HIDE DEF rows
    <2>5. Apart(rows)
      BY <2>1, <2>2, <2>3, <2>4 DEF Apart, UniqueIdentity, IdentityInv, Exists
    <2>6. Sound(rows) /\ KeepsHash(rows, {})
      BY <2>1, <2>2, <2>3, <2>4, <2>5 DEF Sound, KeepsHash, Exists
    <2> DEFINE r == [NoOp EXCEPT !.pc = "account", !.id = u, !.row = row, !.by = "new"]
    <2>7. r \in OpType /\ r.pc = "account" /\ r.row = row
      BY <2>1, <2>2, AbsentType DEF OpType
    <2>8. op[p].pc = "idle" /\ op' = [op EXCEPT ![p] = r] /\ requests' \in 0..MaxRequests
      BY <1>3, IdentityAssumption DEF Begin, IdentityInv, TypeOK
    <2> HIDE DEF r
    <2>9. RequestOK(r, rows, unlinked')
      BY <1>1, <2>2, <2>7 DEF RequestOK
    <2>10. Moves({p}, {}) /\ op'[p] = r /\ Inherits({p}, {})
      BY <1>1, <2>7, <2>8, PlainMove, SameSessions DEF IdentityInv
    <2>11. RestOK'
      BY <1>1, <2>8 DEF RestOK, IdentityInv, TypeOK
    <2>12. Save(rows)
      BY <1>3 DEF rows
    <2>13. \A q \in {p} : RequestOK(op'[q], rows, unlinked')
      BY <2>9, <2>10
    <2> QED
      BY <2>6, <2>10, <2>11, <2>12, <2>13, Step
  <1> QED
    BY <1>2, <1>3 DEF ProvisionTarget

LEMMA AccountInv ==
  ASSUME IdentityInv, NEW p \in Procs, ProvisionAccount(p)
  PROVE  IdentityInv'
  <1>1. /\ op[p].pc = "account" /\ op' = [op EXCEPT ![p] = NoOp]
        /\ UNCHANGED <<users, unlinked, sessions, mail, objects, requests>>
    BY DEF ProvisionAccount, At, End
  <1>2. op[p].id \in UserIds /\ op[p].row.email \in Emails
    BY <1>1, OpAt DEF RequestOK, UserType
  <1>3. RestOK'
    BY <1>1, <1>2 DEF RestOK, IdentityInv, TypeOK, ProvisionAccount
  <1> QED
    BY <1>1, <1>3, AbsentType, EndedOK, Quiet

LEMMA GiveUpInv ==
  ASSUME IdentityInv, NEW p \in Procs, ProvisionGiveUp(p)
  PROVE  IdentityInv'
  <1> DEFINE u == op[p].id
             row == [op[p].row EXCEPT !.status = "deleted"]
             rows == TryUpdateUser(u, row)
  <1>1. op[p].pc = "account" /\ UNCHANGED <<boxes, mail, objects, requests>>
    BY DEF ProvisionGiveUp, At
  <1>2. u \in UserIds /\ op[p].row \in UserType /\ NoOp \in OpType /\ NoOp.pc = "idle"
    BY OpAt, AbsentType, EndedOK
  <1>3. RestOK'
    BY <1>1 DEF RestOK, IdentityInv, TypeOK
  <1>4. CASE Save(rows) /\ CutOff(u, [op EXCEPT ![p] = NoOp]) /\ sessions' = Outlived(u)
    <2>1. row \in UserType /\ row.status # "absent"
      BY <1>2 DEF UserType
    <2> HIDE DEF row
    <2>2. Sound(rows) /\ KeepsHash(rows, {})
      BY <1>2, <2>1, TryUpdateSound DEF IdentityInv
    <2> HIDE DEF rows
    <2>3. Moves({p}, {}) /\ op'[p] = NoOp
      BY <1>2, <1>4, CutMove DEF IdentityInv
    <2>4. Inherits({p}, {})
      BY <1>1, <1>4, OutlivedSessions DEF IdentityInv
    <2>5. \A q \in {p} : RequestOK(op'[q], rows, unlinked')
      BY <2>3, EndedOK
    <2> QED
      BY <1>3, <1>4, <2>2, <2>3, <2>4, <2>5, Step
  <1>5. CASE op' = [op EXCEPT ![p] = NoOp] /\ UNCHANGED <<users, unlinked, sessions>>
    BY <1>1, <1>2, <1>3, <1>5, EndedOK, Quiet
  <1> QED
    BY <1>4, <1>5 DEF ProvisionGiveUp, End

LEMMA PurgeInv ==
  ASSUME IdentityInv, NEW p \in Procs, (\E a, e : PurgeDeletedUserMail(p, a, e)) \/ PurgeObjects(p)
  PROVE  IdentityInv'
  <1>1. ASSUME NEW a, NEW e, PurgeDeletedUserMail(p, a, e)
        PROVE  IdentityInv'
    <2> DEFINE lost == {m[2] : m \in mail \ mail'}
               r == [NoOp EXCEPT !.pc = "objects", !.blobs = lost]
    <2>1. /\ op[p].pc = "idle" /\ op' = [op EXCEPT ![p] = r] /\ mail' \subseteq mail /\ boxes' \subseteq boxes
          /\ requests' \in 0..MaxRequests /\ UNCHANGED <<users, unlinked, sessions, objects>>
      BY <1>1, IdentityAssumption DEF PurgeDeletedUserMail, IdentityInv, TypeOK
    <2>2. lost \in SUBSET Blobs
      BY DEF IdentityInv, TypeOK
    <2> HIDE DEF lost
    <2>3. r \in OpType /\ r.pc = "objects"
      BY <2>2, AbsentType DEF OpType
    <2>4. RestOK'
      BY <2>1 DEF RestOK, IdentityInv, TypeOK
    <2> HIDE DEF r
    <2>5. RequestOK(r, users, unlinked)
      BY <2>3 DEF RequestOK
    <2> QED
      BY <2>1, <2>3, <2>4, <2>5, Quiet
  <1>2. CASE PurgeObjects(p)
    <2>1. /\ op[p].pc = "objects" /\ op' = [op EXCEPT ![p] = NoOp]
          /\ UNCHANGED <<users, unlinked, sessions>> /\ RestOK'
      BY <1>2 DEF PurgeObjects, At, End, RestOK, IdentityInv, TypeOK
    <2> QED
      BY <2>1, AbsentType, EndedOK, Quiet
  <1> QED
    BY <1>1, <1>2

LEMMA OutsideInv ==
  ASSUME IdentityInv,
         \/ \E x \in sessions : Logout(x)
         \/ \E u \in UserIds, b \in Blobs : Ingest(u, b)
         \/ UNCHANGED vars
  PROVE  IdentityInv'
  <1>1. UNCHANGED <<users, unlinked, op>> /\ sessions' \subseteq sessions
    BY DEF Logout, Ingest, vars
  <1>2. RestOK'
    BY DEF Logout, Ingest, vars, RestOK, IdentityInv, TypeOK
  <1> QED
    BY <1>1, <1>2, Outside

-----------------------------------------------------------------------------
(* The theorems.                                                             *)

LEMMA InitHolds == Init => IdentityInv
  <1> SUFFICES ASSUME Init PROVE IdentityInv
    OBVIOUS
  <1>1. PICK us \in Seeds : users = [u \in UserIds |-> IF u \in DOMAIN us THEN us[u]
                                       ELSE IF u = Root THEN EnsureUser ELSE Absent]
    BY DEF Init
  <1>2. EnsureUser \in UserType /\ EnsureUser.subject = None
    <2>1. Plain("local") \in Logins
      BY DEF Plain, Logins
    <2> QED
      BY <2>1, AbsentType DEF EnsureUser, UserType, Absent
  <1>3. /\ DOMAIN us \subseteq UserIds
        /\ \A u \in DOMAIN us : us[u] \in UserType
        /\ \A u, v \in DOMAIN us : us[u].subject = us[v].subject => u = v \/ us[u].subject = None
    BY IdentityAssumption
  <1>4. users \in [UserIds -> UserType]
    BY <1>1, <1>2, <1>3, AbsentType
  <1>5. UniqueIdentity
    <2>1. \A u \in UserIds : u \notin DOMAIN us => users[u].subject = None
      BY <1>1, <1>2, AbsentType
    <2>2. \A u \in DOMAIN us : users[u] = us[u]
      BY <1>1, <1>3
    <2> QED
      BY <1>3, <2>1, <2>2 DEF UniqueIdentity
  <1>6. TypeOK
    BY <1>4, AbsentType, IdentityAssumption DEF Init, TypeOK
  <1>7. RequestInv
    BY EndedOK DEF Init, RequestInv
  <1> QED
    BY <1>5, <1>6, <1>7 DEF IdentityInv, Init, SessionInv, SessionsFollowPassword

LEMMA NextHolds == IdentityInv /\ [Next]_vars => IdentityInv'
  <1> SUFFICES ASSUME IdentityInv, [Next]_vars PROVE IdentityInv'
    OBVIOUS
  <1>1. ASSUME NEW p \in Procs, Login(p) PROVE IdentityInv'
    BY <1>1, AuthenticateInv, ResolveInv, TouchInv, ReleaseInv, LinkInv, BindInv, CreateInv, MailboxInv,
       SessionOpenInv DEF Login
  <1>2. ASSUME NEW p \in Procs, Administer(p) PROVE IdentityInv'
    BY <1>2, AdminBeginsInv, TargetInv, PurgeInv, AdminWriteInv, RevokeInv, ResetInv, AccountInv, GiveUpInv
       DEF Administer
  <1>3. ASSUME NEW p \in Procs, Setup(p) PROVE IdentityInv'
    BY <1>3, SetupBeginsInv, SetupWriteInv, SetupPasswordInv DEF Setup
  <1> QED
    BY <1>1, <1>2, <1>3, BootstrapInv, CreateUserInv, OutsideInv DEF Next

(* IdentityInv is inductive: rows, requests and sessions stay as the         *)
(* handlers of auth.go and oidc.go leave them, in any interleaving.          *)
THEOREM IdentityInvariant == Spec => []IdentityInv
  BY InitHolds, NextHolds, PTL DEF Spec

(* A session opened with a password that was replaced is about to be         *)
(* deleted, unless its login was past the check (AdminResetPassword,         *)
(* CreateSession).                                                           *)
THEOREM PasswordSafety == Spec => []SessionsFollowPassword
  <1>1. IdentityInv => SessionsFollowPassword
    BY DEF IdentityInv
  <1> QED
    BY <1>1, IdentityInvariant, PTL

(* The sessions of one person belong to one account, however first logins,   *)
(* links and provisioning race (resolveOIDCIdentity), unless the link was    *)
(* released or lost.                                                         *)
THEOREM AccountSafety == Spec => []OneAccountPerPerson
  <1>1. IdentityInv => OneAccountPerPerson
    <2> SUFFICES ASSUME IdentityInv, NEW x \in sessions, NEW y \in sessions,
                        x.by = y.by, x.by \in Subjects \ unlinked
                 PROVE  x.user = y.user
      BY DEF OneAccountPerPerson
    <2>1. x.user \in UserIds /\ y.user \in UserIds /\ x.by # None
      BY IdentityAssumption DEF IdentityInv, TypeOK
    <2>2. /\ Exists(x.user) /\ users[x.user].subject = x.by
          /\ Exists(y.user) /\ users[y.user].subject = x.by
      BY DEF IdentityInv, SessionInv, Holds, Exists
    <2> QED
      BY <2>1, <2>2 DEF IdentityInv, UniqueIdentity
  <1> QED
    BY <1>1, IdentityInvariant, PTL



-----------------------------------------------------------------------------
(* The tables.                                                               *)

LEMMA AITable ==
  ASSUME NEW t \in G!AIOps
  PROVE  "mail.ai" \in G!MCPToolScopes(t)
  BY DEF G!AIOps, G!MCPToolScopes, G!Discovery, G!AITools, G!AnalyzeTools, G!AttachmentTools, G!RenderTools, G!DeleteTools

LEMMA DraftTable ==
  ASSUME NEW t \in G!EffectOps["draft"]
  PROVE  "mail.draft" \in G!MCPToolScopes(t)
  BY DEF G!EffectOps, G!MCPToolScopes, G!Discovery, G!AITools, G!AnalyzeTools, G!AttachmentTools, G!RenderTools, G!DeleteTools

LEMMA SendTable ==
  ASSUME NEW t \in G!EffectOps["send"]
  PROVE  "mail.send" \in G!MCPToolScopes(t)
  BY DEF G!EffectOps, G!MCPToolScopes, G!Discovery, G!AITools, G!AnalyzeTools, G!AttachmentTools, G!RenderTools, G!DeleteTools

LEMMA DeleteTable ==
  ASSUME NEW t \in G!DeleteTools
  PROVE  "mail.delete" \in G!MCPToolScopes(t) /\ G!Level(t) >= 3
  <1>1. "mail.delete" \in G!MCPToolScopes(t)
    BY DEF G!DeleteTools, G!MCPToolScopes, G!Discovery, G!AITools, G!AnalyzeTools, G!AttachmentTools, G!RenderTools
  <1>2. G!Level(t) >= 3
    BY DEF G!DeleteTools, G!Level, G!Tools
  <1> QED
    BY <1>1, <1>2

LEMMA WorkTable ==
  ASSUME NEW t \in G!EffectOps["work"], t # "images_allow"
  PROVE  "mail.work" \in G!MCPToolScopes(t)
  BY DEF G!EffectOps, G!CollabOps, G!CardOps, G!RuleOps, G!RuleTools,
         G!MCPToolScopes, G!Discovery, G!AITools, G!AnalyzeTools, G!AttachmentTools, G!RenderTools, G!DeleteTools

LEMMA AuditTable == "admin.read" \in G!MCPToolScopes("mail_audit_search")
  BY DEF G!MCPToolScopes, G!Discovery, G!AITools, G!AnalyzeTools, G!AttachmentTools, G!RenderTools, G!DeleteTools

LEMMA AdminTable ==
  ASSUME NEW t \in G!AccountOps \ {"account_delete"}
  PROVE  "admin.write" \in G!MCPToolScopes(t) /\ G!Level(t) >= 3
  <1>1. "admin.write" \in G!MCPToolScopes(t)
    BY DEF G!AccountOps, G!MCPToolScopes, G!Discovery, G!AITools, G!AnalyzeTools, G!AttachmentTools, G!RenderTools, G!DeleteTools
  <1>2. G!Level(t) >= 3
    BY DEF G!AccountOps, G!Level, G!Tools, G!AccountTools
  <1> QED
    BY <1>1, <1>2

LEMMA NotTools == G!Tools \cap (G!IdentityOps \cup {"account_delete", "images_allow", "none"}) = {}
  BY DEF G!IdentityOps, G!Tools, G!DeleteTools, G!AccountTools, G!SyncTools, G!QueryTools, G!AITools, G!AnalyzeTools, G!ComposeTools,
         G!RuleTools, G!ActionCardTools, G!CollabTools, G!AuditTools, G!DiscoveryTools, G!Discovery, G!ParityTools,
         G!RenderTools, G!AttachmentTools

(* Every effect of a tool is behind a scope that the gateway asks for, and   *)
(* deleting and administering behind a level that users do not have.         *)
LEMMA ToolTable ==
  ASSUME NEW t \in G!Tools, NEW f \in DOMAIN G!EffectOps, t \in G!EffectOps[f]
  PROVE  /\ f \notin {"identity", "hold"}
         /\ G!ScopeOf(f) \in G!MCPToolScopes(t)
         /\ f \in {"delete", "admin"} => G!Level(t) >= 3
  <1>1. f \in {"ai", "draft", "send", "delete", "hold", "work", "audit", "admin", "identity"}
    BY DEF G!EffectOps
  <1>2. CASE f = "ai"
    BY <1>2, AITable DEF G!EffectOps, G!ScopeOf
  <1>3. CASE f = "draft"
    BY <1>3, DraftTable DEF G!ScopeOf
  <1>4. CASE f = "send"
    BY <1>4, SendTable DEF G!ScopeOf
  <1>5. CASE f = "delete"
    <2>1. t \in G!DeleteTools
      BY <1>5 DEF G!EffectOps
    <2> QED
      BY <1>5, <2>1, DeleteTable DEF G!ScopeOf
  <1>6. CASE f = "work"
    BY <1>6, WorkTable, NotTools DEF G!ScopeOf
  <1>7. CASE f = "audit"
    <2>1. t = "mail_audit_search"
      BY <1>7 DEF G!EffectOps
    <2> QED
      BY <1>7, <2>1, AuditTable DEF G!ScopeOf
  <1>8. CASE f = "admin"
    <2>1. t \in G!AccountOps \ {"account_delete"}
      BY <1>8, NotTools DEF G!EffectOps
    <2> QED
      BY <1>8, <2>1, AdminTable DEF G!ScopeOf
  <1>9. f # "hold"
    BY DEF G!EffectOps
  <1>10. f # "identity"
    <2>1. ASSUME f = "identity" PROVE FALSE
      <3>1. t \in G!IdentityOps
        BY <2>1 DEF G!EffectOps
      <3> QED
        BY <3>1, NotTools
    <2> QED
      BY <2>1
  <1> QED
    BY <1>1, <1>2, <1>3, <1>4, <1>5, <1>6, <1>7, <1>8, <1>9, <1>10

(* The routes whose guard is the policy of another tool.                     *)
Borrowed == {<<"mail_search", "mail_sent_search">>, <<"mail_set_work_status", "images_allow">>,
             <<"mail_draft_get", "mail_drafts_list">>} \cup {<<"mail_summarize", t>> : t \in G!AnalyzeTools}

LEMMA RouteTable ==
  ASSUME NEW r \in G!Routes, r[1] # "none"
  PROVE  r \in Borrowed \/ (r[1] = r[2] /\ r[2] \in G!Tools)
  <1>1. \A S : \A x \in G!Own(S) : x[1] = x[2] /\ x[2] \in S
    BY DEF G!Own
  <1>2. \A S : \A x \in G!Unguarded(S) : x[1] = "none"
    BY DEF G!Unguarded
  <1>3. G!Tools = G!Tools \cup G!DeleteTools \cup G!AccountTools \cup G!SyncTools \cup G!QueryTools \cup G!AITools \cup G!ComposeTools
         \cup G!RuleTools \cup G!ActionCardTools \cup G!CollabTools \cup G!AuditTools \cup G!DiscoveryTools
         \cup G!ParityTools \cup G!RenderTools \cup G!AttachmentTools
    BY DEF G!Tools
  <1>4. CASE r \in G!SystemRoutes \cup G!AdminRoutes \cup G!KeyRoutes \cup G!SecretRoutes \cup G!AccountRoutes
    <2>1. r \in G!Own(G!Discovery \ {"mail_capabilities"})
            \/ r \in G!Own({"mail_account_list", "mail_account_get", "mail_account_test", "mail_sync_start"})
      BY <1>2, <1>4 DEF G!SystemRoutes, G!AdminRoutes, G!KeyRoutes, G!SecretRoutes, G!AccountRoutes
    <2> QED
      BY <1>1, <1>3, <2>1 DEF G!DiscoveryTools, G!AccountTools, G!SyncTools
  <1>5. CASE r \in G!JobRoutes \cup G!MessageRoutes \cup G!ImageRoutes
    <2>1. \/ r \in G!Own({"job_list", "job_status", "job_cancel"})
          \/ r \in G!Own({"mail_search", "mail_message_get", "mail_attachment_list", "mail_auth_inspect",
                        "mail_attachment_extract_text", "mail_attachment_summarize", "mail_thread_get",
                        "mail_local_delete"})
          \/ r \in {<<"mail_search", "mail_sent_search">>, <<"mail_message_get", "mail_message_get">>,
                    <<"mail_set_work_status", "images_allow">>}
      BY <1>2, <1>5 DEF G!JobRoutes, G!MessageRoutes, G!ImageRoutes
    <2> QED
      BY <1>1, <1>3, <2>1 DEF Borrowed, G!ParityTools, G!SyncTools, G!QueryTools, G!AITools, G!DeleteTools
  <1>6. CASE r \in G!AIRoutes \cup G!QueryRoutes
    <2>1. \/ r \in {<<"mail_summarize", t>> : t \in G!AnalyzeTools}
          \/ r \in G!Own({"mail_suggest_replies", "mail_calendar_extract", "mail_thread_summarize",
                      "mail_question_answer", "mail_semantic_search", "mail_embeddings_build"})
          \/ r \in G!Own({"mail_batch_update", "mail_hybrid_search", "mail_thread_timeline",
                    "mail_eval_prompt", "mail_daily_digest"})
      BY <1>6 DEF G!AIRoutes, G!QueryRoutes
    <2> QED
      BY <1>1, <1>3, <2>1 DEF Borrowed, G!QueryTools, G!AITools
  <1>7. CASE r \in G!DraftRoutes \cup G!DraftListRoute \cup G!RuleRoutes \cup G!CardRoutes
    <2>1. \/ r \in G!Own({"mail_draft_create", "mail_draft_get", "mail_draft_update", "mail_draft_rewrite",
                    "mail_draft_delete", "mail_send_preview", "mail_send_request_approval", "mail_send",
                    "mail_outbound_list", "mail_outbound_status"})
          \/ r = <<"mail_draft_get", "mail_drafts_list">>
          \/ r \in G!Own(G!RuleTools \cup {"mail_rule_draft_from_text"})
          \/ r \in G!Own(G!ActionCardTools \cup {"mail_action_card_create", "mail_work_inbox"})
      BY <1>7 DEF G!DraftRoutes, G!DraftListRoute, G!RuleRoutes, G!CardRoutes
    <2> QED
      BY <1>1, <1>3, <2>1 DEF Borrowed, G!ComposeTools, G!DiscoveryTools, G!ParityTools, G!AITools, G!QueryTools
  <1>8. CASE r \in G!CollabRoutes \cup G!RenderRoutes \cup G!AttachmentRoutes \cup G!EventRoutes
    <2>1. \/ r \in G!Own(G!CollabTools \cup {"mail_set_sla"})
          \/ r \in G!Own(G!RenderTools)
          \/ r \in G!Own(G!AttachmentTools)
          \/ r \in G!Own({"mail_events", "mail_audit_search"})
      BY <1>8 DEF G!CollabRoutes, G!RenderRoutes, G!AttachmentRoutes, G!EventRoutes
    <2> QED
      BY <1>1, <1>3, <2>1 DEF G!ParityTools, G!AuditTools
  <1> QED
    BY <1>4, <1>5, <1>6, <1>7, <1>8 DEF G!Routes

(* They give away nothing: the operation has no effect of its own, or one    *)
(* that the guard's scope covers too.                                        *)
LEMMA BorrowedTable ==
  ASSUME NEW r \in Borrowed, NEW f \in DOMAIN G!EffectOps, r[2] \in G!EffectOps[f]
  PROVE  f \in {"ai", "work"} /\ G!ScopeOf(f) \in G!MCPToolScopes(r[1])
  <1> USE DEF G!MCPToolScopes, G!Discovery, G!AITools, G!AnalyzeTools, G!AttachmentTools, G!RenderTools, G!DeleteTools
  <1>1. /\ "mail.ai" \in G!MCPToolScopes("mail_summarize")
        /\ "mail.work" \in G!MCPToolScopes("mail_set_work_status")
    OBVIOUS
  <1> HIDE DEF G!MCPToolScopes
  <1>2. f \in {"ai", "draft", "send", "delete", "hold", "work", "audit", "admin", "identity"}
    BY DEF G!EffectOps
  <1> USE DEF G!EffectOps, G!AIOps, G!CollabOps, G!CardOps, G!RuleOps, G!RuleTools, G!AccountOps, G!IdentityOps
  <1>3. CASE r \in {<<"mail_search", "mail_sent_search">>, <<"mail_draft_get", "mail_drafts_list">>}
    BY <1>2, <1>3
  <1>4. CASE r = <<"mail_set_work_status", "images_allow">>
    <2>1. f = "work"
      BY <1>2, <1>4
    <2> QED
      BY <1>1, <1>4, <2>1 DEF G!ScopeOf
  <1>5. ASSUME NEW t \in G!AnalyzeTools, r = <<"mail_summarize", t>>
        PROVE  f \in {"ai", "work"} /\ G!ScopeOf(f) \in G!MCPToolScopes(r[1])
    <2>1. f = "ai"
      BY <1>2, <1>5
    <2> QED
      BY <1>1, <1>5, <2>1 DEF G!ScopeOf
  <1> QED
    BY <1>3, <1>4, <1>5 DEF Borrowed

-----------------------------------------------------------------------------
(* A request that passed the gateway and the operation's own checks.         *)

(* What one check of the gateway grants a delegated credential.              *)
LEMMA ToolPolicyGrants ==
  ASSUME NEW p, G!Scoped(p), p.role \in {"user", "admin"}, NEW t, G!CheckMCPToolPolicy(p, t)
  PROVE  /\ \A s \in G!MCPToolScopes(t) : s \in p.scopes \cap permitted
         /\ G!Level(t) >= 3 /\ cached = G!NoPolicy => p.role = "admin"
  <1>1. \A s \in G!MCPToolScopes(t) : s \in p.scopes \cap permitted
    BY DEF G!CheckMCPToolPolicy, G!CheckMCPPermissionScopes
  <1>2. G!EvaluateAccess(cached, p.role, t)
    BY DEF G!CheckMCPToolPolicy, G!Scoped
  <1>3. ASSUME G!Level(t) >= 3, cached = G!NoPolicy, p.role = "user" PROVE FALSE
    <2>1. G!NoPolicy.roleAllow["user"] = {} /\ G!NoPolicy.roleMax["user"] = 2 /\ G!NoPolicy.allow = {}
      BY DEF G!NoPolicy, G!BuiltinRoleMax
    <2>2. G!Level(t) <= 2
      BY <1>2, <1>3, <2>1 DEF G!EvaluateAccess
    <2>3. G!Level(t) \in {0, 1, 2, 3, 4}
      BY DEF G!Level
    <2> QED
      BY <1>3, <2>2, <2>3
  <1> QED
    BY <1>1, <1>3

(* An effect that the key covers.                                            *)
Covered(p, f) ==
  /\ f # "identity"
  /\ G!ScopeOf(f) \in p.scopes \cap permitted
  /\ f \in {"delete", "admin", "hold"} /\ cached = G!NoPolicy => p.role = "admin"

(* The effects of the operation itself.                                      *)
LEMMA OperationCovered ==
  ASSUME NEW e \in G!AllEntries, NEW p, G!Scoped(p), p.role \in {"user", "admin"},
         IF e.via = "mcp" THEN G!CheckMCPRequestPolicy(p, e) ELSE G!CheckMCPRESTScope(p, e),
         NEW f \in DOMAIN G!EffectOps, e.op \in G!EffectOps[f]
  PROVE  Covered(p, f)
  <1>1. ASSUME e.op \in G!Tools, G!CheckMCPToolPolicy(p, e.op)
        PROVE  Covered(p, f)
    BY <1>1, ToolTable, ToolPolicyGrants DEF Covered
  <1>2. CASE e \in G!McpEntries /\ e.op = G!CanonicalMCPTool(e.tool)
    <2>1. e.via = "mcp" /\ e.op \in G!Tools
      BY <1>2 DEF G!McpEntries
    <2> QED
      BY <1>1, <1>2, <2>1 DEF G!CheckMCPRequestPolicy
  <1>3. ASSUME NEW r \in G!Routes, NEW a, e = [via |-> "rest", tool |-> r[1], op |-> r[2], arg |-> a]
        PROVE  Covered(p, f)
    <2>1. e.via = "rest" /\ e.tool = r[1] /\ e.op = r[2]
      BY <1>3
    <2>2. r[1] # "none" /\ G!CheckMCPToolPolicy(p, r[1])
      BY <2>1 DEF G!CheckMCPRESTScope
    <2>3. CASE r \in Borrowed
      <3>1. f \in {"ai", "work"} /\ G!ScopeOf(f) \in G!MCPToolScopes(r[1])
        BY <2>1, <2>3, BorrowedTable
      <3> QED
        BY <2>2, <3>1, ToolPolicyGrants DEF Covered
    <2>4. CASE r[1] = r[2] /\ r[2] \in G!Tools
      BY <1>1, <2>1, <2>2, <2>4
    <2> QED
      BY <2>2, <2>3, <2>4, RouteTable
  <1> QED
    BY <1>2, <1>3 DEF G!AllEntries

(* What the argument of a call adds.                                         *)
LEMMA ArgumentCovered ==
  ASSUME NEW e \in G!AllEntries, NEW p, G!Scoped(p), p.role \in {"user", "admin"}, G!InnerCheck(p, e),
         NEW f, f \in ({e.arg} \ {"plain"}) \cup (IF e.op = "mail_apply_rules" /\ deleteRule THEN {"delete"} ELSE {})
  PROVE  Covered(p, f)
  <1>1. e.arg \in G!Args(e.op)
    BY DEF G!AllEntries
  <1>2. /\ G!DeleteCheck(p, e) /\ G!HoldCheck(p, e) /\ G!ComposeCheck(p, e)
    BY DEF G!InnerCheck
  <1>3. f \in G!Effects(e.op, e.arg)
    BY DEF G!Effects
  <1>4. \/ f = "ai" /\ e.arg = "ai"
        \/ f = "hold" /\ e.arg = "hold"
        \/ f = "delete" /\ e.op \in {"mail_batch_update", "mail_rule_create", "mail_rule_update", "mail_apply_rules"}
    BY <1>1 DEF G!Args
  <1>5. CASE f = "ai" /\ e.arg = "ai"
    BY <1>2, <1>5 DEF G!ComposeCheck, G!CheckMCPPermissionScopes, Covered, G!ScopeOf
  <1>6. CASE f = "hold" /\ e.arg = "hold"
    BY <1>2, <1>6 DEF G!HoldCheck, G!CheckMCPPermissionScopes, Covered, G!ScopeOf
  <1>7. CASE f = "delete" /\ e.op \in {"mail_batch_update", "mail_rule_create", "mail_rule_update", "mail_apply_rules"}
    <2>1. e.op \notin G!DeleteTools
      BY <1>7 DEF G!DeleteTools
    <2>2. G!CheckMCPToolPolicy(p, "mail_local_delete")
      BY <1>2, <1>3, <1>7, <2>1 DEF G!DeleteCheck
    <2>3. "mail_local_delete" \in G!DeleteTools
      BY DEF G!DeleteTools
    <2> QED
      BY <1>7, <2>2, <2>3, DeleteTable, ToolPolicyGrants DEF Covered, G!ScopeOf
  <1> QED
    BY <1>4, <1>5, <1>6, <1>7

LEMMA EffectsCovered ==
  ASSUME NEW e \in G!AllEntries, NEW p, G!Scoped(p), p.role \in {"user", "admin"},
         IF e.via = "mcp" THEN G!CheckMCPRequestPolicy(p, e) ELSE G!CheckMCPRESTScope(p, e),
         G!InnerCheck(p, e), NEW f \in G!Effects(e.op, e.arg)
  PROVE  Covered(p, f)
  <1>1. CASE f \in DOMAIN G!EffectOps /\ e.op \in G!EffectOps[f]
    BY <1>1, OperationCovered
  <1>2. CASE f \in ({e.arg} \ {"plain"}) \cup (IF e.op = "mail_apply_rules" /\ deleteRule THEN {"delete"} ELSE {})
    BY <1>2, ArgumentCovered
  <1> QED
    BY <1>1, <1>2 DEF G!Effects

-----------------------------------------------------------------------------
(* The invariant and the theorem.                                            *)

LEMMA GateInit == G!Init => G!GateInv
  BY DEF G!Init, G!GateInv, G!PrincipalCurrent, G!StillAllowed, G!Idle

LEMMA AuthenticateGate ==
  ASSUME G!GateInv, NEW e \in G!AllEntries, G!Authenticate(e)
  PROVE  G!GateInv'
  <1>1. PICK p \in G!Principals(e.via) : req' = [stage |-> "authenticated", by |-> p, entry |-> e, clean |-> TRUE]
    BY DEF G!Authenticate
  <1>2. UNCHANGED <<role, key>>
    BY DEF G!Authenticate
  <1>3. G!Scoped(p) => /\ p.role = role
                     /\ p.scopes = IF p.method = "mcp_key" THEN key.scopes ELSE TokenScopes
    BY DEF G!Principals, G!Scoped, G!NoPrincipal
  <1> QED
    BY <1>1, <1>2, <1>3 DEF G!GateInv, G!PrincipalCurrent, G!StillAllowed, G!Scoped

LEMMA PassGate ==
  ASSUME G!GateInv, G!Gateway
  PROVE  G!GateInv'
  <1> DEFINE ok == IF req.entry.via = "mcp" THEN G!CheckMCPRequestPolicy(req.by, req.entry)
                   ELSE G!CheckMCPRESTScope(req.by, req.entry)
  <1>1. /\ req.stage = "authenticated"
        /\ req' = IF ok THEN [req EXCEPT !.stage = "allowed"] ELSE G!Idle
        /\ UNCHANGED <<role, active, key, permitted, enabled, stored, cached, deleteRule, stream, changes>>
    BY DEF G!Gateway
  <1>2. CASE ~ok
    BY <1>1, <1>2 DEF G!GateInv, G!PrincipalCurrent, G!StillAllowed, G!Idle
  <1>3. CASE ok
    <2>1. /\ req' = [stage |-> "allowed", by |-> req.by, entry |-> req.entry, clean |-> req.clean]
      BY <1>1, <1>3 DEF G!GateInv
    <2>2. G!StillAllowed'
      BY <1>1, <1>3, <2>1 DEF G!StillAllowed, G!CheckMCPRequestPolicy, G!CheckMCPRESTScope, G!CheckMCPToolPolicy,
                              G!CheckMCPPermissionScopes
    <2> QED
      BY <1>1, <2>1, <2>2 DEF G!GateInv, G!PrincipalCurrent
  <1> QED
    BY <1>2, <1>3

LEMMA RunGate ==
  ASSUME G!GateInv, G!Run
  PROVE  G!GateInv'
  BY DEF G!Run, G!GateInv, G!PrincipalCurrent, G!StillAllowed, G!Idle

(* A change that meets a request taints it.                                  *)
LEMMA ChangeGate ==
  ASSUME G!GateInv, role' \in {"user", "admin"}, req' = [req EXCEPT !.clean = req.stage = "idle"]
  PROVE  G!GateInv'
  <1>1. req' = [stage |-> req.stage, by |-> req.by, entry |-> req.entry, clean |-> req.stage = "idle"]
    BY DEF G!GateInv
  <1> QED
    BY <1>1 DEF G!GateInv, G!PrincipalCurrent, G!StillAllowed

LEMMA StreamGate ==
  ASSUME G!GateInv, G!OpenStream \/ G!StreamTick \/ UNCHANGED G!vars
  PROVE  G!GateInv'
  <1>1. UNCHANGED <<role, key, permitted, enabled, cached, req>>
    BY DEF G!OpenStream, G!StreamTick, G!vars
  <1> QED
    BY <1>1 DEF G!GateInv, G!PrincipalCurrent, G!StillAllowed, G!CheckMCPRequestPolicy, G!CheckMCPRESTScope,
                G!CheckMCPToolPolicy, G!CheckMCPPermissionScopes

LEMMA GateStep == G!GateInv /\ [G!Next]_(G!vars) => G!GateInv'
  <1> SUFFICES ASSUME G!GateInv, [G!Next]_(G!vars) PROVE G!GateInv'
    OBVIOUS
  <1>1. CASE G!EditUser \/ G!EditKey \/ G!FlipSwitch \/ G!SavePolicy \/ G!ReloadPolicy
    <2>1. req' = [req EXCEPT !.clean = req.stage = "idle"]
      BY <1>1 DEF G!EditUser, G!EditKey, G!FlipSwitch, G!SavePolicy, G!ReloadPolicy, G!Change
    <2>2. role' \in {"user", "admin"}
      BY <1>1 DEF G!EditUser, G!EditKey, G!FlipSwitch, G!SavePolicy, G!ReloadPolicy, G!GateInv
    <2> QED
      BY <2>1, <2>2, ChangeGate
  <1> QED
    BY <1>1, AuthenticateGate, PassGate, RunGate, StreamGate DEF G!Next

(* GateInv is inductive: a request that nothing has overtaken carries the    *)
(* principal of now, and passes the gateway of now.                          *)
THEOREM GateInvariant == G!Spec => []G!GateInv
  BY GateInit, GateStep, PTL DEF G!Spec

(* No tool, alias, route or argument lets a delegated credential do more     *)
(* than its key, the administrator's switches and the caller's role allow.   *)
THEOREM GrantSafety == G!Spec => G!EffectsGranted
  <1> DEFINE Granted ==
        LET p == req.by IN
        req.clean /\ G!Scoped(p) /\ G!Performs(req.entry.op) =>
          \A e \in G!Effects(req.entry.op, req.entry.arg) :
            /\ e # "identity"
            /\ G!ScopeOf(e) \in (IF p.method = "mcp_key" THEN key.scopes ELSE TokenScopes) \cap permitted
            /\ e \in {"delete", "admin", "hold"} /\ cached = G!NoPolicy => role = "admin"
  <1>1. G!GateInv /\ [G!Next]_(G!vars) => [Granted]_(G!vars)
    <2> SUFFICES ASSUME G!GateInv, req.clean, G!Scoped(req.by), G!Performs(req.entry.op),
                        NEW e \in G!Effects(req.entry.op, req.entry.arg)
                 PROVE  /\ e # "identity"
                        /\ G!ScopeOf(e) \in (IF req.by.method = "mcp_key" THEN key.scopes ELSE TokenScopes) \cap permitted
                        /\ e \in {"delete", "admin", "hold"} /\ cached = G!NoPolicy => role = "admin"
      OBVIOUS
    <2>1. req.stage = "allowed" /\ G!InnerCheck(req.by, req.entry)
      BY DEF G!Performs
    <2>2. /\ req.by.role = role /\ role \in {"user", "admin"} /\ req.entry \in G!AllEntries
          /\ req.by.scopes = IF req.by.method = "mcp_key" THEN key.scopes ELSE TokenScopes
      BY <2>1 DEF G!GateInv, G!PrincipalCurrent
    <2>3. IF req.entry.via = "mcp" THEN G!CheckMCPRequestPolicy(req.by, req.entry)
          ELSE G!CheckMCPRESTScope(req.by, req.entry)
      BY <2>1 DEF G!GateInv, G!StillAllowed
    <2>4. Covered(req.by, e)
      BY <2>1, <2>2, <2>3, EffectsCovered
    <2> QED
      BY <2>2, <2>4 DEF Covered
  <1> QED
    BY <1>1, GateInvariant, PTL DEF G!Spec, G!EffectsGranted
=============================================================================
