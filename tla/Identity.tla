------------------------------ MODULE Identity ------------------------------
(* Users, sessions and the ways into them (internal/application/auth.go,     *)
(* oidc.go, admin_mail_provision.go, the user and session tables of the      *)
(* stores). Every handler reads a row, decides, and writes the whole row     *)
(* back in a later statement; each statement is one action here, so that     *)
(* handlers interleave between them.                                         *)
(*                                                                           *)
(* One issuer is configured. A login name is a pair <<name, suffix>>: the    *)
(* suffix is the one that OIDC provisioning or a tombstone appends.          *)
EXTENDS Naturals, FiniteSets

CONSTANTS
  UserIds,      \* rows of users, in use or not yet
  Root,         \* DefaultUserID
  Procs,        \* requests handled at the same time
  Subjects,     \* people known to the identity provider
  Claims,       \* [Subjects -> what an ID token asserts]
  Edits,        \* what administrators set: role, status and, with a display
                \* name or an address, the address too
  NewUsers,     \* whom they create: name, address, role, password
  Seeds,        \* local accounts that exist when the model starts
  Names,        \* login names in use
  Emails,       \* addresses in use
  Passwords,
  Blobs,        \* contents of mail objects
  AutoProvision,  \* the values oidc.auto_provision may have
  MailPolicy,     \* oidc.mail.enabled
  MaxRequests   \* bound: requests that change state

None == ""

Logins == (Names \cup Emails \cup {None, "local", "oidc", "deleted"}) \X (Subjects \cup UserIds \cup {None})

(* A row of users. "absent" is no row at all.                                *)
UserType ==
  [login : Logins, email : Emails \cup {None}, role : {"user", "admin"},
   status : {"absent", "active", "disabled", "deleted"}, provider : {"local", "oidc"},
   subject : Subjects \cup {None}, hash : Passwords \cup {None}]

ASSUME IdentityAssumption ==
  /\ Root \in UserIds
  /\ AutoProvision \subseteq BOOLEAN /\ MailPolicy \in BOOLEAN
  /\ MaxRequests \in Nat
  /\ None \notin UserIds \cup Subjects \cup Names \cup Emails \cup Passwords
  /\ Passwords \cap Subjects = {}
  /\ \A s \in Subjects :
       /\ Claims[s].name \in Names \cup {None}
       /\ Claims[s].email \in Emails \cup {None}
       /\ {Claims[s].verified, Claims[s].adminGroup} \subseteq BOOLEAN
  /\ Edits \subseteq [role : {"user", "admin"}, status : {"active", "disabled"},
                      named : BOOLEAN, email : Emails \cup {None}]
  /\ NewUsers \subseteq [name : Names, email : Emails \cup {None},
                         role : {"user", "admin"}, password : Passwords]
  /\ \A us \in Seeds :
       /\ DOMAIN us \subseteq UserIds
       /\ \A u \in DOMAIN us : us[u] \in UserType /\ us[u].status # "absent"
       /\ \A u, v \in DOMAIN us : us[u].subject = us[v].subject => u = v \/ us[u].subject = None

VARIABLES
  users,     \* [UserIds -> row]
  sessions,  \* auth_sessions: whose, opened with what, and (history, late)
             \* whether it slipped past the request that should have ended it
  boxes,     \* mail_accounts: <<owner, address>>
  mail,      \* messages: <<owner, content>>
  objects,   \* contents in the object store
  op,        \* [Procs -> the request being handled]
  unlinked,  \* history: identities whose link a write took off its account
  requests   \* requests so far

vars == <<users, sessions, boxes, mail, objects, op, unlinked, requests>>

Plain(n) == <<n, None>>
Absent == [login |-> Plain(None), email |-> None, role |-> "user", status |-> "absent",
           provider |-> "local", subject |-> None, hash |-> None]
NoOp == [pc |-> "idle", id |-> Root, row |-> Absent, by |-> None, late |-> FALSE, blobs |-> {}]

(* EnsureUser gives the local user a row before anything else runs.          *)
EnsureUser == [Absent EXCEPT !.login = Plain("local"), !.status = "active"]

(* A new installation, or one in which people have local accounts already.   *)
Init ==
  /\ \E us \in Seeds : users = [u \in UserIds |-> IF u \in DOMAIN us THEN us[u]
                                  ELSE IF u = Root THEN EnsureUser ELSE Absent]
  /\ sessions = {} /\ boxes = {} /\ mail = {} /\ objects = {}
  /\ op = [p \in Procs |-> NoOp]
  /\ unlinked = {}
  /\ requests = 0

-----------------------------------------------------------------------------
(* The store.                                                                *)
Exists(u) == users[u].status # "absent"
Active(u) == users[u].status = "active"

GetUserByLogin(l) == {u \in UserIds : Exists(u) /\ users[u].login = l}

(* None or several matches: never guess.                                     *)
GetUserByEmail(e) ==
  LET found == {u \in UserIds : Active(u) /\ users[u].email = e}
  IN IF e # None /\ Cardinality(found) = 1 THEN found ELSE {}

GetUserByOIDC(s) == {u \in UserIds : Exists(u) /\ users[u].subject = s}

CountAdmins == Cardinality({u \in UserIds : Active(u) /\ users[u].role = "admin"})

\* Mutant: no index on the identity.
UniqueLogin(u, row) ==
  \A v \in UserIds \ {u} : Exists(v) => users[v].login # row.login

(* The unique indexes on login_id and on (oidc_issuer, oidc_subject).        *)
Unique(u, row) ==
  \A v \in UserIds \ {u} : Exists(v) =>
    /\ users[v].login # row.login
    /\ row.subject # None => users[v].subject # row.subject

(* NewID: some row not in use yet.                                           *)
NewId == {CHOOSE u \in UserIds : ~Exists(u) : x \in {v \in UserIds : ~Exists(v)}}

(* UpdateUser writes every column but the password hash.                     *)
UpdateUser(u, row) == [users EXCEPT ![u] = [row EXCEPT !.hash = users[u].hash]]

TryUpdateUser(u, row) == IF Unique(u, row) THEN UpdateUser(u, row) ELSE users

(* SetUserPassword.                                                          *)
SetUserPassword(u, w) == [users EXCEPT ![u].hash = w, ![u].provider = "local"]

TombstoneUserIdentity(u, row) ==
  [row EXCEPT !.status = "deleted", !.login = <<"deleted", u>>, !.email = None, !.subject = None]

(* A statement writes users. History: a deletion takes the identity off its  *)
(* account, and so does a row written back stale.                            *)
Save(rows) ==
  /\ users' = rows
  /\ unlinked' = unlinked \cup
       {users[u].subject : u \in {v \in UserIds : users[v].subject \notin {None, rows[v].subject}}}

-----------------------------------------------------------------------------
(* A request begins, goes on, or ends.                                       *)
Begin(p, pc, u, row, by) ==
  /\ op[p].pc = "idle" /\ requests < MaxRequests
  /\ requests' = requests + 1
  /\ op' = [op EXCEPT ![p] = [NoOp EXCEPT !.pc = pc, !.id = u, !.row = row, !.by = by]]

At(p, pc) == op[p].pc = pc /\ UNCHANGED requests
Goto(p, pc) == op' = [op EXCEPT ![p].pc = pc]
End(p) == op' = [op EXCEPT ![p] = NoOp]

(* History: sessions of u that outlive a change without being deleted, and   *)
(* logins of u that are past their check when they are cut off.              *)
Outlived(u) == {[x EXCEPT !.late = @ \/ x.user = u] : x \in sessions}

CutOff(u, next) ==
  op' = [q \in DOMAIN next |->
           IF next[q].id = u /\ next[q].pc \in {"touch", "bind", "mailbox", "session"}
           THEN [next[q] EXCEPT !.late = TRUE] ELSE next[q]]

(* requireAdmin: the principal comes from a session or from the API token,   *)
(* which stands for the local user.                                          *)
Admin(a) ==
  /\ Active(a)
  /\ \/ a = Root
     \/ users[a].role = "admin" /\ \E x \in sessions : x.user = a

-----------------------------------------------------------------------------
(* Password login: AuthenticateLocal, then CreateSession.                    *)
AuthenticateLocal(p, n, w) ==
  /\ \E u \in GetUserByLogin(Plain(n)) :
       /\ Active(u) /\ users[u].hash = w
       /\ Begin(p, "touch", u, users[u], w)
  /\ UNCHANGED <<users, unlinked, sessions, boxes, mail, objects>>

(* last_login_at is written with the whole row; a failure is ignored.        *)
TouchLogin(p) ==
  /\ At(p, "touch")
  /\ Save(TryUpdateUser(op[p].id, op[p].row))
  /\ Goto(p, IF op[p].by \in Subjects THEN "mailbox" ELSE "session")
  /\ UNCHANGED <<sessions, boxes, mail, objects>>

CreateSession(p) ==
  /\ At(p, "session")
  /\ sessions' = sessions \cup {[user |-> op[p].id, by |-> op[p].by, late |-> op[p].late]}
  /\ End(p)
  /\ UNCHANGED <<users, unlinked, boxes, mail, objects>>

(* Logout, or the session's lifetime is over.                                *)
Logout(x) ==
  /\ sessions' = sessions \ {x}
  /\ UNCHANGED <<users, unlinked, boxes, mail, objects, op, requests>>

-----------------------------------------------------------------------------
(* OIDC login. The provider has verified the code, the nonce and the token:  *)
(* the request starts with the claims of a subject.                          *)
ResolveOIDCIdentity(p, s) ==
  /\ \/ \E u \in GetUserByOIDC(s) :
          \/ Active(u) /\ Begin(p, "touch", u, users[u], s)
          \/ /\ users[u].status = "deleted"
             /\ Begin(p, "tombstone", u, TombstoneUserIdentity(u, users[u]), s)
     \/ GetUserByOIDC(s) = {} /\ Begin(p, "link", Root, Absent, s)
  /\ UNCHANGED <<users, unlinked, sessions, boxes, mail, objects>>

ReleaseIdentity(p) ==
  /\ At(p, "tombstone")
  /\ Save(UpdateUser(op[p].id, op[p].row))
  /\ CutOff(op[p].id, [op EXCEPT ![p].pc = "link"])
  /\ sessions' = Outlived(op[p].id)
  /\ UNCHANGED <<boxes, mail, objects>>

(* oidcLinkCandidate: the asserted address first, then the user name unless  *)
(* the addresses disagree.                                                   *)
OidcLinkCandidate(c) ==
  LET byMail == IF c.verified THEN GetUserByEmail(c.email) ELSE {}
      agrees(u) == None \in {users[u].email, c.email} \/ users[u].email = c.email
  IN IF byMail # {} THEN byMail
     ELSE IF c.name = None THEN {} ELSE {u \in GetUserByLogin(Plain(c.name)) : agrees(u)}

(* An active account, not federated yet: local, or prepared by an            *)
(* administrator for exactly this address.                                   *)
MayLink(u, c) ==
  LET prepared == users[u].provider = "oidc"
  IN /\ Active(u)
     /\ users[u].subject = None
     /\ prepared => c.verified /\ users[u].email # None /\ users[u].email = c.email

Linked(u, s) ==
  LET c == Claims[s] IN
  [users[u] EXCEPT !.subject = s,
                   !.email = IF @ = None THEN c.email ELSE @,
                   !.role = IF c.adminGroup THEN "admin" ELSE @]

(* The row a first login creates.                                            *)
NewUserRow(s) ==
  LET c == Claims[s]
      n == CASE c.name # None -> Plain(c.name)
             [] c.name = None /\ c.email # None -> Plain(c.email)
             [] OTHER -> <<"oidc", s>>
  IN [Absent EXCEPT !.login = IF GetUserByLogin(n) = {} THEN n ELSE <<n[1], s>>,
                    !.email = c.email, !.status = "active", !.provider = "oidc", !.subject = s,
                    !.role = IF c.adminGroup THEN "admin" ELSE "user"]

(* No link: provision, if the administrator allows it at this moment.        *)
Provision(p) ==
  \/ TRUE \in AutoProvision /\ op' = [op EXCEPT ![p].pc = "create", ![p].row = NewUserRow(op[p].by)]
  \/ FALSE \in AutoProvision /\ End(p)

LinkExistingLocalUser(p) ==
  /\ At(p, "link")
  /\ LET s == op[p].by
         found == {u \in OidcLinkCandidate(Claims[s]) : MayLink(u, Claims[s])}
     IN \/ \E u \in found :
             op' = [op EXCEPT ![p].pc = "bind", ![p].id = u, ![p].row = Linked(u, s)]
        \/ found = {} /\ Provision(p)
  /\ UNCHANGED <<users, unlinked, sessions, boxes, mail, objects>>

BindIdentity(p) ==
  /\ At(p, "bind")
  /\ \/ /\ Unique(op[p].id, op[p].row)
        /\ Save(UpdateUser(op[p].id, op[p].row))
        /\ Goto(p, "mailbox")
     \/ /\ ~Unique(op[p].id, op[p].row)
        /\ Save(users)
        /\ Provision(p)
  /\ UNCHANGED <<sessions, boxes, mail, objects>>

(* Two first requests of one identity race: the index lets one create win,   *)
(* the other uses that account.                                              *)
CreateOIDCUser(p) ==
  /\ At(p, "create")
  /\ LET row == op[p].row
         winner == {u \in GetUserByOIDC(row.subject) : Active(u)}
     IN \/ \E u \in NewId :
             /\ Unique(u, row)
             /\ Save([users EXCEPT ![u] = row])
             /\ op' = [op EXCEPT ![p].pc = "mailbox", ![p].id = u]
        \/ /\ ~Unique(None, row)
           /\ Save(users)
           /\ \/ \E u \in winner :
                   op' = [op EXCEPT ![p].pc = "touch", ![p].id = u, ![p].row = users[u]]
              \/ winner = {} /\ End(p)
  /\ UNCHANGED <<sessions, boxes, mail, objects>>

(* tryAutoProvisionOIDCMail: the organisation's mail policy gives the user a *)
(* mail account; a failure never blocks the login.                           *)
AutoProvisionMail(p) ==
  /\ At(p, "mailbox")
  /\ boxes' = IF MailPolicy /\ None \notin {Claims[op[p].by].email, op[p].row.email}
              THEN boxes \cup {<<op[p].id, op[p].row.email>>} ELSE boxes
  /\ Goto(p, "session")
  /\ UNCHANGED <<users, unlinked, sessions, mail, objects>>

-----------------------------------------------------------------------------
(* Administration.                                                           *)
KeepsAnAdmin(u, row) ==
  (users[u].role = "admin" /\ Active(u) /\ (row.role # "admin" \/ row.status # "active"))
    => CountAdmins > 1

(* A call that names a display name or an address sets the address, also to  *)
(* none.                                                                     *)
AdminEditUser(p, a, u, e) ==
  LET row == [users[u] EXCEPT !.role = e.role, !.status = e.status,
                              !.email = IF e.named THEN e.email ELSE @] IN
  /\ Admin(a) /\ Exists(u) /\ KeepsAnAdmin(u, row)
  /\ Begin(p, "edit", u, row, None)
  /\ UNCHANGED <<users, unlinked, sessions, boxes, mail, objects>>

AdminDeleteUser(p, a, u) ==
  LET row == TombstoneUserIdentity(u, users[u]) IN
  /\ Admin(a) /\ a # u /\ Exists(u) /\ KeepsAnAdmin(u, row)
  /\ Begin(p, "edit", u, row, None)
  /\ UNCHANGED <<users, unlinked, sessions, boxes, mail, objects>>

AdminWrite(p) ==
  LET u == op[p].id  row == op[p].row IN
  /\ At(p, "edit")
  /\ \/ /\ Unique(u, row)
        /\ Save(UpdateUser(u, row))
        /\ IF row.status = "active" THEN End(p)
           ELSE CutOff(u, [op EXCEPT ![p].pc = "revoke"])
     \/ ~Unique(u, row) /\ Save(users) /\ End(p)
  /\ UNCHANGED <<sessions, boxes, mail, objects>>

(* The handlers drop its error: the sessions are gone, or all of them stay.  *)
DeleteUserSessions(p) ==
  /\ At(p, "revoke")
  /\ \/ sessions' = {x \in sessions : x.user # op[p].id}
     \/ sessions' = Outlived(op[p].id)
  /\ End(p)
  /\ UNCHANGED <<users, unlinked, boxes, mail, objects>>

AdminResetPassword(p, a, u, w) ==
  /\ Admin(a) /\ Exists(u) /\ users[u].provider = "local"
  /\ Begin(p, "reset", u, users[u], w)
  /\ UNCHANGED <<users, unlinked, sessions, boxes, mail, objects>>

\* Mutant: the sessions stay.
ResetWriteKeepsSessions(p) ==
  /\ At(p, "reset")
  /\ Save(SetUserPassword(op[p].id, op[p].by))
  /\ sessions' = sessions
  /\ CutOff(op[p].id, [op EXCEPT ![p] = NoOp])
  /\ UNCHANGED <<boxes, mail, objects>>

ResetWrite(p) ==
  /\ At(p, "reset")
  /\ Save(SetUserPassword(op[p].id, op[p].by))
  /\ CutOff(op[p].id, [op EXCEPT ![p].pc = "revoke"])
  /\ UNCHANGED <<sessions, boxes, mail, objects>>

AdminCreateUser(a, n, e, role, w) ==
  LET row == [Absent EXCEPT !.login = Plain(n), !.email = e, !.role = role,
                            !.status = "active", !.hash = w] IN
  /\ Admin(a) /\ requests < MaxRequests
  /\ \E u \in NewId : /\ Unique(u, row)
                        /\ Save([users EXCEPT ![u] = row])
  /\ requests' = requests + 1
  /\ UNCHANGED <<sessions, boxes, mail, objects, op>>

(* SetupInitialAdmin turns the local user into the first administrator;      *)
(* bootstrapAdmin does the same when the program starts.                     *)
AdminRow(n) == [users[Root] EXCEPT !.login = Plain(n), !.role = "admin",
                                   !.status = "active", !.provider = "local"]

SetupInitialAdmin(p, n, w) ==
  /\ CountAdmins = 0
  /\ Begin(p, "setup", Root, AdminRow(n), w)
  /\ UNCHANGED <<users, unlinked, sessions, boxes, mail, objects>>

SetupWrite(p) ==
  /\ At(p, "setup")
  /\ \/ Unique(Root, op[p].row) /\ Save(UpdateUser(Root, op[p].row)) /\ Goto(p, "setpw")
     \/ ~Unique(Root, op[p].row) /\ Save(users) /\ End(p)
  /\ UNCHANGED <<sessions, boxes, mail, objects>>

SetupPassword(p) ==
  /\ At(p, "setpw")
  /\ Save(SetUserPassword(Root, op[p].by))
  /\ CutOff(Root, [op EXCEPT ![p].pc = "session"])
  /\ sessions' = Outlived(Root)
  /\ UNCHANGED <<boxes, mail, objects>>

BootstrapAdmin(n, w) ==
  /\ \A p \in Procs : op[p].pc = "idle"
  /\ CountAdmins = 0 /\ requests < MaxRequests
  /\ Unique(Root, AdminRow(n))
  /\ Save([users EXCEPT ![Root] = [AdminRow(n) EXCEPT !.hash = w]])
  /\ requests' = requests + 1
  /\ sessions' = Outlived(Root)
  /\ UNCHANGED <<boxes, mail, objects, op>>

(* AdminProvisionMailAccount: the user with this address, or a new row that  *)
(* waits for the identity; rows deleted without a tombstone are released.    *)
ProvisionTarget(p, a, e) ==
  LET released == [u \in UserIds |->
        IF users[u].status = "deleted" /\ (users[u].email = e \/ users[u].login = Plain(e))
        THEN TombstoneUserIdentity(u, users[u]) ELSE users[u]]
      row == [Absent EXCEPT !.login = Plain(e), !.email = e, !.status = "active", !.provider = "oidc"]
  IN /\ Admin(a)
     /\ \/ /\ \E u \in GetUserByEmail(e) : Begin(p, "account", u, [users[u] EXCEPT !.email = e], None)
           /\ Save(users)
        \/ /\ GetUserByEmail(e) = {}
           /\ \A v \in UserIds : released[v].status = "absent" \/ released[v].login # row.login
           /\ \E u \in NewId : /\ Save([released EXCEPT ![u] = row])
                                 /\ Begin(p, "account", u, row, "new")
     /\ UNCHANGED <<sessions, boxes, mail, objects>>

ProvisionAccount(p) ==
  /\ At(p, "account")
  /\ boxes' = boxes \cup {<<op[p].id, op[p].row.email>>}
  /\ End(p)
  /\ UNCHANGED <<users, unlinked, sessions, mail, objects>>

(* The secret cannot be stored: a row created for it is given up, without a  *)
(* tombstone and with the sessions it may have got meanwhile.                *)
ProvisionGiveUp(p) ==
  /\ At(p, "account")
  /\ \/ /\ op[p].by = "new"
        /\ Save(TryUpdateUser(op[p].id, [op[p].row EXCEPT !.status = "deleted"]))
        /\ CutOff(op[p].id, [op EXCEPT ![p] = NoOp])
        /\ sessions' = Outlived(op[p].id)
     \/ op[p].by # "new" /\ End(p) /\ UNCHANGED <<users, unlinked, sessions>>
  /\ UNCHANGED <<boxes, mail, objects>>

-----------------------------------------------------------------------------
(* Mail arrives at an account (external to this module: the ingest).         *)
Ingest(u, b) ==
  /\ Active(u) /\ \E e \in Emails : <<u, e>> \in boxes
  /\ mail' = mail \cup {<<u, b>>} /\ objects' = objects \cup {b}
  /\ UNCHANGED <<users, unlinked, sessions, boxes, op, requests>>

(* AdminPurgeDeletedUserMail: a transaction drops the rows of the deleted    *)
(* users who had this address, then the objects they named are deleted.      *)
PurgeDeletedUserMail(p, a, e) ==
  LET gone == {u \in UserIds : users[u].status = "deleted" /\ <<u, e>> \in boxes} IN
  /\ Admin(a) /\ gone # {}
  /\ op[p].pc = "idle" /\ requests < MaxRequests
  /\ requests' = requests + 1
  /\ mail' = {m \in mail : m[1] \notin gone}
  /\ boxes' = {b \in boxes : b[1] \notin gone}
  /\ op' = [op EXCEPT ![p] = [NoOp EXCEPT !.pc = "objects",
                                          !.blobs = {m[2] : m \in mail \ mail'}]]
  /\ UNCHANGED <<users, unlinked, sessions, objects>>

PurgeObjects(p) ==
  /\ At(p, "objects")
  /\ objects' = objects \ op[p].blobs
  /\ End(p)
  /\ UNCHANGED <<users, unlinked, sessions, boxes, mail>>

-----------------------------------------------------------------------------
Login(p) ==
  \/ \E n \in Names, w \in Passwords : AuthenticateLocal(p, n, w)
  \/ \E s \in Subjects : ResolveOIDCIdentity(p, s)
  \/ TouchLogin(p) \/ ReleaseIdentity(p) \/ LinkExistingLocalUser(p) \/ BindIdentity(p)
  \/ CreateOIDCUser(p) \/ AutoProvisionMail(p) \/ CreateSession(p)

Administer(p) ==
  \/ \E a, u \in UserIds :
       \/ \E e \in Edits : AdminEditUser(p, a, u, e)
       \/ AdminDeleteUser(p, a, u)
       \/ \E w \in Passwords : AdminResetPassword(p, a, u, w)
  \/ \E a \in UserIds, e \in Emails : ProvisionTarget(p, a, e) \/ PurgeDeletedUserMail(p, a, e)
  \/ AdminWrite(p) \/ DeleteUserSessions(p) \/ ResetWrite(p)
  \/ ProvisionAccount(p) \/ ProvisionGiveUp(p) \/ PurgeObjects(p)

Setup(p) ==
  \/ \E n \in Names, w \in Passwords : SetupInitialAdmin(p, n, w)
  \/ SetupWrite(p) \/ SetupPassword(p)

Next ==
  \/ \E p \in Procs : Login(p) \/ Administer(p) \/ Setup(p)
  \/ \E n \in Names, w \in Passwords : BootstrapAdmin(n, w)
  \/ \E a \in UserIds, c \in NewUsers : AdminCreateUser(a, c.name, c.email, c.role, c.password)
  \/ \E x \in sessions : Logout(x)
  \/ \E u \in UserIds, b \in Blobs : Ingest(u, b)

Spec == Init /\ [][Next]_vars
-----------------------------------------------------------------------------
(* A request that works on a user has still to take one of these steps.      *)
Pending(u, pcs) == \E p \in Procs : op[p].id = u /\ op[p].pc \in pcs

(* SessionsFollowPassword: a session opened with a password that is no       *)
(* longer the user's is about to be deleted (AdminResetPassword), unless the *)
(* login had passed its check when the password changed: CreateSession then  *)
(* comes after DeleteUserSessions and the session stays. So it does when the *)
(* statement fails, and the setup of the first administrator deletes none.   *)
SessionsFollowPassword ==
  \A x \in sessions :
    x.by \in Passwords /\ ~x.late =>
      x.by = users[x.user].hash \/ Pending(x.user, {"revoke"})

(* OneAccountPerPerson: the sessions of one identity belong to one account:  *)
(* concurrent first logins, links and provisioning (resolveOIDCIdentity)     *)
(* never give a person two accounts, unless the link was released or lost to *)
(* a row written back stale.                                                 *)
OneAccountPerPerson ==
  \A x, y \in sessions : x.by = y.by /\ x.by \in Subjects \ unlinked => x.user = y.user

(* PurgeSparesOthers: purging the mail of deleted users leaves every other   *)
(* message readable: its content stays in the object store.                  *)
PurgeSparesOthers == \A m \in mail : m[2] \in objects

(* AnAdminRemains: once there is an administrator, AdminEditUser and         *)
(* AdminDeleteUser leave one.                                                *)
AnAdminRemains == [][CountAdmins > 0 => CountAdmins' > 0]_vars

-----------------------------------------------------------------------------
(* The inductive invariant behind SessionsFollowPassword and                 *)
(* OneAccountPerPerson.                                                      *)
OpType ==
  [pc : {"idle", "touch", "session", "tombstone", "link", "bind", "create", "mailbox", "edit",
         "revoke", "reset", "setup", "setpw", "account", "objects"},
   id : UserIds, row : UserType, by : Subjects \cup Passwords \cup {None, "new"},
   late : BOOLEAN, blobs : SUBSET Blobs]

TypeOK ==
  /\ users \in [UserIds -> UserType]
  /\ sessions \subseteq [user : UserIds, by : Subjects \cup Passwords, late : BOOLEAN]
  /\ boxes \subseteq UserIds \X Emails
  /\ mail \subseteq UserIds \X Blobs /\ objects \subseteq Blobs
  /\ op \in [Procs -> OpType]
  /\ unlinked \subseteq Subjects
  /\ requests \in 0..MaxRequests

(* No two rows carry one identity, whatever stale row was written back.      *)
UniqueIdentity ==
  \A u, v \in UserIds :
    Exists(u) /\ Exists(v) /\ users[u].subject = users[v].subject => u = v \/ users[u].subject = None

(* In these rows the account exists, and the identity it was opened for is   *)
(* still its own unless the link was lost.                                   *)
Holds(rows, lost, u, x) ==
  rows[u].status # "absent" /\ (x \in Subjects \ lost => rows[u].subject = x)

(* What a request has found out or is about to write.                        *)
RequestOK(r, rows, lost) ==
  /\ r.pc \in {"touch", "tombstone", "bind", "create", "edit", "setup", "account"} => r.row.status # "absent"
  /\ r.pc \in {"tombstone", "link", "bind", "create", "mailbox"} => r.by \in Subjects
  /\ r.pc \in {"touch", "session"} => r.by \in Subjects \cup Passwords
  /\ r.pc \in {"reset", "setup", "setpw"} => r.by \in Passwords
  /\ r.pc \in {"touch", "mailbox", "session"} => Holds(rows, lost, r.id, r.by)
  /\ r.pc \in {"bind", "setpw"} => rows[r.id].status # "absent"
  /\ r.pc \in {"setup", "setpw"} => r.id = Root
  /\ r.pc = "tombstone" => r.row.subject = None
  /\ r.pc \in {"bind", "create"} => r.row.subject = r.by
  /\ r.pc = "account" => r.row.email # None
  /\ r.pc \in {"touch", "session"} /\ r.by \in Passwords /\ ~r.late => rows[r.id].hash = r.by

RequestInv == \A p \in Procs : RequestOK(op[p], users, unlinked)

SessionInv == \A x \in sessions : Holds(users, unlinked, x.user, x.by)

IdentityInv == TypeOK /\ UniqueIdentity /\ RequestInv /\ SessionInv /\ SessionsFollowPassword
=============================================================================
