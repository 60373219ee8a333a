------------------------------ MODULE Settings ------------------------------
(* Administrator settings shared by several replicas (application/           *)
(* settings*.go), the secrets they name (accounts.go, secretstore/db.go) and *)
(* the keyring that wraps those (crypto/envelope.go, cmd/postra/main.go).    *)
(*                                                                           *)
(* A save reads a snapshot, registers new secrets, compares and swaps, tidies *)
(* up secrets that nothing names, reads the result back, applies it and      *)
(* notifies. A mutex keeps the saves of one replica apart, nothing but the   *)
(* comparison those of two. Each replica listens for notifications in a      *)
(* goroutine of its own.                                                     *)
EXTENDS Naturals, FiniteSets

CONSTANTS
  Replicas,
  Refs,        \* secret references
  AccountRef,  \* the one that a mail account names
  FirstKeys,   \* what the settings may name before the first start
  Keys,        \* keys that rotations generate
  MaxChanges,  \* bound: saves, rotated passwords and keys
  MaxFaults,   \* bound: lost answers, lost connections, crashes
  Retire       \* postra key rotate --retire-old

None == "none"

ASSUME SettingsAssumption ==
  /\ AccountRef \in Refs /\ {None, "?", "keep", "new"} \cap Refs = {} /\ FirstKeys \subseteq Refs \cup {None}
  /\ MaxChanges \in Nat /\ MaxFaults \in Nat /\ Retire \in BOOLEAN

Nothing == [oauth |-> FALSE, proxy |-> FALSE, host |-> FALSE, key |-> "?"]
NoRing == [keys |-> {}, current |-> None]

VARIABLES
  stored,    \* system_settings: OAuth on, its proxy on, a tracking host allowed, a secret's reference
  secret,    \* [Refs -> row of secrets]: its state and the key that wraps it
  body,      \* the key that seals the stored bodies and objects
  ring,      \* the row internal.keyring, NoRing before the first start
  node,      \* [Replicas -> up, listening, its keyring, the settings it runs with]
  writer,    \* [Replicas -> the save under way]
  listener,  \* [Replicas -> settings read by the callback, Nothing when it waits]
  notes,     \* replicas with an unread notification
  missed,    \* history: replicas that lost a notification, or could not read after one
  pending,   \* COMMITs the database has not yet done and whose client has gone
  late,      \* history: one of them was done in the end
  astray,    \* history: references stored by hand that were revoked, or about to be
  cli,       \* postra key rotate, and history: a rotation was cut off
  changes, faults

vars == <<stored, secret, body, ring, node, writer, listener, notes, missed, pending, late,
          astray, cli, changes, faults>>
keyring == <<body, ring, cli>>
reload == <<listener, notes, missed>>
commits == <<pending, late, astray>>

NoSave == [pc |-> "idle", seen |-> Nothing, snap |-> Nothing, next |-> Nothing, new |-> None, drop |-> None,
           apply |-> FALSE, done |-> FALSE]
Down == [up |-> FALSE, listens |-> FALSE, ring |-> NoRing, runs |-> Nothing]
NoCli == [pc |-> "idle", ring |-> NoRing, rows |-> {}, torn |-> FALSE]

Init ==
  /\ stored \in [oauth : {TRUE}, proxy : {FALSE}, host : {FALSE}, key : FirstKeys]
  /\ secret = [s \in Refs |-> [state |-> "none", key |-> None]]
  /\ ring = NoRing /\ body = None
  /\ node = [r \in Replicas |-> Down] /\ writer = [r \in Replicas |-> NoSave]
  /\ listener = [r \in Replicas |-> Nothing]
  /\ notes = {} /\ missed = {} /\ pending = {} /\ late = FALSE /\ astray = {}
  /\ cli = NoCli
  /\ changes = 0 /\ faults = 0

Fault == faults < MaxFaults /\ faults' = faults + 1

-----------------------------------------------------------------------------
(* Start: the first process writes the keyring, the others read it back. The *)
(* settings are read before the listener is connected.                       *)
ResolveKEK(r) == IF ring = NoRing THEN [keys |-> {r}, current |-> r] ELSE ring

(* The store of secrets encrypts under the keyring of its own process.       *)
Put(r, s) == [secret EXCEPT ![s] = [state |-> "live", key |-> node[r].ring.current]]

(* What an upgraded single node kept in files moves to the database.         *)
MigrateLocalFileToDB(r) ==
  [s \in Refs |-> IF s \in {AccountRef, stored.key} THEN [state |-> "live", key |-> r] ELSE secret[s]]

Started(r) == [up |-> TRUE, listens |-> FALSE, ring |-> ResolveKEK(r), runs |-> stored]

Boot(r) ==
  /\ ~node[r].up
  /\ ring' = ResolveKEK(r)
  /\ node' = [node EXCEPT ![r] = Started(r)]
  /\ secret' = IF ring = NoRing THEN MigrateLocalFileToDB(r) ELSE secret
  /\ body' = IF ring = NoRing THEN r ELSE body
  /\ missed' = missed \ {r}
  /\ UNCHANGED <<stored, writer, listener, notes, commits, cli, changes, faults>>

(* LISTEN, after the start and after a lost connection: nothing is reloaded. *)
Listen(r) ==
  /\ node[r].up /\ ~node[r].listens
  /\ node' = [node EXCEPT ![r].listens = TRUE]
  /\ UNCHANGED <<stored, secret, keyring, writer, reload, commits, changes, faults>>

-----------------------------------------------------------------------------
(* A save.                                                                   *)
(* AdminSettingsCatalog gives the form a revision, the hash of what is       *)
(* stored.                                                                   *)
AdminSettingsCatalog(r) ==
  /\ node[r].up /\ writer[r].pc = "idle" /\ changes < MaxChanges
  /\ writer' = [writer EXCEPT ![r] = [NoSave EXCEPT !.pc = "form", !.seen = stored]]
  /\ UNCHANGED <<stored, secret, keyring, node, reload, commits, changes, faults>>

(* The replicas that may take up a save, with a form or without one.         *)
Savers(pc) == {r \in Replicas : node[r].up /\ writer[r].pc = pc /\ changes < MaxChanges}

(* The save reads its snapshot; w is what it will do.                        *)
Begin(r, w) ==
  /\ changes' = changes + 1
  /\ writer' = [writer EXCEPT ![r] = w]
  /\ UNCHANGED <<stored, secret, keyring, node, reload, commits, faults>>

(* validateSettingValues refuses a value by its own definition, before        *)
(* anything is written. The rest depends on the settings that the save would *)
(* leave: the proxy of OAuth needs OAuth.                                    *)
WellFormed(edit) == edit # "invalid"

Edits == {"oauth", "proxy", "none", "invalid"}

Edited(edit) ==
  CASE edit = "oauth" -> [stored EXCEPT !.oauth = ~@]
    [] edit = "proxy" -> [stored EXCEPT !.proxy = ~@]
    [] OTHER -> stored

\* Mutant: only what the save itself switches on is looked at.
ConsistentChange(before, after) == after.proxy /\ ~before.proxy => after.oauth

Consistent(before, after) == after.proxy => after.oauth

(* A save leaves the secret alone, brings a new one, removes it (None), or   *)
(* names a reference itself, which nothing looks up: any that was registered *)
(* and is not the new one of a save under way.                               *)
Known ==
  {s \in Refs : secret[s].state # "none" /\ \A q \in Replicas : writer[q].new = s => writer[q].done}

Choices == {"keep", "new", None} \cup Known

Keyed(next, key) == IF key \in {"keep", "new"} THEN next ELSE [next EXCEPT !.key = key]

Stage(key) == IF key = "new" THEN "secret" ELSE "commit"

(* settingsRevision, a hash.                                                 *)
ShownIsStored(r) == writer[r].seen = stored

(* AdminPatchSettings refuses a form whose revision is not that of the       *)
(* snapshot. It registers new secrets before it looks at what would be left, *)
(* removes none, and names one only in a task's route. Of the secrets that   *)
(* it replaces, the token of the vector store is dropped, others are not.    *)
(* Bound: a reference is not named together with a switch.                   *)
AdminPatchSettings(r, edit, key, drops) ==
  LET next == Keyed(Edited(edit), key) IN
  /\ key # None /\ (drops => key = "new")
  /\ (key = "keep" => edit # "none") /\ (key \in Refs => edit = "none")
  /\ Begin(r, IF ~ShownIsStored(r) \/ ~WellFormed(edit) \/ (key # "new" /\ ~Consistent(stored, next)) THEN NoSave
              ELSE [NoSave EXCEPT !.pc = Stage(key), !.snap = stored, !.drop = IF drops THEN stored.key ELSE None,
                                  !.next = next, !.apply = TRUE])

(* AdminSaveSettings has no revision and looks first. The old token of the   *)
(* vector store is dropped when another one is stored, the secret of OIDC    *)
(* when it is removed. Bound: not both with a switch.                        *)
AdminSaveSettings(r, edit, key, drops) ==
  LET next == Keyed(Edited(edit), key) IN
  /\ (edit = "none") = (key # "keep") /\ (drops => key # "keep")
  /\ Begin(r, IF ~WellFormed(edit) \/ ~Consistent(stored, next) THEN NoSave
              ELSE [NoSave EXCEPT !.pc = Stage(key), !.snap = stored, !.drop = IF drops THEN stored.key ELSE None,
                                  !.next = next, !.apply = TRUE])

(* AdminSaveAISettings saves the ai. settings only; it drops a key that it   *)
(* replaces or removes, not one in whose place it names another. A form that *)
(* leaves the key alone still commits.                                       *)
AdminSaveAISettings(r, key) ==
  Begin(r, [NoSave EXCEPT !.pc = Stage(key), !.snap = stored,
                          !.drop = IF key \in {"new", None} THEN stored.key ELSE None,
                          !.next = Keyed(stored, key), !.apply = TRUE])

(* AdminAllowTrackingHost applies nothing itself.                            *)
AdminAllowTrackingHost(r) ==
  Begin(r, [NoSave EXCEPT !.pc = "commit", !.snap = stored, !.next = [stored EXCEPT !.host = TRUE]])

(* A new secret is written before the commit, under a reference drawn at     *)
(* random. Bound: while references are left.                                 *)
Unused == {s \in Refs \ {AccountRef} : secret[s].state = "none"}

RegisterSecret(r) ==
  LET s == CHOOSE s \in Unused : TRUE IN
  /\ writer[r].pc = "secret" /\ Unused # {}
  /\ secret' = Put(r, s)
  /\ writer' = [writer EXCEPT ![r].pc = "commit", ![r].new = s, ![r].next.key = s]
  /\ UNCHANGED <<stored, keyring, node, reload, commits, changes, faults>>

(* After a save that failed the new secret is looked at, after one that went *)
(* through the old one. A save that went through is then read back, applied  *)
(* and announced.                                                            *)
Doubtful(r) == IF writer[r].done THEN writer[r].drop ELSE writer[r].new

Announcing == [NoSave EXCEPT !.pc = "notify", !.done = TRUE]

AfterTidy(w) ==
  IF ~w.done THEN NoSave ELSE IF w.apply THEN [w EXCEPT !.pc = "read", !.new = None, !.drop = None] ELSE Announcing

AfterCommit(r, ok) ==
  LET w == [writer[r] EXCEPT !.done = ok, !.pc = "tidy"] IN
  [writer EXCEPT ![r] = IF (IF ok THEN w.drop ELSE w.new) = None THEN AfterTidy(w) ELSE w]

UnchangedSince(r) == stored = writer[r].snap

(* The save names a reference that was revoked meanwhile, or that another    *)
(* save has looked for in vain and is about to revoke.                       *)
NamesDead(w) ==
  /\ w.new = None /\ w.next.key \notin {w.snap.key, None}
  /\ secret[w.next.key].state # "live" \/ \E q \in Replicas : writer[q].pc = "revoke" /\ Doubtful(q) = w.next.key

Strays(w) == IF NamesDead(w) THEN astray \cup {w.next.key} ELSE astray

(* CompareAndSwapAdminSettings, under a lock on the table. The updates are   *)
(* written key by key over what is there.                                    *)
Commit(r) ==
  LET w == writer[r]
      ok == UnchangedSince(r) /\ Consistent(w.snap, w.next) IN
  /\ w.pc = "commit" /\ pending = {}
  /\ stored' = IF ok THEN [f \in DOMAIN stored |-> IF w.next[f] = w.snap[f] THEN stored[f] ELSE w.next[f]] ELSE stored
  /\ astray' = IF ok THEN Strays(w) ELSE astray
  /\ writer' = AfterCommit(r, ok)
  /\ UNCHANGED <<secret, keyring, node, reload, pending, late, changes, faults>>

(* The answer is lost: the database has done the commit, or not, or will.    *)
CommitLost(r, how) ==
  /\ writer[r].pc = "commit" /\ pending = {} /\ Fault
  /\ UnchangedSince(r) /\ Consistent(writer[r].snap, writer[r].next)
  /\ stored' = IF how = "done" THEN writer[r].next ELSE stored
  /\ pending' = IF how = "later" THEN {writer[r].next} ELSE {}
  /\ writer' = AfterCommit(r, FALSE)
  /\ missed' = IF how = "done" THEN Replicas ELSE missed
  /\ astray' = IF how = "done" THEN Strays(writer[r]) ELSE astray
  /\ UNCHANGED <<secret, keyring, node, listener, notes, late, changes>>

CommitLands ==
  /\ \E next \in pending : stored' = next
  /\ pending' = {} /\ late' = TRUE /\ missed' = Replicas
  /\ UNCHANGED <<secret, keyring, node, writer, listener, notes, astray, changes, faults>>

(* revokeUnreferencedSettingSecrets reads settings and accounts, and then    *)
(* revokes; when it cannot read it keeps the secret.                         *)
\* Mutant: after an error the new secret is revoked without a look.
ReferencedUnlessFailed(r, s) == writer[r].done /\ s \in {stored.key, AccountRef}

Referenced(r, s) == s \in {stored.key, AccountRef}

RevokeUnreferenced(r) ==
  /\ writer[r].pc = "tidy"
  /\ writer' = [writer EXCEPT ![r] = IF Referenced(r, Doubtful(r)) THEN AfterTidy(@) ELSE [@ EXCEPT !.pc = "revoke"]]
  /\ UNCHANGED <<stored, secret, keyring, node, reload, commits, changes, faults>>

TidyUnread(r) ==
  /\ writer[r].pc = "tidy" /\ Fault
  /\ writer' = [writer EXCEPT ![r] = AfterTidy(@)]
  /\ UNCHANGED <<stored, secret, keyring, node, reload, commits, changes>>

RevokeSecret(r) ==
  /\ writer[r].pc = "revoke"
  /\ secret' = [secret EXCEPT ![Doubtful(r)] = [state |-> "revoked", key |-> None]]
  /\ writer' = [writer EXCEPT ![r] = AfterTidy(@)]
  /\ UNCHANGED <<stored, keyring, node, reload, commits, changes, faults>>

ReadBack(r) ==
  /\ writer[r].pc = "read"
  /\ writer' = [writer EXCEPT ![r] = [NoSave EXCEPT !.pc = "apply", !.snap = stored, !.done = TRUE]]
  /\ UNCHANGED <<stored, secret, keyring, node, reload, commits, changes, faults>>

(* When it cannot be read back, the ai. values of the save itself are        *)
(* applied, and nothing else.                                                *)
ReadBackFailed(r, ai) ==
  LET w == writer[r] IN
  /\ w.pc = "read" /\ Fault
  /\ node' = [node EXCEPT ![r].runs.key = IF ai /\ w.next.key # w.snap.key THEN w.next.key ELSE @]
  /\ writer' = [writer EXCEPT ![r] = Announcing]
  /\ UNCHANGED <<stored, secret, keyring, reload, commits, changes>>

ApplyRuntimeSettings(r) ==
  /\ writer[r].pc = "apply"
  /\ node' = [node EXCEPT ![r].runs = writer[r].snap]
  /\ writer' = [writer EXCEPT ![r] = Announcing]
  /\ UNCHANGED <<stored, secret, keyring, reload, commits, changes, faults>>

(* NOTIFY reaches the replicas that listen at that moment, the sender too.   *)
Listening == {r \in Replicas : node[r].listens}

\* Mutant: the sender is left out.
ReachedOthers(r) == Listening \ {r}

Reached(r) == Listening

NotifySettingsChange(r) ==
  /\ writer[r].pc = "notify"
  /\ notes' = notes \cup Reached(r)
  /\ missed' = missed \cup (Replicas \ Listening)
  /\ writer' = [writer EXCEPT ![r] = NoSave]
  /\ UNCHANGED <<stored, secret, keyring, node, listener, commits, changes, faults>>

(* The request was cancelled: its context carries the NOTIFY too.            *)
NotifyLost(r) ==
  /\ writer[r].pc = "notify" /\ Fault
  /\ missed' = Replicas
  /\ writer' = [writer EXCEPT ![r] = NoSave]
  /\ UNCHANGED <<stored, secret, keyring, node, listener, notes, commits, changes>>

-----------------------------------------------------------------------------
(* The listener takes a notification, reads the settings and applies them.   *)
ReloadRead(r) ==
  /\ r \in notes /\ node[r].listens /\ listener[r] = Nothing
  /\ notes' = notes \ {r}
  /\ listener' = [listener EXCEPT ![r] = stored]
  /\ missed' = missed \ {r}
  /\ UNCHANGED <<stored, secret, keyring, node, writer, commits, changes, faults>>

(* The read fails: nothing is applied, and the notification is used up.      *)
ReloadUnread(r) ==
  /\ r \in notes /\ node[r].listens /\ listener[r] = Nothing /\ Fault
  /\ notes' = notes \ {r}
  /\ missed' = missed \cup {r}
  /\ UNCHANGED <<stored, secret, keyring, node, writer, listener, commits, changes>>

ReloadApply(r) ==
  /\ listener[r] # Nothing
  /\ node' = [node EXCEPT ![r].runs = listener[r]]
  /\ listener' = [listener EXCEPT ![r] = Nothing]
  /\ UNCHANGED <<stored, secret, keyring, writer, notes, missed, commits, changes, faults>>

Disconnect(r) ==
  /\ node[r].listens /\ Fault
  /\ node' = [node EXCEPT ![r].listens = FALSE]
  /\ notes' = notes \ {r}
  /\ missed' = IF r \in notes THEN missed \cup {r} ELSE missed
  /\ UNCHANGED <<stored, secret, keyring, writer, listener, commits, changes>>

(* A crash drops the save where it is; a commit that nobody announces is     *)
(* missed by all.                                                            *)
Crash(r) ==
  /\ node[r].up /\ Fault
  /\ node' = [node EXCEPT ![r] = Down]
  /\ writer' = [writer EXCEPT ![r] = NoSave]
  /\ listener' = [listener EXCEPT ![r] = Nothing]
  /\ notes' = notes \ {r}
  /\ missed' = IF writer[r].done THEN Replicas ELSE missed
  /\ UNCHANGED <<stored, secret, keyring, commits, changes>>

-----------------------------------------------------------------------------
(* A user sets a new password of the account in place.                       *)
RotateSecret(r) ==
  /\ node[r].up /\ changes < MaxChanges
  /\ changes' = changes + 1
  /\ secret' = Put(r, AccountRef)
  /\ UNCHANGED <<stored, keyring, node, writer, reload, commits, faults>>

(* An envelope names the key that wraps it.                                  *)
Opens(r, key) == key \in r.keys

(* postra secret rotate and set, a process of its own that loads the stored  *)
(* keyring: the account's password in place, or a secret to name by hand.    *)
SecretCmd(s) ==
  /\ ring # NoRing /\ changes < MaxChanges /\ s \in {AccountRef} \cup Unused
  /\ changes' = changes + 1
  /\ secret' = [secret EXCEPT ![s] = [state |-> "live", key |-> ring.current]]
  /\ UNCHANGED <<stored, keyring, node, writer, reload, commits, faults>>

(* postra key rotate, a process of its own: a new key in memory, every live  *)
(* row rewrapped and put back whole, then objects and bodies, and the        *)
(* keyring stored at the end. Assumed: one such command at a time, which     *)
(* nothing in main.go enforces.                                              *)
KeyRotate(k) ==
  /\ cli.pc = "idle" /\ ring # NoRing /\ k \notin ring.keys /\ changes < MaxChanges
  /\ changes' = changes + 1
  /\ cli' = [cli EXCEPT !.pc = "rewrap", !.ring = [keys |-> ring.keys \cup {k}, current |-> k],
                        !.rows = {s \in Refs : secret[s].state = "live"}]
  /\ UNCHANGED <<stored, secret, body, ring, node, writer, reload, commits, faults>>

RewrapOne(s) ==
  /\ cli.pc = "rewrap" /\ s \in cli.rows
  /\ secret' = [secret EXCEPT ![s] = [state |-> "live", key |-> cli.ring.current]]
  /\ cli' = [cli EXCEPT !.rows = @ \ {s}]
  /\ UNCHANGED <<stored, body, ring, node, writer, reload, commits, changes, faults>>

RewrapBodies ==
  /\ cli.pc = "rewrap" /\ cli.rows = {}
  /\ body' = cli.ring.current
  /\ cli' = [cli EXCEPT !.pc = "persist"]
  /\ UNCHANGED <<stored, secret, ring, node, writer, reload, commits, changes, faults>>

(* The command stops at the first error, or is stopped.                      *)
RotateAborted ==
  /\ cli.pc # "idle" /\ Fault
  /\ cli' = [NoCli EXCEPT !.torn = TRUE]
  /\ UNCHANGED <<stored, secret, body, ring, node, writer, reload, commits, changes>>

\* Mutant: old keys are retired without being asked for.
StoredRingNew == [cli.ring EXCEPT !.keys = {cli.ring.current}]

StoredRing == IF Retire THEN [cli.ring EXCEPT !.keys = {cli.ring.current}] ELSE cli.ring

RotatePersist ==
  /\ cli.pc = "persist"
  /\ ring' = StoredRing
  /\ cli' = [NoCli EXCEPT !.torn = cli.torn]
  /\ UNCHANGED <<stored, secret, body, node, writer, reload, commits, changes, faults>>

-----------------------------------------------------------------------------
Next ==
  \/ \E r \in Replicas : Boot(r)
  \/ \E r \in Replicas : Listen(r)
  \/ \E r \in Replicas : AdminSettingsCatalog(r)
  \/ \E r \in Savers("form"), edit \in Edits, key \in Choices, drops \in BOOLEAN :
        AdminPatchSettings(r, edit, key, drops)
  \/ \E r \in Savers("idle"), edit \in Edits, key \in Choices, drops \in BOOLEAN :
        AdminSaveSettings(r, edit, key, drops)
  \/ \E r \in Savers("idle"), key \in Choices : AdminSaveAISettings(r, key)
  \/ \E r \in Savers("idle") : AdminAllowTrackingHost(r)
  \/ \E r \in Replicas : RegisterSecret(r)
  \/ \E r \in Replicas : Commit(r)
  \/ \E r \in Replicas, how \in {"done", "not", "later"} : CommitLost(r, how)
  \/ CommitLands
  \/ \E r \in Replicas : RevokeUnreferenced(r)
  \/ \E r \in Replicas : TidyUnread(r)
  \/ \E r \in Replicas : RevokeSecret(r)
  \/ \E r \in Replicas : ReadBack(r)
  \/ \E r \in Replicas, ai \in BOOLEAN : ReadBackFailed(r, ai)
  \/ \E r \in Replicas : ApplyRuntimeSettings(r)
  \/ \E r \in Replicas : NotifySettingsChange(r)
  \/ \E r \in Replicas : NotifyLost(r)
  \/ \E r \in Replicas : ReloadRead(r)
  \/ \E r \in Replicas : ReloadUnread(r)
  \/ \E r \in Replicas : ReloadApply(r)
  \/ \E r \in Replicas : Disconnect(r)
  \/ \E r \in Replicas : Crash(r)
  \/ \E r \in Replicas : RotateSecret(r)
  \/ \E s \in Refs : SecretCmd(s)
  \/ \E k \in Keys : KeyRotate(k)
  \/ \E s \in Refs : RewrapOne(s)
  \/ RewrapBodies
  \/ RotateAborted
  \/ RotatePersist

Spec == Init /\ [][Next]_vars

-----------------------------------------------------------------------------
(* What is stored never names a secret that was revoked, whichever save      *)
(* failed, conflicted or lost its answer, and no save revokes the password   *)
(* of an account. The exceptions are a commit that the database does after   *)
(* its client gave up and tidied up, and a reference that a save named by    *)
(* hand when it was revoked already or looked up and about to be.            *)
SecretsLive ==
  /\ ring # NoRing => secret[AccountRef].state = "live"
  /\ stored.key # None /\ ring # NoRing => secret[stored.key].state = "live" \/ late \/ stored.key \in astray

(* "Do not revoke a now-active key" (settings_cas.go), without the exception *)
(* for references named by hand. The code does not keep it.                  *)
ActiveKeysLive == stored.key # None /\ ring # NoRing => secret[stored.key].state = "live" \/ late

(* However saves and reloads cross, a replica whose notifications have all   *)
(* arrived, and led to a read of the settings, runs with what is stored once *)
(* the announcements are over.                                               *)
RuntimeFollows ==
  (\A r \in Replicas : ~writer[r].done) =>
    \A r \in Replicas :
      node[r].up /\ r \notin notes \cup missed /\ listener[r] = Nothing => node[r].runs = stored

(* The switches stored together make sense together, although two saves may *)
(* each be checked against a snapshot that the other is about to change.     *)
StoredConsistent == stored.proxy => stored.oauth

(* The stored keyring opens every live secret and the bodies.                *)
RingOpensAll == Opens(ring, body) /\ \A s \in Refs : secret[s].state = "live" => Opens(ring, secret[s].key)

(* "after rotating the keyring and rewrapping, secrets, raw objects, and     *)
(* body columns still decrypt" (app_test.go): a process that starts when the *)
(* command is over can decrypt them, also what running replicas wrote under  *)
(* their older keyring meanwhile, unless a rotation was cut off between      *)
(* rewrapping and storing the new key.                                       *)
RotationKeepsSecrets == cli.pc = "idle" /\ ~cli.torn /\ ring # NoRing => RingOpensAll

(* The same of a rotation that was cut off. The code does not keep it.       *)
CutRotationKeepsSecrets == cli.pc = "idle" /\ ring # NoRing => RingOpensAll

-----------------------------------------------------------------------------
(* The inductive invariant behind these, in named parts.                     *)
SettingsType == [oauth : BOOLEAN, proxy : BOOLEAN, host : BOOLEAN, key : Refs \cup {None}]
AnySettings == [oauth : BOOLEAN, proxy : BOOLEAN, host : BOOLEAN, key : Refs \cup {None, "?"}]
KeyIds == Replicas \cup Keys \cup {None}
RingType == [keys : SUBSET KeyIds, current : KeyIds]
NodeType == [up : BOOLEAN, listens : BOOLEAN, ring : RingType, runs : AnySettings]
SaveType ==
  [pc : {"idle", "form", "secret", "commit", "tidy", "revoke", "read", "apply", "notify"},
   seen : AnySettings, snap : AnySettings, next : AnySettings,
   new : Refs \cup {None}, drop : Refs \cup {None}, apply : BOOLEAN, done : BOOLEAN]

TypeOK ==
  /\ stored \in SettingsType
  /\ secret \in [Refs -> [state : {"none", "live", "revoked"}, key : KeyIds]]
  /\ body \in KeyIds /\ ring \in RingType
  /\ node \in [Replicas -> NodeType] /\ writer \in [Replicas -> SaveType]
  /\ listener \in [Replicas -> AnySettings]
  /\ notes \subseteq Replicas /\ missed \subseteq Replicas
  /\ pending \subseteq SettingsType /\ late \in BOOLEAN /\ astray \subseteq Refs
  /\ cli \in [pc : {"idle", "rewrap", "persist"}, ring : RingType, rows : SUBSET Refs, torn : BOOLEAN]
  /\ changes \in 0..MaxChanges /\ faults \in 0..MaxFaults

(* Only a process that is up saves and reloads, and the first one that comes *)
(* up writes the keyring.                                                    *)
ProcessInv ==
  /\ \A r \in Replicas : ~node[r].up => writer[r] = NoSave /\ listener[r] = Nothing /\ ~node[r].listens
  /\ \A r \in Replicas : node[r].up => ring # NoRing
  /\ ring = NoRing => /\ pending = {}
                      /\ \A s \in Refs : secret[s].state # "live"
  /\ cli.pc # "idle" => ring # NoRing /\ cli.ring.keys # {}

(* What a save is about at each of its stages.                               *)
SaveInv ==
  \A r \in Replicas : LET w == writer[r] IN
    /\ w.pc \in {"idle", "form", "secret", "commit"} => ~w.done
    /\ w.pc \in {"read", "apply", "notify"} => w.done
    /\ w.pc \in {"secret", "commit"} => w.snap \in SettingsType /\ w.next \in SettingsType
    /\ w.pc \in {"form", "secret"} => w.new = None
    /\ w.pc = "commit" /\ w.new # None => w.next.key = w.new
    /\ w.pc \in {"tidy", "revoke"} => Doubtful(r) # None

(* Once nothing is left to announce, a replica that is not waiting for a     *)
(* notification runs with what is stored, or is about to.                    *)
AnnounceInv ==
  (\A r \in Replicas : ~writer[r].done) =>
    \A r \in Replicas :
      node[r].up /\ r \notin notes \cup missed =>
        listener[r] = stored \/ (listener[r] = Nothing /\ node[r].runs = stored)

ConsistentInv == StoredConsistent /\ \A s \in pending : s.proxy => s.oauth

(* A reference that somebody has seen is not one to be drawn.                *)
Drawn(s) == ring # NoRing /\ s \in Refs => secret[s].state # "none"

(* A secret that is registered for a save which has yet to commit is live,   *)
(* and nobody else knows of it; a secret about to be revoked is not stored.  *)
SecretInv ==
  /\ Drawn(stored.key) /\ \A s \in pending : Drawn(s.key)
  /\ \A r \in Replicas : LET w == writer[r] IN
       Drawn(w.snap.key) /\ Drawn(w.drop) /\ Drawn(w.new) /\ Drawn(w.next.key)
  /\ \A r \in Replicas : LET s == writer[r].new IN
       writer[r].pc = "commit" /\ s # None =>
         /\ s # AccountRef /\ secret[s].state = "live"
         /\ stored.key # s /\ \A t \in pending : t.key # s
         /\ \A q \in Replicas : writer[q].snap.key # s /\ writer[q].drop # s
         /\ \A q \in Replicas \ {r} : writer[q].new # s /\ writer[q].next.key # s
  /\ \A r \in Replicas : writer[r].pc = "revoke" =>
       Doubtful(r) # AccountRef /\ (Doubtful(r) # stored.key \/ late \/ stored.key \in astray)
  /\ SecretsLive

SettingsInv == TypeOK /\ ProcessInv /\ SaveInv /\ AnnounceInv /\ ConsistentInv /\ SecretInv

(* Without --retire-old, every key that wraps something stays on the stored  *)
(* keyring, or on the one a rotation is about to store.                      *)
WrapRing == IF cli.pc = "idle" THEN ring ELSE cli.ring

RingInv ==
  /\ ring # NoRing => ring.current \in ring.keys
  /\ \A r \in Replicas : node[r].up => node[r].ring.current \in ring.keys
  /\ cli.pc # "idle" => ring # NoRing /\ ring.keys \subseteq cli.ring.keys /\ cli.ring.current \in cli.ring.keys
  /\ ring # NoRing /\ ~cli.torn =>
       /\ Opens(WrapRing, body)
       /\ \A s \in Refs : secret[s].state = "live" => Opens(WrapRing, secret[s].key)
=============================================================================
