--------------------------- MODULE SettingsProofs ---------------------------
(* Proofs about Settings, for any replicas, references, keys and faults: the  *)
(* secrets that settings name stay live, the replicas follow what is stored,  *)
(* what is stored is consistent, and a rotated keyring opens every secret.    *)
EXTENDS Settings, TLAPS

-----------------------------------------------------------------------------
(* What the invariant says of one save.                                       *)
Doubt(w) == IF w.done THEN w.drop ELSE w.new

SaveOK(w) ==
  /\ w \in SaveType
  /\ w.pc \in {"idle", "form", "secret", "commit"} => ~w.done
  /\ w.pc \in {"read", "apply", "notify"} => w.done
  /\ w.pc \in {"secret", "commit"} => w.snap \in SettingsType /\ w.next \in SettingsType
  /\ w.pc \in {"form", "secret"} => w.new = None
  /\ w.pc = "commit" /\ w.new # None => w.next.key = w.new
  /\ w.pc \in {"tidy", "revoke"} => Doubt(w) # None

SavesOK == writer \in [Replicas -> SaveType] /\ \A r \in Replicas : SaveOK(writer[r])

LEMMA Saves == SavesOK <=> writer \in [Replicas -> SaveType] /\ SaveInv
  <1> SUFFICES ASSUME writer \in [Replicas -> SaveType]
               PROVE  SavesOK <=> SaveInv
    BY DEF SavesOK
  <1>1. \A r \in Replicas : writer[r] \in SaveType /\ Doubtful(r) = Doubt(writer[r])
    BY DEF Doubtful, Doubt
  <1> QED
    BY <1>1, Zenon DEF SavesOK, SaveInv, SaveOK

LEMMA SavesNext == SavesOK' => SaveInv'
  BY Saves, PTL

(* Records.                                                                   *)
SavePcs == {"idle", "form", "secret", "commit", "tidy", "revoke", "read", "apply", "notify"}

LEMMA SaveFields ==
  ASSUME NEW w \in SaveType
  PROVE  /\ w.pc \in SavePcs /\ w.seen \in AnySettings /\ w.snap \in AnySettings /\ w.next \in AnySettings
         /\ w.new \in Refs \cup {None} /\ w.drop \in Refs \cup {None} /\ w.apply \in BOOLEAN /\ w.done \in BOOLEAN
  BY Zenon DEF SaveType, SavePcs

LEMMA SettingsFields ==
  ASSUME NEW s \in SettingsType
  PROVE  /\ s.oauth \in BOOLEAN /\ s.proxy \in BOOLEAN /\ s.host \in BOOLEAN /\ s.key \in Refs \cup {None}
         /\ s \in AnySettings /\ s # Nothing
  <1>1. s.oauth \in BOOLEAN /\ s.proxy \in BOOLEAN /\ s.host \in BOOLEAN /\ s.key \in Refs \cup {None}
    BY Zenon DEF SettingsType
  <1>2. s \in AnySettings
    BY DEF SettingsType, AnySettings
  <1>3. s.key # "?"
    BY <1>1, SettingsAssumption DEF None
  <1>4. s # Nothing
    BY <1>3 DEF Nothing
  <1> QED
    BY <1>1, <1>2, <1>4

LEMMA SettingsEdits ==
  ASSUME NEW s \in SettingsType
  PROVE  /\ \A b \in BOOLEAN : [s EXCEPT !.oauth = b] \in SettingsType /\ [s EXCEPT !.oauth = b].key = s.key
         /\ \A b \in BOOLEAN : [s EXCEPT !.proxy = b] \in SettingsType /\ [s EXCEPT !.proxy = b].key = s.key
         /\ [s EXCEPT !.host = TRUE] \in SettingsType /\ [s EXCEPT !.host = TRUE].key = s.key
         /\ \A k \in Refs \cup {None} : [s EXCEPT !.key = k] \in SettingsType /\ [s EXCEPT !.key = k].key = k
  <1>1. \A b \in BOOLEAN : [s EXCEPT !.oauth = b] \in SettingsType
    BY Zenon DEF SettingsType
  <1>2. \A b \in BOOLEAN : [s EXCEPT !.proxy = b] \in SettingsType
    BY Zenon DEF SettingsType
  <1>3. [s EXCEPT !.host = TRUE] \in SettingsType
    BY Zenon DEF SettingsType
  <1>4. \A k \in Refs \cup {None} : [s EXCEPT !.key = k] \in SettingsType
    BY Zenon DEF SettingsType
  <1>5. \A b \in BOOLEAN : [s EXCEPT !.oauth = b].key = s.key /\ [s EXCEPT !.proxy = b].key = s.key
    BY DEF SettingsType
  <1>6. [s EXCEPT !.host = TRUE].key = s.key
    BY DEF SettingsType
  <1>7. \A k \in Refs \cup {None} : [s EXCEPT !.key = k].key = k
    BY DEF SettingsType
  <1> QED
    BY <1>1, <1>2, <1>3, <1>4, <1>5, <1>6, <1>7

LEMMA NothingType == Nothing \in AnySettings
  BY DEF Nothing, AnySettings

LEMMA NoSaveOK ==
  /\ NoSave \in SaveType /\ SaveOK(NoSave)
  /\ NoSave.pc = "idle" /\ ~NoSave.done /\ NoSave.new = None /\ NoSave.drop = None
  /\ NoSave.snap.key = "?" /\ NoSave.next.key = "?"
  <1>1. NoSave \in SaveType
    BY NothingType DEF NoSave, SaveType
  <1>2. /\ NoSave.pc = "idle" /\ ~NoSave.done /\ NoSave.new = None /\ NoSave.drop = None
        /\ NoSave.snap.key = "?" /\ NoSave.next.key = "?"
    BY DEF NoSave, Nothing
  <1>3. SaveOK(NoSave)
    BY <1>1, <1>2 DEF SaveOK
  <1> QED
    BY <1>1, <1>2, <1>3

-----------------------------------------------------------------------------
(* Steps that only move one save on: it learns no reference but those that    *)
(* are known, and revokes neither the stored one nor that of the account.     *)
Quiet(w, v) ==
  /\ v.snap.key \in {w.snap.key, stored.key, "?"}
  /\ v.drop \in {w.drop, stored.key, None}
  /\ v.new \in {w.new, None}
  /\ v.next.key \in {w.next.key, stored.key, None, "?"} \cup Known
  /\ v.pc = "commit" => v.new = None
  /\ v.pc = "revoke" => Doubt(v) \notin {AccountRef, stored.key}

LEMMA QuietSecrets ==
  ASSUME SettingsInv, NEW r \in Replicas, NEW v \in SaveType, writer' = [writer EXCEPT ![r] = v],
         Quiet(writer[r], v), UNCHANGED <<stored, secret, ring, pending, late, astray>>
  PROVE  SecretInv'
  <1> USE SettingsAssumption DEF SettingsInv, Drawn
  <1>1. \A q \in Replicas : writer'[q] = IF q = r THEN v ELSE writer[q]
    BY DEF TypeOK
  <1>2. \A q \in Replicas : writer[q] \in SaveType
    BY DEF TypeOK
  <1>3. Drawn(stored.key)' /\ \A s \in pending' : (ring' # NoRing /\ s.key \in Refs => secret'[s.key].state # "none")
    BY DEF SecretInv
  <1>4. \A q \in Replicas : Drawn(writer[q].snap.key)' /\ Drawn(writer[q].drop)' /\ Drawn(writer[q].new)' /\ Drawn(writer[q].next.key)'
    BY <1>1 DEF SecretInv, Quiet, Known, None
  <1>5. ASSUME NEW q \in Replicas, writer'[q].pc = "commit", writer'[q].new # None
        PROVE  LET s == writer'[q].new IN
               /\ s # AccountRef /\ secret'[s].state = "live"
               /\ stored'.key # s /\ \A t \in pending' : t.key # s
               /\ \A p \in Replicas : writer'[p].snap.key # s /\ writer'[p].drop # s
               /\ \A p \in Replicas \ {q} : writer'[p].new # s /\ writer'[p].next.key # s
    <2>1. q # r /\ writer'[q] = writer[q]
      BY <1>1, <1>5 DEF Quiet
    <2> DEFINE s == writer[q].new
    <2>2. /\ s # AccountRef /\ secret[s].state = "live"
          /\ stored.key # s /\ \A t \in pending : t.key # s
          /\ \A p \in Replicas : writer[p].snap.key # s /\ writer[p].drop # s
          /\ \A p \in Replicas \ {q} : writer[p].new # s /\ writer[p].next.key # s
      BY <1>5, <2>1 DEF SecretInv
    <2>3. s \in Refs /\ s # None /\ s # "?"
      BY <1>2, <1>5, <2>1, SaveFields
    <2>6. s \notin Known
      BY <1>5, <2>1, Saves DEF Known, SavesOK, SaveOK, TypeOK
    <2> HIDE DEF s
    <2>4. \A p \in Replicas : writer'[p].snap.key # s /\ writer'[p].drop # s
      BY <1>1, <2>2, <2>3 DEF Quiet
    <2>5. \A p \in Replicas \ {q} : writer'[p].new # s /\ writer'[p].next.key # s
      BY <1>1, <2>1, <2>2, <2>3, <2>6 DEF Quiet
    <2> QED
      BY <2>1, <2>2, <2>4, <2>5 DEF s
  <1>6. ASSUME NEW q \in Replicas, writer'[q].pc = "revoke"
        PROVE  Doubt(writer'[q]) # AccountRef /\ (Doubt(writer'[q]) # stored'.key \/ late' \/ stored'.key \in astray')
    BY <1>1, <1>6 DEF SecretInv, Quiet, Doubtful, Doubt
  <1>7. SecretsLive'
    BY DEF SecretInv, SecretsLive
  <1> QED
    BY <1>3, <1>4, <1>5, <1>6, <1>7 DEF SecretInv, Doubtful, Doubt

(* Steps that store nothing keep the replicas in step when they neither end   *)
(* an announcement nor take a notification away.                              *)
LEMMA QuietAnnounce ==
  ASSUME AnnounceInv, UNCHANGED <<stored, listener>>,
         \A q \in Replicas : node'[q].up => node[q].up /\ node'[q].runs = node[q].runs,
         \A q \in Replicas : node'[q].up /\ q \in notes \cup missed => q \in notes' \cup missed',
         \A q \in Replicas : writer[q].done => writer'[q].done
  PROVE  AnnounceInv'
  BY DEF AnnounceInv

(* After these a replica that follows has yet to be told.                     *)
LEMMA LoudAnnounce ==
  ASSUME Replicas \subseteq notes' \cup missed' \/ \E q \in Replicas : writer'[q].done
  PROVE  AnnounceInv'
  BY DEF AnnounceInv

LEMMA SaveStep ==
  ASSUME SettingsInv, NEW r \in Replicas, NEW v, SaveOK(v), writer' = [writer EXCEPT ![r] = v]
  PROVE  writer' \in [Replicas -> SaveType] /\ SaveInv'
  <1>1. v \in SaveType /\ writer \in [Replicas -> SaveType]
    BY DEF SaveOK, SettingsInv, TypeOK
  <1>2. writer' \in [Replicas -> SaveType] /\ \A q \in Replicas : writer'[q] = IF q = r THEN v ELSE writer[q]
    BY <1>1
  <1>3. SavesOK
    BY Saves DEF SettingsInv, TypeOK
  <1>4. SavesOK'
    BY <1>2, <1>3 DEF SavesOK
  <1> QED
    BY <1>2, <1>4, SavesNext

Counted == changes' \in 0..MaxChanges /\ faults' \in 0..MaxFaults

LEMMA SaveOnly ==
  ASSUME SettingsInv, NEW r \in Replicas, NEW v, SaveOK(v), writer' = [writer EXCEPT ![r] = v],
         Quiet(writer[r], v), writer[r].done => v.done, node[r].up,
         UNCHANGED <<stored, secret, keyring, node, reload, commits>>, Counted
  PROVE  SettingsInv'
  <1> USE DEF SettingsInv, keyring, reload, commits
  <1>1. writer' \in [Replicas -> SaveType] /\ SaveInv'
    BY SaveStep
  <1>2. \A q \in Replicas : writer'[q] = IF q = r THEN v ELSE writer[q]
    BY DEF TypeOK
  <1>3. TypeOK'
    BY <1>1, Zenon DEF TypeOK, Counted
  <1>4. ProcessInv'
    BY <1>2 DEF ProcessInv
  <1>5. AnnounceInv'
    BY <1>2, QuietAnnounce
  <1>6. ConsistentInv'
    BY DEF ConsistentInv, StoredConsistent
  <1>7. SecretInv'
    BY QuietSecrets DEF SaveOK
  <1> QED
    BY <1>1, <1>3, <1>4, <1>5, <1>6, <1>7

(* Steps that only make secrets live.                                         *)
LEMMA LiveSecrets ==
  ASSUME SettingsInv, UNCHANGED <<stored, writer, pending, late, astray>>,
         \A s \in Refs : secret'[s].state \in {secret[s].state, "live"},
         ring' # NoRing /\ ring = NoRing =>
           \A s \in {AccountRef, stored.key} : s # None => secret'[s].state = "live"
  PROVE  SecretInv'
  <1> USE SettingsAssumption DEF SettingsInv, Drawn
  <1>1. \A q \in Replicas : writer[q].new \in Refs \cup {None}
    BY SaveFields DEF TypeOK
  <1>0. ring = NoRing => pending = {} /\ \A q \in Replicas : writer[q] = NoSave
    BY DEF ProcessInv
  <1>2. Drawn(stored.key)' /\ \A s \in pending' : (ring' # NoRing /\ s.key \in Refs => secret'[s.key].state # "none")
    BY <1>0 DEF SecretInv
  <1>3. \A q \in Replicas : /\ Drawn(writer[q].snap.key)' /\ Drawn(writer[q].drop)' /\ Drawn(writer[q].new)'
                            /\ Drawn(writer[q].next.key)'
    BY <1>0, NoSaveOK DEF SecretInv, None
  <1>4. \A q \in Replicas : writer[q].new # None /\ secret[writer[q].new].state = "live" =>
            secret'[writer[q].new].state = "live"
    BY <1>1
  <1>5. stored.key \in Refs \cup {None}
    BY SettingsFields DEF TypeOK
  <1>6. SecretsLive'
    BY <1>5 DEF SecretInv, SecretsLive, ProcessInv
  <1> QED
    BY <1>2, <1>3, <1>4, <1>6 DEF SecretInv, Doubtful

-----------------------------------------------------------------------------
(* A save as it begins.                                                       *)
Opened(v) ==
  /\ v \in SaveType /\ v.pc \in {"secret", "commit"} /\ v.snap = stored /\ v.new = None /\ ~v.done
  /\ v.drop \in {None, stored.key} /\ v.next \in SettingsType /\ v.next.key \in {stored.key, None} \cup Known

Opening(x, d, n) == [NoSave EXCEPT !.pc = x, !.snap = stored, !.drop = d, !.next = n, !.apply = TRUE]
HostOpening(n) == [NoSave EXCEPT !.pc = "commit", !.snap = stored, !.next = n]

LEMMA Openings ==
  ASSUME stored \in SettingsType, NEW x \in {"secret", "commit"}, NEW d \in {None, stored.key},
         NEW n \in SettingsType, n.key \in {stored.key, None} \cup Known
  PROVE  Opened(Opening(x, d, n)) /\ Opened(HostOpening(n))
  <1>1. d \in Refs \cup {None} /\ stored \in AnySettings /\ n \in AnySettings /\ x \in SavePcs
    BY SettingsFields DEF SavePcs
  <1>2. NoSave \in SaveType /\ NoSave.new = None /\ NoSave.drop = None /\ ~NoSave.done
    BY NoSaveOK
  <1>3. Opening(x, d, n) \in SaveType
    BY <1>1, <1>2, Zenon DEF SaveType, SavePcs, Opening
  <1>4. HostOpening(n) \in SaveType
    BY <1>1, <1>2, Zenon DEF SaveType, SavePcs, HostOpening
  <1>5. Opened(Opening(x, d, n))
    BY <1>2, <1>3 DEF Opened, SaveType, Opening
  <1>6. Opened(HostOpening(n))
    BY <1>2, <1>4 DEF Opened, SaveType, HostOpening
  <1> QED
    BY <1>5, <1>6

LEMMA OpenedOK ==
  ASSUME stored \in SettingsType, NEW w, NEW v, v = NoSave \/ Opened(v)
  PROVE  SaveOK(v) /\ Quiet(w, v) /\ ~v.done
  <1>1. CASE v = NoSave
    BY <1>1, NoSaveOK DEF Quiet
  <1>2. CASE Opened(v)
    <2>1. v.pc \in {"secret", "commit"} /\ v.pc \notin {"idle", "form", "tidy", "revoke", "read", "apply", "notify"}
      BY <1>2 DEF Opened
    <2> QED
      BY <1>2, <2>1 DEF Opened, SaveOK, Quiet
  <1> QED
    BY <1>1, <1>2

LEMMA Begins ==
  ASSUME SettingsInv, NEW pc \in {"idle", "form"}, NEW r \in Savers(pc), NEW v, Begin(r, v), v = NoSave \/ Opened(v)
  PROVE  SettingsInv'
  <1>1. SaveOK(v) /\ Quiet(writer[r], v) /\ ~v.done
    BY OpenedOK DEF SettingsInv, TypeOK
  <1>2. r \in Replicas /\ node[r].up /\ changes < MaxChanges /\ writer[r].pc \in {"idle", "form"}
    BY DEF Savers
  <1>3. Counted
    BY <1>2, SettingsAssumption DEF Begin, Counted, SettingsInv, TypeOK
  <1>4. ~writer[r].done
    BY <1>2, Saves DEF SettingsInv, TypeOK, SavesOK, SaveOK
  <1> QED
    BY <1>1, <1>2, <1>3, <1>4, SaveOnly DEF Begin

LEMMA Editing ==
  ASSUME stored \in SettingsType, NEW edit \in Edits
  PROVE  Edited(edit) \in SettingsType /\ Edited(edit).key = stored.key
  <1>1. stored.oauth \in BOOLEAN /\ stored.proxy \in BOOLEAN
    BY SettingsFields
  <1>2. (~stored.oauth) \in BOOLEAN /\ (~stored.proxy) \in BOOLEAN
    OBVIOUS
  <1>3. /\ [stored EXCEPT !.oauth = ~stored.oauth] \in SettingsType
        /\ [stored EXCEPT !.oauth = ~stored.oauth].key = stored.key
        /\ [stored EXCEPT !.proxy = ~stored.proxy] \in SettingsType
        /\ [stored EXCEPT !.proxy = ~stored.proxy].key = stored.key
    BY <1>2, SettingsEdits, Zenon
  <1> QED
    BY <1>3, Zenon DEF Edited, Edits

LEMMA Naming ==
  ASSUME stored \in SettingsType, NEW n \in SettingsType, n.key = stored.key, NEW key \in Choices
  PROVE  /\ Keyed(n, key) \in SettingsType /\ Keyed(n, key).key \in {stored.key, None} \cup Known
         /\ Stage(key) \in {"secret", "commit"}
  <1>1. key \in {"keep", "new"} \/ (key \in Refs \cup {None} /\ key \in {None} \cup Known)
    BY DEF Choices, Known
  <1>2. \A k \in Refs \cup {None} : [n EXCEPT !.key = k] \in SettingsType /\ [n EXCEPT !.key = k].key = k
    BY SettingsEdits
  <1> QED
    BY <1>1, <1>2 DEF Keyed, Stage

LEMMA BeginInv ==
  ASSUME SettingsInv,
         \/ \E r \in Savers("form"), edit \in Edits, key \in Choices, drops \in BOOLEAN :
               AdminPatchSettings(r, edit, key, drops)
         \/ \E r \in Savers("idle"), edit \in Edits, key \in Choices, drops \in BOOLEAN :
               AdminSaveSettings(r, edit, key, drops)
         \/ \E r \in Savers("idle"), key \in Choices : AdminSaveAISettings(r, key)
         \/ \E r \in Savers("idle") : AdminAllowTrackingHost(r)
  PROVE  SettingsInv'
  <1>1. stored \in SettingsType
    BY DEF SettingsInv, TypeOK
  <1>2. ASSUME NEW pc \in {"idle", "form"}, NEW r \in Savers(pc), NEW edit \in Edits, NEW key \in Choices, NEW d,
               d \in {None, stored.key}, NEW ok \in BOOLEAN,
               Begin(r, IF ok THEN NoSave ELSE Opening(Stage(key), d, Keyed(Edited(edit), key)))
        PROVE  SettingsInv'
    <2> DEFINE n == Keyed(Edited(edit), key)
               x == Stage(key)
               v == Opening(x, d, n)
               V == IF ok THEN NoSave ELSE v
    <2>1. n \in SettingsType /\ n.key \in {stored.key, None} \cup Known /\ x \in {"secret", "commit"}
      BY <1>1, Editing, Naming
    <2>2. Begin(r, V)
      BY <1>2
    <2> HIDE DEF n, x
    <2>3. Opened(v)
      BY <1>1, <1>2, <2>1, Openings
    <2> HIDE DEF v
    <2>4. V = NoSave \/ V = v
      OBVIOUS
    <2> HIDE DEF V
    <2> QED
      BY <2>2, <2>3, <2>4, Begins
  <1>3. ASSUME NEW r \in Savers("form"), NEW edit \in Edits, NEW key \in Choices, NEW drops \in BOOLEAN,
               AdminPatchSettings(r, edit, key, drops)
        PROVE  SettingsInv'
    <2> DEFINE d == IF drops THEN stored.key ELSE None
               n == Keyed(Edited(edit), key)
               ok == ~ShownIsStored(r) \/ ~WellFormed(edit) \/ (key # "new" /\ ~Consistent(stored, n))
    <2>1. d \in {None, stored.key} /\ ok \in BOOLEAN
      OBVIOUS
    <2>2. Begin(r, IF ok THEN NoSave ELSE Opening(Stage(key), d, Keyed(Edited(edit), key)))
      BY <1>3, Zenon DEF AdminPatchSettings, Opening
    <2> HIDE DEF d, ok
    <2> QED
      BY <1>2, <2>1, <2>2
  <1>4. ASSUME NEW r \in Savers("idle"), NEW edit \in Edits, NEW key \in Choices, NEW drops \in BOOLEAN,
               AdminSaveSettings(r, edit, key, drops)
        PROVE  SettingsInv'
    <2> DEFINE d == IF drops THEN stored.key ELSE None
               n == Keyed(Edited(edit), key)
               ok == ~WellFormed(edit) \/ ~Consistent(stored, n)
    <2>1. d \in {None, stored.key} /\ ok \in BOOLEAN
      OBVIOUS
    <2>2. Begin(r, IF ok THEN NoSave ELSE Opening(Stage(key), d, Keyed(Edited(edit), key)))
      BY <1>4, Zenon DEF AdminSaveSettings, Opening
    <2> HIDE DEF d, ok
    <2> QED
      BY <1>2, <2>1, <2>2
  <1>5. ASSUME NEW r \in Savers("idle"), NEW key \in Choices, AdminSaveAISettings(r, key)
        PROVE  SettingsInv'
    <2> DEFINE d == IF key \in {"new", None} THEN stored.key ELSE None
    <2>1. d \in {None, stored.key} /\ FALSE \in BOOLEAN
      OBVIOUS
    <2>2. "none" \in Edits /\ Edited("none") = stored
      BY DEF Edits, Edited
    <2>3. Begin(r, Opening(Stage(key), d, Keyed(stored, key)))
      BY <1>5, Zenon DEF AdminSaveAISettings, Opening
    <2> HIDE DEF d
    <2>4. Begin(r, IF FALSE THEN NoSave ELSE Opening(Stage(key), d, Keyed(Edited("none"), key)))
      BY <2>2, <2>3
    <2> QED
      BY <1>2, <2>1, <2>2, <2>4
  <1>6. ASSUME NEW r \in Savers("idle"), AdminAllowTrackingHost(r)
        PROVE  SettingsInv'
    <2> DEFINE n == [stored EXCEPT !.host = TRUE]
               v == HostOpening(n)
    <2>1. Begin(r, v)
      BY <1>6, Zenon DEF AdminAllowTrackingHost, HostOpening
    <2>2. n \in SettingsType /\ n.key \in {stored.key, None} \cup Known
      BY <1>1, SettingsEdits
    <2> HIDE DEF n
    <2>3. Opened(v)
      BY <1>1, <2>2, Openings
    <2> HIDE DEF v
    <2> QED
      BY <2>1, <2>3, Begins
  <1> QED
    BY <1>3, <1>4, <1>5, <1>6

LEMMA FormInv ==
  ASSUME SettingsInv, NEW r \in Replicas, AdminSettingsCatalog(r)
  PROVE  SettingsInv'
  <1> DEFINE v == [NoSave EXCEPT !.pc = "form", !.seen = stored]
  <1>1. stored \in SettingsType /\ stored \in AnySettings /\ SaveOK(writer[r])
    BY Saves, SettingsFields DEF SettingsInv, TypeOK, SavesOK
  <1>2. v \in SaveType
    BY <1>1, NoSaveOK, Zenon DEF SaveType
  <1>3. v.pc = "form" /\ ~v.done /\ v.new = None /\ v.drop = None /\ v.snap.key = "?" /\ v.next.key = "?"
    BY NoSaveOK DEF SaveType
  <1>4. writer' = [writer EXCEPT ![r] = v] /\ writer[r].pc = "idle"
    BY DEF AdminSettingsCatalog
  <1> HIDE DEF v
  <1>5. SaveOK(v) /\ Quiet(writer[r], v) /\ ~writer[r].done
    BY <1>1, <1>2, <1>3, <1>4 DEF SaveOK, Quiet
  <1>6. Counted
    BY DEF AdminSettingsCatalog, Counted, SettingsInv, TypeOK
  <1> QED
    BY <1>4, <1>5, <1>6, SaveOnly DEF AdminSettingsCatalog

-----------------------------------------------------------------------------
(* The end of a save: what is left to do after its commit.                    *)
LEMMA MovedOn ==
  ASSUME NEW w \in SaveType, NEW x \in SavePcs
  PROVE  LET v == [w EXCEPT !.pc = x] IN
         /\ v \in SaveType /\ v.pc = x /\ v.seen = w.seen /\ v.snap = w.snap /\ v.next = w.next /\ v.new = w.new
         /\ v.drop = w.drop /\ v.apply = w.apply /\ v.done = w.done /\ Doubt(v) = Doubt(w)
  <1>1. [w EXCEPT !.pc = x] \in SaveType
    BY Zenon DEF SaveType, SavePcs
  <1> QED
    BY <1>1 DEF SaveType, Doubt

(* A save that is only left to be announced, or read back.                    *)
LEMMA AnnouncingOK ==
  /\ Announcing \in SaveType /\ SaveOK(Announcing) /\ Announcing.pc = "notify" /\ Announcing.done
  /\ \A w : Quiet(w, Announcing)
  /\ Announcing.new = None /\ Announcing.drop = None /\ Announcing.snap.key = "?" /\ Announcing.next.key = "?"
  <1>1. Announcing \in SaveType
    BY NoSaveOK, Zenon DEF Announcing, SaveType
  <1>2. /\ Announcing.pc = "notify" /\ Announcing.done /\ Announcing.new = None /\ Announcing.drop = None
        /\ Announcing.snap.key = "?" /\ Announcing.next.key = "?"
    BY NoSaveOK DEF Announcing, SaveType
  <1> QED
    BY <1>1, <1>2 DEF SaveOK, Quiet

LEMMA Tidied ==
  ASSUME NEW w \in SaveType
  PROVE  LET v == AfterTidy(w) IN
         /\ SaveOK(v) /\ v.done = w.done /\ v.pc \in {"idle", "read", "notify"}
         /\ v.new = None /\ v.drop = None /\ v.snap.key \in {w.snap.key, "?"} /\ v.next.key \in {w.next.key, "?"}
         /\ Quiet(w, v)
  <1> DEFINE v == AfterTidy(w)
  <1> SUFFICES /\ SaveOK(v) /\ v.done = w.done /\ v.pc \in {"idle", "read", "notify"}
               /\ v.new = None /\ v.drop = None /\ v.snap.key \in {w.snap.key, "?"} /\ v.next.key \in {w.next.key, "?"}
               /\ Quiet(w, v)
    OBVIOUS
  <1>0. w.done \in BOOLEAN /\ NoSave.done \in BOOLEAN /\ Announcing.done \in BOOLEAN
    BY SaveFields, NoSaveOK, AnnouncingOK
  <1>1. CASE ~w.done
    <2>1. v = NoSave
      BY <1>1 DEF AfterTidy
    <2> HIDE DEF v
    <2> QED
      BY <1>0, <1>1, <2>1, NoSaveOK DEF Quiet
  <1>2. CASE w.done /\ ~w.apply
    <2>1. v = Announcing
      BY <1>2 DEF AfterTidy
    <2> HIDE DEF v
    <2> QED
      BY <1>0, <1>2, <2>1, AnnouncingOK
  <1>3. CASE w.done /\ w.apply
    <2>1. v = [w EXCEPT !.pc = "read", !.new = None, !.drop = None]
      BY <1>3 DEF AfterTidy
    <2>2. v \in SaveType
      BY <2>1, Zenon DEF SaveType
    <2>3. v.pc = "read" /\ v.snap = w.snap /\ v.next = w.next /\ v.new = None /\ v.drop = None /\ v.done = w.done
      BY <2>1 DEF SaveType
    <2> HIDE DEF v
    <2> QED
      BY <1>3, <2>2, <2>3 DEF SaveOK, Quiet
  <1> QED
    BY <1>0, <1>1, <1>2, <1>3

LEMMA TidyInv ==
  ASSUME SettingsInv, NEW r \in Replicas, RevokeUnreferenced(r) \/ TidyUnread(r) \/ ReadBack(r)
  PROVE  SettingsInv'
  <1> DEFINE w == writer[r]
  <1>1. w \in SaveType /\ SaveOK(w) /\ w # NoSave /\ stored \in AnySettings
    BY Saves, SettingsFields, NoSaveOK DEF SettingsInv, TypeOK, SavesOK, RevokeUnreferenced, TidyUnread, ReadBack
  <1>2. node[r].up
    BY <1>1 DEF SettingsInv, ProcessInv
  <1>3. Counted
    <2>1. changes \in 0..MaxChanges /\ faults \in 0..MaxFaults /\ MaxFaults \in Nat
      BY SettingsAssumption DEF SettingsInv, TypeOK
    <2>2. changes' = changes /\ (faults' = faults \/ (faults < MaxFaults /\ faults' = faults + 1))
      BY DEF RevokeUnreferenced, TidyUnread, ReadBack, Fault
    <2> QED
      BY <2>1, <2>2 DEF Counted
  <1>4. Doubtful(r) = Doubt(w)
    BY DEF Doubtful, Doubt
  <1>5. writer \in [Replicas -> SaveType]
    BY DEF SettingsInv, TypeOK
  <1>6. CASE writer' = [writer EXCEPT ![r] = AfterTidy(w)] /\ (RevokeUnreferenced(r) \/ TidyUnread(r))
    <2> DEFINE v == AfterTidy(w)
    <2>1. SaveOK(v) /\ v.done = w.done /\ Quiet(w, v)
      BY <1>1, Tidied
    <2> HIDE DEF v
    <2>2. writer' = [writer EXCEPT ![r] = v]
      BY <1>6 DEF v
    <2> QED
      BY <1>2, <1>3, <1>6, <2>1, <2>2, SaveOnly DEF RevokeUnreferenced, TidyUnread
  <1>7. CASE /\ RevokeUnreferenced(r) /\ ~Referenced(r, Doubtful(r))
             /\ writer' = [writer EXCEPT ![r] = [w EXCEPT !.pc = "revoke"]]
    <2> DEFINE v == [w EXCEPT !.pc = "revoke"]
    <2>1. "revoke" \in SavePcs
      BY DEF SavePcs
    <2>2. /\ v \in SaveType /\ v.pc = "revoke" /\ v.snap = w.snap /\ v.next = w.next /\ v.new = w.new
          /\ v.drop = w.drop /\ v.done = w.done /\ Doubt(v) = Doubt(w)
      BY <1>1, <2>1, MovedOn
    <2>3. writer' = [writer EXCEPT ![r] = v] /\ w.pc = "tidy"
      BY <1>7 DEF RevokeUnreferenced
    <2> HIDE DEF v
    <2>4. SaveOK(v) /\ Quiet(w, v)
      BY <1>1, <1>4, <1>7, <2>2, <2>3 DEF SaveOK, Quiet, Referenced
    <2> QED
      BY <1>2, <1>3, <1>7, <2>2, <2>3, <2>4, SaveOnly DEF RevokeUnreferenced
  <1>8. CASE ReadBack(r)
    <2> DEFINE v == [NoSave EXCEPT !.pc = "apply", !.snap = stored, !.done = TRUE]
    <2>1. v \in SaveType
      BY <1>1, NoSaveOK, Zenon DEF SaveType
    <2>2. v.pc = "apply" /\ v.snap = stored /\ v.new = None /\ v.drop = None /\ v.done /\ v.next.key = "?"
      BY NoSaveOK DEF SaveType
    <2>3. writer' = [writer EXCEPT ![r] = v] /\ w.pc = "read"
      BY <1>5, <1>8 DEF ReadBack
    <2> HIDE DEF v
    <2>4. SaveOK(v) /\ Quiet(w, v)
      BY <1>1, <2>1, <2>2, <2>3 DEF SaveOK, Quiet
    <2> QED
      BY <1>2, <1>3, <1>8, <2>2, <2>3, <2>4, SaveOnly DEF ReadBack
  <1>9. TidyUnread(r) => writer' = [writer EXCEPT ![r] = AfterTidy(w)]
    BY DEF TidyUnread
  <1>10. RevokeUnreferenced(r) =>
           writer' = [writer EXCEPT ![r] = IF Referenced(r, Doubtful(r)) THEN AfterTidy(w) ELSE [w EXCEPT !.pc = "revoke"]]
    BY DEF RevokeUnreferenced
  <1> HIDE DEF w
  <1> QED
    BY <1>6, <1>7, <1>8, <1>9, <1>10

LEMMA Counts ==
  ASSUME SettingsInv, changes' = changes \/ (changes < MaxChanges /\ changes' = changes + 1),
         faults' = faults \/ Fault
  PROVE  Counted
  <1>1. /\ changes \in 0..MaxChanges /\ faults \in 0..MaxFaults
        /\ MaxChanges \in Nat /\ MaxFaults \in Nat
    BY SettingsAssumption DEF SettingsInv, TypeOK
  <1> QED
    BY <1>1 DEF Counted, Fault

LEMMA NodeFields ==
  ASSUME NEW n \in NodeType
  PROVE  n.up \in BOOLEAN /\ n.listens \in BOOLEAN /\ n.ring \in RingType /\ n.runs \in AnySettings
  BY Zenon DEF NodeType

(* One replica runs with other settings, or begins or stops listening.        *)
LEMMA RunsStep ==
  ASSUME node \in [Replicas -> NodeType], NEW r \in Replicas, NEW x \in AnySettings,
         node' = [node EXCEPT ![r].runs = x]
  PROVE  /\ node' \in [Replicas -> NodeType]
         /\ \A q \in Replicas : /\ node'[q].up = node[q].up /\ node'[q].ring = node[q].ring
                                /\ node'[q].listens = node[q].listens
                                /\ node'[q].runs = IF q = r THEN x ELSE node[q].runs
  <1> DEFINE n == [node[r] EXCEPT !.runs = x]
  <1>1. n \in NodeType
    BY Zenon DEF NodeType
  <1>2. n.up = node[r].up /\ n.ring = node[r].ring /\ n.listens = node[r].listens /\ n.runs = x
    BY DEF NodeType
  <1>3. node' = [node EXCEPT ![r] = n]
    BY Zenon
  <1> HIDE DEF n
  <1> QED
    BY <1>1, <1>2, <1>3

LEMMA ListensStep ==
  ASSUME node \in [Replicas -> NodeType], NEW r \in Replicas, NEW b \in BOOLEAN,
         node' = [node EXCEPT ![r].listens = b]
  PROVE  /\ node' \in [Replicas -> NodeType]
         /\ \A q \in Replicas : /\ node'[q].up = node[q].up /\ node'[q].ring = node[q].ring
                                /\ node'[q].listens = IF q = r THEN b ELSE node[q].listens
                                /\ node'[q].runs = node[q].runs
  <1> DEFINE n == [node[r] EXCEPT !.listens = b]
  <1>1. n \in NodeType
    BY Zenon DEF NodeType
  <1>2. n.up = node[r].up /\ n.ring = node[r].ring /\ n.listens = b /\ n.runs = node[r].runs
    BY DEF NodeType
  <1>3. node' = [node EXCEPT ![r] = n]
    BY Zenon
  <1> HIDE DEF n
  <1> QED
    BY <1>1, <1>2, <1>3

(* A crashed process, and a save that is over, are forgotten.                 *)
LEMMA ForgetQuiet == \A w : Quiet(w, NoSave)
  BY NoSaveOK DEF Quiet

LEMMA DownType == Down \in NodeType /\ ~Down.up /\ ~Down.listens
  <1>1. NoRing \in RingType
    BY DEF NoRing, RingType, KeyIds
  <1> QED
    BY <1>1, NothingType DEF Down, NodeType

(* Read back or not, the replica runs with some settings, and is up as before. *)
LEMMA AppliedNode ==
  ASSUME SettingsInv, NEW r \in Replicas, ApplyRuntimeSettings(r) \/ \E ai \in BOOLEAN : ReadBackFailed(r, ai)
  PROVE  /\ node' \in [Replicas -> NodeType]
         /\ \A q \in Replicas : node'[q].up = node[q].up /\ node'[q].listens = node[q].listens /\ node'[q].ring = node[q].ring
  <1>1. node \in [Replicas -> NodeType] /\ node[r] \in NodeType /\ writer[r] \in SaveType
    BY DEF SettingsInv, TypeOK
  <1>2. writer[r].snap \in AnySettings /\ writer[r].next \in AnySettings /\ node[r].runs \in AnySettings
    BY <1>1, SaveFields, NodeFields
  <1>3. CASE ApplyRuntimeSettings(r)
    BY <1>1, <1>2, <1>3, RunsStep DEF ApplyRuntimeSettings
  <1>4. ASSUME NEW ai \in BOOLEAN, ReadBackFailed(r, ai)
        PROVE  /\ node' \in [Replicas -> NodeType]
               /\ \A q \in Replicas : node'[q].up = node[q].up /\ node'[q].listens = node[q].listens /\ node'[q].ring = node[q].ring
    <2> DEFINE w == writer[r]
               k == IF ai /\ w.next.key # w.snap.key THEN w.next.key ELSE node[r].runs.key
               x == [node[r].runs EXCEPT !.key = k]
    <2>1. node' = [node EXCEPT ![r].runs = x]
      BY <1>4, Zenon DEF ReadBackFailed
    <2>2. k \in Refs \cup {None, "?"}
      BY <1>2 DEF AnySettings
    <2> HIDE DEF k
    <2>3. x \in AnySettings
      BY <1>2, <2>2, Zenon DEF AnySettings
    <2> HIDE DEF x
    <2> QED
      BY <1>1, <2>1, <2>3, RunsStep
  <1> QED
    BY <1>3, <1>4

LEMMA ApplyInv ==
  ASSUME SettingsInv, NEW r \in Replicas, ApplyRuntimeSettings(r) \/ \E ai \in BOOLEAN : ReadBackFailed(r, ai)
  PROVE  SettingsInv'
  <1> USE DEF SettingsInv, keyring, reload, commits
  <1> DEFINE w == writer[r]
  <1>1. w \in SaveType /\ w # NoSave
    BY NoSaveOK DEF TypeOK, ApplyRuntimeSettings, ReadBackFailed
  <1>2. writer \in [Replicas -> SaveType] /\ node \in [Replicas -> NodeType]
    BY DEF TypeOK
  <1>3. writer' = [writer EXCEPT ![r] = Announcing]
    BY DEF ApplyRuntimeSettings, ReadBackFailed
  <1>4. writer' \in [Replicas -> SaveType] /\ SaveInv'
    BY <1>3, AnnouncingOK, SaveStep
  <1>5. \A q \in Replicas : writer'[q] = IF q = r THEN Announcing ELSE writer[q]
    BY <1>2, <1>3
  <1>6. /\ node' \in [Replicas -> NodeType]
        /\ \A q \in Replicas : node'[q].up = node[q].up /\ node'[q].listens = node[q].listens /\ node'[q].ring = node[q].ring
    BY AppliedNode
  <1>7. UNCHANGED <<stored, secret, keyring, reload, commits>> /\ Counted
    BY Counts DEF ApplyRuntimeSettings, ReadBackFailed
  <1>8. TypeOK'
    BY <1>4, <1>6, <1>7, Zenon DEF TypeOK, Counted
  <1>9. ProcessInv'
    BY <1>1, <1>5, <1>6, <1>7 DEF ProcessInv
  <1>10. AnnounceInv'
    BY <1>5, AnnouncingOK, LoudAnnounce
  <1>11. ConsistentInv'
    BY <1>7 DEF ConsistentInv, StoredConsistent
  <1>12. SecretInv'
    BY <1>3, <1>7, AnnouncingOK, QuietSecrets
  <1> QED
    BY <1>4, <1>8, <1>9, <1>10, <1>11, <1>12

LEMMA NotifyInv ==
  ASSUME SettingsInv, NEW r \in Replicas, NotifySettingsChange(r) \/ NotifyLost(r)
  PROVE  SettingsInv'
  <1> USE DEF SettingsInv, keyring, reload, commits
  <1>1. writer' = [writer EXCEPT ![r] = NoSave] /\ writer \in [Replicas -> SaveType]
    BY DEF NotifySettingsChange, NotifyLost, TypeOK
  <1>2. writer' \in [Replicas -> SaveType] /\ SaveInv'
    BY <1>1, NoSaveOK, SaveStep
  <1>3. \A q \in Replicas : writer'[q] = IF q = r THEN NoSave ELSE writer[q]
    BY <1>1
  <1>4. UNCHANGED <<stored, secret, keyring, node, listener, commits>>
    BY DEF NotifySettingsChange, NotifyLost
  <1>5. notes' \subseteq Replicas /\ missed' \subseteq Replicas /\ Replicas \subseteq notes' \cup missed'
    BY DEF NotifySettingsChange, NotifyLost, Reached, Listening, TypeOK
  <1>6. Counted
    BY Counts DEF NotifySettingsChange, NotifyLost
  <1>7. TypeOK'
    BY <1>2, <1>4, <1>5, <1>6, Zenon DEF TypeOK, Counted
  <1>8. ProcessInv'
    BY <1>3, <1>4 DEF ProcessInv
  <1>9. AnnounceInv'
    BY <1>5, LoudAnnounce
  <1>10. ConsistentInv'
    BY <1>4 DEF ConsistentInv, StoredConsistent
  <1>11. SecretInv'
    BY <1>1, <1>4, NoSaveOK, ForgetQuiet, QuietSecrets
  <1> QED
    BY <1>2, <1>7, <1>8, <1>9, <1>10, <1>11

LEMMA CrashInv ==
  ASSUME SettingsInv, NEW r \in Replicas, Crash(r)
  PROVE  SettingsInv'
  <1> USE DEF SettingsInv, keyring, reload, commits
  <1>1. writer' = [writer EXCEPT ![r] = NoSave] /\ writer \in [Replicas -> SaveType]
    BY DEF Crash, TypeOK
  <1>2. writer' \in [Replicas -> SaveType] /\ SaveInv'
    BY <1>1, NoSaveOK, SaveStep
  <1>3. \A q \in Replicas : writer'[q] = IF q = r THEN NoSave ELSE writer[q]
    BY <1>1
  <1>4. node' \in [Replicas -> NodeType] /\ \A q \in Replicas : node'[q] = IF q = r THEN Down ELSE node[q]
    BY DownType DEF Crash, TypeOK
  <1>5. listener' \in [Replicas -> AnySettings] /\ \A q \in Replicas : listener'[q] = IF q = r THEN Nothing ELSE listener[q]
    BY NothingType DEF Crash, TypeOK
  <1>6. notes' \subseteq Replicas /\ missed' \subseteq Replicas
    BY DEF Crash, TypeOK
  <1>7. Counted
    BY Counts DEF Crash
  <1>8. TypeOK'
    BY <1>2, <1>4, <1>5, <1>6, <1>7, Zenon DEF TypeOK, Counted, Crash
  <1>9. ProcessInv'
    BY <1>3, <1>4, <1>5, DownType DEF ProcessInv, Crash
  <1>10. AnnounceInv'
    <2>1. CASE writer[r].done
      BY <2>1, LoudAnnounce DEF Crash
    <2>2. CASE ~writer[r].done
      <3>1. \A q \in Replicas : writer[q].done => writer'[q].done
        BY <1>3, <2>2
      <3>2. notes' = notes \ {r} /\ missed' = missed /\ stored' = stored
        BY <2>2 DEF Crash
      <3> QED
        BY <1>4, <1>5, <3>1, <3>2, DownType DEF AnnounceInv
    <2> QED
      BY <2>1, <2>2
  <1>11. ConsistentInv'
    BY DEF ConsistentInv, StoredConsistent, Crash
  <1>12. SecretInv'
    BY <1>1, NoSaveOK, ForgetQuiet, QuietSecrets DEF Crash
  <1> QED
    BY <1>2, <1>8, <1>9, <1>10, <1>11, <1>12

-----------------------------------------------------------------------------
(* Notifications, the keyring command and the steps that only make secrets    *)
(* live leave the saves alone.                                                *)
LEMMA KeepSaves ==
  ASSUME SettingsInv, writer' = writer
  PROVE  writer' \in [Replicas -> SaveType] /\ SaveInv'
  BY DEF SettingsInv, TypeOK, SaveInv, Doubtful

LEMMA ReloadInv ==
  ASSUME SettingsInv, NEW r \in Replicas, Listen(r) \/ ReloadRead(r) \/ ReloadUnread(r) \/ ReloadApply(r) \/ Disconnect(r)
  PROVE  SettingsInv'
  <1> USE DEF SettingsInv, keyring, reload, commits
  <1>1. UNCHANGED <<stored, secret, ring, body, cli, writer, pending, late, astray>> /\ Counted
    BY Counts DEF Listen, ReloadRead, ReloadUnread, ReloadApply, Disconnect
  <1>2. writer' \in [Replicas -> SaveType] /\ SaveInv'
    BY <1>1, KeepSaves
  <1>3. node \in [Replicas -> NodeType] /\ listener \in [Replicas -> AnySettings] /\ stored \in AnySettings
    BY SettingsFields DEF TypeOK
  <1>4. SecretInv'
    BY <1>1, LiveSecrets
  <1>5. ConsistentInv'
    BY <1>1 DEF ConsistentInv, StoredConsistent
  <1>6. CASE Listen(r) \/ Disconnect(r) \/ ReloadUnread(r)
    <2>1. /\ node' \in [Replicas -> NodeType]
          /\ \A q \in Replicas : node'[q].up = node[q].up /\ node'[q].runs = node[q].runs
          /\ \A q \in Replicas : node'[q].listens => node[q].listens \/ node[q].up
      <3>1. TRUE \in BOOLEAN /\ FALSE \in BOOLEAN
        OBVIOUS
      <3>2. CASE Listen(r)
        BY <1>3, <3>1, <3>2, ListensStep DEF Listen
      <3>3. CASE Disconnect(r)
        BY <1>3, <3>1, <3>3, ListensStep DEF Disconnect
      <3>4. CASE ReloadUnread(r)
        BY <1>3, <3>4 DEF ReloadUnread
      <3> QED
        BY <1>6, <3>2, <3>3, <3>4
    <2>2. listener' = listener /\ notes \cup missed \subseteq notes' \cup missed'
      BY <1>6 DEF Listen, Disconnect, ReloadUnread
    <2>3. notes' \subseteq Replicas /\ missed' \subseteq Replicas
      BY <1>6 DEF Listen, Disconnect, ReloadUnread, TypeOK
    <2>4. TypeOK'
      BY <1>1, <1>2, <2>1, <2>2, <2>3, Zenon DEF TypeOK, Counted
    <2>5. ProcessInv'
      BY <1>1, <2>1, <2>2 DEF ProcessInv
    <2>6. AnnounceInv'
      BY <1>1, <2>1, <2>2, QuietAnnounce
    <2> QED
      BY <1>2, <1>4, <1>5, <2>4, <2>5, <2>6
  <1>7. CASE ReloadRead(r)
    <2>1. listener' \in [Replicas -> AnySettings] /\ \A q \in Replicas : listener'[q] = IF q = r THEN stored ELSE listener[q]
      BY <1>3, <1>7 DEF ReloadRead
    <2>2. /\ node' = node /\ notes' = notes \ {r} /\ missed' = missed \ {r} /\ node[r].listens
          /\ notes' \subseteq Replicas /\ missed' \subseteq Replicas /\ r \in notes
      BY <1>7 DEF ReloadRead, TypeOK
    <2>3. TypeOK'
      BY <1>1, <1>2, <2>1, <2>2, Zenon DEF TypeOK, Counted
    <2>4. node[r].up
      BY <2>2 DEF ProcessInv
    <2>5. ProcessInv'
      BY <1>1, <2>1, <2>2, <2>4 DEF ProcessInv
    <2>6. AnnounceInv'
      BY <1>1, <2>1, <2>2 DEF AnnounceInv
    <2> QED
      BY <1>2, <1>4, <1>5, <2>3, <2>5, <2>6
  <1>8. CASE ReloadApply(r)
    <2>1. listener' \in [Replicas -> AnySettings] /\ \A q \in Replicas : listener'[q] = IF q = r THEN Nothing ELSE listener[q]
      BY <1>3, <1>8, NothingType DEF ReloadApply
    <2>2. listener[r] # Nothing /\ notes' = notes /\ missed' = missed
      BY <1>8 DEF ReloadApply
    <2>3. /\ node' \in [Replicas -> NodeType]
          /\ \A q \in Replicas : /\ node'[q].up = node[q].up /\ node'[q].listens = node[q].listens
                                 /\ node'[q].runs = IF q = r THEN listener[r] ELSE node[q].runs
      <3>1. listener[r] \in AnySettings
        BY <1>3
      <3>2. node' = [node EXCEPT ![r].runs = listener[r]]
        BY <1>8, Zenon DEF ReloadApply
      <3> QED
        BY <1>3, <3>1, <3>2, RunsStep
    <2>4. TypeOK'
      BY <1>1, <1>2, <2>1, <2>2, <2>3, Zenon DEF TypeOK, Counted
    <2>5. ProcessInv'
      BY <1>1, <2>1, <2>3 DEF ProcessInv
    <2>6. AnnounceInv'
      BY <1>1, <2>1, <2>2, <2>3 DEF AnnounceInv
    <2> QED
      BY <1>2, <1>4, <1>5, <2>4, <2>5, <2>6
  <1> QED
    BY <1>6, <1>7, <1>8

(* Rows of secrets, keyrings and the state of the command.                    *)
RowType == [state : {"none", "live", "revoked"}, key : KeyIds]
CliType == [pc : {"idle", "rewrap", "persist"}, ring : RingType, rows : SUBSET Refs, torn : BOOLEAN]

LEMMA RowTypes ==
  ASSUME NEW k \in KeyIds
  PROVE  [state |-> "live", key |-> k] \in RowType /\ [state |-> "revoked", key |-> None] \in RowType
  BY DEF RowType, KeyIds

LEMMA RingFields ==
  ASSUME NEW g \in RingType
  PROVE  g.keys \subseteq KeyIds /\ g.current \in KeyIds
  BY DEF RingType

LEMMA CliFields ==
  ASSUME NEW c \in CliType
  PROVE  c.pc \in {"idle", "rewrap", "persist"} /\ c.ring \in RingType /\ c.rows \subseteq Refs /\ c.torn \in BOOLEAN
  BY Zenon DEF CliType

(* A row that is written makes its secret live.                               *)
LEMMA LiveStep ==
  ASSUME secret \in [Refs -> RowType], NEW s \in Refs, NEW k \in KeyIds,
         secret' = [secret EXCEPT ![s] = [state |-> "live", key |-> k]]
  PROVE  /\ secret' \in [Refs -> RowType]
         /\ \A t \in Refs : secret'[t] = IF t = s THEN [state |-> "live", key |-> k] ELSE secret[t]
         /\ \A t \in Refs : secret'[t].state = IF t = s THEN "live" ELSE secret[t].state
         /\ \A t \in Refs : secret'[t].state \in {secret[t].state, "live"}
  <1>1. secret' \in [Refs -> RowType]
    BY RowTypes
  <1>2. \A t \in Refs : secret'[t] = IF t = s THEN [state |-> "live", key |-> k] ELSE secret[t]
    OBVIOUS
  <1> QED
    BY <1>1, <1>2

(* Steps that write at most one row and leave replicas and saves alone.       *)
LEMMA LiveOnly ==
  ASSUME SettingsInv, UNCHANGED <<stored, writer, node, reload, commits>>, Counted,
         secret' \in [Refs -> RowType], \A s \in Refs : secret'[s].state \in {secret[s].state, "live"},
         ring # NoRing, ring' # NoRing, ring' \in RingType, body' \in KeyIds, cli' \in CliType,
         cli'.pc # "idle" => cli'.ring.keys # {}
  PROVE  SettingsInv'
  <1> USE DEF SettingsInv, reload, commits
  <1>1. writer' \in [Replicas -> SaveType] /\ SaveInv'
    BY KeepSaves
  <1>2. TypeOK'
    BY <1>1, Zenon DEF TypeOK, Counted, RowType, CliType
  <1>3. ProcessInv'
    BY DEF ProcessInv
  <1>4. AnnounceInv'
    BY DEF AnnounceInv
  <1>5. ConsistentInv'
    BY DEF ConsistentInv, StoredConsistent
  <1>6. SecretInv'
    BY LiveSecrets
  <1> QED
    BY <1>1, <1>2, <1>3, <1>4, <1>5, <1>6

LEMMA SecretTypes ==
  ASSUME SettingsInv
  PROVE  /\ secret \in [Refs -> RowType] /\ ring \in RingType /\ body \in KeyIds /\ cli \in CliType
         /\ \A r \in Replicas : node[r].ring \in RingType
         /\ AccountRef \in Refs
         /\ cli.pc # "idle" => cli.ring.keys # {} /\ ring # NoRing
  <1>1. \A r \in Replicas : node[r].ring \in RingType
    BY NodeFields DEF SettingsInv, TypeOK
  <1> QED
    BY <1>1, SettingsAssumption DEF SettingsInv, TypeOK, RowType, CliType, ProcessInv

LEMMA RotateSecretInv ==
  ASSUME SettingsInv, (\E s \in Refs : SecretCmd(s)) \/ (\E r \in Replicas : RotateSecret(r)) \/ (\E s \in Refs : RewrapOne(s))
  PROVE  SettingsInv'
  <1>1. ASSUME NEW s \in Refs, SecretCmd(s) PROVE SettingsInv'
    <2>1. ring.current \in KeyIds
      BY SecretTypes, RingFields
    <2>2. secret' \in [Refs -> RowType] /\ \A t \in Refs : secret'[t].state \in {secret[t].state, "live"}
      BY <1>1, <2>1, SecretTypes, LiveStep DEF SecretCmd
    <2>3. Counted
      BY <1>1, Counts DEF SecretCmd
    <2> QED
      BY <1>1, <2>2, <2>3, SecretTypes, LiveOnly DEF SecretCmd, keyring
  <1>2. ASSUME NEW r \in Replicas, RotateSecret(r) PROVE SettingsInv'
    <2>1. node[r].ring.current \in KeyIds
      BY SecretTypes, RingFields
    <2>2. secret' \in [Refs -> RowType] /\ \A t \in Refs : secret'[t].state \in {secret[t].state, "live"}
      BY <1>2, <2>1, SecretTypes, LiveStep DEF RotateSecret, Put
    <2>3. Counted
      BY <1>2, Counts DEF RotateSecret
    <2>4. ring # NoRing
      BY <1>2 DEF RotateSecret, SettingsInv, ProcessInv
    <2> QED
      BY <1>2, <2>2, <2>3, <2>4, SecretTypes, LiveOnly DEF RotateSecret, keyring
  <1>3. ASSUME NEW s \in Refs, RewrapOne(s) PROVE SettingsInv'
    <2>1. cli \in CliType /\ cli.ring \in RingType /\ cli.ring.current \in KeyIds /\ cli.rows \subseteq Refs
      BY SecretTypes, CliFields, RingFields
    <2>2. secret' \in [Refs -> RowType] /\ \A t \in Refs : secret'[t].state \in {secret[t].state, "live"}
      BY <1>3, <2>1, SecretTypes, LiveStep DEF RewrapOne
    <2>3. Counted
      BY <1>3, Counts DEF RewrapOne
    <2> DEFINE rest == cli.rows \ {s}
    <2>4. rest \in SUBSET Refs
      BY <2>1
    <2>5. cli' = [cli EXCEPT !.rows = rest] /\ cli.pc = "rewrap"
      BY <1>3 DEF RewrapOne
    <2> HIDE DEF rest
    <2>6. cli' \in CliType
      BY <2>1, <2>4, <2>5, Zenon DEF CliType
    <2>7. cli'.pc = cli.pc /\ cli'.ring = cli.ring
      BY <2>1, <2>5 DEF CliType
    <2> QED
      BY <1>3, <2>2, <2>3, <2>5, <2>6, <2>7, SecretTypes, LiveOnly DEF RewrapOne
  <1> QED
    BY <1>1, <1>2, <1>3

LEMMA NoCliType ==
  ASSUME NEW t \in BOOLEAN
  PROVE  [NoCli EXCEPT !.torn = t] \in CliType /\ [NoCli EXCEPT !.torn = t].pc = "idle" /\ [NoCli EXCEPT !.torn = t].torn = t
  <1>1. NoRing \in RingType
    BY DEF NoRing, RingType, KeyIds
  <1>2. NoCli \in CliType /\ NoCli.pc = "idle"
    BY <1>1 DEF NoCli, CliType
  <1>3. [NoCli EXCEPT !.torn = t] \in CliType
    BY <1>2, Zenon DEF CliType
  <1> QED
    BY <1>2, <1>3 DEF CliType

LEMMA KeyRotateInv ==
  ASSUME SettingsInv, (\E k \in Keys : KeyRotate(k)) \/ RewrapBodies \/ RotateAborted \/ RotatePersist
  PROVE  SettingsInv'
  <1>1. /\ cli \in CliType /\ cli.ring \in RingType /\ cli.ring.current \in KeyIds /\ cli.torn \in BOOLEAN
        /\ ring \in RingType /\ ring.keys \subseteq KeyIds /\ secret \in [Refs -> RowType] /\ body \in KeyIds
    BY SecretTypes, CliFields, RingFields
  <1>2. Counted
    BY Counts, Zenon DEF KeyRotate, RewrapBodies, RotateAborted, RotatePersist
  <1>3. secret' = secret /\ UNCHANGED <<stored, writer, node, reload, commits>>
    BY Zenon DEF KeyRotate, RewrapBodies, RotateAborted, RotatePersist
  <1>4. secret' \in [Refs -> RowType] /\ \A t \in Refs : secret'[t].state \in {secret[t].state, "live"}
    BY <1>1, <1>3
  <1>5. ring # NoRing
    BY SecretTypes, Zenon DEF KeyRotate, RewrapBodies, RotateAborted, RotatePersist
  <1>6. ASSUME NEW k \in Keys, KeyRotate(k) PROVE SettingsInv'
    <2> DEFINE g == [keys |-> ring.keys \cup {k}, current |-> k]
               rows == {s \in Refs : secret[s].state = "live"}
    <2>1. g \in RingType /\ g.keys # {}
      BY <1>1 DEF RingType, KeyIds
    <2>2. rows \in SUBSET Refs
      OBVIOUS
    <2>3. cli' = [cli EXCEPT !.pc = "rewrap", !.ring = g, !.rows = rows] /\ ring' = ring /\ body' = body
      BY <1>6, Zenon DEF KeyRotate
    <2> HIDE DEF g, rows
    <2>4. cli' \in CliType
      BY <1>1, <2>1, <2>2, <2>3, Zenon DEF CliType
    <2>5. cli'.ring = g
      BY <1>1, <2>3 DEF CliType
    <2> QED
      BY <1>1, <1>2, <1>3, <1>4, <1>5, <2>1, <2>3, <2>4, <2>5, LiveOnly
  <1>7. CASE RewrapBodies
    <2>1. cli' = [cli EXCEPT !.pc = "persist"] /\ cli.pc = "rewrap" /\ ring' = ring /\ body' = cli.ring.current
      BY <1>7 DEF RewrapBodies
    <2>2. cli' \in CliType
      BY <1>1, <2>1, Zenon DEF CliType
    <2>3. cli'.ring = cli.ring
      BY <1>1, <2>1 DEF CliType
    <2> QED
      BY <1>1, <1>2, <1>3, <1>4, <1>5, <2>1, <2>2, <2>3, SecretTypes, LiveOnly
  <1>8. CASE RotateAborted
    <2>1. cli' = [NoCli EXCEPT !.torn = TRUE] /\ ring' = ring /\ body' = body
      BY <1>8 DEF RotateAborted
    <2>2. cli' \in CliType /\ cli'.pc = "idle"
      BY <2>1, NoCliType
    <2> QED
      BY <1>1, <1>2, <1>3, <1>4, <1>5, <2>1, <2>2, LiveOnly
  <1>9. CASE RotatePersist
    <2>1. cli' = [NoCli EXCEPT !.torn = cli.torn] /\ ring' = StoredRing /\ body' = body /\ cli.pc = "persist"
      BY <1>9 DEF RotatePersist
    <2>2. cli' \in CliType /\ cli'.pc = "idle"
      BY <1>1, <2>1, NoCliType
    <2>3. ring' \in RingType
      BY <1>1, <2>1 DEF StoredRing, RingType
    <2>4. ring'.keys # {}
      BY <1>1, <2>1, SecretTypes DEF StoredRing, RingType
    <2>5. ring' # NoRing
      BY <2>4 DEF NoRing
    <2> QED
      BY <1>1, <1>2, <1>3, <1>4, <1>5, <2>1, <2>2, <2>3, <2>5, LiveOnly
  <1> QED
    BY <1>6, <1>7, <1>8, <1>9

LEMMA BootInv ==
  ASSUME SettingsInv, NEW r \in Replicas, Boot(r)
  PROVE  SettingsInv'
  <1> USE DEF SettingsInv, commits
  <1>1. r \in KeyIds /\ ring \in RingType
    BY SecretTypes DEF KeyIds
  <1>2. ring' = ResolveKEK(r) /\ ring' \in RingType /\ ring' # NoRing
    <2>1. [keys |-> {r}, current |-> r] \in RingType
      BY <1>1 DEF RingType
    <2>2. [keys |-> {r}, current |-> r] # NoRing
      BY DEF NoRing
    <2> QED
      BY <1>1, <2>1, <2>2 DEF Boot, ResolveKEK
  <1>3. stored \in AnySettings
    BY SettingsFields DEF TypeOK
  <1>4. Started(r) \in NodeType /\ Started(r).up /\ Started(r).runs = stored
    BY <1>2, <1>3 DEF Started, NodeType
  <1>5. node' \in [Replicas -> NodeType] /\ \A q \in Replicas : node'[q] = IF q = r THEN Started(r) ELSE node[q]
    BY <1>4 DEF Boot, TypeOK
  <1>6. /\ secret' \in [Refs -> RowType] /\ \A t \in Refs : secret'[t].state \in {secret[t].state, "live"}
        /\ ring = NoRing => \A s \in {AccountRef, stored.key} : s # None => secret'[s].state = "live"
    <2>1. CASE ring # NoRing
      BY <2>1, SecretTypes DEF Boot
    <2>2. CASE ring = NoRing
      <3>1. secret' = [s \in Refs |-> IF s \in {AccountRef, stored.key} THEN [state |-> "live", key |-> r] ELSE secret[s]]
        BY <2>2 DEF Boot, MigrateLocalFileToDB
      <3>2. stored.key \in Refs \cup {None}
        BY SettingsFields DEF TypeOK
      <3> QED
        BY <1>1, <3>1, <3>2, SecretTypes, RowTypes
    <2> QED
      BY <2>1, <2>2
  <1>7. body' \in KeyIds
    BY <1>1, SecretTypes DEF Boot
  <1>8. writer' \in [Replicas -> SaveType] /\ SaveInv'
    BY KeepSaves DEF Boot
  <1>9. Counted
    BY Counts DEF Boot
  <1>10. missed' \subseteq Replicas
    BY DEF Boot, TypeOK
  <1>11. TypeOK'
    BY <1>2, <1>5, <1>6, <1>7, <1>8, <1>9, <1>10, Zenon DEF Boot, TypeOK, Counted, RowType
  <1>12. ProcessInv'
    BY <1>2, <1>4, <1>5 DEF Boot, ProcessInv
  <1>13. AnnounceInv'
    BY <1>4, <1>5 DEF Boot, AnnounceInv, ProcessInv
  <1>14. ConsistentInv'
    BY DEF Boot, ConsistentInv, StoredConsistent
  <1>15. SecretInv'
    BY <1>6, LiveSecrets DEF Boot
  <1> QED
    BY <1>8, <1>11, <1>12, <1>13, <1>14, <1>15

-----------------------------------------------------------------------------
(* A new secret goes under a reference that nobody has seen.                  *)
LEMMA RegisterInv ==
  ASSUME SettingsInv, NEW r \in Replicas, RegisterSecret(r)
  PROVE  SettingsInv'
  <1> USE SettingsAssumption DEF SettingsInv, keyring, reload, commits
  <1> DEFINE s == CHOOSE s \in Unused : TRUE
             w == writer[r]
             n == [w.next EXCEPT !.key = s]
             v == [w EXCEPT !.pc = "commit", !.new = s, !.next = n]
  <1>1. s \in Unused
    BY Zenon DEF RegisterSecret
  <1>2. w.pc = "secret" /\ secret' = Put(r, s)
    BY Zenon DEF RegisterSecret
  <1>3. writer \in [Replicas -> SaveType] /\ w \in SaveType /\ SaveOK(w) /\ w # NoSave
    BY <1>2, Saves, NoSaveOK DEF TypeOK, SavesOK
  <1>4. writer' = [writer EXCEPT ![r] = v]
    BY <1>3, Zenon DEF RegisterSecret
  <1> HIDE DEF s
  <1>5. s \in Refs /\ s # AccountRef /\ secret[s].state = "none" /\ s # None /\ s # "?"
    BY <1>1 DEF Unused
  <1>6. w.snap \in SettingsType /\ w.next \in SettingsType /\ w.new = None /\ ~w.done
    BY <1>2, <1>3 DEF SaveOK
  <1>7. n \in SettingsType /\ n.key = s /\ n \in AnySettings
    <2>1. n \in SettingsType /\ n.key = s
      BY <1>5, <1>6, SettingsEdits, Zenon
    <2> QED
      BY <2>1, SettingsFields, Zenon
  <1> HIDE DEF n
  <1>8. v \in SaveType
    BY <1>3, <1>5, <1>7, Zenon DEF SaveType
  <1>9. v.pc = "commit" /\ v.new = s /\ v.next = n /\ v.snap = w.snap /\ v.drop = w.drop /\ v.done = w.done
    BY <1>3 DEF SaveType
  <1> HIDE DEF v
  <1>10. SaveOK(v)
    BY <1>5, <1>6, <1>7, <1>8, <1>9 DEF SaveOK
  <1>11. writer' \in [Replicas -> SaveType] /\ SaveInv'
    BY <1>4, <1>10, SaveStep
  <1>12. \A q \in Replicas : writer'[q] = IF q = r THEN v ELSE writer[q]
    BY <1>3, <1>4
  <1>13. node[r].ring.current \in KeyIds
    BY SecretTypes, RingFields
  <1>14. /\ secret' \in [Refs -> RowType]
         /\ \A t \in Refs : secret'[t].state = IF t = s THEN "live" ELSE secret[t].state
    BY <1>2, <1>5, <1>13, SecretTypes, LiveStep DEF Put
  <1>15. UNCHANGED <<stored, body, ring, cli, node, listener, notes, missed, pending, late, astray>> /\ Counted
    BY Counts, Zenon DEF RegisterSecret
  <1>16. TypeOK'
    BY <1>11, <1>14, <1>15, Zenon DEF TypeOK, Counted, RowType
  <1>17. node[r].up
    BY <1>3 DEF ProcessInv
  <1>18. ProcessInv'
    BY <1>12, <1>14, <1>15, <1>17 DEF ProcessInv
  <1>19. AnnounceInv'
    BY <1>6, <1>9, <1>12, <1>15, QuietAnnounce
  <1>20. ConsistentInv'
    BY <1>15 DEF ConsistentInv, StoredConsistent
  <1>21. SecretInv'
    <2>1. /\ stored.key # s /\ \A t \in pending : t.key # s
          /\ \A q \in Replicas : /\ writer[q].snap.key # s /\ writer[q].drop # s
                                 /\ writer[q].new # s /\ writer[q].next.key # s
      BY <1>5, <1>17 DEF SecretInv, Drawn, ProcessInv
    <2>2. Drawn(stored.key)' /\ \A t \in pending' : (ring' # NoRing /\ t.key \in Refs => secret'[t.key].state # "none")
      BY <1>14, <1>15 DEF SecretInv, Drawn
    <2>3. \A q \in Replicas : Drawn(writer[q].snap.key)' /\ Drawn(writer[q].drop)' /\ Drawn(writer[q].new)' /\ Drawn(writer[q].next.key)'
      BY <1>7, <1>9, <1>12, <1>14, <1>15 DEF SecretInv, Drawn
    <2>4. ASSUME NEW q \in Replicas, writer'[q].pc = "commit", writer'[q].new # None
          PROVE  LET x == writer'[q].new IN
                 /\ x # AccountRef /\ secret'[x].state = "live"
                 /\ stored'.key # x /\ \A t \in pending' : t.key # x
                 /\ \A p \in Replicas : writer'[p].snap.key # x /\ writer'[p].drop # x
                 /\ \A p \in Replicas \ {q} : writer'[p].new # x /\ writer'[p].next.key # x
      <3>1. CASE q = r
        BY <1>5, <1>9, <1>12, <1>14, <1>15, <2>1, <3>1
      <3>2. CASE q # r
        <4> DEFINE x == writer[q].new
        <4>1. writer'[q] = writer[q]
          BY <1>12, <3>2
        <4>2. /\ x # AccountRef /\ secret[x].state = "live" /\ stored.key # x /\ (\A t \in pending : t.key # x)
              /\ \A p \in Replicas : writer[p].snap.key # x /\ writer[p].drop # x
              /\ \A p \in Replicas \ {q} : writer[p].new # x /\ writer[p].next.key # x
          BY <2>4, <4>1 DEF SecretInv
        <4>3. x \in Refs
          BY <1>3, <2>4, <4>1, SaveFields
        <4> HIDE DEF x
        <4>4. x # s
          BY <1>5, <4>2
        <4>5. \A p \in Replicas \ {q} : writer'[p].new # x /\ writer'[p].next.key # x
          BY <1>7, <1>9, <1>12, <4>2, <4>4
        <4>6. \A p \in Replicas : writer'[p].snap.key # x /\ writer'[p].drop # x
          BY <1>9, <1>12, <4>2
        <4>7. secret'[x].state = "live"
          BY <1>14, <4>2, <4>3
        <4> QED
          BY <1>15, <4>1, <4>2, <4>5, <4>6, <4>7 DEF x
      <3> QED
        BY <3>1, <3>2
    <2>5. ASSUME NEW q \in Replicas, writer'[q].pc = "revoke"
          PROVE  Doubt(writer'[q]) # AccountRef /\ (Doubt(writer'[q]) # stored'.key \/ late' \/ stored'.key \in astray')
      BY <1>9, <1>12, <1>15, <2>5 DEF SecretInv, Doubtful, Doubt
    <2>6. SecretsLive'
      <3>1. stored.key \in Refs \cup {None}
        BY SettingsFields DEF TypeOK
      <3> QED
        BY <3>1, <1>14, <1>15 DEF SecretInv, SecretsLive
    <2> QED
      BY <2>2, <2>3, <2>4, <2>5, <2>6 DEF SecretInv, Drawn, Doubtful, Doubt
  <1> QED
    BY <1>11, <1>16, <1>18, <1>19, <1>20, <1>21

(* The secret that is revoked is neither stored nor about to be.              *)
LEMMA RevokeInv ==
  ASSUME SettingsInv, NEW r \in Replicas, RevokeSecret(r)
  PROVE  SettingsInv'
  <1> USE SettingsAssumption DEF SettingsInv, keyring, reload, commits
  <1> DEFINE w == writer[r]
             d == Doubt(w)
             v == AfterTidy(w)
  <1>1. w.pc = "revoke" /\ writer' = [writer EXCEPT ![r] = v]
    BY DEF RevokeSecret
  <1>2. writer \in [Replicas -> SaveType] /\ w \in SaveType /\ SaveOK(w) /\ w # NoSave
    BY <1>1, Saves, NoSaveOK DEF TypeOK, SavesOK
  <1>3. Doubtful(r) = d /\ secret' = [secret EXCEPT ![d] = [state |-> "revoked", key |-> None]]
    BY DEF RevokeSecret, Doubtful, Doubt
  <1>4. d \in Refs /\ d # None /\ d # AccountRef /\ (d # stored.key \/ late \/ stored.key \in astray)
    BY <1>1, <1>2, <1>3, SaveFields DEF SaveOK, SecretInv, Doubt
  <1>5. d \in {w.drop, w.new}
    BY DEF Doubt
  <1>6. /\ SaveOK(v) /\ v \in SaveType /\ v.done = w.done /\ v.pc \in {"idle", "read", "notify"}
        /\ v.new = None /\ v.drop = None /\ v.snap.key \in {w.snap.key, "?"} /\ v.next.key \in {w.next.key, "?"}
    BY <1>2, Tidied DEF SaveOK
  <1> HIDE DEF v, d
  <1>7. writer' \in [Replicas -> SaveType] /\ SaveInv'
    BY <1>1, <1>6, SaveStep
  <1>8. \A q \in Replicas : writer'[q] = IF q = r THEN v ELSE writer[q]
    BY <1>1, <1>2
  <1>9. /\ secret' \in [Refs -> RowType]
        /\ \A t \in Refs : secret'[t].state = IF t = d THEN "revoked" ELSE secret[t].state
    <2>1. None \in KeyIds
      BY DEF KeyIds
    <2>2. [state |-> "revoked", key |-> None] \in RowType /\ [state |-> "revoked", key |-> None].state = "revoked"
      BY <2>1, RowTypes
    <2> QED
      BY <1>3, <1>4, <2>2, SecretTypes
  <1>10. UNCHANGED <<stored, body, ring, cli, node, listener, notes, missed, pending, late, astray>> /\ Counted
    BY Counts DEF RevokeSecret
  <1>11. TypeOK'
    BY <1>7, <1>9, <1>10, Zenon DEF TypeOK, Counted, RowType
  <1>12. node[r].up
    BY <1>2 DEF ProcessInv
  <1>13. ProcessInv'
    BY <1>8, <1>9, <1>10, <1>12 DEF ProcessInv
  <1>14. AnnounceInv'
    BY <1>6, <1>8, <1>10, QuietAnnounce
  <1>15. ConsistentInv'
    BY <1>10 DEF ConsistentInv, StoredConsistent
  <1>16. SecretInv'
    <2>1. Drawn(stored.key)' /\ \A t \in pending' : (ring' # NoRing /\ t.key \in Refs => secret'[t.key].state # "none")
      BY <1>9, <1>10 DEF SecretInv, Drawn
    <2>2. \A q \in Replicas : Drawn(writer[q].snap.key)' /\ Drawn(writer[q].drop)' /\ Drawn(writer[q].new)' /\ Drawn(writer[q].next.key)'
      BY <1>6, <1>8, <1>9, <1>10 DEF SecretInv, Drawn, None
    <2>3. ASSUME NEW q \in Replicas, writer'[q].pc = "commit", writer'[q].new # None
          PROVE  LET x == writer'[q].new IN
                 /\ x # AccountRef /\ secret'[x].state = "live"
                 /\ stored'.key # x /\ \A t \in pending' : t.key # x
                 /\ \A p \in Replicas : writer'[p].snap.key # x /\ writer'[p].drop # x
                 /\ \A p \in Replicas \ {q} : writer'[p].new # x /\ writer'[p].next.key # x
      <3> DEFINE x == writer[q].new
      <3>1. q # r /\ writer'[q] = writer[q]
        BY <1>6, <1>8, <2>3
      <3>2. /\ x # AccountRef /\ secret[x].state = "live" /\ stored.key # x /\ (\A t \in pending : t.key # x)
            /\ \A p \in Replicas : writer[p].snap.key # x /\ writer[p].drop # x
            /\ \A p \in Replicas \ {q} : writer[p].new # x /\ writer[p].next.key # x
        BY <2>3, <3>1 DEF SecretInv
      <3>3. x \in Refs /\ x # None /\ x # "?"
        BY <1>2, <2>3, <3>1, SaveFields
      <3> HIDE DEF x
      <3>4. x # d
        BY <1>5, <3>1, <3>2
      <3>5. secret'[x].state = "live"
        BY <1>9, <3>2, <3>3, <3>4
      <3>6. \A p \in Replicas : writer'[p].snap.key # x /\ writer'[p].drop # x
        BY <1>6, <1>8, <3>2, <3>3
      <3>7. \A p \in Replicas \ {q} : writer'[p].new # x /\ writer'[p].next.key # x
        BY <1>6, <1>8, <3>1, <3>2, <3>3
      <3> QED
        BY <1>10, <3>1, <3>2, <3>5, <3>6, <3>7 DEF x
    <2>4. ASSUME NEW q \in Replicas, writer'[q].pc = "revoke"
          PROVE  Doubt(writer'[q]) # AccountRef /\ (Doubt(writer'[q]) # stored'.key \/ late' \/ stored'.key \in astray')
      BY <1>6, <1>8, <1>10, <2>4 DEF SecretInv, Doubtful, Doubt
    <2>5. SecretsLive'
      <3>1. stored.key \in Refs \cup {None}
        BY SettingsFields DEF TypeOK
      <3> QED
        BY <3>1, <1>4, <1>9, <1>10 DEF SecretInv, SecretsLive
    <2> QED
      BY <2>1, <2>2, <2>3, <2>4, <2>5 DEF SecretInv, Drawn, Doubtful, Doubt
  <1> QED
    BY <1>7, <1>11, <1>13, <1>14, <1>15, <1>16

-----------------------------------------------------------------------------
(* The commit: what a save does once the database has answered, or not.       *)
LEMMA Committed ==
  ASSUME SettingsInv, NEW r \in Replicas, NEW ok \in BOOLEAN, writer[r].pc = "commit"
  PROVE  \E v \in SaveType :
           /\ AfterCommit(r, ok) = [writer EXCEPT ![r] = v]
           /\ SaveOK(v) /\ v.done = ok /\ v.pc \in {"idle", "tidy", "read", "notify"}
           /\ v.new \in {writer[r].new, None} /\ v.drop \in {writer[r].drop, None}
           /\ v.snap.key \in {writer[r].snap.key, "?"} /\ v.next.key \in {writer[r].next.key, "?"}
  <1> DEFINE w == writer[r]
             t == [w EXCEPT !.done = ok, !.pc = "tidy"]
  <1>1. w \in SaveType
    BY DEF SettingsInv, TypeOK
  <1>2. t \in SaveType
    BY <1>1, Zenon DEF SaveType
  <1>3. t.done = ok /\ t.pc = "tidy" /\ t.new = w.new /\ t.drop = w.drop /\ t.snap = w.snap /\ t.next = w.next
    BY <1>1 DEF SaveType
  <1>4. AfterCommit(r, ok) = [writer EXCEPT ![r] = IF (IF ok THEN t.drop ELSE t.new) = None THEN AfterTidy(t) ELSE t]
    BY DEF AfterCommit
  <1> HIDE DEF t, w
  <1>5. CASE Doubt(t) = None
    <2> DEFINE v == AfterTidy(t)
    <2>1. AfterCommit(r, ok) = [writer EXCEPT ![r] = v]
      BY <1>3, <1>4, <1>5 DEF Doubt
    <2>2. /\ SaveOK(v) /\ v \in SaveType /\ v.done = t.done /\ v.pc \in {"idle", "read", "notify"}
          /\ v.new = None /\ v.drop = None /\ v.snap.key \in {t.snap.key, "?"} /\ v.next.key \in {t.next.key, "?"}
      BY <1>2, Tidied DEF SaveOK
    <2> HIDE DEF v
    <2> QED
      BY <1>3, <2>1, <2>2 DEF w
  <1>6. CASE Doubt(t) # None
    <2>1. AfterCommit(r, ok) = [writer EXCEPT ![r] = t]
      BY <1>3, <1>4, <1>6 DEF Doubt
    <2>2. SaveOK(t)
      BY <1>2, <1>3, <1>6 DEF SaveOK
    <2> QED
      BY <1>2, <1>3, <2>1, <2>2 DEF w
  <1> QED
    BY <1>5, <1>6

(* Secrets after a commit that was done, was not, or is left to be done.      *)
LEMMA CommitSecrets ==
  ASSUME SettingsInv, NEW r \in Replicas, NEW v \in SaveType, writer[r].pc = "commit", pending = {},
         writer' = [writer EXCEPT ![r] = v], v.pc \in {"idle", "tidy", "read", "notify"},
         v.new \in {writer[r].new, None}, v.drop \in {writer[r].drop, None}, v.snap.key \in {writer[r].snap.key, "?"},
         v.next.key \in {writer[r].next.key, "?"},
         UNCHANGED <<secret, ring, late>>, astray \subseteq astray', stored' = stored \/ astray' = Strays(writer[r]),
         \/ UNCHANGED <<stored, pending>>
         \/ stored' = writer[r].next /\ stored = writer[r].snap /\ pending' = pending
         \/ pending' = {writer[r].next} /\ stored = writer[r].snap /\ stored' = stored
  PROVE  SecretInv'
  <1> USE SettingsAssumption DEF SettingsInv
  <1> DEFINE w == writer[r]
             k == w.next.key
  <1>1. w \in SaveType /\ SaveOK(w) /\ writer \in [Replicas -> SaveType]
    BY Saves DEF TypeOK, SavesOK
  <1>2. \A q \in Replicas : writer'[q] = IF q = r THEN v ELSE writer[q]
    BY <1>1
  <1>3. k \in Refs \cup {None} /\ (w.new # None => k = w.new)
    BY <1>1, SettingsFields DEF SaveOK
  <1>0. /\ w.new = None /\ k \notin {w.snap.key, None} =>
             \/ k \in Strays(w)
             \/ secret[k].state = "live" /\ \A q \in Replicas : writer[q].pc = "revoke" => Doubtful(q) # k
        /\ astray \subseteq Strays(w)
    BY DEF Strays, NamesDead
  <1>4. Drawn(k)
    BY DEF SecretInv
  <1>5. ASSUME NEW q \in Replicas, writer'[q].pc = "commit", writer'[q].new # None
        PROVE  LET x == writer'[q].new IN
               /\ x # k /\ x # AccountRef /\ secret'[x].state = "live"
               /\ stored.key # x /\ \A t \in pending : t.key # x
               /\ \A p \in Replicas : writer'[p].snap.key # x /\ writer'[p].drop # x
               /\ \A p \in Replicas \ {q} : writer'[p].new # x /\ writer'[p].next.key # x
    <2> DEFINE x == writer[q].new
    <2>1. q # r /\ writer'[q] = writer[q]
      BY <1>2, <1>5
    <2>2. /\ x # AccountRef /\ secret[x].state = "live" /\ stored.key # x /\ (\A t \in pending : t.key # x)
          /\ \A p \in Replicas : writer[p].snap.key # x /\ writer[p].drop # x
          /\ \A p \in Replicas \ {q} : writer[p].new # x /\ writer[p].next.key # x
      BY <1>5, <2>1 DEF SecretInv
    <2>3. x \in Refs /\ x # None /\ x # "?"
      BY <1>1, <1>5, <2>1, SaveFields
    <2> HIDE DEF x
    <2>4. x # k
      BY <2>1, <2>2
    <2>5. \A p \in Replicas : writer'[p].snap.key # x /\ writer'[p].drop # x
      BY <1>2, <2>2, <2>3
    <2>6. \A p \in Replicas \ {q} : writer'[p].new # x /\ writer'[p].next.key # x
      BY <1>2, <2>1, <2>2, <2>3
    <2> QED
      BY <2>1, <2>2, <2>4, <2>5, <2>6 DEF x
  <1>6. ASSUME NEW q \in Replicas, writer'[q].pc = "revoke"
        PROVE  LET d == Doubt(writer'[q]) IN
               /\ d # AccountRef /\ (d # stored.key \/ late \/ stored.key \in astray)
               /\ stored = w.snap => d # k \/ late \/ k \in Strays(w)
    <2> DEFINE d == Doubt(writer[q])
    <2>1. q # r /\ writer'[q] = writer[q]
      BY <1>2, <1>6
    <2>2. d # AccountRef /\ (d # stored.key \/ late \/ stored.key \in astray) /\ d = Doubtful(q)
      BY <1>6, <2>1 DEF SecretInv, Doubtful, Doubt
    <2>3. SaveOK(writer[q]) /\ writer[q].pc = "revoke"
      BY <1>6, <2>1, Saves DEF SavesOK, TypeOK
    <2>4. d # None /\ d \in {writer[q].drop, writer[q].new}
      BY <2>3 DEF SaveOK, Doubt
    <2>5. w.new # None => d # w.new
      BY <2>1, <2>4 DEF SecretInv
    <2> HIDE DEF d
    <2>6. stored = w.snap => d # k \/ late \/ k \in Strays(w)
      BY <1>0, <1>3, <2>2, <2>3, <2>4, <2>5
    <2> QED
      BY <2>1, <2>2, <2>6 DEF d
  <1>7. stored = w.snap /\ k # None /\ ring # NoRing => secret[k].state = "live" \/ late \/ k \in Strays(w)
    BY <1>0, <1>3 DEF SecretInv, SecretsLive
  <1> HIDE DEF k
  <1>8. stored'.key = stored.key \/ (stored'.key = k /\ stored = w.snap /\ astray' = Strays(w))
    BY DEF k
  <1>9. \A t \in pending' : t.key = k
    BY DEF k
  <1>10. Drawn(stored.key)' /\ \A t \in pending' : (ring' # NoRing /\ t.key \in Refs => secret'[t.key].state # "none")
    BY <1>4, <1>8, <1>9 DEF SecretInv, Drawn
  <1>11. \A q \in Replicas : Drawn(writer[q].snap.key)' /\ Drawn(writer[q].drop)' /\ Drawn(writer[q].new)' /\ Drawn(writer[q].next.key)'
    BY <1>2 DEF SecretInv, Drawn, None
  <1>12. ASSUME NEW q \in Replicas, writer'[q].pc = "commit", writer'[q].new # None
         PROVE  stored'.key # writer'[q].new /\ \A t \in pending' : t.key # writer'[q].new
    BY <1>5, <1>8, <1>9, <1>12
  <1>13. ASSUME NEW q \in Replicas, writer'[q].pc = "revoke"
         PROVE  Doubt(writer'[q]) # AccountRef /\ (Doubt(writer'[q]) # stored'.key \/ late' \/ stored'.key \in astray')
    BY <1>6, <1>8, <1>13
  <1>14. SecretsLive'
    BY <1>7, <1>8 DEF SecretInv, SecretsLive
  <1> QED
    BY <1>5, <1>10, <1>11, <1>12, <1>13, <1>14 DEF SecretInv, Drawn, Doubtful, Doubt

(* The updates written over an unchanged row leave what the save meant.       *)
LEMMA Written ==
  ASSUME NEW snap \in SettingsType, NEW next \in SettingsType
  PROVE  [f \in DOMAIN snap |-> IF next[f] = snap[f] THEN snap[f] ELSE next[f]] = next
  <1>1. DOMAIN snap = DOMAIN next
    BY DEF SettingsType
  <1>2. [f \in DOMAIN snap |-> IF next[f] = snap[f] THEN snap[f] ELSE next[f]] = [f \in DOMAIN next |-> next[f]]
    BY <1>1
  <1>3. next = [f \in DOMAIN next |-> next[f]]
    BY DEF SettingsType
  <1> QED
    BY <1>2, <1>3

LEMMA CommitInv ==
  ASSUME SettingsInv, NEW r \in Replicas, Commit(r) \/ \E how \in {"done", "not", "later"} : CommitLost(r, how)
  PROVE  SettingsInv'
  <1> USE DEF SettingsInv, keyring, reload, commits
  <1> DEFINE w == writer[r]
             ok == Commit(r) /\ UnchangedSince(r) /\ Consistent(w.snap, w.next)
  <1>1. /\ w.pc = "commit" /\ pending = {} /\ w \in SaveType /\ SaveOK(w) /\ w # NoSave
        /\ writer \in [Replicas -> SaveType]
    BY Saves, NoSaveOK DEF Commit, CommitLost, TypeOK, SavesOK
  <1>2. w.snap \in SettingsType /\ w.next \in SettingsType /\ ~w.done
    BY <1>1 DEF SaveOK
  <1>3. UNCHANGED <<secret, body, ring, cli, node, listener, notes, late, changes>> /\ Counted
    BY Counts DEF Commit, CommitLost
  <1>4. /\ writer' = AfterCommit(r, ok)
        /\ \/ UNCHANGED <<stored, pending, missed>> /\ ~ok
           \/ /\ stored' = w.next /\ stored = w.snap /\ pending' = pending /\ (ok \/ missed' = Replicas)
              /\ Consistent(w.snap, w.next) /\ missed' \in {missed, Replicas}
           \/ /\ pending' = {w.next} /\ stored = w.snap /\ stored' = stored /\ missed' = missed /\ ~ok
              /\ Consistent(w.snap, w.next)
    <2>1. CASE Commit(r)
      <3>1. ok <=> UnchangedSince(r) /\ Consistent(w.snap, w.next)
        BY <2>1
      <3>2. /\ writer' = AfterCommit(r, ok) /\ pending' = pending /\ missed' = missed
            /\ stored' = IF ok THEN [f \in DOMAIN stored |-> IF w.next[f] = w.snap[f] THEN stored[f] ELSE w.next[f]]
                         ELSE stored
        BY <2>1, <3>1, Zenon DEF Commit
      <3>3. ok => stored = w.snap
        BY <3>1 DEF UnchangedSince
      <3>4. ok => stored' = w.next
        BY <1>2, <3>2, <3>3, Written
      <3> HIDE DEF w
      <3> QED
        BY <3>1, <3>2, <3>3, <3>4
    <2>2. ASSUME NEW how \in {"done", "not", "later"}, CommitLost(r, how), ~Commit(r)
          PROVE  /\ writer' = AfterCommit(r, ok)
                 /\ \/ UNCHANGED <<stored, pending, missed>> /\ ~ok
                    \/ /\ stored' = w.next /\ stored = w.snap /\ pending' = pending /\ (ok \/ missed' = Replicas)
                       /\ Consistent(w.snap, w.next) /\ missed' \in {missed, Replicas}
                    \/ /\ pending' = {w.next} /\ stored = w.snap /\ stored' = stored /\ missed' = missed /\ ~ok
                       /\ Consistent(w.snap, w.next)
      <3>1. ok = FALSE
        BY <2>2
      <3>2. /\ writer' = AfterCommit(r, FALSE) /\ stored = w.snap /\ Consistent(w.snap, w.next)
            /\ stored' = (IF how = "done" THEN w.next ELSE stored)
            /\ pending' = (IF how = "later" THEN {w.next} ELSE {})
            /\ missed' = (IF how = "done" THEN Replicas ELSE missed)
        BY <2>2 DEF CommitLost, UnchangedSince
      <3> HIDE DEF w, ok
      <3> QED
        BY <1>1, <3>1, <3>2 DEF w
    <2> HIDE DEF w
    <2> QED
      BY <2>1, <2>2
  <1>5. ok \in BOOLEAN
    OBVIOUS
  <1>17. astray' \in {astray, Strays(w)} /\ (stored' = stored \/ astray' = Strays(w))
    <2>1. CASE Commit(r)
      BY <2>1, Zenon DEF Commit
    <2>2. ASSUME NEW how \in {"done", "not", "later"}, CommitLost(r, how)
          PROVE  astray' \in {astray, Strays(w)} /\ (stored' = stored \/ astray' = Strays(w))
      BY <2>2, Zenon DEF CommitLost
    <2> QED
      BY <2>1, <2>2
  <1>18. astray \subseteq Strays(w) /\ Strays(w) \subseteq Refs
    <2>1. NamesDead(w) => w.next.key \in Refs
      BY <1>2, SettingsFields DEF NamesDead
    <2> QED
      BY <2>1 DEF Strays, TypeOK
  <1> HIDE DEF ok
  <1>6. PICK v \in SaveType :
          /\ AfterCommit(r, ok) = [writer EXCEPT ![r] = v]
          /\ SaveOK(v) /\ v.done = ok /\ v.pc \in {"idle", "tidy", "read", "notify"}
          /\ v.new \in {w.new, None} /\ v.drop \in {w.drop, None}
          /\ v.snap.key \in {w.snap.key, "?"} /\ v.next.key \in {w.next.key, "?"}
    BY <1>1, <1>5, Committed
  <1>7. writer' = [writer EXCEPT ![r] = v]
    BY <1>4, <1>6
  <1>8. writer' \in [Replicas -> SaveType] /\ SaveInv'
    BY <1>6, <1>7, SaveStep
  <1>9. \A q \in Replicas : writer'[q] = IF q = r THEN v ELSE writer[q]
    BY <1>1, <1>7
  <1>10. stored' \in SettingsType /\ pending' \subseteq SettingsType /\ missed' \subseteq Replicas /\ astray' \subseteq Refs
    BY <1>2, <1>4, <1>17, <1>18 DEF TypeOK
  <1>11. TypeOK'
    BY <1>3, <1>8, <1>10, Zenon DEF TypeOK, Counted
  <1>12. node[r].up /\ ring # NoRing
    BY <1>1 DEF ProcessInv
  <1>13. ProcessInv'
    BY <1>3, <1>9, <1>12 DEF ProcessInv
  <1>14. AnnounceInv'
    <2>1. CASE ok
      BY <1>6, <1>9, <2>1, LoudAnnounce
    <2>2. CASE missed' = Replicas
      BY <2>2, LoudAnnounce
    <2>3. CASE stored' = stored /\ missed' = missed
      BY <1>2, <1>3, <1>9, <2>3, QuietAnnounce
    <2> QED
      BY <1>4, <2>1, <2>2, <2>3
  <1>15. ConsistentInv'
    BY <1>1, <1>4 DEF ConsistentInv, StoredConsistent, Consistent
  <1>16. SecretInv'
    BY <1>1, <1>3, <1>4, <1>6, <1>7, <1>17, <1>18, CommitSecrets
  <1> QED
    BY <1>8, <1>11, <1>13, <1>14, <1>15, <1>16

(* A commit whose client has gone is done in the end.                         *)
LEMMA LandsInv ==
  ASSUME SettingsInv, CommitLands
  PROVE  SettingsInv'
  <1> USE SettingsAssumption DEF SettingsInv, keyring
  <1>1. PICK t \in pending : stored' = t
    BY DEF CommitLands
  <1>2. /\ pending' = {} /\ late' = TRUE /\ missed' = Replicas
        /\ UNCHANGED <<secret, body, ring, cli, node, writer, listener, notes, astray>> /\ Counted
    BY Counts DEF CommitLands
  <1>3. writer' \in [Replicas -> SaveType] /\ SaveInv'
    BY <1>2, KeepSaves
  <1>4. t \in SettingsType /\ pending # {}
    BY <1>1 DEF TypeOK
  <1>5. TypeOK'
    BY <1>1, <1>2, <1>3, <1>4, Zenon DEF TypeOK, Counted
  <1>6. ProcessInv'
    BY <1>2, <1>4 DEF ProcessInv
  <1>7. AnnounceInv'
    BY <1>2, LoudAnnounce
  <1>8. ConsistentInv'
    BY <1>1, <1>2 DEF ConsistentInv, StoredConsistent
  <1>9. SecretInv'
    <2>1. Drawn(stored.key)'
      BY <1>1, <1>2 DEF SecretInv, Drawn
    <2>2. \A q \in Replicas : Drawn(writer[q].snap.key)' /\ Drawn(writer[q].drop)' /\ Drawn(writer[q].new)' /\ Drawn(writer[q].next.key)'
      BY <1>2 DEF SecretInv, Drawn
    <2>3. ASSUME NEW q \in Replicas, writer'[q].pc = "commit", writer'[q].new # None
          PROVE  LET x == writer'[q].new IN
                 /\ x # AccountRef /\ secret'[x].state = "live" /\ stored'.key # x
                 /\ \A p \in Replicas : writer'[p].snap.key # x /\ writer'[p].drop # x
                 /\ \A p \in Replicas \ {q} : writer'[p].new # x /\ writer'[p].next.key # x
      BY <1>1, <1>2, <2>3 DEF SecretInv
    <2>4. ASSUME NEW q \in Replicas, writer'[q].pc = "revoke"
          PROVE  Doubt(writer'[q]) # AccountRef
      BY <1>2, <2>4 DEF SecretInv, Doubtful, Doubt
    <2>5. SecretsLive'
      BY <1>2 DEF SecretInv, SecretsLive
    <2> QED
      BY <1>2, <2>1, <2>2, <2>3, <2>4, <2>5 DEF SecretInv, Drawn, Doubtful, Doubt
  <1> QED
    BY <1>3, <1>5, <1>6, <1>7, <1>8, <1>9

-----------------------------------------------------------------------------
(* Initially, and by every step.                                              *)
LEMMA InitInv == Init => SettingsInv
  <1> SUFFICES ASSUME Init PROVE SettingsInv
    OBVIOUS
  <1> USE SettingsAssumption DEF Init
  <1>1. stored \in SettingsType /\ ~stored.proxy
    BY DEF SettingsType
  <1>2. None \in KeyIds /\ NoRing \in RingType
    BY DEF KeyIds, NoRing, RingType
  <1>3. \A r \in Replicas : writer[r] = NoSave /\ node[r] = Down /\ listener[r] = Nothing
    OBVIOUS
  <1>4. writer \in [Replicas -> SaveType] /\ SaveInv
    <2>1. SavesOK
      BY NoSaveOK DEF SavesOK
    <2> QED
      BY <2>1, Saves
  <1>5. secret \in [Refs -> RowType] /\ \A s \in Refs : secret[s].state = "none"
    BY <1>2 DEF RowType
  <1>6. cli \in CliType /\ cli.pc = "idle"
    BY <1>2 DEF NoCli, CliType
  <1>7. node \in [Replicas -> NodeType] /\ listener \in [Replicas -> AnySettings]
    BY DownType, NothingType
  <1>8. changes \in 0..MaxChanges /\ faults \in 0..MaxFaults
    OBVIOUS
  <1>9. TypeOK
    BY <1>1, <1>2, <1>4, <1>5, <1>6, <1>7, <1>8 DEF TypeOK, RowType, CliType
  <1>10. ProcessInv
    BY <1>1, <1>3, <1>5, <1>6, DownType DEF ProcessInv
  <1>11. AnnounceInv
    BY <1>3, DownType DEF AnnounceInv
  <1>12. ConsistentInv
    BY <1>1 DEF ConsistentInv, StoredConsistent
  <1>13. SecretInv
    BY <1>1, <1>3, NoSaveOK DEF SecretInv, SecretsLive, Drawn, None
  <1> QED
    BY <1>4, <1>9, <1>10, <1>11, <1>12, <1>13 DEF SettingsInv

LEMMA StepInv == SettingsInv /\ [Next]_vars => SettingsInv'
  <1> SUFFICES ASSUME SettingsInv, [Next]_vars PROVE SettingsInv'
    OBVIOUS
  <1>1. CASE UNCHANGED vars
    BY <1>1 DEF vars, SettingsInv, TypeOK, ProcessInv, SaveInv, AnnounceInv, ConsistentInv, StoredConsistent,
                SecretInv, SecretsLive, Drawn, Doubtful
  <1>2. CASE Next
    BY <1>2, BootInv, ReloadInv, FormInv, BeginInv, RegisterInv, CommitInv, LandsInv, TidyInv, RevokeInv, ApplyInv,
       NotifyInv, CrashInv, RotateSecretInv, KeyRotateInv DEF Next
  <1> QED
    BY <1>1, <1>2

(* The inductive invariant of the whole module (application/settings*.go,     *)
(* pgstore, secretstore and the keyring command).                             *)
THEOREM SettingsInvariant == Spec => []SettingsInv
  BY InitInv, StepInv, PTL DEF Spec

(* Stored settings never name a revoked secret, and no save revokes the       *)
(* password of an account (revokeUnreferencedSettingSecrets): whatever fails, *)
(* conflicts or is lost, except after a commit done behind the back of its    *)
(* client, or one that named by hand a reference dead or about to be.         *)
THEOREM SecretsSafety == Spec => []SecretsLive
  <1>1. SettingsInv => SecretsLive
    BY DEF SettingsInv, SecretInv
  <1> QED
    BY <1>1, SettingsInvariant, PTL

(* A replica that no notification is on its way to, that lost none and whose  *)
(* reads after one succeeded, runs with what is stored (NotifySettingsChange, *)
(* applyRuntimeSettings).                                                     *)
THEOREM RuntimeSafety == Spec => []RuntimeFollows
  <1>1. SettingsInv => RuntimeFollows
    <2> SUFFICES ASSUME SettingsInv, \A r \in Replicas : ~writer[r].done, NEW r \in Replicas,
                        node[r].up, r \notin notes \cup missed, listener[r] = Nothing
                 PROVE  node[r].runs = stored
      BY DEF RuntimeFollows
    <2>1. stored # Nothing
      BY SettingsFields DEF SettingsInv, TypeOK
    <2> QED
      BY <2>1 DEF SettingsInv, AnnounceInv
  <1> QED
    BY <1>1, SettingsInvariant, PTL

(* The OAuth proxy is never stored on without OAuth                           *)
(* (CompareAndSwapAdminSettings).                                             *)
THEOREM ConsistentSafety == Spec => []StoredConsistent
  <1>1. SettingsInv => StoredConsistent
    BY DEF SettingsInv, ConsistentInv
  <1> QED
    BY <1>1, SettingsInvariant, PTL

-----------------------------------------------------------------------------
(* The keyring, when old keys are not retired.                                *)
LEMMA RingInit == Init => RingInv
  <1> SUFFICES ASSUME Init PROVE RingInv
    OBVIOUS
  <1> QED
    BY DownType DEF Init, RingInv, NoCli

(* Steps that touch neither the keyring nor the command: whatever they write  *)
(* is wrapped under a key of the stored keyring.                              *)
LEMMA RingKept ==
  ASSUME RingInv, UNCHANGED keyring,
         \A r \in Replicas : node'[r].up => node[r].up /\ node'[r].ring = node[r].ring,
         \A s \in Refs : secret'[s].state = "live" => secret'[s] = secret[s] \/ secret'[s].key \in ring.keys
  PROVE  RingInv'
  <1>1. ring' = ring /\ cli' = cli /\ body' = body /\ WrapRing' = WrapRing
    BY DEF keyring, WrapRing
  <1>2. ring.keys \subseteq WrapRing.keys
    BY DEF RingInv, WrapRing
  <1> QED
    BY <1>1, <1>2 DEF RingInv, Opens

LEMMA RingPut ==
  ASSUME SettingsInv, RingInv, UNCHANGED keyring, node' = node, NEW s \in Refs, NEW k \in KeyIds,
         k \in ring.keys, secret' = [secret EXCEPT ![s] = [state |-> "live", key |-> k]]
  PROVE  RingInv'
  <1>1. \A t \in Refs : secret'[t] = IF t = s THEN [state |-> "live", key |-> k] ELSE secret[t]
    BY SecretTypes, LiveStep
  <1> QED
    BY <1>1, RingKept

LEMMA RingReplica ==
  ASSUME SettingsInv, RingInv, NEW r \in Replicas,
         \/ Listen(r) \/ ApplyRuntimeSettings(r) \/ (\E ai \in BOOLEAN : ReadBackFailed(r, ai)) \/ ReloadApply(r) \/ Disconnect(r) \/ Crash(r)
         \/ RevokeSecret(r) \/ RegisterSecret(r) \/ RotateSecret(r)
  PROVE  RingInv'
  <1>1. node \in [Replicas -> NodeType] /\ writer[r] \in SaveType /\ listener[r] \in AnySettings
    BY DEF SettingsInv, TypeOK
  <1>2. writer[r].snap \in AnySettings /\ TRUE \in BOOLEAN /\ FALSE \in BOOLEAN
    BY <1>1, SaveFields
  <1>3. CASE Listen(r)
    BY <1>1, <1>2, <1>3, ListensStep, RingKept DEF Listen
  <1>4. CASE Disconnect(r)
    BY <1>1, <1>2, <1>4, ListensStep, RingKept DEF Disconnect
  <1>5. CASE ApplyRuntimeSettings(r) \/ \E ai \in BOOLEAN : ReadBackFailed(r, ai)
    <2>1. \A q \in Replicas : node'[q].up = node[q].up /\ node'[q].ring = node[q].ring
      BY <1>5, AppliedNode
    <2> QED
      BY <1>5, <2>1, RingKept DEF ApplyRuntimeSettings, ReadBackFailed
  <1>6. CASE ReloadApply(r)
    BY <1>1, <1>6, RunsStep, RingKept DEF ReloadApply
  <1>7. CASE Crash(r)
    <2>1. \A q \in Replicas : node'[q] = IF q = r THEN Down ELSE node[q]
      BY <1>1, <1>7 DEF Crash
    <2> QED
      BY <1>7, <2>1, DownType, RingKept DEF Crash
  <1>8. CASE RevokeSecret(r)
    <2> DEFINE d == Doubtful(r)
    <2>1. UNCHANGED keyring /\ node' = node /\ secret' = [secret EXCEPT ![d] = [state |-> "revoked", key |-> None]]
      BY <1>8 DEF RevokeSecret
    <2> HIDE DEF d
    <2>2. \A s \in Refs : secret'[s].state = "live" => secret'[s] = secret[s]
      BY <2>1, SecretTypes
    <2> QED
      BY <2>1, <2>2, RingKept
  <1>9. CASE RegisterSecret(r) \/ RotateSecret(r)
    <2>1. node[r].up
      <3>1. RegisterSecret(r) => writer[r] # NoSave
        BY NoSaveOK, Zenon DEF RegisterSecret
      <3> QED
        BY <1>9, <3>1 DEF SettingsInv, ProcessInv, RotateSecret
    <2>2. node[r].ring.current \in KeyIds /\ node[r].ring.current \in ring.keys
      BY <2>1, SecretTypes, RingFields DEF RingInv
    <2>3. \E s \in Refs : secret' = Put(r, s)
      <3>1. CASE RegisterSecret(r)
        <4> DEFINE s == CHOOSE s \in Unused : TRUE
        <4>1. s \in Unused /\ secret' = Put(r, s)
          BY <3>1, Zenon DEF RegisterSecret
        <4> HIDE DEF s
        <4> QED
          BY <4>1 DEF Unused
      <3>2. CASE RotateSecret(r)
        BY <3>2, SettingsAssumption DEF RotateSecret
      <3> QED
        BY <1>9, <3>1, <3>2
    <2>4. UNCHANGED keyring /\ node' = node
      BY <1>9, Zenon DEF RegisterSecret, RotateSecret
    <2> QED
      BY <2>2, <2>3, <2>4, RingPut DEF Put
  <1> QED
    BY <1>3, <1>4, <1>5, <1>6, <1>7, <1>8, <1>9

(* The first process to start writes the keyring, the others read it.         *)
LEMMA RingBoot ==
  ASSUME SettingsInv, RingInv, NEW r \in Replicas, Boot(r)
  PROVE  RingInv'
  <1>1. ring' = ResolveKEK(r) /\ cli' = cli
    BY DEF Boot
  <1>2. \A q \in Replicas : node'[q] = IF q = r THEN Started(r) ELSE node[q]
    BY DEF Boot, SettingsInv, TypeOK
  <1>3. Started(r).ring = ring'
    BY <1>1 DEF Started
  <1>4. CASE ring = NoRing
    <2> DEFINE g == [keys |-> {r}, current |-> r]
    <2>1. /\ ring' = g /\ body' = r /\ secret' = MigrateLocalFileToDB(r)
          /\ cli.pc = "idle"
      BY <1>1, <1>4 DEF Boot, ResolveKEK, SettingsInv, ProcessInv
    <2>2. g.keys = {r} /\ g.current = r
      OBVIOUS
    <2>4. \A t \in Refs :
             secret'[t] = IF t \in {AccountRef, stored.key} THEN [state |-> "live", key |-> r] ELSE secret[t]
      BY <2>1 DEF MigrateLocalFileToDB
    <2>5. \A t \in Refs : secret'[t].state = "live" => secret'[t].key = r
      BY <1>4, <2>4 DEF SettingsInv, ProcessInv
    <2>6. \A q \in Replicas : node'[q].up => q = r
      BY <1>2, <1>4 DEF SettingsInv, ProcessInv
    <2>7. WrapRing' = ring'
      BY <1>1, <2>1 DEF WrapRing
    <2> HIDE DEF g
    <2> QED
      BY <1>1, <1>2, <1>3, <2>1, <2>2, <2>5, <2>6, <2>7 DEF RingInv, Opens
  <1>5. CASE ring # NoRing
    <2>1. ring' = ring /\ body' = body /\ secret' = secret /\ WrapRing' = WrapRing
      BY <1>1, <1>5 DEF Boot, ResolveKEK, WrapRing
    <2> QED
      BY <1>1, <1>2, <1>3, <1>5, <2>1 DEF RingInv, Opens
  <1> QED
    BY <1>4, <1>5

(* The command wraps under its new keyring, which holds the old keys, and     *)
(* stores it at the end.                                                      *)
LEMMA RingRotate ==
  ASSUME SettingsInv, RingInv, ~Retire,
         (\E k \in Keys : KeyRotate(k)) \/ (\E s \in Refs : RewrapOne(s)) \/ RewrapBodies \/ RotateAborted \/ RotatePersist
  PROVE  RingInv'
  <1>1. /\ cli \in CliType /\ cli.ring \in RingType /\ cli.ring.current \in KeyIds /\ cli.torn \in BOOLEAN
        /\ ring \in RingType /\ ring.keys \subseteq KeyIds /\ secret \in [Refs -> RowType]
    BY SecretTypes, CliFields, RingFields
  <1>2. ASSUME NEW k \in Keys, KeyRotate(k) PROVE RingInv'
    <2> DEFINE g == [keys |-> ring.keys \cup {k}, current |-> k]
               rows == {s \in Refs : secret[s].state = "live"}
    <2>1. g.keys = ring.keys \cup {k} /\ g.current = k
      OBVIOUS
    <2>2. /\ cli' = [cli EXCEPT !.pc = "rewrap", !.ring = g, !.rows = rows] /\ UNCHANGED <<ring, body, secret, node>>
          /\ cli.pc = "idle" /\ ring # NoRing
      BY <1>2, Zenon DEF KeyRotate
    <2> HIDE DEF g, rows
    <2>3. cli'.pc = "rewrap" /\ cli'.ring = g /\ cli'.torn = cli.torn
      BY <1>1, <2>2 DEF CliType
    <2>4. WrapRing = ring /\ WrapRing' = g
      BY <2>2, <2>3 DEF WrapRing
    <2> QED
      BY <2>1, <2>2, <2>3, <2>4 DEF RingInv, Opens
  <1>3. ASSUME NEW s \in Refs, RewrapOne(s) PROVE RingInv'
    <2> DEFINE rest == cli.rows \ {s}
    <2>1. /\ cli' = [cli EXCEPT !.rows = rest] /\ cli.pc = "rewrap" /\ UNCHANGED <<ring, body, node>>
          /\ secret' = [secret EXCEPT ![s] = [state |-> "live", key |-> cli.ring.current]]
      BY <1>3 DEF RewrapOne
    <2> HIDE DEF rest
    <2>2. cli'.pc = cli.pc /\ cli'.ring = cli.ring /\ cli'.torn = cli.torn
      BY <1>1, <2>1 DEF CliType
    <2>3. \A t \in Refs : secret'[t] = IF t = s THEN [state |-> "live", key |-> cli.ring.current] ELSE secret[t]
      BY <1>1, <2>1, LiveStep
    <2>4. WrapRing = cli.ring /\ WrapRing' = cli.ring
      BY <2>1, <2>2 DEF WrapRing
    <2> QED
      BY <2>1, <2>2, <2>3, <2>4 DEF RingInv, Opens
  <1>4. CASE RewrapBodies
    <2>1. /\ cli' = [cli EXCEPT !.pc = "persist"] /\ cli.pc = "rewrap" /\ UNCHANGED <<ring, secret, node>>
          /\ body' = cli.ring.current
      BY <1>4 DEF RewrapBodies
    <2>2. cli'.pc = "persist" /\ cli'.ring = cli.ring /\ cli'.torn = cli.torn
      BY <1>1, <2>1 DEF CliType
    <2>3. WrapRing = cli.ring /\ WrapRing' = cli.ring
      BY <2>1, <2>2 DEF WrapRing
    <2> QED
      BY <2>1, <2>2, <2>3 DEF RingInv, Opens
  <1>5. CASE RotateAborted
    <2>1. cli' = [NoCli EXCEPT !.torn = TRUE] /\ UNCHANGED <<ring, body, secret, node>>
      BY <1>5 DEF RotateAborted
    <2>2. cli'.pc = "idle" /\ cli'.torn
      BY <2>1, NoCliType
    <2> QED
      BY <2>1, <2>2 DEF RingInv
  <1>6. CASE RotatePersist
    <2>1. cli' = [NoCli EXCEPT !.torn = cli.torn] /\ ring' = cli.ring /\ UNCHANGED <<body, secret, node>> /\ cli.pc = "persist"
      BY <1>6 DEF RotatePersist, StoredRing
    <2>2. cli'.pc = "idle" /\ cli'.torn = cli.torn
      BY <1>1, <2>1, NoCliType
    <2>3. WrapRing = cli.ring /\ WrapRing' = cli.ring
      BY <2>1, <2>2 DEF WrapRing
    <2> QED
      BY <2>1, <2>2, <2>3 DEF RingInv, Opens
  <1> QED
    BY <1>2, <1>3, <1>4, <1>5, <1>6

LEMMA RingSecretCmd ==
  ASSUME SettingsInv, RingInv, NEW s \in Refs, SecretCmd(s)
  PROVE  RingInv'
  <1>1. ring.current \in KeyIds /\ ring.current \in ring.keys
    BY SecretTypes, RingFields DEF RingInv, SecretCmd
  <1> QED
    BY <1>1, RingPut DEF SecretCmd

(* Every other step leaves secrets, keys and processes as they are.           *)
LEMMA RingStep == ~Retire /\ SettingsInv /\ RingInv /\ [Next]_vars => RingInv'
  <1> SUFFICES ASSUME ~Retire, SettingsInv, RingInv, [Next]_vars PROVE RingInv'
    OBVIOUS
  <1>1. CASE UNCHANGED <<secret, keyring, node>>
    BY <1>1, RingKept
  <1>2. CASE Next /\ ~UNCHANGED <<secret, keyring, node>>
    <2>1. ASSUME NEW r \in Replicas,
                 \/ AdminSettingsCatalog(r) \/ (\E v : Begin(r, v)) \/ Commit(r)
                 \/ (\E how \in {"done", "not", "later"} : CommitLost(r, how)) \/ CommitLands
                 \/ RevokeUnreferenced(r) \/ TidyUnread(r) \/ ReadBack(r) \/ NotifySettingsChange(r)
                 \/ NotifyLost(r) \/ ReloadRead(r) \/ ReloadUnread(r)
          PROVE  UNCHANGED <<secret, keyring, node>>
      BY <2>1 DEF AdminSettingsCatalog, Begin, Commit, CommitLost, CommitLands, RevokeUnreferenced, TidyUnread, ReadBack,
                  NotifySettingsChange, NotifyLost, ReloadRead, ReloadUnread
    <2>2. CommitLands => UNCHANGED <<secret, keyring, node>>
      BY DEF CommitLands
    <2>3. ASSUME NEW r \in Replicas, NEW edit, NEW key, NEW drops, AdminPatchSettings(r, edit, key, drops)
          PROVE  \E v : Begin(r, v)
      BY <2>3, Zenon DEF AdminPatchSettings
    <2>4. ASSUME NEW r \in Replicas, NEW edit, NEW key, NEW drops, AdminSaveSettings(r, edit, key, drops)
          PROVE  \E v : Begin(r, v)
      BY <2>4, Zenon DEF AdminSaveSettings
    <2>5. ASSUME NEW r \in Replicas, NEW key, AdminSaveAISettings(r, key) PROVE \E v : Begin(r, v)
      BY <2>5, Zenon DEF AdminSaveAISettings
    <2>6. ASSUME NEW r \in Replicas, AdminAllowTrackingHost(r) PROVE \E v : Begin(r, v)
      BY <2>6, Zenon DEF AdminAllowTrackingHost
    <2>7. \A pc : Savers(pc) \subseteq Replicas
      BY DEF Savers
    <2> QED
      BY <1>2, <2>1, <2>2, <2>3, <2>4, <2>5, <2>6, <2>7, RingReplica, RingBoot, RingRotate, RingSecretCmd DEF Next
  <1>3. UNCHANGED vars => UNCHANGED <<secret, keyring, node>>
    BY DEF vars, keyring
  <1> QED
    BY <1>1, <1>2, <1>3

(* After a rotation that was not cut off, the stored keyring opens every live *)
(* secret and the bodies, also those that a running replica wrote under its   *)
(* older keyring meanwhile (postra key rotate, without --retire-old).         *)
THEOREM RotationSafety ==
  ASSUME ~Retire
  PROVE  Spec => []RotationKeepsSecrets
  <1>1. Init => SettingsInv /\ RingInv
    BY InitInv, RingInit
  <1>2. SettingsInv /\ RingInv /\ [Next]_vars => SettingsInv' /\ RingInv'
    BY StepInv, RingStep
  <1>3. RingInv => RotationKeepsSecrets
    BY DEF RingInv, RotationKeepsSecrets, RingOpensAll, WrapRing
  <1> QED
    BY <1>1, <1>2, <1>3, PTL DEF Spec
=============================================================================
