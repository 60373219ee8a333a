--------------------------- MODULE ProviderProofs ---------------------------
(* Proofs about Provider, for any configurations, calls and answers of the    *)
(* model server: what leaves the house, what is sent twice, whose limits and  *)
(* whose cached answer a call gets, and that no caller waits for nothing.     *)
EXTENDS Provider, FiniteSetTheorems, TLAPS

-----------------------------------------------------------------------------
(* What the invariant says of one call, as the live configuration and the     *)
(* running lookups stand.                                                     *)
CallOK(q, lv, pend) ==
  /\ q \in CallType
  /\ lv \in q.seen /\ q.snap \in q.seen
  /\ q.pc \notin {"lookup", "call"} => q.route \in {RouteForTask(q.snap, q.kind), q.snap.default}
  /\ q.pc \in Sending =>
       /\ CheckTaskAIPolicy(q.snap, q.route) /\ (q.snap.mask /\ IsOutside(q.route) => q.out)
       /\ q.own \in Identities
  /\ q.pc = "lookup" => q.kind = "generate"
  /\ SentSoFar(q)
  /\ q.meta # NoLimits => q.meta.by = q.own
  /\ q.pc = "wait" => \E p \in pend : p.key = ModelLimitsKey(q)

DoneOK(q) == q \in DoneType /\ (q.result = "cached" => q.from = q.routed)

ReqOK(q, lv, pend) == q = Idle \/ DoneOK(q) \/ CallOK(q, lv, pend)

ReqType == {Idle} \cup DoneType \cup CallType

CallPcs == {"lookup", "call", "check", "limits", "wait", "budget", "post", "posted", "save"}

LEMMA Stages ==
  ASSUME NEW q \in ReqType
  PROVE  /\ q.pc \in {"idle", "done"} \cup CallPcs
         /\ q \in CallType <=> q.pc \in CallPcs
         /\ q \in DoneType <=> q.pc = "done"
         /\ q = Idle <=> q.pc = "idle"
  <1>1. CASE q = Idle
    <2>1. q.pc = "idle"
      BY <1>1 DEF Idle
    <2>2. q \notin CallType /\ q \notin DoneType
      BY <2>1 DEF CallType, DoneType
    <2> QED
      BY <1>1, <2>1, <2>2 DEF CallPcs
  <1>2. CASE q \in DoneType
    <2>1. q.pc = "done"
      BY <1>2 DEF DoneType
    <2>2. q \notin CallType /\ q # Idle
      BY <2>1 DEF CallType, Idle
    <2> QED
      BY <1>2, <2>1, <2>2 DEF CallPcs
  <1>3. CASE q \in CallType
    <2>1. q.pc \in CallPcs
      BY <1>3 DEF CallType, CallPcs
    <2>2. q \notin DoneType /\ q # Idle
      BY <2>1 DEF DoneType, Idle, CallPcs
    <2> QED
      BY <1>3, <2>1, <2>2 DEF CallPcs
  <1> QED
    BY <1>1, <1>2, <1>3 DEF ReqType

(* The parts about calls, taken together.                                     *)
CallParts == SeenInv /\ RouteInv /\ SentInv /\ OwnLimits /\ NobodyStranded /\ CacheIsRouted

LEMMA Parts ==
  ASSUME req \in [Requests -> ReqType]
  PROVE  CallParts <=> \A r \in Requests : ReqOK(req[r], live, pending)
  <1> DEFINE P(r) ==
        /\ Active(r) => live \in req[r].seen /\ req[r].snap \in req[r].seen
        /\ Active(r) =>
             /\ req[r].pc \notin {"lookup", "call"} =>
                  req[r].route \in {RouteForTask(req[r].snap, req[r].kind), req[r].snap.default}
             /\ req[r].pc \in Sending =>
                  /\ CheckTaskAIPolicy(req[r].snap, req[r].route)
                  /\ (req[r].snap.mask /\ IsOutside(req[r].route) => req[r].out)
                  /\ req[r].own \in Identities
             /\ req[r].pc = "lookup" => req[r].kind = "generate"
        /\ Active(r) => SentSoFar(req[r])
        /\ Active(r) /\ req[r].meta # NoLimits => req[r].meta.by = req[r].own
        /\ req[r].pc = "wait" => Running(ModelLimitsKey(req[r])) # {}
        /\ req[r].pc = "done" /\ req[r].result = "cached" => req[r].from = req[r].routed
  <1>1. CallParts <=> \A r \in Requests : P(r)
    BY Zenon DEF CallParts, SeenInv, RouteInv, SentInv, OwnLimits, NobodyStranded, CacheIsRouted
  <1>2. ASSUME NEW r \in Requests PROVE P(r) <=> ReqOK(req[r], live, pending)
    <2> DEFINE q == req[r]
    <2>1. /\ q.pc \in {"idle", "done"} \cup CallPcs
          /\ q \in CallType <=> q.pc \in CallPcs
          /\ q \in DoneType <=> q.pc = "done"
          /\ q = Idle <=> q.pc = "idle"
      BY Stages
    <2>2. Running(ModelLimitsKey(q)) # {} <=> \E p \in pending : p.key = ModelLimitsKey(q)
      BY DEF Running
    <2>3. CASE q.pc = "idle"
      BY <2>1, <2>3 DEF Active, ReqOK
    <2>4. CASE q.pc = "done"
      BY <2>1, <2>4 DEF Active, ReqOK, DoneOK, CallOK, CallPcs
    <2>5. CASE q.pc \in CallPcs
      <3>1. Active(r) /\ q.pc # "idle" /\ q.pc # "done"
        BY <2>5 DEF Active, CallPcs
      <3>2. ReqOK(q, live, pending) <=> CallOK(q, live, pending)
        BY <2>1, <3>1 DEF ReqOK, DoneOK
      <3> QED
        BY <2>1, <2>2, <2>5, <3>1, <3>2, Zenon DEF CallOK
    <2> QED
      BY <2>1, <2>3, <2>4, <2>5
  <1> HIDE DEF P
  <1> QED
    BY <1>1, <1>2

-----------------------------------------------------------------------------
(* Records.                                                                   *)
SentType == [posts : Nat, failed : SUBSET Routes, spent : BOOLEAN]

LEMMA CallFields ==
  ASSUME NEW q \in CallType
  PROVE  /\ q.pc \in CallPcs /\ q.kind \in Kinds /\ q.prompt \in Prompts /\ q.cfg \in Configs
         /\ q.seen \subseteq Configs /\ q.snap \in Configs /\ q.route \in Routes
         /\ q.masked \in BOOLEAN /\ q.out \in BOOLEAN /\ q.own \in Identities \cup {<<>>}
         /\ q.meta \in Reported \cup {NoLimits} /\ q.budget \in Nat
         /\ q.adjusted \in BOOLEAN /\ q.second \in BOOLEAN
         /\ q.sent \in SentType /\ q.sent.posts \in Nat /\ q.sent.failed \subseteq Routes
  <1>1. q.sent \in SentType
    BY Zenon DEF CallType, SentType
  <1>2. q.sent.posts \in Nat /\ q.sent.failed \subseteq Routes
    BY <1>1 DEF SentType
  <1> QED
    BY <1>1, <1>2, Zenon DEF CallType, CallPcs

(* What the steps make of a call.                                             *)
LEMMA CallEdits ==
  ASSUME NEW q \in CallType, NEW x \in CallPcs
  PROVE  /\ [q EXCEPT !.pc = x] \in CallType
         /\ \A c \in Configs, t \in Routes : [q EXCEPT !.snap = c, !.route = t, !.pc = x] \in CallType
         /\ \A t \in Routes, u \in SentType : [q EXCEPT !.route = t, !.second = TRUE, !.sent = u, !.pc = x] \in CallType
         /\ \A o \in BOOLEAN, w \in Identities : [q EXCEPT !.out = o, !.own = w, !.meta = NoLimits, !.pc = x] \in CallType
         /\ \A v \in Reported : [q EXCEPT !.meta = v, !.pc = x] \in CallType
         /\ \A n \in Nat, a \in BOOLEAN : [q EXCEPT !.budget = n, !.pc = x, !.adjusted = a] \in CallType
         /\ \A n \in Nat, a \in BOOLEAN : [q EXCEPT !.budget = n, !.adjusted = a, !.pc = x] \in CallType
         /\ \A a \in BOOLEAN : [q EXCEPT !.adjusted = a, !.pc = x] \in CallType
         /\ \A u \in SentType : [q EXCEPT !.pc = x, !.sent = u] \in CallType
         /\ \A S \in SUBSET Configs : [q EXCEPT !.seen = S] \in CallType
  <1>1. [q EXCEPT !.pc = x] \in CallType
    BY Zenon DEF CallType, CallPcs
  <1>2. \A c \in Configs, t \in Routes : [q EXCEPT !.snap = c, !.route = t, !.pc = x] \in CallType
    BY Zenon DEF CallType, CallPcs
  <1>3. \A t \in Routes, u \in SentType : [q EXCEPT !.route = t, !.second = TRUE, !.sent = u, !.pc = x] \in CallType
    BY Zenon DEF CallType, CallPcs, SentType
  <1>4. \A o \in BOOLEAN, w \in Identities : [q EXCEPT !.out = o, !.own = w, !.meta = NoLimits, !.pc = x] \in CallType
    BY Zenon DEF CallType, CallPcs
  <1>5. \A v \in Reported : [q EXCEPT !.meta = v, !.pc = x] \in CallType
    BY Zenon DEF CallType, CallPcs
  <1>6. \A n \in Nat, a \in BOOLEAN : [q EXCEPT !.budget = n, !.pc = x, !.adjusted = a] \in CallType
    BY Zenon DEF CallType, CallPcs
  <1>7. \A n \in Nat, a \in BOOLEAN : [q EXCEPT !.budget = n, !.adjusted = a, !.pc = x] \in CallType
    BY Zenon DEF CallType, CallPcs
  <1>8. \A a \in BOOLEAN : [q EXCEPT !.adjusted = a, !.pc = x] \in CallType
    BY Zenon DEF CallType, CallPcs
  <1>9. \A u \in SentType : [q EXCEPT !.pc = x, !.sent = u] \in CallType
    BY Zenon DEF CallType, CallPcs, SentType
  <1>10. \A S \in SUBSET Configs : [q EXCEPT !.seen = S] \in CallType
    BY Zenon DEF CallType, CallPcs
  <1> QED
    BY <1>1, <1>2, <1>3, <1>4, <1>5, <1>6, <1>7, <1>8, <1>9, <1>10

(* What a call has sent is what it had sent, between the check of its route   *)
(* and the post, and wherever its stage does not change.                      *)
LEMMA SentKept ==
  ASSUME NEW q \in CallType, NEW v \in CallType, SentSoFar(q),
         v.kind = q.kind, v.snap = q.snap, v.route = q.route,
         v.adjusted = q.adjusted, v.second = q.second, v.sent = q.sent,
         \/ v.pc = q.pc
         \/ q.pc = "lookup" /\ v.pc = "call"
         \/ q.pc \in {"check", "limits", "wait", "budget"} /\ v.pc \in {"check", "limits", "wait", "budget"}
  PROVE  SentSoFar(v)
  <1>1. PostsHere(v) = PostsHere(q)
    BY DEF PostsHere
  <1> QED
    BY <1>1, Zenon DEF SentSoFar

LEMMA RefusedOK ==
  ASSUME NEW q, q.kind \in Kinds, NEW why \in {"policy", "error", "limits", "vectors", "answer"}
  PROVE  DoneOK(Refused(q, why))
  <1>1. Refused(q, why) \in DoneType
    BY DEF Refused, DoneType
  <1>2. Refused(q, why).result = why
    BY DEF Refused
  <1> QED
    BY <1>1, <1>2 DEF DoneOK

-----------------------------------------------------------------------------
(* Numbers.                                                                   *)

(* The least positive of a few numbers is one of them, or 0 if there is none. *)
LEMMA MinPositiveOf ==
  ASSUME NEW a \in Int, NEW b \in Int, NEW c \in Int
  PROVE  /\ MinPositive({a, b, c}) \in {n \in {a, b, c} : n > 0} \cup {0}
         /\ \A n \in {a, b, c} : n > 0 => MinPositive({a, b, c}) > 0 /\ MinPositive({a, b, c}) <= n
  <1> DEFINE P == {n \in {a, b, c} : n > 0}
  <1>1. CASE P = {}
    BY <1>1 DEF MinPositive
  <1>2. CASE P # {}
    <2>1. \E m \in P : \A n \in P : m <= n
      BY <1>2
    <2>2. Min(P) \in P /\ \A n \in P : Min(P) <= n
      BY <2>1 DEF Min
    <2> QED
      BY <1>2, <2>2 DEF MinPositive
  <1> QED
    BY <1>1, <1>2

-----------------------------------------------------------------------------
(* The invariant in two halves: the calls, and everything else.               *)
ReqsOK ==
  /\ req \in [Requests -> ReqType]
  /\ \A r \in Requests : ReqOK(req[r], live, pending)

SettingsOK ==
  /\ stored \in Configs /\ app \in Configs /\ live \in Configs
  /\ applying \in [{"save", "reload"} -> {Unset} \cup [pc : {"read", "app", "adapter"}, cfg : Configs]]
  /\ note \in BOOLEAN /\ credential \in 0..changes /\ changes \in 0..MaxChanges

LimitsOK ==
  /\ limits \subseteq [key : Keys, value : Reported, fresh : BOOLEAN]
  /\ \A e \in limits : e.value.by = e.key[1]

PendingOK ==
  /\ pending \subseteq [key : Keys, by : Identities, n : {0}]
  /\ \A p \in pending : p.by = p.key[1]

AnalysesOK == \A a \in analyses : a.model \in Models /\ a.from \in Models /\ a.model = a.from

LEMMA Halves == ProviderInv <=> ReqsOK /\ SettingsOK /\ LimitsOK /\ PendingOK /\ AnalysesOK
  <1>1. TypeOK => req \in [Requests -> ReqType]
    BY DEF TypeOK, ReqType
  <1>2. ReqsOK <=> req \in [Requests -> ReqType] /\ CallParts
    BY Parts DEF ReqsOK
  <1> QED
    BY <1>1, <1>2, Zenon DEF ProviderInv, TypeOK, ReqType, LimitsInv, AnalysesInv, CallParts,
                             SettingsOK, LimitsOK, PendingOK, AnalysesOK

LEMMA HalvesNext == ReqsOK' /\ SettingsOK' /\ LimitsOK' /\ PendingOK' /\ AnalysesOK' => ProviderInv'
  BY Halves, PTL

(* A call stays as good when more lookups run.                                *)
LEMMA MoreLookups ==
  ASSUME NEW q, NEW lv, NEW A, NEW B, A \subseteq B, ReqOK(q, lv, A)
  PROVE  ReqOK(q, lv, B)
  BY DEF ReqOK, CallOK

(* One call changes.                                                          *)
LEMMA OneCall ==
  ASSUME ReqsOK, NEW r \in Requests, NEW v, req' = [req EXCEPT ![r] = v], ReqOK(v, live, pending'),
         live' = live, pending \subseteq pending'
  PROVE  ReqsOK'
  <1>1. v \in ReqType
    BY DEF ReqOK, ReqType, DoneOK, CallOK
  <1>2. /\ req' \in [Requests -> ReqType] /\ req'[r] = v
        /\ \A x \in Requests \ {r} : req'[x] = req[x]
    BY <1>1 DEF ReqsOK
  <1>3. ASSUME NEW x \in Requests PROVE ReqOK(req'[x], live, pending')
    <2>1. CASE x = r
      BY <1>2, <2>1
    <2>2. CASE x # r
      BY <1>2, <2>2, MoreLookups DEF ReqsOK
    <2> QED
      BY <2>1, <2>2
  <1> QED
    BY <1>2, <1>3 DEF ReqsOK

(* A request at a stage of a call is a call.                                  *)
LEMMA AtStage ==
  ASSUME ReqsOK, NEW r \in Requests, req[r].pc \in CallPcs
  PROVE  CallOK(req[r], live, pending) /\ req[r] \in CallType
  <1>1. req[r] \in ReqType /\ ReqOK(req[r], live, pending)
    BY DEF ReqsOK
  <1>2. req[r] # Idle /\ req[r] \notin DoneType
    BY <1>1, Stages DEF CallPcs
  <1> QED
    BY <1>1, <1>2 DEF ReqOK, DoneOK, CallOK

(* The ends of a call that nobody has to check.                               *)
LEMMA RefusedStep ==
  ASSUME ReqsOK, NEW r \in Requests, req[r].pc \in CallPcs, UNCHANGED <<live, pending>>,
         NEW why \in {"policy", "error", "limits", "vectors", "answer"},
         req' = [req EXCEPT ![r] = Refused(req[r], why)]
  PROVE  ReqsOK'
  <1>1. req[r].kind \in Kinds
    BY AtStage, CallFields
  <1>2. ReqOK(Refused(req[r], why), live, pending')
    BY <1>1, RefusedOK DEF ReqOK
  <1> QED
    BY <1>2, OneCall

(* No analysis is found.                                                      *)
LEMMA GoesOn ==
  ASSUME ReqsOK, NEW r \in Requests, UNCHANGED <<live, pending>>,
         req[r].pc = "lookup", req' = [req EXCEPT ![r].pc = "call"]
  PROVE  ReqsOK'
  <1> DEFINE q == req[r]
             v == [q EXCEPT !.pc = "call"]
  <1>1. CallOK(q, live, pending) /\ q \in CallType
    BY AtStage DEF CallPcs
  <1>2. v \in CallType
    BY <1>1, CallEdits DEF CallPcs
  <1>3. /\ v.pc = "call" /\ v.kind = q.kind /\ v.seen = q.seen /\ v.snap = q.snap /\ v.route = q.route
        /\ v.out = q.out /\ v.own = q.own /\ v.meta = q.meta
        /\ v.adjusted = q.adjusted /\ v.second = q.second /\ v.sent = q.sent
    BY <1>1 DEF CallType
  <1>4. req' = [req EXCEPT ![r] = v]
    BY DEF ReqsOK
  <1> HIDE DEF v
  <1>5. SentSoFar(v)
    BY <1>1, <1>2, <1>3, SentKept DEF CallOK
  <1>6. CallOK(v, live, pending)
    BY <1>1, <1>2, <1>3, <1>5 DEF CallOK, Sending
  <1> QED
    BY <1>4, <1>6, OneCall DEF ReqOK

(* The request goes out.                                                      *)
LEMMA PostStep ==
  ASSUME ReqsOK, NEW r \in Requests, Post(r)
  PROVE  ReqsOK'
  <1> DEFINE q == req[r]
             u == [q.sent EXCEPT !.posts = @ + 1]
             v == [q EXCEPT !.pc = "posted", !.sent = u]
  <1>1. q.pc = "post" /\ UNCHANGED <<live, pending>>
    BY DEF Post, settings
  <1>2. CallOK(q, live, pending) /\ q \in CallType
    BY <1>1, AtStage DEF CallPcs
  <1>3. /\ u \in SentType /\ u.posts = q.sent.posts + 1 /\ u.failed = q.sent.failed /\ u.spent = q.sent.spent
        /\ q.sent.posts \in Nat
    BY <1>2, CallFields DEF SentType
  <1>4. req' = [req EXCEPT ![r] = v]
    BY Zenon DEF Post, ReqsOK
  <1> HIDE DEF u
  <1>5. v \in CallType
    BY <1>2, <1>3, CallEdits DEF CallPcs
  <1>6. /\ v.pc = "posted" /\ v.kind = q.kind /\ v.seen = q.seen /\ v.snap = q.snap /\ v.route = q.route
        /\ v.out = q.out /\ v.own = q.own /\ v.meta = q.meta
        /\ v.adjusted = q.adjusted /\ v.second = q.second /\ v.sent = u
    BY <1>2 DEF CallType
  <1> HIDE DEF v
  <1>7. SentSoFar(v)
    <2>1. SentSoFar(q) /\ q.adjusted \in BOOLEAN /\ q.second \in BOOLEAN
      BY <1>2, CallFields DEF CallOK
    <2>2. PostsHere(q) = IF q.adjusted THEN 1 ELSE 0
      BY <1>1 DEF PostsHere
    <2>3. PostsHere(v) = IF q.adjusted THEN 2 ELSE 1
      BY <1>6 DEF PostsHere
    <2>4. v.sent.posts <= (IF v.second THEN 2 ELSE 0) + PostsHere(v)
      BY <1>3, <1>6, <2>1, <2>2, <2>3 DEF SentSoFar
    <2> QED
      BY <1>1, <1>3, <1>6, <2>1, <2>4 DEF SentSoFar
  <1>8. CallOK(v, live, pending)
    BY <1>1, <1>2, <1>5, <1>6, <1>7 DEF CallOK, Sending
  <1> QED
    BY <1>1, <1>4, <1>8, OneCall DEF ReqOK

-----------------------------------------------------------------------------
(* The application's half of a call.                                          *)
LEMMA RouteIn ==
  ASSUME NEW c \in Configs, NEW kind
  PROVE  RouteForTask(c, kind) \in Routes /\ c.default \in Routes
  BY DEF RouteForTask, Routes

LEMMA StartStep ==
  ASSUME ReqsOK, SettingsOK, NEW r \in Requests, Start(r)
  PROVE  ReqsOK'
  <1>1. PICK kind \in Kinds, prompt \in Prompts :
          req' = [req EXCEPT ![r] =
            IF kind # "inspect" /\ ~CheckTaskAIPolicy(app, RouteForTask(app, kind))
            THEN Refused([kind |-> kind], "policy")
            ELSE Begun(kind, prompt, IF kind = "generate" THEN "lookup" ELSE "call")]
    BY DEF Start
  <1>2. UNCHANGED <<live, pending>>
    BY DEF Start, settings
  <1> DEFINE at == IF kind = "generate" THEN "lookup" ELSE "call"
             v == Begun(kind, prompt, at)
  <1>3. at \in {"lookup", "call"} /\ (at = "lookup" => kind = "generate")
    OBVIOUS
  <1> HIDE DEF at
  <1>4. RouteForTask(app, kind) \in Routes /\ app \in Configs /\ live \in Configs /\ {live} \in SUBSET Configs
    BY RouteIn DEF SettingsOK
  <1>5. (app.mask /\ IsOutside(RouteForTask(app, kind))) \in BOOLEAN
    OBVIOUS
  <1>6. v \in CallType
    <2>1. 0 \in Nat /\ NoLimits \in Reported \cup {NoLimits} /\ <<>> \in Identities \cup {<<>>}
      OBVIOUS
    <2>2. Unsent \in [posts : Nat, failed : SUBSET Routes, spent : BOOLEAN]
      BY DEF Unsent
    <2> HIDE DEF NoLimits
    <2> QED
      BY <1>3, <1>4, <1>5, <2>1, <2>2, Zenon DEF Begun, CallType
  <1>7. v.pc = at /\ v.kind = kind /\ v.seen = {live} /\ v.snap = live /\ v.meta = NoLimits
        /\ v.second = FALSE /\ v.sent = Unsent
    BY DEF Begun
  <1> HIDE DEF v
  <1>11. SentSoFar(v)
    BY <1>3, <1>7 DEF SentSoFar, PostsHere, Unsent
  <1>8. ReqOK(v, live, pending)
    BY <1>3, <1>6, <1>7, <1>11 DEF ReqOK, CallOK, Sending
  <1>9. ReqOK(Refused([kind |-> kind], "policy"), live, pending)
    BY RefusedOK DEF ReqOK
  <1>10. req' = [req EXCEPT ![r] = Refused([kind |-> kind], "policy")] \/ req' = [req EXCEPT ![r] = v]
    BY <1>1 DEF v, at
  <1> QED
    BY <1>2, <1>8, <1>9, <1>10, OneCall

LEMMA LookupStep ==
  ASSUME ReqsOK, SettingsOK, AnalysesOK, NEW r \in Requests, FindCachedAnalysis(r)
  PROVE  ReqsOK'
  <1>1. req[r].pc = "lookup" /\ UNCHANGED <<live, pending>>
    BY DEF FindCachedAnalysis, settings
  <1>2. CASE req' = [req EXCEPT ![r].pc = "call"]
    BY <1>1, <1>2, GoesOn
  <1>3. ASSUME NEW a \in Found(req[r]),
               req' = [req EXCEPT ![r] =
                 [pc |-> "done", kind |-> "generate", result |-> "cached", from |-> a.from, routed |-> @.cfg.task.model]]
        PROVE  ReqsOK'
    <2> DEFINE v == [pc |-> "done", kind |-> "generate", result |-> "cached", from |-> a.from,
                     routed |-> req[r].cfg.task.model]
    <2>1. a.model \in Models /\ a.from \in Models /\ a.model = a.from /\ a.model = req[r].cfg.task.model
      BY DEF Found, AnalysesOK
    <2>2. "generate" \in Kinds
      BY <1>1, AtStage, CallFields DEF CallPcs, CallOK
    <2>3. v \in DoneType /\ v.result = "cached" /\ v.from = v.routed
      BY <2>1, <2>2 DEF DoneType
    <2>4. req' = [req EXCEPT ![r] = v]
      BY <1>3
    <2> HIDE DEF v
    <2>5. ReqOK(v, live, pending)
      BY <2>3 DEF ReqOK, DoneOK
    <2> QED
      BY <1>1, <2>4, <2>5, OneCall
  <1> QED
    BY <1>2, <1>3 DEF FindCachedAnalysis

-----------------------------------------------------------------------------
(* The adapter's half.                                                        *)
LEMMA SnapshotStep ==
  ASSUME ReqsOK, SettingsOK, NEW r \in Requests, Snapshot(r)
  PROVE  ReqsOK'
  <1> DEFINE q == req[r]
             t == RouteForTask(live, q.kind)
             v == [q EXCEPT !.snap = live, !.route = t, !.pc = "check"]
  <1>1. q.pc = "call" /\ UNCHANGED <<live, pending>>
    BY DEF Snapshot, settings
  <1>2. CallOK(q, live, pending) /\ q \in CallType
    BY <1>1, AtStage DEF CallPcs
  <1>3. live \in Configs /\ t \in Routes
    BY RouteIn DEF SettingsOK
  <1>4. req' = [req EXCEPT ![r] = v]
    BY DEF Snapshot, ReqsOK
  <1> HIDE DEF t
  <1>5. "check" \in CallPcs
    BY DEF CallPcs
  <1>6. v \in CallType
    BY <1>2, <1>3, <1>5, CallEdits
  <1>7. /\ v.pc = "check" /\ v.kind = q.kind /\ v.seen = q.seen /\ v.snap = live /\ v.route = t
        /\ v.own = q.own /\ v.meta = q.meta
        /\ v.adjusted = q.adjusted /\ v.second = q.second /\ v.sent = q.sent
    BY <1>2 DEF CallType
  <1> HIDE DEF v
  <1>9. SentSoFar(v)
    <2>1. SentSoFar(q)
      BY <1>2 DEF CallOK
    <2>2. PostsHere(v) = 0 /\ PostsHere(q) = 0
      BY <1>1, <1>7 DEF PostsHere
    <2> QED
      BY <1>1, <1>7, <2>1, <2>2 DEF SentSoFar, t
  <1>8. CallOK(v, live, pending)
    BY <1>1, <1>2, <1>6, <1>7, <1>9 DEF CallOK, Sending, t
  <1> QED
    BY <1>1, <1>4, <1>8, OneCall DEF ReqOK

LEMMA CheckStep ==
  ASSUME ReqsOK, SettingsOK, NEW r \in Requests, CheckRoute(r)
  PROVE  ReqsOK'
  <1> DEFINE q == req[r]
             o == q.masked \/ (q.snap.mask /\ IsOutside(q.route))
             x == IF q.snap.auto THEN "limits" ELSE "budget"
             v == [q EXCEPT !.out = o, !.own = Identity(q), !.meta = NoLimits, !.pc = x]
  <1>1. q.pc = "check" /\ UNCHANGED <<live, pending>> /\ Permitted(q)
    BY DEF CheckRoute, settings
  <1>2. CallOK(q, live, pending) /\ q \in CallType
    BY <1>1, AtStage DEF CallPcs
  <1>3. Identity(q) \in Identities
    <2>1. q.route \in Routes /\ credential \in 0..MaxChanges
      BY <1>2, CallFields, ProviderAssumption DEF SettingsOK
    <2> QED
      BY <2>1 DEF Identity, Identities
  <1>4. o \in BOOLEAN /\ (q.snap.mask /\ IsOutside(q.route) => o)
    OBVIOUS
  <1>5. x \in {"limits", "budget"} /\ x \in CallPcs
    BY DEF CallPcs
  <1>6. req' = [req EXCEPT ![r] = v]
    BY Zenon DEF CheckRoute, ReqsOK
  <1> HIDE DEF o, x
  <1>7. v \in CallType
    BY <1>2, <1>3, <1>4, <1>5, CallEdits
  <1>8. /\ v.pc = x /\ v.kind = q.kind /\ v.seen = q.seen /\ v.snap = q.snap /\ v.route = q.route
        /\ v.out = o /\ v.own = Identity(q) /\ v.meta = NoLimits
        /\ v.adjusted = q.adjusted /\ v.second = q.second /\ v.sent = q.sent
    BY <1>2 DEF CallType
  <1> HIDE DEF v
  <1>9. CallOK(v, live, pending)
    <2>1. CheckTaskAIPolicy(q.snap, q.route)
      BY <1>1 DEF Permitted
    <2>2. SentSoFar(v)
      BY <1>1, <1>2, <1>5, <1>7, <1>8, SentKept DEF CallOK
    <2> QED
      BY <1>1, <1>2, <1>3, <1>4, <1>5, <1>7, <1>8, <2>1, <2>2 DEF CallOK
  <1> QED
    BY <1>1, <1>6, <1>9, OneCall DEF ReqOK

(* The key a call looks its limits up under starts with its own identity.     *)
LEMMA KeyOf ==
  ASSUME NEW q \in CallType
  PROVE  /\ ModelLimitsKey(q)[1] = q.own
         /\ q.own \in Identities => ModelLimitsKey(q) \in Keys
  <1>1. q.snap \in Configs
    BY CallFields
  <1>2. ASSUME q.own \in Identities PROVE ModelLimitsKey(q) \in Keys
    <2>1. \E w \in Identities, c \in Configs : ModelLimitsKey(q) = <<w, c.allow>>
      BY <1>1, <1>2, Zenon DEF ModelLimitsKey
    <2> QED
      BY <2>1 DEF Keys
  <1>3. ModelLimitsKey(q) = <<q.own, q.snap.allow>>
    BY DEF ModelLimitsKey
  <1> DEFINE a == q.snap.allow
             o == q.own
  <1> HIDE DEF a, o
  <1>4. <<o, a>>[1] = o
    OBVIOUS
  <1> QED
    BY <1>2, <1>3, <1>4, Zenon DEF a, o

LEMMA DiscoverStep ==
  ASSUME ReqsOK, SettingsOK, LimitsOK, PendingOK, NEW r \in Requests, DiscoverModelLimits(r)
  PROVE  ReqsOK' /\ PendingOK'
  <1> DEFINE q == req[r]
             k == ModelLimitsKey(q)
  <1>1. q.pc = "limits" /\ live' = live
    BY DEF DiscoverModelLimits, settings
  <1>2. CallOK(q, live, pending) /\ q \in CallType
    BY <1>1, AtStage DEF CallPcs
  <1>3. k[1] = q.own /\ k \in Keys /\ q.own \in Identities
    <2>1. q.own \in Identities
      BY <1>1, <1>2 DEF CallOK, Sending
    <2> QED
      BY <1>2, <2>1, KeyOf
  <1>4. ASSUME NEW e \in Cached(k), req' = [req EXCEPT ![r].meta = e.value, ![r].pc = "budget"], UNCHANGED pending
        PROVE  ReqsOK' /\ PendingOK'
    <2> DEFINE v == [q EXCEPT !.meta = e.value, !.pc = "budget"]
    <2>1. e \in limits /\ e.key = k
      BY DEF Cached
    <2>2. e.value \in Reported /\ e.value.by = q.own /\ "budget" \in CallPcs
      BY <1>3, <2>1 DEF LimitsOK, CallPcs
    <2>3. req' = [req EXCEPT ![r] = v]
      BY <1>4, Zenon DEF ReqsOK
    <2>4. v \in CallType
      BY <1>2, <2>2, CallEdits
    <2>5. /\ v.pc = "budget" /\ v.kind = q.kind /\ v.seen = q.seen /\ v.snap = q.snap /\ v.route = q.route
          /\ v.out = q.out /\ v.own = q.own /\ v.meta = e.value
          /\ v.adjusted = q.adjusted /\ v.second = q.second /\ v.sent = q.sent
      BY <1>2 DEF CallType
    <2> HIDE DEF v, k
    <2>7. SentSoFar(v)
      BY <1>1, <1>2, <2>4, <2>5, SentKept DEF CallOK
    <2>6. CallOK(v, live, pending)
      BY <1>1, <1>2, <2>2, <2>4, <2>5, <2>7 DEF CallOK, Sending
    <2> QED
      BY <1>1, <1>4, <2>3, <2>6, OneCall DEF ReqOK, PendingOK
  <1>5. ASSUME pending' = pending \cup JoinOrStart(q), req' = [req EXCEPT ![r].pc = "wait"]
        PROVE  ReqsOK' /\ PendingOK'
    <2> DEFINE v == [q EXCEPT !.pc = "wait"]
    <2>1. "wait" \in CallPcs
      BY DEF CallPcs
    <2>2. v \in CallType
      BY <1>2, <2>1, CallEdits
    <2>3. /\ v.pc = "wait" /\ v.kind = q.kind /\ v.seen = q.seen /\ v.snap = q.snap /\ v.route = q.route
          /\ v.out = q.out /\ v.own = q.own /\ v.meta = q.meta
          /\ v.adjusted = q.adjusted /\ v.second = q.second /\ v.sent = q.sent
      BY <1>2 DEF CallType
    <2>10. SentSoFar(v)
      BY <1>1, <1>2, <2>2, <2>3, SentKept DEF CallOK
    <2>4. req' = [req EXCEPT ![r] = v]
      BY <1>5 DEF ReqsOK
    <2>5. ModelLimitsKey(v) = k
      BY <2>3 DEF ModelLimitsKey
    <2> HIDE DEF v
    <2>6. \E p \in pending' : p.key = k
      <3>1. CASE Running(k) # {}
        BY <1>5, <3>1 DEF Running
      <3>2. CASE Running(k) = {}
        <4>1. Lookup(q).key = k /\ Lookup(q) \in pending'
          BY <1>5, <3>2 DEF JoinOrStart, Lookup
        <4> QED
          BY <4>1
      <3> QED
        BY <3>1, <3>2
    <2>7. PendingOK'
      <3>1. CASE Running(k) # {}
        BY <1>5, <3>1 DEF JoinOrStart, PendingOK
      <3>2. CASE Running(k) = {}
        <4>1. Cardinality(Running(k)) = 0
          BY <3>2, FS_EmptySet
        <4>2. Lookup(q) = [key |-> k, by |-> q.own, n |-> 0]
          BY <4>1 DEF Lookup
        <4> HIDE DEF k
        <4>3. Lookup(q) \in [key : Keys, by : Identities, n : {0}] /\ Lookup(q).by = Lookup(q).key[1]
          BY <1>3, <4>2
        <4>4. pending' = pending \cup {Lookup(q)}
          BY <1>5, <3>2 DEF JoinOrStart, k
        <4> QED
          BY <4>3, <4>4 DEF PendingOK
      <3> QED
        BY <3>1, <3>2
    <2> HIDE DEF k
    <2>8. CallOK(v, live, pending')
      BY <1>1, <1>2, <2>2, <2>3, <2>5, <2>6, <2>10 DEF CallOK, Sending
    <2>9. pending \subseteq pending'
      BY <1>5
    <2> QED
      BY <1>1, <2>4, <2>7, <2>8, <2>9, OneCall DEF ReqOK
  <1> QED
    BY <1>4, <1>5 DEF DiscoverModelLimits

(* The budget is a number; so is the smaller one of a second attempt, which   *)
(* never asks for more than the first.                                        *)
LEMMA BudgetNat ==
  ASSUME NEW q \in CallType
  PROVE  EffectiveWindow(q) \in Nat /\ BudgetOutputTokens(q) \in Nat
  <1>1. q.prompt \in Nat
    BY CallFields, ProviderAssumption
  <1>2. q.meta.window \in Nat
    <2>1. CASE q.meta = NoLimits
      BY <2>1 DEF NoLimits
    <2>2. CASE q.meta \in Reported
      BY <2>2, ProviderAssumption DEF Reported
    <2> QED
      BY <2>1, <2>2, CallFields
  <1>3. EffectiveWindow(q) \in Nat
    BY <1>2, ProviderAssumption DEF EffectiveWindow
  <1> DEFINE w == EffectiveWindow(q)
  <1> HIDE DEF w
  <1>4. w \in Nat
    BY <1>3 DEF w
  <1>5. CASE w > 0
    <2>1. {OutputCap} \cup {w - q.prompt} = {OutputCap, w - q.prompt, OutputCap}
      OBVIOUS
    <2>2. MinPositive({OutputCap, w - q.prompt, OutputCap}) \in Nat
      <3>1. OutputCap \in Int /\ w - q.prompt \in Int
        BY <1>1, <1>4, ProviderAssumption
      <3>2. MinPositive({OutputCap, w - q.prompt, OutputCap})
              \in {n \in {OutputCap, w - q.prompt, OutputCap} : n > 0} \cup {0}
        BY <3>1, MinPositiveOf
      <3> QED
        BY <3>1, <3>2
    <2> QED
      BY <1>3, <1>5, <2>1, <2>2 DEF BudgetOutputTokens, w
  <1>6. CASE ~(w > 0)
    <2>1. {OutputCap} \cup {} = {OutputCap, OutputCap, OutputCap}
      OBVIOUS
    <2>2. MinPositive({OutputCap, OutputCap, OutputCap}) \in Nat
      <3>1. OutputCap \in Int
        BY ProviderAssumption
      <3>2. MinPositive({OutputCap, OutputCap, OutputCap})
              \in {n \in {OutputCap, OutputCap, OutputCap} : n > 0} \cup {0}
        BY <3>1, MinPositiveOf
      <3> QED
        BY <3>1, <3>2
    <2> QED
      BY <1>3, <1>6, <2>1, <2>2 DEF BudgetOutputTokens, w
  <1> QED
    BY <1>5, <1>6

LEMMA AdjustedSmaller ==
  ASSUME NEW q \in CallType, NEW context \in Nat, NEW input \in Nat, NEW output \in Nat,
         AdjustedBudget(q, context, input, output) # 0
  PROVE  /\ AdjustedBudget(q, context, input, output) \in Nat
         /\ AdjustedBudget(q, context, input, output) < q.budget
  <1> DEFINE window == MinPositive({context, EffectiveWindow(q)})
             remaining == window - (IF input > 0 THEN input ELSE q.prompt)
             S == {q.budget, output} \cup (IF context > 0 THEN {remaining} ELSE {})
             adjusted == MinPositive(S)
  <1>1. q.prompt \in Nat /\ q.budget \in Nat /\ EffectiveWindow(q) \in Nat
    BY CallFields, BudgetNat, ProviderAssumption
  <1>2. window \in Int
    <2>1. {context, EffectiveWindow(q)} = {context, EffectiveWindow(q), context}
      OBVIOUS
    <2>2. MinPositive({context, EffectiveWindow(q), context})
            \in {n \in {context, EffectiveWindow(q), context} : n > 0} \cup {0}
      <3>1. context \in Int /\ EffectiveWindow(q) \in Int
        BY <1>1
      <3> QED
        BY <3>1, MinPositiveOf
    <2> QED
      BY <1>1, <2>1, <2>2
  <1> HIDE DEF window
  <1>3. remaining \in Int
    BY <1>1, <1>2
  <1> HIDE DEF remaining
  <1>4. \E c \in Int : S = {q.budget, output, c}
    <2>1. CASE context > 0
      BY <1>3, <2>1
    <2>2. CASE ~(context > 0)
      BY <1>1, <2>2
    <2> QED
      BY <2>1, <2>2
  <1>5. adjusted \in Nat
    <2>1. PICK c \in Int : S = {q.budget, output, c}
      BY <1>4
    <2>2. MinPositive({q.budget, output, c}) \in {n \in {q.budget, output, c} : n > 0} \cup {0}
      <3>1. q.budget \in Int /\ output \in Int
        BY <1>1
      <3> QED
        BY <3>1, MinPositiveOf
    <2> QED
      BY <1>1, <2>1, <2>2
  <1> HIDE DEF adjusted
  <1>6. AdjustedBudget(q, context, input, output) =
          IF (context > 0 /\ remaining <= 0) \/ adjusted >= q.budget THEN 0 ELSE adjusted
    BY DEF AdjustedBudget, adjusted, remaining, window
  <1> QED
    BY <1>1, <1>5, <1>6

(* Between the budget and the answer only the stage, the budget and the mark  *)
(* of a second attempt change.                                                *)
LEMMA BudgetStep ==
  ASSUME ReqsOK, NEW r \in Requests, UNCHANGED <<live, pending>>, NEW n \in Nat, NEW a \in BOOLEAN,
         \/ req[r].pc = "budget" /\ a = FALSE
         \/ req[r].pc = "posted" /\ ~req[r].adjusted /\ a = TRUE,
         \/ req' = [req EXCEPT ![r].budget = n, ![r].pc = "post", ![r].adjusted = a]
         \/ req' = [req EXCEPT ![r].budget = n, ![r].adjusted = a, ![r].pc = "post"]
         \/ req' = [req EXCEPT ![r].adjusted = a, ![r].pc = "post"]
  PROVE  ReqsOK'
  <1> DEFINE q == req[r]
             v1 == [q EXCEPT !.budget = n, !.pc = "post", !.adjusted = a]
             v2 == [q EXCEPT !.budget = n, !.adjusted = a, !.pc = "post"]
             v3 == [q EXCEPT !.adjusted = a, !.pc = "post"]
  <1>1. CallOK(q, live, pending) /\ q \in CallType /\ "post" \in CallPcs
    BY AtStage DEF CallPcs
  <1>2. req' = [req EXCEPT ![r] = v1] \/ req' = [req EXCEPT ![r] = v2] \/ req' = [req EXCEPT ![r] = v3]
    BY Zenon DEF ReqsOK
  <1>3. v1 \in CallType /\ v2 \in CallType /\ v3 \in CallType
    BY <1>1, CallEdits
  <1>4. ASSUME NEW v \in CallType, v = v1 \/ v = v2 \/ v = v3
        PROVE  CallOK(v, live, pending)
    <2>1. /\ v.pc = "post" /\ v.kind = q.kind /\ v.seen = q.seen /\ v.snap = q.snap /\ v.route = q.route
          /\ v.out = q.out /\ v.own = q.own /\ v.meta = q.meta
          /\ v.adjusted = a /\ v.second = q.second /\ v.sent = q.sent
      <3>1. CASE v = v1
        BY <1>1, <3>1 DEF CallType
      <3>2. CASE v = v2
        BY <1>1, <3>2 DEF CallType
      <3>3. CASE v = v3
        BY <1>1, <3>3 DEF CallType
      <3> QED
        BY <1>4, <3>1, <3>2, <3>3, Zenon
    <2> HIDE DEF v1, v2, v3
    <2>2. SentSoFar(v)
      <3>1. SentSoFar(q)
        BY <1>1 DEF CallOK
      <3>2. PostsHere(v) = PostsHere(q)
        BY <2>1 DEF PostsHere
      <3> QED
        BY <2>1, <3>1, <3>2 DEF SentSoFar
    <2> QED
      BY <1>1, <2>1, <2>2 DEF CallOK, Sending
  <1> HIDE DEF v1, v2, v3
  <1> QED
    BY <1>2, <1>3, <1>4, OneCall DEF ReqOK

LEMMA AnswerStep ==
  ASSUME ReqsOK, NEW r \in Requests, Answer(r)
  PROVE  ReqsOK'
  <1> DEFINE q == req[r]
             u == [q.sent EXCEPT !.spent = TRUE]
             v == [q EXCEPT !.pc = "save", !.sent = u]
  <1>1. q.pc = "posted" /\ UNCHANGED <<live, pending>>
    BY DEF Answer, settings
  <1>2. CallOK(q, live, pending) /\ q \in CallType /\ "save" \in CallPcs /\ q.pc \in CallPcs
    BY <1>1, AtStage DEF CallPcs
  <1>3. CASE req' = [req EXCEPT ![r] = Refused(q, "vectors")]
    BY <1>1, <1>2, <1>3, RefusedStep
  <1>4. CASE req' = [req EXCEPT ![r] = v]
    <2>1. u \in SentType /\ u.posts = q.sent.posts /\ u.failed = q.sent.failed
      BY <1>2, CallFields DEF SentType
    <2> HIDE DEF u
    <2>2. v \in CallType
      BY <1>2, <2>1, CallEdits
    <2>3. /\ v.pc = "save" /\ v.kind = q.kind /\ v.seen = q.seen /\ v.snap = q.snap /\ v.route = q.route
          /\ v.out = q.out /\ v.own = q.own /\ v.meta = q.meta
          /\ v.adjusted = q.adjusted /\ v.second = q.second /\ v.sent = u
      BY <1>2 DEF CallType
    <2> HIDE DEF v
    <2>4. SentSoFar(v)
      <3>1. SentSoFar(q)
        BY <1>2 DEF CallOK
      <3>2. PostsHere(v) = PostsHere(q)
        BY <1>1, <2>3 DEF PostsHere
      <3> QED
        BY <1>1, <2>1, <2>3, <3>1, <3>2 DEF SentSoFar
    <2>5. CallOK(v, live, pending)
      BY <1>1, <1>2, <2>2, <2>3, <2>4 DEF CallOK, Sending
    <2> QED
      BY <1>1, <1>4, <2>5, OneCall DEF ReqOK
  <1> QED
    BY <1>3, <1>4, Zenon DEF Answer

LEMMA UnavailableStep ==
  ASSUME ReqsOK, NEW r \in Requests, ServerUnavailable(r)
  PROVE  ReqsOK'
  <1> DEFINE q == req[r]
             u == [q.sent EXCEPT !.failed = @ \cup {q.route}]
             v == [q EXCEPT !.route = q.snap.default, !.second = TRUE, !.sent = u, !.pc = "check"]
  <1>1. q.pc = "posted" /\ UNCHANGED <<live, pending>>
    BY DEF ServerUnavailable, settings
  <1>2. CallOK(q, live, pending) /\ q \in CallType /\ "check" \in CallPcs /\ q.pc \in CallPcs
    BY <1>1, AtStage DEF CallPcs
  <1>3. CASE req' = [req EXCEPT ![r] = Refused(q, "error")]
    BY <1>1, <1>2, <1>3, RefusedStep
  <1>4. CASE MayDefault(q) /\ req' = [req EXCEPT ![r] = v]
    <2>1. /\ u \in SentType /\ u.posts = q.sent.posts /\ u.failed = q.sent.failed \cup {q.route}
          /\ u.spent = q.sent.spent
      BY <1>2, CallFields DEF SentType
    <2> HIDE DEF u
    <2>2. v \in CallType
      <3>1. q.snap.default \in Routes
        BY <1>2, CallFields, RouteIn
      <3> QED
        BY <1>2, <2>1, <3>1, CallEdits
    <2>3. /\ v.pc = "check" /\ v.kind = q.kind /\ v.seen = q.seen /\ v.snap = q.snap /\ v.route = q.snap.default
          /\ v.out = q.out /\ v.own = q.own /\ v.meta = q.meta /\ v.second = TRUE /\ v.sent = u
      BY <1>2 DEF CallType
    <2> HIDE DEF v
    <2>4. SentSoFar(v)
      <3>1. SentSoFar(q) /\ q.second = FALSE /\ q.snap.default # q.route
        BY <1>2, <1>4, CallFields DEF CallOK, MayDefault
      <3>2. q.route = RouteForTask(q.snap, q.kind) /\ q.sent.failed = {} /\ ~q.sent.spent
        BY <1>1, <3>1 DEF SentSoFar
      <3>3. PostsHere(q) <= 2 /\ PostsHere(q) \in Nat /\ PostsHere(v) = 0
        BY <1>1, <1>2, <2>3, CallFields DEF PostsHere
      <3>4. q.sent.posts <= 2
        BY <1>2, <3>1, <3>3, CallFields DEF SentSoFar
      <3>5. u.failed = {RouteForTask(v.snap, v.kind)} /\ v.route # RouteForTask(v.snap, v.kind)
        BY <2>1, <2>3, <3>1, <3>2
      <3> QED
        BY <2>1, <2>3, <3>2, <3>3, <3>4, <3>5 DEF SentSoFar
    <2>5. CallOK(v, live, pending)
      BY <1>1, <1>2, <2>2, <2>3, <2>4 DEF CallOK, Sending
    <2> QED
      BY <1>1, <1>4, <2>5, OneCall DEF ReqOK
  <1> QED
    BY <1>3, <1>4, Zenon DEF ServerUnavailable, Defaulted

LEMMA RejectStep ==
  ASSUME ReqsOK, NEW r \in Requests, Reject(r)
  PROVE  ReqsOK'
  <1>1. req[r].pc = "posted" /\ UNCHANGED <<live, pending>>
    BY DEF Reject, settings
  <1>2. req[r] \in CallType /\ req[r].pc \in CallPcs
    BY <1>1, AtStage DEF CallPcs
  <1>3. PICK context \in Windows, output \in Windows, input \in {0} \cup Prompts :
          LET b == AdjustedBudget(req[r], context, input, output)
          IN \/ ~req[r].adjusted /\ b > 0 /\ req' = [req EXCEPT ![r].budget = b, ![r].adjusted = TRUE, ![r].pc = "post"]
             \/ ~req[r].adjusted /\ req' = [req EXCEPT ![r].adjusted = TRUE, ![r].pc = "post"]
             \/ Fail(r)
    BY DEF Reject, MayAdjust
  <1>4. context \in Nat /\ output \in Nat /\ input \in Nat
    BY ProviderAssumption
  <1> DEFINE b == AdjustedBudget(req[r], context, input, output)
  <1>5. b \in Nat
    BY <1>2, <1>4, AdjustedSmaller
  <1>6. CASE ~req[r].adjusted /\ req' = [req EXCEPT ![r].budget = b, ![r].adjusted = TRUE, ![r].pc = "post"]
    <2> HIDE DEF b
    <2> QED
      BY <1>1, <1>5, <1>6, BudgetStep
  <1>7. CASE ~req[r].adjusted /\ req' = [req EXCEPT ![r].adjusted = TRUE, ![r].pc = "post"]
    BY <1>1, <1>5, <1>7, BudgetStep
  <1>8. CASE Fail(r)
    BY <1>1, <1>2, <1>8, RefusedStep DEF Fail
  <1> QED
    BY <1>3, <1>6, <1>7, <1>8

LEMMA SaveStep ==
  ASSUME ReqsOK, AnalysesOK, NEW r \in Requests, SaveAnalysis(r)
  PROVE  ReqsOK' /\ AnalysesOK'
  <1>1. req[r].pc = "save" /\ UNCHANGED <<live, pending>>
    BY DEF SaveAnalysis, settings
  <1>2. req[r] \in CallType /\ req[r].pc \in CallPcs
    BY <1>1, AtStage DEF CallPcs
  <1>3. ReqsOK'
    BY <1>1, <1>2, RefusedStep DEF SaveAnalysis, Fail
  <1>4. req[r].route.model \in Models
    BY <1>2, CallFields DEF Models
  <1>5. Row(req[r]).model \in Models /\ Row(req[r]).from \in Models /\ Row(req[r]).model = Row(req[r]).from
    BY <1>4 DEF Row
  <1>6. analyses' \subseteq analyses \cup {Row(req[r])}
    BY DEF SaveAnalysis
  <1> QED
    BY <1>3, <1>5, <1>6 DEF AnalysesOK

(* The steps of a call, taken together.                                       *)
LEMMA CallInv ==
  ASSUME ProviderInv, NEW r \in Requests, Start(r) \/ CallStep(r) \/ Cancel(r)
  PROVE  ProviderInv'
  <1>1. ReqsOK /\ SettingsOK /\ LimitsOK /\ PendingOK /\ AnalysesOK
    BY Halves
  <1>2. UNCHANGED <<settings, limits>>
    BY DEF Start, CallStep, Cancel, FindCachedAnalysis, Snapshot, CheckRoute, RefuseRoute, DiscoverModelLimits,
           Budget, ModelLimits, Post, Answer, Lose, ServerUnavailable, Reject, SaveAnalysis
  <1>3. SettingsOK' /\ LimitsOK'
    BY <1>1, <1>2 DEF settings, SettingsOK, LimitsOK
  <1>4. CASE DiscoverModelLimits(r)
    <2>1. AnalysesOK'
      BY <1>1, <1>4 DEF DiscoverModelLimits, AnalysesOK
    <2> QED
      BY <1>1, <1>3, <1>4, <2>1, DiscoverStep, HalvesNext
  <1>5. CASE SaveAnalysis(r)
    <2>1. PendingOK'
      BY <1>1, <1>5 DEF SaveAnalysis, PendingOK
    <2> QED
      BY <1>1, <1>3, <1>5, <2>1, SaveStep, HalvesNext
  <1>6. CASE ~DiscoverModelLimits(r) /\ ~SaveAnalysis(r)
    <2>1. UNCHANGED <<pending, analyses, live>>
      BY <1>6 DEF Start, CallStep, Cancel, FindCachedAnalysis, Snapshot, CheckRoute, RefuseRoute, Budget,
             ModelLimits, Post, Answer, Lose, ServerUnavailable, Reject, settings
    <2>2. PendingOK' /\ AnalysesOK'
      BY <1>1, <2>1 DEF PendingOK, AnalysesOK
    <2>3. CASE RefuseRoute(r) \/ Cancel(r) \/ ModelLimits(r)
      <3>1. req[r].pc \in CallPcs
        BY <2>3 DEF RefuseRoute, Cancel, ModelLimits, CallPcs
      <3>2. \E why \in {"error", "limits"} : req' = [req EXCEPT ![r] = Refused(req[r], why)]
        BY <2>3 DEF RefuseRoute, Cancel, ModelLimits, Fail
      <3> QED
        BY <1>1, <2>1, <3>1, <3>2, RefusedStep, <1>3, <2>2, HalvesNext
    <2>4. CASE Lose(r)
      <3>1. req[r].pc \in CallPcs /\ req[r].pc = "posted"
        BY <2>4 DEF Lose, CallPcs
      <3>2. req[r] \in CallType
        BY <1>1, <3>1, AtStage
      <3>3. [req[r] EXCEPT !.sent.spent = TRUE].kind = req[r].kind
        BY <3>2 DEF CallType
      <3>4. Refused([req[r] EXCEPT !.sent.spent = TRUE], "error") = Refused(req[r], "error")
        BY <3>3 DEF Refused
      <3>5. req' = [req EXCEPT ![r] = Refused(req[r], "error")]
        BY <2>4, <3>4, Zenon DEF Lose, GivenUp
      <3> QED
        BY <1>1, <2>1, <3>1, <3>5, RefusedStep, <1>3, <2>2, HalvesNext
    <2>5. CASE Budget(r)
      <3>1. req[r].pc = "budget" /\ req[r].pc \in CallPcs
        BY <2>5 DEF Budget, CallPcs
      <3>2. BudgetOutputTokens(req[r]) \in Nat
        BY <1>1, <3>1, AtStage, BudgetNat
      <3> DEFINE n == BudgetOutputTokens(req[r])
      <3>3. \/ req' = [req EXCEPT ![r].budget = n, ![r].pc = "post", ![r].adjusted = FALSE]
            \/ req' = [req EXCEPT ![r] = Refused(req[r], "error")]
        BY <2>5 DEF Budget, Fail
      <3> HIDE DEF n
      <3>4. n \in Nat
        BY <3>2 DEF n
      <3>5. ReqsOK'
        BY <1>1, <2>1, <3>1, <3>3, <3>4, BudgetStep, RefusedStep
      <3> QED
        BY <3>5, <1>3, <2>2, HalvesNext
    <2>6. CASE Post(r)
      BY <1>1, <1>3, <2>2, <2>6, PostStep, HalvesNext
    <2>7. ReqsOK' => ProviderInv'
      BY <1>3, <2>2, HalvesNext
    <2> QED
      BY <1>1, <1>6, <2>3, <2>4, <2>5, <2>6, <2>7, StartStep, LookupStep, SnapshotStep, CheckStep, AnswerStep,
         UnavailableStep, RejectStep DEF CallStep
  <1> QED
    BY <1>4, <1>5, <1>6

-----------------------------------------------------------------------------
(* The end of a lookup wakes exactly those who wait for it.                   *)
LEMMA FetchInv ==
  ASSUME ProviderInv, NEW p \in pending, FetchModelLimits(p)
  PROVE  ProviderInv'
  <1>1. ReqsOK /\ SettingsOK /\ LimitsOK /\ PendingOK /\ AnalysesOK
    BY Halves
  <1>2. UNCHANGED <<settings, analyses>> /\ pending' = pending \ {p}
    BY DEF FetchModelLimits
  <1>3. SettingsOK' /\ PendingOK' /\ AnalysesOK' /\ live' = live
    BY <1>1, <1>2 DEF settings, SettingsOK, PendingOK, AnalysesOK
  <1>4. PICK window \in Windows, dropped \in (IF limits = {} THEN {Unset} ELSE limits) :
          LET value == [window |-> window, by |-> p.by]
          IN /\ limits' = {e \in RoomAfter(dropped) : e.key # p.key} \cup {[key |-> p.key, value |-> value, fresh |-> TRUE]}
             /\ req' = [r \in Requests |->
                  IF r \in Woken(p.key) THEN [req[r] EXCEPT !.meta = value, !.pc = "budget"] ELSE req[r]]
    BY DEF FetchModelLimits
  <1> DEFINE value == [window |-> window, by |-> p.by]
             entry == [key |-> p.key, value |-> value, fresh |-> TRUE]
  <1>5. p.key \in Keys /\ p.by \in Identities /\ p.by = p.key[1]
    BY <1>1 DEF PendingOK
  <1>6. value \in Reported /\ value.by = p.key[1]
    BY <1>5 DEF Reported
  <1>7. LimitsOK'
    <2>1. limits' \subseteq limits \cup {entry}
      BY <1>4 DEF RoomAfter
    <2> HIDE DEF value
    <2>2. entry \in [key : Keys, value : Reported, fresh : BOOLEAN] /\ entry.value.by = entry.key[1]
      BY <1>5, <1>6
    <2> HIDE DEF entry
    <2> QED
      BY <1>1, <2>1, <2>2 DEF LimitsOK
  <1>8. ASSUME NEW r \in Requests
        PROVE  req'[r] \in ReqType /\ ReqOK(req'[r], live, pending')
    <2> DEFINE q == req[r]
               v == [q EXCEPT !.meta = value, !.pc = "budget"]
    <2>1. q \in ReqType /\ ReqOK(q, live, pending)
      BY <1>1 DEF ReqsOK
    <2>2. CASE r \in Woken(p.key)
      <3>1. req'[r] = v
        BY <1>4, <2>2
      <3>2. q.pc = "wait" /\ ModelLimitsKey(q) = p.key /\ "wait" \in CallPcs /\ "budget" \in CallPcs
        BY <2>2 DEF Woken, Waiting, CallPcs
      <3>3. CallOK(q, live, pending) /\ q \in CallType
        BY <1>1, <3>2, AtStage
      <3>4. q.own = p.key[1]
        BY <3>2, <3>3, KeyOf
      <3> HIDE DEF value
      <3>5. v \in CallType
        BY <1>6, <3>2, <3>3, CallEdits
      <3>6. /\ v.pc = "budget" /\ v.kind = q.kind /\ v.seen = q.seen /\ v.snap = q.snap /\ v.route = q.route
            /\ v.out = q.out /\ v.own = q.own /\ v.meta = value
            /\ v.adjusted = q.adjusted /\ v.second = q.second /\ v.sent = q.sent
        BY <3>3 DEF CallType
      <3> HIDE DEF v
      <3>8. SentSoFar(v)
        BY <3>2, <3>3, <3>5, <3>6, SentKept DEF CallOK
      <3>7. CallOK(v, live, pending')
        BY <1>6, <3>2, <3>3, <3>4, <3>5, <3>6, <3>8 DEF CallOK, Sending
      <3> QED
        BY <3>1, <3>5, <3>7 DEF ReqOK, ReqType
    <2>3. CASE r \notin Woken(p.key)
      <3>1. req'[r] = q
        BY <1>4, <2>3
      <3>2. q.pc = "wait" => ModelLimitsKey(q) # p.key
        BY <2>3 DEF Woken, Waiting
      <3>3. CASE CallOK(q, live, pending)
        <4>1. q.pc = "wait" => \E l \in pending' : l.key = ModelLimitsKey(q)
          BY <1>2, <3>2, <3>3 DEF CallOK
        <4> QED
          BY <2>1, <3>1, <3>3, <4>1 DEF ReqOK, CallOK
      <3> QED
        BY <2>1, <3>1, <3>3 DEF ReqOK
    <2> QED
      BY <2>2, <2>3
  <1>9. ReqsOK'
    <2>1. req' \in [Requests -> ReqType]
      BY <1>4, <1>8
    <2> QED
      BY <1>3, <1>8, <2>1 DEF ReqsOK
  <1> QED
    BY <1>3, <1>7, <1>9, HalvesNext

LEMMA ExpireInv ==
  ASSUME ProviderInv, NEW e \in limits, Expire(e)
  PROVE  ProviderInv'
  <1>1. ReqsOK /\ SettingsOK /\ LimitsOK /\ PendingOK /\ AnalysesOK
    BY Halves
  <1>2. UNCHANGED <<settings, req, pending, analyses>> /\ limits' \subseteq limits \cup {[e EXCEPT !.fresh = FALSE]}
    BY DEF Expire
  <1>3. ReqsOK' /\ SettingsOK' /\ PendingOK' /\ AnalysesOK'
    BY <1>1, <1>2 DEF settings, ReqsOK, SettingsOK, PendingOK, AnalysesOK
  <1> DEFINE f == [e EXCEPT !.fresh = FALSE]
  <1>4. f \in [key : Keys, value : Reported, fresh : BOOLEAN] /\ f.value = e.value /\ f.key = e.key
    BY <1>1 DEF LimitsOK
  <1> HIDE DEF f
  <1>5. LimitsOK'
    BY <1>1, <1>2, <1>4 DEF LimitsOK, f
  <1> QED
    BY <1>3, <1>5, HalvesNext

-----------------------------------------------------------------------------
(* The settings.                                                              *)
ApplyType == {Unset} \cup [pc : {"read", "app", "adapter"}, cfg : Configs]

LEMMA Applied ==
  ASSUME SettingsOK, NEW p \in {"save", "reload"}, applying[p].pc \in {"read", "app", "adapter"}
  PROVE  applying[p] \in [pc : {"read", "app", "adapter"}, cfg : Configs] /\ applying[p].cfg \in Configs
  <1>1. applying[p] \in {Unset} \cup [pc : {"read", "app", "adapter"}, cfg : Configs]
    BY DEF SettingsOK
  <1>2. applying[p] # Unset
    BY DEF Unset
  <1> QED
    BY <1>1, <1>2

LEMMA SettingsInv ==
  ASSUME ProviderInv,
         \/ \E c \in Configs : AdminSave(c) \/ RemoteSave(c)
         \/ SaveReads \/ ReloadRead \/ RotateSecret
         \/ \E p \in {"save", "reload"} : ApplyAISettings(p)
  PROVE  ProviderInv'
  <1>1. ReqsOK /\ SettingsOK /\ LimitsOK /\ PendingOK /\ AnalysesOK
    BY Halves
  <1>2. UNCHANGED <<live, req, limits, pending, analyses>>
    BY DEF AdminSave, RemoteSave, SaveReads, ReloadRead, RotateSecret, ApplyAISettings
  <1>3. ReqsOK' /\ LimitsOK' /\ PendingOK' /\ AnalysesOK'
    BY <1>1, <1>2 DEF ReqsOK, LimitsOK, PendingOK, AnalysesOK
  <1>4. /\ applying \in [{"save", "reload"} -> ApplyType] /\ Unset \in ApplyType
        /\ \A x \in {"read", "app", "adapter"}, c \in Configs : [pc |-> x, cfg |-> c] \in ApplyType
    BY <1>1 DEF SettingsOK, ApplyType
  <1>5. applying' \in [{"save", "reload"} -> ApplyType]
    <2>1. ASSUME NEW c \in Configs, AdminSave(c) \/ RemoteSave(c)
          PROVE  applying' \in [{"save", "reload"} -> ApplyType]
      BY <1>4, <2>1 DEF AdminSave, RemoteSave
    <2>2. CASE SaveReads
      <3>1. applying["save"].cfg \in Configs /\ stored \in Configs
        BY <1>1, <2>2, Applied DEF SaveReads, SettingsOK
      <3> QED
        BY <1>4, <2>2, <3>1 DEF SaveReads
    <2>3. CASE ReloadRead \/ RotateSecret
      <3>1. stored \in Configs
        BY <1>1 DEF SettingsOK
      <3> QED
        BY <1>4, <2>3, <3>1 DEF ReloadRead, RotateSecret
    <2>4. ASSUME NEW p \in {"save", "reload"}, ApplyAISettings(p)
          PROVE  applying' \in [{"save", "reload"} -> ApplyType]
      <3>1. applying[p] \in [pc : {"read", "app", "adapter"}, cfg : Configs]
        BY <1>1, <2>4, Applied DEF ApplyAISettings
      <3>2. [applying[p] EXCEPT !.pc = "adapter"] \in ApplyType
        BY <3>1 DEF ApplyType
      <3>3. applying' = [applying EXCEPT ![p] = [applying[p] EXCEPT !.pc = "adapter"]]
        BY <1>4, <2>4 DEF ApplyAISettings
      <3> QED
        BY <1>4, <3>2, <3>3
    <2> QED
      BY <2>1, <2>2, <2>3, <2>4
  <1>6. stored' \in Configs /\ app' \in Configs /\ live' \in Configs
    <2>1. ASSUME NEW p \in {"save", "reload"}, ApplyAISettings(p)
          PROVE  stored' \in Configs /\ app' \in Configs
      BY <1>1, <2>1, Applied DEF ApplyAISettings, SettingsOK
    <2> QED
      BY <1>1, <1>2, <2>1 DEF AdminSave, RemoteSave, SaveReads, ReloadRead, RotateSecret, SettingsOK
  <1>7. note' \in BOOLEAN
    BY <1>1, Zenon DEF AdminSave, RemoteSave, SaveReads, ReloadRead, RotateSecret, ApplyAISettings, SettingsOK
  <1>8. credential' \in 0..changes' /\ changes' \in 0..MaxChanges
    <2>1. \/ UNCHANGED <<credential, changes>>
          \/ changes < MaxChanges /\ changes' = changes + 1 /\ credential' \in {credential, credential + 1}
      BY Zenon DEF AdminSave, RemoteSave, SaveReads, ReloadRead, RotateSecret, ApplyAISettings, Change
    <2>2. credential \in 0..changes /\ changes \in 0..MaxChanges
      BY <1>1 DEF SettingsOK
    <2> QED
      BY <2>1, <2>2, ProviderAssumption
  <1>9. SettingsOK'
    BY <1>5, <1>6, <1>7, <1>8, Zenon DEF SettingsOK, ApplyType
  <1> QED
    BY <1>3, <1>9, HalvesNext

(* The adapter takes over a configuration, which every call in flight sees.   *)
LEMMA ConfigureInv ==
  ASSUME ProviderInv, NEW p \in {"save", "reload"}, Configure(p)
  PROVE  ProviderInv'
  <1>1. ReqsOK /\ SettingsOK /\ LimitsOK /\ PendingOK /\ AnalysesOK
    BY Halves
  <1> DEFINE c == applying[p].cfg
  <1>2. c \in Configs
    BY <1>1, Applied DEF Configure
  <1>3. /\ UNCHANGED <<stored, app, credential, limits, pending, analyses, changes>> /\ live' = c
        /\ applying' = [applying EXCEPT ![p] = Unset]
        /\ req' = [r \in Requests |-> IF Active(r) THEN [req[r] EXCEPT !.seen = req[r].seen \cup {c}] ELSE req[r]]
    BY DEF Configure
  <1>4. note' \in BOOLEAN
    BY <1>1, Zenon DEF Configure, Notified, SettingsOK
  <1> HIDE DEF c
  <1>5. SettingsOK'
    <2>1. applying' \in [{"save", "reload"} -> ApplyType]
      BY <1>1, <1>3 DEF SettingsOK, ApplyType
    <2> QED
      BY <1>1, <1>2, <1>3, <1>4, <2>1, Zenon DEF SettingsOK, ApplyType
  <1>6. LimitsOK' /\ PendingOK' /\ AnalysesOK'
    BY <1>1, <1>3 DEF LimitsOK, PendingOK, AnalysesOK
  <1>7. ASSUME NEW r \in Requests
        PROVE  req'[r] \in ReqType /\ ReqOK(req'[r], c, pending)
    <2> DEFINE q == req[r]
               S == q.seen \cup {c}
               v == [q EXCEPT !.seen = S]
    <2>1. q \in ReqType /\ ReqOK(q, live, pending)
      BY <1>1 DEF ReqsOK
    <2>2. CASE Active(r)
      <3>1. q.pc \in CallPcs
        BY <2>1, <2>2, Stages DEF Active
      <3>2. CallOK(q, live, pending) /\ q \in CallType
        BY <1>1, <3>1, AtStage
      <3>3. S \in SUBSET Configs /\ c \in S /\ q.seen \subseteq S
        BY <1>2, <3>2, CallFields
      <3>4. req'[r] = v
        BY <1>3, <2>2
      <3> HIDE DEF S
      <3>5. v \in CallType
        BY <3>1, <3>2, <3>3, CallEdits
      <3>6. /\ v.pc = q.pc /\ v.kind = q.kind /\ v.seen = S /\ v.snap = q.snap /\ v.route = q.route
            /\ v.out = q.out /\ v.own = q.own /\ v.meta = q.meta
            /\ v.adjusted = q.adjusted /\ v.second = q.second /\ v.sent = q.sent
        BY <3>2 DEF CallType
      <3> HIDE DEF v
      <3>9. SentSoFar(v)
        BY <3>2, <3>5, <3>6, SentKept DEF CallOK
      <3>7. ModelLimitsKey(v) = ModelLimitsKey(q)
        BY <3>6 DEF ModelLimitsKey
      <3>8. CallOK(v, c, pending)
        BY <3>2, <3>3, <3>5, <3>6, <3>7, <3>9 DEF CallOK
      <3> QED
        BY <3>4, <3>5, <3>8 DEF ReqOK, ReqType
    <2>3. CASE ~Active(r)
      <3>1. req'[r] = q
        BY <1>3, <2>3
      <3>2. q = Idle \/ q \in DoneType
        BY <2>1, <2>3, Stages DEF Active, CallPcs
      <3>3. ~CallOK(q, live, pending)
        BY <2>1, <2>3, Stages DEF Active, CallOK, CallPcs
      <3> QED
        BY <2>1, <3>1, <3>3 DEF ReqOK
    <2> QED
      BY <2>2, <2>3
  <1>8. ReqsOK'
    <2>1. req' \in [Requests -> ReqType]
      BY <1>3, <1>7
    <2> QED
      BY <1>3, <1>7, <2>1 DEF ReqsOK
  <1> QED
    BY <1>5, <1>6, <1>8, HalvesNext

-----------------------------------------------------------------------------
(* The theorems.                                                              *)

(* ProviderInv is inductive, for every number of calls, saves, reloads,       *)
(* rotated keys, lookups and answers.                                         *)
THEOREM ProviderInvariant == Spec => []ProviderInv
  <1>1. Init => ProviderInv
    <2> SUFFICES ASSUME Init PROVE ProviderInv
      OBVIOUS
    <2>1. SettingsOK
      <3>1. 0 \in 0..0 /\ 0 \in 0..MaxChanges
        BY ProviderAssumption
      <3>2. applying \in [{"save", "reload"} -> ApplyType]
        BY DEF Init, ApplyType
      <3> QED
        BY <3>1, <3>2, Zenon DEF Init, SettingsOK, ApplyType
    <2>2. ReqsOK
      BY DEF Init, ReqsOK, ReqOK, ReqType
    <2>3. LimitsOK /\ PendingOK /\ AnalysesOK
      BY DEF Init, LimitsOK, PendingOK, AnalysesOK
    <2> QED
      BY <2>1, <2>2, <2>3, Halves
  <1>2. ProviderInv /\ [Next]_vars => ProviderInv'
    <2> SUFFICES ASSUME ProviderInv, [Next]_vars PROVE ProviderInv'
      OBVIOUS
    <2>1. CASE UNCHANGED vars
      <3>1. ReqsOK /\ SettingsOK /\ LimitsOK /\ PendingOK /\ AnalysesOK
        BY Halves
      <3>2. ReqsOK' /\ SettingsOK' /\ LimitsOK' /\ PendingOK' /\ AnalysesOK'
        BY <2>1, <3>1 DEF vars, ReqsOK, SettingsOK, LimitsOK, PendingOK, AnalysesOK
      <3> QED
        BY <3>2, HalvesNext
    <2> QED
      BY <2>1, CallInv, FetchInv, ExpireInv, SettingsInv, ConfigureInv DEF Next
  <1> QED
    BY <1>1, <1>2, PTL DEF Spec

(* Text reaches an outside endpoint only as a configuration in force during   *)
(* the call routes, allows and masks it (generateOnce, checkAIEndpoint).      *)
THEOREM InsideSafety == Spec => []StaysInside
  <1>1. ProviderInv => StaysInside
    <2> SUFFICES ASSUME ProviderInv, NEW r \in Requests, req[r].pc = "posted", IsOutside(req[r].route)
                 PROVE  \E c \in req[r].seen :
                          /\ c.allow /\ (c.mask => req[r].out)
                          /\ req[r].route \in {RouteForTask(c, req[r].kind), c.default}
      BY DEF StaysInside
    <2>1. CallOK(req[r], live, pending)
      BY Halves, AtStage DEF CallPcs
    <2>2. /\ req[r].snap \in req[r].seen
          /\ CheckTaskAIPolicy(req[r].snap, req[r].route) /\ (req[r].snap.mask => req[r].out)
          /\ req[r].route \in {RouteForTask(req[r].snap, req[r].kind), req[r].snap.default}
      BY <2>1 DEF CallOK, Sending
    <2>3. req[r].snap.allow
      BY <2>2 DEF CheckTaskAIPolicy
    <2> QED
      BY <2>2, <2>3
  <1> QED
    BY <1>1, ProviderInvariant, PTL

(* One prompt is posted at most twice on each of two routes: never again once *)
(* a server accepted it or may have, never again on a route that answered     *)
(* with a 5xx, and on the default route only in place of the task's own       *)
(* (Generate, generateOnce, adjustRejectedRequest).                           *)
THEOREM OnceSafety == Spec => []GeneratesOnce
  <1>1. ProviderInv => GeneratesOnce
    <2> SUFFICES ASSUME ProviderInv, NEW r \in Requests, req[r].pc \in {"post", "posted"}
                 PROVE  LET q == req[r] IN
                          /\ ~q.sent.spent
                          /\ q.route \notin q.sent.failed /\ q.sent.failed \subseteq {RouteForTask(q.snap, q.kind)}
                          /\ q.sent.posts <= IF q.sent.failed = {} THEN 2 ELSE 4
      BY DEF GeneratesOnce
    <2> DEFINE q == req[r]
    <2>1. CallOK(q, live, pending) /\ q \in CallType
      BY Halves, AtStage DEF CallPcs
    <2>2. SentSoFar(q) /\ q.sent.posts \in Nat /\ q.second \in BOOLEAN
      BY <2>1, CallFields DEF CallOK
    <2>3. PostsHere(q) \in 0..2
      BY <2>1, CallFields DEF PostsHere
    <2>4. ~q.sent.spent
      BY <2>2 DEF SentSoFar
    <2>5. CASE q.second
      BY <2>2, <2>3, <2>4, <2>5 DEF SentSoFar
    <2>6. CASE ~q.second
      BY <2>2, <2>3, <2>4, <2>6 DEF SentSoFar
    <2> QED
      BY <2>2, <2>5, <2>6
  <1> QED
    BY <1>1, ProviderInvariant, PTL

(* An answer from the cache was given by the model the task is routed to      *)
(* (runAnalysis, FindCachedAnalysis).                                         *)
THEOREM CachedSafety == Spec => []CacheIsRouted
  <1>1. ProviderInv => CacheIsRouted
    BY DEF ProviderInv, AnalysesInv
  <1> QED
    BY <1>1, ProviderInvariant, PTL

(* A call is held to the limits of its own endpoint, model and credential     *)
(* (modelLimitsKey, discoverModelLimits).                                     *)
THEOREM LimitsSafety == Spec => []OwnLimits
  <1>1. ProviderInv => OwnLimits
    BY DEF ProviderInv, LimitsInv
  <1> QED
    BY <1>1, ProviderInvariant, PTL

(* Nobody waits for a lookup that is over (limitsPending).                    *)
THEOREM WaitersSafety == Spec => []NobodyStranded
  <1>1. ProviderInv => NobodyStranded
    BY DEF ProviderInv, LimitsInv
  <1> QED
    BY <1>1, ProviderInvariant, PTL
=============================================================================
