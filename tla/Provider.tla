------------------------------ MODULE Provider ------------------------------
(* How mail reaches a language model: the policy check and the cache of      *)
(* analyses (application/analysis.go), the OpenAI-compatible adapter with     *)
(* its fallback and its one adjustment (adapters/ai/openai.go,               *)
(* request_budget.go), the shared lookup of model limits (model_limits.go),  *)
(* and the two copies of the configuration that a save and a reload write.   *)
(* The model server is external: any answer may come back.                   *)
EXTENDS Integers, FiniteSets, FiniteSetsExt

CONSTANTS
  Requests,          \* calls in flight, each made once
  Kinds,             \* "generate", "embed" or "inspect", the limits shown to an administrator
  Configs,           \* AI configurations an administrator may save
  Outside,           \* endpoints that are neither loopback nor private
  Prompts,           \* estimated prompt sizes, in tokens
  Windows,           \* context lengths that /models may report, 0 for none
  ConfiguredWindow,  \* ai.context_length, 0 when unset
  OutputCap,         \* the smallest cap on the output: ai.max_tokens, the route's, the model's
  CacheSize,         \* modelLimitsCacheSize
  MaxChanges         \* bound: saves and rotations of the key

ASSUME ProviderAssumption ==
  /\ Kinds \subseteq {"generate", "embed", "inspect"}
  /\ Prompts \subseteq Nat \ {0} /\ Windows \subseteq Nat /\ ConfiguredWindow \in Nat
  /\ OutputCap \in Nat \ {0} /\ CacheSize \in Nat \ {0} /\ MaxChanges \in Nat

VARIABLES
  stored,      \* the saved configuration
  app,         \* App.Cfg.AI
  live,        \* OpenAICompat.cfg
  applying,    \* [{"save", "reload"} -> the configuration being applied, and how far]
  note,        \* a settings notification is on its way to the listener
  credential,  \* version of the API key behind the unchanged reference
  req,         \* [Requests -> the call]
  limits,      \* limitsCache
  pending,     \* limitsPending, with the identity each lookup runs under
  analyses,    \* the analyses table
  changes

vars == <<stored, app, live, applying, note, credential, req, limits, pending,
          analyses, changes>>
settings == <<stored, app, live, applying, note, credential, changes>>

Unset == [pc |-> "none"]
Idle == [pc |-> "idle"]
NoLimits == [window |-> 0, by |-> <<>>]

Init ==
  /\ stored \in Configs /\ app = stored /\ live = stored
  /\ applying = [p \in {"save", "reload"} |-> Unset] /\ note = FALSE
  /\ credential = 0
  /\ req = [r \in Requests |-> Idle]
  /\ limits = {} /\ pending = {} /\ analyses = {}
  /\ changes = 0

Change == changes < MaxChanges /\ changes' = changes + 1

-----------------------------------------------------------------------------
(* The configuration. A save holds settingsWriteMu; the listener that reloads *)
(* after a notification does not, so both may apply at the same time, each    *)
(* first to the application and then to the adapter. The save reads back what *)
(* is stored, and applies its own values if it cannot.                        *)
AdminSave(c) ==
  /\ Change /\ applying["save"] = Unset
  /\ stored' = c
  /\ applying' = [applying EXCEPT !["save"] = [pc |-> "read", cfg |-> c]]
  /\ UNCHANGED <<app, live, note, credential, req, limits, pending, analyses>>

SaveReads ==
  /\ applying["save"].pc = "read"
  /\ \E c \in {stored, applying["save"].cfg} :
       applying' = [applying EXCEPT !["save"] = [pc |-> "app", cfg |-> c]]
  /\ UNCHANGED <<stored, app, live, note, credential, req, limits, pending, analyses, changes>>

(* Another replica saves. Its notification, unless it fails, is on its way     *)
(* from the commit on.                                                        *)
RemoteSave(c) ==
  /\ Change
  /\ stored' = c
  /\ note' \in {note, TRUE}
  /\ UNCHANGED <<app, live, applying, credential, req, limits, pending, analyses>>

(* The listener applies what it reads, and nothing if the read fails.         *)
ReloadRead ==
  /\ note /\ applying["reload"] = Unset
  /\ note' = FALSE
  /\ \/ applying' = [applying EXCEPT !["reload"] = [pc |-> "app", cfg |-> stored]]
     \/ UNCHANGED applying
  /\ UNCHANGED <<stored, app, live, credential, req, limits, pending, analyses, changes>>

ApplyAISettings(p) ==
  /\ applying[p].pc = "app"
  /\ app' = applying[p].cfg
  /\ applying' = [applying EXCEPT ![p].pc = "adapter"]
  /\ UNCHANGED <<stored, live, note, credential, req, limits, pending, analyses, changes>>

Active(r) == req[r].pc \notin {"idle", "done"}

(* A save notifies every replica, this one included; the statement may fail.  *)
Notified(p) == note \/ p = "save"

Configure(p) ==
  /\ applying[p].pc = "adapter"
  /\ live' = applying[p].cfg
  /\ applying' = [applying EXCEPT ![p] = Unset]
  /\ note' \in {note, Notified(p)}
  /\ req' = [r \in Requests |->
       IF Active(r) THEN [req[r] EXCEPT !.seen = @ \cup {applying[p].cfg}] ELSE req[r]]
  /\ UNCHANGED <<stored, app, credential, limits, pending, analyses, changes>>

RotateSecret ==
  /\ Change /\ credential' = credential + 1
  /\ UNCHANGED <<stored, app, live, applying, note, req, limits, pending, analyses>>

-----------------------------------------------------------------------------
(* A call starts in the application, which checks the policy against its own  *)
(* copy of the configuration and masks the text for an outside endpoint.      *)
RouteForTask(cfg, kind) == IF kind = "embed" THEN cfg.embed ELSE cfg.task

IsOutside(route) == route.endpoint \in Outside

CheckTaskAIPolicy(cfg, route) == cfg.allow \/ ~IsOutside(route)

Refused(q, why) == [pc |-> "done", kind |-> q.kind, result |-> why]
Fail(r) == req' = [req EXCEPT ![r] = Refused(@, "error")]

(* What a call has posted: how often, which routes answered it with a 5xx,   *)
(* and whether a server accepted it, or may have.                             *)
Unsent == [posts |-> 0, failed |-> {}, spent |-> FALSE]

Begun(kind, prompt, at) ==
  [pc |-> at, kind |-> kind, prompt |-> prompt, cfg |-> app, seen |-> {live}, snap |-> live,
   route |-> RouteForTask(app, kind), masked |-> app.mask /\ IsOutside(RouteForTask(app, kind)), out |-> FALSE,
   own |-> <<>>, meta |-> NoLimits, budget |-> 0, adjusted |-> FALSE, second |-> FALSE, sent |-> Unsent]

Start(r) ==
  /\ req[r].pc = "idle"
  /\ \E kind \in Kinds, prompt \in Prompts :
       req' = [req EXCEPT ![r] =
         IF kind # "inspect" /\ ~CheckTaskAIPolicy(app, RouteForTask(app, kind))
         THEN Refused([kind |-> kind], "policy")
         ELSE Begun(kind, prompt, IF kind = "generate" THEN "lookup" ELSE "call")]
  /\ UNCHANGED <<settings, limits, pending, analyses>>

(* The key of an analysis: its text, and what the answer depends on.          *)
InputHash(q) == <<q.prompt, q.cfg.task, q.cfg.mask, q.cfg.auto>>

Found(q) == {a \in analyses : a.hash = InputHash(q) /\ a.model = q.cfg.task.model}

(* A row, or none; a read that fails counts as none.                          *)
FindCachedAnalysis(r) ==
  /\ req[r].pc = "lookup"
  /\ \/ req' = [req EXCEPT ![r].pc = "call"]
     \/ \E a \in Found(req[r]) :
          req' = [req EXCEPT ![r] =
            [pc |-> "done", kind |-> "generate", result |-> "cached", from |-> a.from, routed |-> @.cfg.task.model]]
  /\ UNCHANGED <<settings, limits, pending, analyses>>

-----------------------------------------------------------------------------
(* The adapter works on one snapshot of its own copy.                         *)
Snapshot(r) ==
  /\ req[r].pc = "call"
  /\ req' = [req EXCEPT ![r].snap = live, ![r].route = RouteForTask(live, req[r].kind), ![r].pc = "check"]
  /\ UNCHANGED <<settings, limits, pending, analyses>>

Identity(q) == <<q.route.endpoint, q.route.model, credential>>

\* Mutant: the adapter relies on the check of the application.
Unchecked(q) == q.route.model \notin q.snap.disabled

(* checkAIEndpoint and modelDisabled, for the route about to be used.         *)
Permitted(q) ==
  /\ CheckTaskAIPolicy(q.snap, q.route)
  /\ q.route.model \notin q.snap.disabled

CheckRoute(r) ==
  /\ req[r].pc = "check" /\ Permitted(req[r])
  /\ req' = [req EXCEPT ![r].out = req[r].masked \/ (req[r].snap.mask /\ IsOutside(req[r].route)),
                        ![r].own = Identity(req[r]), ![r].meta = NoLimits,
                        ![r].pc = IF req[r].snap.auto THEN "limits" ELSE "budget"]
  /\ UNCHANGED <<settings, limits, pending, analyses>>

(* A route that policy forbids, a host that does not resolve, or a key that   *)
(* cannot be read. None of these leads to the default route.                  *)
RefuseRoute(r) ==
  /\ req[r].pc = "check" /\ Fail(r)
  /\ UNCHANGED <<settings, limits, pending, analyses>>

\* Mutant: metadata is shared by everyone who asks for the model.
KeyWithoutCredential(q) == <<q.own[1], q.own[2], q.snap.allow>>

ModelLimitsKey(q) == <<q.own, q.snap.allow>>

Cached(k) == {e \in limits : e.key = k /\ e.fresh}
Running(k) == {p \in pending : p.key = k}

(* A lookup keeps the identity it runs under, and how many ran before it.     *)
Lookup(q) == [key |-> ModelLimitsKey(q), by |-> q.own, n |-> Cardinality(Running(ModelLimitsKey(q)))]

(* One lookup per key: the first caller starts it, the others join.           *)
JoinOrStart(q) == IF Running(ModelLimitsKey(q)) # {} THEN {} ELSE {Lookup(q)}

DiscoverModelLimits(r) ==
  /\ req[r].pc = "limits"
  /\ \/ \E e \in Cached(ModelLimitsKey(req[r])) :
          /\ req' = [req EXCEPT ![r].meta = e.value, ![r].pc = "budget"]
          /\ UNCHANGED pending
     \/ /\ Cached(ModelLimitsKey(req[r])) = {}
        /\ pending' = pending \cup JoinOrStart(req[r])
        /\ req' = [req EXCEPT ![r].pc = "wait"]
  /\ UNCHANGED <<settings, limits, analyses>>

Waiting(k) == {r \in Requests : req[r].pc = "wait" /\ ModelLimitsKey(req[r]) = k}

\* Mutant: the end of a lookup wakes one caller.
WakesOne(k) == IF Waiting(k) = {} THEN {} ELSE {CHOOSE r \in Waiting(k) : TRUE}

(* Closing the channel wakes everyone who waits.                              *)
Woken(k) == Waiting(k)

(* The entry that expires first makes room; which one it is depends on when   *)
(* the others were read, so it may be any.                                    *)
RoomAfter(dropped) == IF Cardinality(limits) >= CacheSize THEN limits \ {dropped} ELSE limits

(* cacheModelLimitsLocked, and the answer for everyone who waits. The lookup  *)
(* is detached from the call that started it, and ends within its timeout.    *)
FetchModelLimits(p) ==
  /\ \E window \in Windows, dropped \in (IF limits = {} THEN {Unset} ELSE limits) :
       LET value == [window |-> window, by |-> p.by]
       IN /\ limits' = {e \in RoomAfter(dropped) : e.key # p.key} \cup {[key |-> p.key, value |-> value, fresh |-> TRUE]}
          /\ req' = [r \in Requests |->
               IF r \in Woken(p.key) THEN [req[r] EXCEPT !.meta = value, !.pc = "budget"] ELSE req[r]]
  /\ pending' = pending \ {p}
  /\ UNCHANGED <<settings, analyses>>

Expire(e) ==
  /\ e.fresh
  /\ limits' = (limits \ {e}) \cup {[e EXCEPT !.fresh = FALSE]}
  /\ UNCHANGED <<settings, req, pending, analyses>>

(* The caller goes away. The call ends, a lookup it started does not.         *)
Cancel(r) ==
  /\ req[r].pc \in {"wait", "posted"} /\ Fail(r)
  /\ UNCHANGED <<settings, limits, pending, analyses>>

-----------------------------------------------------------------------------
(* The budget of the answer, and the request itself.                          *)
MinPositive(S) == LET P == {n \in S : n > 0} IN IF P = {} THEN 0 ELSE Min(P)

EffectiveWindow(q) == IF q.meta.window > 0 THEN q.meta.window ELSE IF q.kind = "embed" THEN 0 ELSE ConfiguredWindow

(* An answer needs room; the input of an embedding only has to fit.           *)
HasRoom(q) ==
  \/ EffectiveWindow(q) = 0
  \/ EffectiveWindow(q) > q.prompt
  \/ q.kind = "embed" /\ EffectiveWindow(q) = q.prompt

BudgetOutputTokens(q) ==
  IF q.kind = "embed" THEN 0
  ELSE MinPositive({OutputCap} \cup (IF EffectiveWindow(q) > 0 THEN {EffectiveWindow(q) - q.prompt} ELSE {}))

Budget(r) ==
  /\ req[r].pc = "budget" /\ req[r].kind # "inspect"
  /\ \/ HasRoom(req[r]) /\ req' = [req EXCEPT ![r].budget = BudgetOutputTokens(req[r]), ![r].pc = "post", ![r].adjusted = FALSE]
     \/ ~HasRoom(req[r]) /\ Fail(r)
  /\ UNCHANGED <<settings, limits, pending, analyses>>

(* An administrator's inspection ends with the limits.                        *)
ModelLimits(r) ==
  /\ req[r].pc = "budget" /\ req[r].kind = "inspect"
  /\ req' = [req EXCEPT ![r] = Refused(@, "limits")]
  /\ UNCHANGED <<settings, limits, pending, analyses>>

Post(r) ==
  /\ req[r].pc = "post"
  /\ req' = [req EXCEPT ![r].pc = "posted", ![r].sent.posts = @ + 1]
  /\ UNCHANGED <<settings, limits, pending, analyses>>

(* A complete answer. The vectors of an embedding go to the caller.           *)
Answer(r) ==
  /\ req[r].pc = "posted"
  /\ req' = [req EXCEPT ![r] = IF @.kind = "embed" THEN Refused(@, "vectors") ELSE [@ EXCEPT !.pc = "save", !.sent.spent = TRUE]]
  /\ UNCHANGED <<settings, limits, pending, analyses>>

(* The call goes on with the default route, from the check of the route on.   *)
Defaulted(q) ==
  [q EXCEPT !.route = q.snap.default, !.second = TRUE, !.sent.failed = @ \cup {q.route}, !.pc = "check"]

MayDefault(q) == q.kind = "generate" /\ ~q.second /\ q.snap.default # q.route

(* Nothing is sent again after a timeout, a broken connection or an answer    *)
(* that is cut off, empty or malformed: the model may have done the work.     *)
GivenUp(q) == Refused(q, "error")

Lose(r) ==
  /\ req[r].pc = "posted"
  /\ req' = [req EXCEPT ![r] = GivenUp([@ EXCEPT !.sent.spent = TRUE])]
  /\ UNCHANGED <<settings, limits, pending, analyses>>

(* A 5xx other than 504 of a task's own route: the default route is tried,    *)
(* whether or not the server had begun to work on the request.                *)
ServerUnavailable(r) ==
  /\ req[r].pc = "posted"
  /\ req' = [req EXCEPT ![r] = IF MayDefault(@) THEN Defaulted(@) ELSE Refused(@, "error")]
  /\ UNCHANGED <<settings, limits, pending, analyses>>

(* What a 400 leads to: the server names a context length, the size of the    *)
(* prompt and a cap of the output, each 0 when it does not. 0 is no retry.    *)
AdjustedBudget(q, context, input, output) ==
  LET window == MinPositive({context, EffectiveWindow(q)})
      remaining == window - (IF input > 0 THEN input ELSE q.prompt)
      adjusted == MinPositive({q.budget, output} \cup (IF context > 0 THEN {remaining} ELSE {}))
  IN IF (context > 0 /\ remaining <= 0) \/ adjusted >= q.budget THEN 0 ELSE adjusted

\* Mutant: every rejection may be adjusted.
MayAdjustAgain(q) == q.kind = "generate"

(* Only the first attempt on a route.                                         *)
MayAdjust(q) == q.kind = "generate" /\ ~q.adjusted

(* The request is posted once more, with a smaller budget or with the other   *)
(* name of the field that carries it, or the rejection ends the call.         *)
Reject(r) ==
  /\ req[r].pc = "posted"
  /\ \E context, output \in Windows, input \in {0} \cup Prompts :
       LET b == AdjustedBudget(req[r], context, input, output)
       IN \/ /\ MayAdjust(req[r]) /\ b > 0
             /\ req' = [req EXCEPT ![r].budget = b, ![r].adjusted = TRUE, ![r].pc = "post"]
          \/ /\ MayAdjust(req[r])
             /\ req' = [req EXCEPT ![r].adjusted = TRUE, ![r].pc = "post"]
          \/ Fail(r)
  /\ UNCHANGED <<settings, limits, pending, analyses>>

\* Mutant: the row names the model that was asked for.
RowOfTask(q) == [hash |-> InputHash(q), model |-> q.cfg.task.model, from |-> q.route.model]

(* The row names the model that answered.                                     *)
Row(q) == [hash |-> InputHash(q), model |-> q.route.model, from |-> q.route.model]

(* runAnalysis stores a usable answer; an unusable one is stored nowhere.     *)
SaveAnalysis(r) ==
  /\ req[r].pc = "save"
  /\ \/ analyses' = analyses \cup {Row(req[r])} /\ req' = [req EXCEPT ![r] = Refused(@, "answer")]
     \/ UNCHANGED analyses /\ Fail(r)
  /\ UNCHANGED <<settings, limits, pending>>

-----------------------------------------------------------------------------
CallStep(r) ==
  \/ FindCachedAnalysis(r) \/ Snapshot(r) \/ CheckRoute(r) \/ RefuseRoute(r)
  \/ DiscoverModelLimits(r) \/ Budget(r) \/ ModelLimits(r) \/ Post(r)
  \/ Answer(r) \/ Lose(r) \/ ServerUnavailable(r) \/ Reject(r) \/ SaveAnalysis(r)

Next ==
  \/ \E c \in Configs : AdminSave(c)
  \/ \E c \in Configs : RemoteSave(c)
  \/ SaveReads
  \/ ReloadRead
  \/ \E p \in {"save", "reload"} : ApplyAISettings(p)
  \/ \E p \in {"save", "reload"} : Configure(p)
  \/ RotateSecret
  \/ \E r \in Requests : Start(r)
  \/ \E r \in Requests : CallStep(r)
  \/ \E r \in Requests : Cancel(r)
  \/ \E p \in pending : FetchModelLimits(p)
  \/ \E e \in limits : Expire(e)

Spec == Init /\ [][Next]_vars

-----------------------------------------------------------------------------
(* Text reaches an outside endpoint only if a configuration in force during   *)
(* the call routes it there, allows it, and masks it as that configuration    *)
(* asks, whatever is saved meanwhile and on whichever route it goes out.      *)
(* openai.go, generateOnce: "Application-level checks alone can race a live   *)
(* endpoint change."                                                          *)
StaysInside ==
  \A r \in Requests : req[r].pc = "posted" /\ IsOutside(req[r].route) =>
    \E c \in req[r].seen :
      /\ c.allow /\ (c.mask => req[r].out)
      /\ req[r].route \in {RouteForTask(c, req[r].kind), c.default}

(* How often one prompt may be submitted. What a server accepted, or may have *)
(* accepted, is not posted again (openai.go: "It never retries an             *)
(* accepted/partial response"); a route that answered with a 5xx is not asked *)
(* again, only the task's own route is ever replaced, and adjustments and the *)
(* fallback together make four posts at most (request_budget.go: "the same    *)
(* input must never be unknowingly submitted an unbounded number of times").  *)
GeneratesOnce ==
  \A r \in Requests : LET q == req[r] IN q.pc \in {"post", "posted"} =>
    /\ ~q.sent.spent
    /\ q.route \notin q.sent.failed /\ q.sent.failed \subseteq {RouteForTask(q.snap, q.kind)}
    /\ q.sent.posts <= IF q.sent.failed = {} THEN 2 ELSE 4

(* Not so: request_budget.go says "No transport/5xx or partial-stream         *)
(* retries", and a request that a server answered with a 5xx, which it may    *)
(* have accepted, is posted again on the default route.                       *)
NoServerErrorRetry == \A r \in Requests : req[r].pc = "posted" => req[r].sent.failed = {}

(* An answer from the cache was given by the model that the task is routed    *)
(* to, never by the fallback of an earlier call or by a model configured      *)
(* while that call ran.                                                       *)
CacheIsRouted ==
  \A r \in Requests : req[r].pc = "done" /\ req[r].result = "cached" => req[r].from = req[r].routed

(* A call is held to the limits of its own endpoint, model and credential,    *)
(* also after the key behind the reference is rotated.                        *)
OwnLimits ==
  \A r \in Requests : Active(r) /\ req[r].meta # NoLimits => req[r].meta.by = req[r].own

(* Nobody waits for a lookup that is over: whoever joined one is woken by its *)
(* end, also when the caller who started it has gone away, the key was        *)
(* rotated or the cache had to make room.                                     *)
NobodyStranded ==
  \A r \in Requests : req[r].pc = "wait" => Running(ModelLimitsKey(req[r])) # {}

-----------------------------------------------------------------------------
(* The inductive invariant behind the five, in named parts.                   *)
Routes == UNION {{c.task, c.embed, c.default} : c \in Configs}
Models == {route.model : route \in Routes}
Identities == {<<route.endpoint, route.model, n>> : route \in Routes, n \in 0..MaxChanges}
Keys == {<<own, c.allow>> : own \in Identities, c \in Configs}
Reported == [window : Windows, by : Identities]

CallType ==
  [pc : {"lookup", "call", "check", "limits", "wait", "budget", "post", "posted", "save"},
   kind : Kinds, prompt : Prompts, cfg : Configs, seen : SUBSET Configs, snap : Configs, route : Routes,
   masked : BOOLEAN, out : BOOLEAN, own : Identities \cup {<<>>}, meta : Reported \cup {NoLimits},
   budget : Nat, adjusted : BOOLEAN, second : BOOLEAN,
   sent : [posts : Nat, failed : SUBSET Routes, spent : BOOLEAN]]

DoneType ==
  [pc : {"done"}, kind : Kinds, result : {"policy", "error", "limits", "vectors", "answer"}]
  \cup [pc : {"done"}, kind : Kinds, result : {"cached"}, from : Models, routed : Models]

TypeOK ==
  /\ stored \in Configs /\ app \in Configs /\ live \in Configs
  /\ applying \in [{"save", "reload"} -> {Unset} \cup [pc : {"read", "app", "adapter"}, cfg : Configs]]
  /\ note \in BOOLEAN /\ credential \in 0..changes /\ changes \in 0..MaxChanges
  /\ req \in [Requests -> {Idle} \cup DoneType \cup CallType]
  /\ limits \subseteq [key : Keys, value : Reported, fresh : BOOLEAN]
  /\ pending \subseteq [key : Keys, by : Identities, n : {0}]
  /\ \A a \in analyses : a.model \in Models /\ a.from \in Models

(* A call has seen what is live, and works on something it has seen.          *)
SeenInv == \A r \in Requests : Active(r) => live \in req[r].seen /\ req[r].snap \in req[r].seen

(* Its route is one of the configuration it works on, checked against that    *)
(* configuration before anything is sent. Only a generation looks for an      *)
(* analysis.                                                                  *)
Sending == {"limits", "wait", "budget", "post", "posted", "save"}

RouteInv ==
  \A r \in Requests : LET q == req[r] IN Active(r) =>
    /\ q.pc \notin {"lookup", "call"} => q.route \in {RouteForTask(q.snap, q.kind), q.snap.default}
    /\ q.pc \in Sending =>
         /\ CheckTaskAIPolicy(q.snap, q.route) /\ (q.snap.mask /\ IsOutside(q.route) => q.out)
         /\ q.own \in Identities
    /\ q.pc = "lookup" => q.kind = "generate"

(* Where a call is on its way tells what it has posted: at most two requests  *)
(* to its own route, and after a 5xx of that one at most two to the default.  *)
PostsHere(q) ==
  CASE q.pc = "post" -> (IF q.adjusted THEN 1 ELSE 0)
    [] q.pc \in {"posted", "save"} -> (IF q.adjusted THEN 2 ELSE 1)
    [] OTHER -> 0

SentSoFar(q) ==
  /\ q.sent.spent => q.pc = "save"
  /\ q.pc \in {"lookup", "call"} => ~q.second
  /\ ~q.second => q.sent.failed = {} /\ (q.pc \notin {"lookup", "call"} => q.route = RouteForTask(q.snap, q.kind))
  /\ q.second =>
       /\ q.sent.failed = {RouteForTask(q.snap, q.kind)}
       /\ q.route = q.snap.default /\ q.route # RouteForTask(q.snap, q.kind)
  /\ q.sent.posts <= (IF q.second THEN 2 ELSE 0) + PostsHere(q)

SentInv == \A r \in Requests : Active(r) => SentSoFar(req[r])

(* Limits go with the identity they were looked up under; the lookup somebody *)
(* waits for is running.                                                      *)
LimitsInv ==
  /\ \A e \in limits : e.value.by = e.key[1]
  /\ \A p \in pending : p.by = p.key[1]
  /\ OwnLimits
  /\ NobodyStranded

AnalysesInv == (\A a \in analyses : a.model = a.from) /\ CacheIsRouted

ProviderInv == TypeOK /\ SeenInv /\ RouteInv /\ SentInv /\ LimitsInv /\ AnalysesInv
=============================================================================
