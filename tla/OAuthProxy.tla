----------------------------- MODULE OAuthProxy -----------------------------
(* MCP clients that connect through OAuth: the authorization-server proxy    *)
(* in front of Keycloak (application/mcp_oauth_proxy.go, transport/mcpserver *)
(* oauth_proxy_http.go) and the verification of its access tokens            *)
(* (application/mcp_oauth.go) behind the shared discovery cache.             *)
(*                                                                           *)
(* The proxy stores registrations only. A consent, a login state, a code and *)
(* a refresh token are values it seals and gets back from the browser or the *)
(* client: they never change, nobody else can make one, and nothing stops    *)
(* them from coming back twice. Expiry is a refusal, which may happen at any *)
(* step and changes nothing.                                                 *)
EXTENDS Naturals, FiniteSets

CONSTANTS
  Clients,    \* client ids that registrations may get
  Browsers,
  Procs,      \* requests handled at the same time
  Issuers,    \* values the setting auth.oidc.issuer takes
  Limit,      \* oauthProxyClientLimit
  MaxFlows,   \* bound: authorizations that are begun
  MaxEvents   \* bound: deletions, changes of the issuer, idle months

ASSUME OAuthAssumption ==
  IsFiniteSet(Clients) /\ IsFiniteSet(Procs) /\ Limit \in Nat \ {0} /\ MaxFlows \in Nat /\ MaxEvents \in Nat /\ Issuers # {}

None == "none"
Flows == 1..MaxFlows

VARIABLES
  clients,   \* mcp_oauth_clients
  idle,      \* those neither created nor used for oauthProxyClientMaxIdle
  gone,      \* ids that have been deleted or pruned
  flow,      \* sequence of authorizations begun: client and browser
  cookie,    \* [Browsers -> postra_oauth_consent, 0 for none]
  approved,  \* flows whose consent was confirmed: sealed states
  codes,     \* sealed codes: the flow of each, whose challenge it carries
  spent,     \* upstream codes that Keycloak has exchanged
  refresh,   \* sealed refresh tokens: client and flow
  tokens,    \* history: who got an access token, for which flow
  issuer,    \* the configured issuer
  cache,     \* mcpOAuthProviderCache
  proc,      \* [Procs -> the request]
  events

vars == <<clients, idle, gone, flow, cookie, approved, codes, spent, refresh, tokens,
          issuer, cache, proc, events>>
store == <<clients, idle, gone>>
browser == <<flow, cookie, approved, codes>>
grants == <<spent, refresh, tokens>>

NoReq == [pc |-> "idle", client |-> None, grant |-> "none", code |-> 0, flow |-> 0, issuer |-> None,
          got |-> None, from |-> None, next |-> "idle"]

Init ==
  /\ clients = {} /\ idle = {} /\ gone = {}
  /\ flow = [f \in {} |-> None] /\ cookie = [b \in Browsers |-> 0] /\ approved = {} /\ codes = {}
  /\ spent = {} /\ refresh = {} /\ tokens = {}
  /\ issuer = CHOOSE i \in Issuers : TRUE
  /\ cache = [issuer |-> None, provider |-> None, fresh |-> FALSE, loading |-> FALSE]
  /\ proc = [p \in Procs |-> NoReq]
  /\ events = 0

-----------------------------------------------------------------------------
(* The store. A touch sets last_used_at of a row that is still there.        *)
Pruned == clients \ idle
Touched(c) == idle \ {c}
Unused == Clients \ (clients \cup gone)   \* ids are drawn at random

(* Registration: prune, count, then insert in a later statement.             *)
\* Mutant: off by one.
RoomAtLimit == Cardinality(Pruned) <= Limit

Room == Cardinality(Pruned) < Limit

RegisterCount(p) ==
  /\ proc[p].pc = "idle" /\ Unused # {}
  /\ clients' = Pruned /\ gone' = gone \cup idle /\ idle' = {}
  /\ proc' = IF Room THEN [proc EXCEPT ![p].pc = "register"] ELSE proc
  /\ UNCHANGED <<browser, grants, issuer, cache, events>>

RegisterCreate(p) ==
  /\ proc[p].pc = "register"
  /\ proc' = [proc EXCEPT ![p] = NoReq]
  /\ clients' = clients \cup IF Unused = {} THEN {} ELSE {CHOOSE c \in Unused : TRUE}
  /\ UNCHANGED <<idle, gone, browser, grants, issuer, cache, events>>

(* An administrator deletes a registration.                                  *)
DeleteMCPOAuthClient(c) ==
  /\ c \in clients /\ events < MaxEvents
  /\ events' = events + 1
  /\ clients' = clients \ {c} /\ idle' = idle \ {c} /\ gone' = gone \cup {c}
  /\ UNCHANGED <<browser, grants, issuer, cache, proc>>

(* Thirty days pass in which only the clients of running requests are used.  *)
IdleMonth ==
  /\ events < MaxEvents
  /\ events' = events + 1
  /\ idle' = clients
  /\ UNCHANGED <<clients, gone, browser, spent, refresh, tokens, issuer, cache, proc>>

-----------------------------------------------------------------------------
SetCookie(b, f) == cookie' = [cookie EXCEPT ![b] = f]

(* Authorization. PrepareMCPOAuthProxy seals the request and the nonce of    *)
(* the cookie it sets; a later page in the same browser replaces the cookie. *)
PrepareMCPOAuthProxy(b, c) ==
  LET f == Cardinality(DOMAIN flow) + 1 IN
  /\ c \in clients /\ f \in Flows
  /\ flow' = [g \in DOMAIN flow \cup {f} |-> IF g = f THEN [client |-> c, browser |-> b] ELSE flow[g]]
  /\ SetCookie(b, f)
  /\ UNCHANGED <<store, approved, codes, grants, issuer, cache, proc, events>>

ConsentMatches(b, f) == cookie[b] = f

(* BeginMCPOAuthProxy: the form of one page comes back with the browser's    *)
(* cookie, which the answer clears whatever it says. A refusal, by the user  *)
(* or because discovery fails, goes back to the client and leaves nothing.   *)
BeginMCPOAuthProxy(b, f, allow) ==
  LET ok == ConsentMatches(b, f) /\ flow[f].client \in clients /\ allow IN
  /\ flow[f].browser = b /\ cookie[b] # 0
  /\ SetCookie(b, 0)
  /\ approved' = IF ok THEN approved \cup {f} ELSE approved
  /\ idle' = IF ok THEN Touched(flow[f].client) ELSE idle
  /\ UNCHANGED <<clients, gone, flow, codes, grants, issuer, cache, proc, events>>

(* Keycloak logs the user in and sends the browser to the callback with the  *)
(* sealed state; CompleteMCPOAuthProxy seals Keycloak's code for the client. *)
CompleteMCPOAuthProxy(f) ==
  /\ f \in approved
  /\ codes' = codes \cup {f}
  /\ UNCHANGED <<store, flow, cookie, approved, grants, issuer, cache, proc, events>>

-----------------------------------------------------------------------------
(* The token endpoint. A client sends a code with the verifier of one of its *)
(* own flows, or a refresh token; it may send the same one again.            *)
AuthenticateProxyClient(c) == c \in clients

Exchange(p, c, g) ==
  /\ proc[p].pc = "idle" /\ AuthenticateProxyClient(c)
  /\ proc' = [proc EXCEPT ![p] =
       [NoReq EXCEPT !.pc = "provider", !.client = c, !.grant = g.grant, !.code = g.code, !.flow = g.flow,
                     !.issuer = issuer, !.next = "redeem"]]
  /\ UNCHANGED <<store, browser, grants, issuer, cache, events>>

(* The code belongs to the client, and the verifier to the code.             *)
\* Mutant: no PKCE.
CodeFitsAny(r) == r.code \in codes /\ flow[r.code].client = r.client

CodeFits(r) == r.code \in codes /\ flow[r.code].client = r.client /\ r.flow = r.code

RefreshFits(r) == [client |-> r.client, flow |-> r.code] \in refresh

(* Keycloak exchanges a code once; its answer may be lost.                   *)
Redeem(p) ==
  LET r == proc[p]
      fits == \/ r.grant = "code" /\ CodeFits(r) /\ r.code \notin spent
              \/ r.grant = "refresh" /\ RefreshFits(r)
  IN /\ r.pc = "redeem"
     /\ spent' = IF fits /\ r.grant = "code" THEN spent \cup {r.code} ELSE spent
     /\ \/ fits /\ proc' = [proc EXCEPT ![p].pc = "provider", ![p].next = "verify",
                                        ![p].from = r.got, ![p].issuer = issuer]
        \/ proc' = [proc EXCEPT ![p] = NoReq]
     /\ UNCHANGED <<store, browser, refresh, tokens, issuer, cache, events>>

(* The token passes the checks of any bearer, for which the setting is read  *)
(* again, or is refused: a token of another issuer always is.                *)
Issue(p) ==
  LET r == proc[p] IN
  /\ r.pc = "verify"
  /\ \/ /\ r.from = r.got
        /\ tokens' = tokens \cup {[client |-> r.client, asked |-> r.flow, flow |-> r.code]}
        /\ refresh' = refresh \cup {[client |-> r.client, flow |-> r.code]}
        /\ idle' = Touched(r.client)
     \/ UNCHANGED <<tokens, refresh, idle>>
  /\ proc' = [proc EXCEPT ![p] = NoReq]
  /\ UNCHANGED <<clients, gone, browser, spent, issuer, cache, events>>

(* The requests of clients that Keycloak knows itself pass straight through; *)
(* they need the endpoints only.                                             *)
ForwardMCPOAuthToken(p) ==
  /\ proc[p].pc = "idle"
  /\ proc' = [proc EXCEPT ![p] = [NoReq EXCEPT !.pc = "provider", !.issuer = issuer, !.next = "idle"]]
  /\ UNCHANGED <<store, browser, grants, issuer, cache, events>>

(* A bearer call to the MCP endpoint verifies its token the same way.        *)
AuthenticateMCPOAuthToken(p) ==
  /\ proc[p].pc = "idle" /\ tokens # {}
  /\ proc' = [proc EXCEPT ![p] = [NoReq EXCEPT !.pc = "provider", !.issuer = issuer, !.next = "idle"]]
  /\ UNCHANGED <<store, browser, grants, issuer, cache, events>>

-----------------------------------------------------------------------------
(* mcpProvider: one request loads, the others wait for it and look again.    *)
\* Mutant: the entry is taken for whatever issuer is asked for.
HitAnyIssuer(i) == cache.fresh

Hit(i) == cache.issuer = i /\ cache.fresh

NobodyLoads == ~cache.loading

(* Failures are cached too, and refuse the request; a bearer call has no     *)
(* further step.                                                             *)
Found(p, provider) ==
  IF provider = None \/ proc[p].next = "idle" THEN NoReq
  ELSE [proc[p] EXCEPT !.pc = proc[p].next, !.got = provider]

Lookup(p) ==
  /\ proc[p].pc = "provider"
  /\ \/ Hit(proc[p].issuer) /\ UNCHANGED cache
        /\ proc' = [proc EXCEPT ![p] = Found(p, cache.provider)]
     \/ /\ ~Hit(proc[p].issuer) /\ ~NobodyLoads
        /\ proc' = [proc EXCEPT ![p].pc = "waiting"] /\ UNCHANGED cache
     \/ /\ ~Hit(proc[p].issuer) /\ NobodyLoads
        /\ proc' = [proc EXCEPT ![p].pc = "loading"]
        /\ cache' = [cache EXCEPT !.loading = TRUE]
  /\ UNCHANGED <<store, browser, grants, issuer, events>>

Woken(q) == proc[q].pc = "waiting"

(* Discovery ends within its timeout; closing the channel wakes everybody.   *)
LoadDone(p, ok) ==
  LET i == proc[p].issuer IN
  /\ proc[p].pc = "loading"
  /\ cache' = [issuer |-> i, provider |-> IF ok THEN i ELSE None, fresh |-> TRUE, loading |-> FALSE]
  /\ proc' = [q \in Procs |->
       CASE q = p -> Found(p, IF ok THEN i ELSE None)
         [] q # p /\ Woken(q) -> [proc[q] EXCEPT !.pc = "provider"]
         [] OTHER -> proc[q]]
  /\ UNCHANGED <<store, browser, grants, issuer, events>>

(* A waiting caller goes away.                                               *)
Cancel(p) ==
  /\ proc[p].pc = "waiting"
  /\ proc' = [proc EXCEPT ![p] = NoReq]
  /\ UNCHANGED <<store, browser, grants, issuer, cache, events>>

(* An entry lives 5 s at least, far longer than a woken request needs.       *)
Expire ==
  /\ cache.fresh /\ \A p \in Procs : proc[p].pc # "provider"
  /\ cache' = [cache EXCEPT !.fresh = FALSE]
  /\ UNCHANGED <<store, browser, grants, issuer, proc, events>>

ChangeIssuer(i) ==
  /\ i # issuer /\ events < MaxEvents
  /\ events' = events + 1 /\ issuer' = i
  /\ UNCHANGED <<store, browser, grants, cache, proc>>

-----------------------------------------------------------------------------
Grants(c) ==
  {[grant |-> "code", code |-> f, flow |-> v] : f \in codes, v \in {v \in DOMAIN flow : flow[v].client = c}}
  \cup {[grant |-> "refresh", code |-> t.flow, flow |-> t.flow] : t \in {t \in refresh : t.client = c}}

Next ==
  \/ \E p \in Procs : RegisterCount(p)
  \/ \E p \in Procs : RegisterCreate(p)
  \/ \E c \in Clients : DeleteMCPOAuthClient(c)
  \/ IdleMonth
  \/ \E b \in Browsers, c \in Clients : PrepareMCPOAuthProxy(b, c)
  \/ \E b \in Browsers, f \in DOMAIN flow, allow \in BOOLEAN : BeginMCPOAuthProxy(b, f, allow)
  \/ \E f \in Flows : CompleteMCPOAuthProxy(f)
  \/ \E p \in Procs, c \in Clients : \E g \in Grants(c) : Exchange(p, c, g)
  \/ \E p \in Procs : Redeem(p)
  \/ \E p \in Procs : Issue(p)
  \/ \E p \in Procs : ForwardMCPOAuthToken(p)
  \/ \E p \in Procs : AuthenticateMCPOAuthToken(p)
  \/ \E p \in Procs : Lookup(p)
  \/ \E p \in Procs, ok \in BOOLEAN : LoadDone(p, ok)
  \/ \E p \in Procs : Cancel(p)
  \/ Expire
  \/ \E i \in Issuers : ChangeIssuer(i)

Spec == Init /\ [][Next]_vars

-----------------------------------------------------------------------------
(* Whatever pages, forms, callbacks and token requests are repeated, crossed *)
(* or mixed up, a client gets a token only for the flow it asked with, which *)
(* it began itself and whose own consent page was confirmed.                 *)
TokensFollowConsent ==
  \A t \in tokens :
    /\ t.asked = t.flow
    /\ flow[t.flow].client = t.client
    /\ t.flow \in approved

(* Registration counts and inserts in two statements, and anybody may call  *)
(* it. Requests that count together can pass oauthProxyClientLimit, but never *)
(* by as many as are handled at the same time, whatever is pruned or deleted *)
(* between the two.                                                          *)
RegistrationsBounded == Cardinality(clients) < Limit + Cardinality(Procs)

(* The discovery cache under a change of issuer, failures and waiters that   *)
(* give up: a request goes on with the provider of the issuer it was to use, *)
(* one request loads at a time, and nobody waits for a load that is over.    *)
CacheServes ==
  /\ \A p \in Procs : proc[p].pc \in {"redeem", "verify"} => proc[p].got = proc[p].issuer
  /\ \A p, q \in Procs : proc[p].pc = "loading" /\ proc[q].pc = "loading" => p = q
  /\ \A p \in Procs : proc[p].pc = "waiting" => \E q \in Procs : proc[q].pc = "loading"

-----------------------------------------------------------------------------
(* A request that has counted may still insert, and nothing else may.        *)
Registering == {p \in Procs : proc[p].pc = "register"}

RegisterInv == Cardinality(clients) + Cardinality(Registering) < Limit + Cardinality(Procs)

(* The inductive invariant behind the others, in named parts.                *)
ReqType ==
  [pc : {"idle", "register", "provider", "waiting", "loading", "redeem", "verify"},
   client : Clients \cup {None}, grant : {"none", "code", "refresh"},
   code : 0..MaxFlows, flow : 0..MaxFlows,
   issuer : Issuers \cup {None}, got : Issuers \cup {None}, from : Issuers \cup {None},
   next : {"idle", "redeem", "verify"}]

TypeOK ==
  /\ clients \subseteq Clients /\ idle \subseteq clients /\ gone \subseteq Clients
  /\ \E n \in 0..MaxFlows : flow \in [1..n -> [client : Clients, browser : Browsers]]
  /\ cookie \in [Browsers -> 0..MaxFlows]
  /\ approved \subseteq Flows /\ codes \subseteq Flows /\ spent \subseteq Flows
  /\ refresh \subseteq [client : Clients, flow : Flows]
  /\ tokens \subseteq [client : Clients, asked : Flows, flow : Flows]
  /\ issuer \in Issuers
  /\ cache \in [issuer : Issuers \cup {None}, provider : Issuers \cup {None},
                 fresh : BOOLEAN, loading : BOOLEAN]
  /\ proc \in [Procs -> ReqType]
  /\ events \in 0..MaxEvents

(* A deleted registration never comes back under its id.                     *)
GoneForGood == clients \cap gone = {}

(* f was begun by c, and its own consent was confirmed.                      *)
Consented(f, c) == f \in approved /\ flow[f].client = c

(* Every value the proxy has sealed goes back to a consent of its client.    *)
SealedInv ==
  /\ approved \subseteq DOMAIN flow
  /\ codes \subseteq approved
  /\ \A t \in refresh : Consented(t.flow, t.client)
  /\ \A t \in tokens : t.asked = t.flow /\ Consented(t.flow, t.client)

(* A request past Redeem has shown such a value.                             *)
RequestInv ==
  \A p \in Procs : LET r == proc[p] IN
    /\ r.pc = "verify" => r.next = "verify"
    /\ r.next \in {"redeem", "verify"} => r.client \in Clients
    /\ r.grant = "refresh" => r.flow = r.code
    /\ r.next = "verify" => r.flow = r.code /\ Consented(r.code, r.client)

(* The flag of the cache is set exactly while somebody loads.                *)
CacheInv ==
  /\ cache.provider \in {None, cache.issuer}
  /\ \A p \in Procs : proc[p].pc = "loading" => cache.loading
  /\ cache.loading => \E p \in Procs : proc[p].pc = "loading"
  /\ \A p \in Procs : proc[p].pc = "waiting" => cache.loading
  /\ \A p, q \in Procs : proc[p].pc = "loading" /\ proc[q].pc = "loading" => p = q
  /\ \A p \in Procs : proc[p].pc \in {"redeem", "verify"} => proc[p].got = proc[p].issuer

OAuthInv == TypeOK /\ GoneForGood /\ SealedInv /\ RequestInv /\ CacheInv
=============================================================================
