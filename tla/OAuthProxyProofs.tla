-------------------------- MODULE OAuthProxyProofs --------------------------
(* Proofs about OAuthProxy, for any number of clients, browsers, requests,   *)
(* issuers and authorizations: tokens follow consent, registrations stay     *)
(* bounded, and the discovery cache hands a request the provider of the      *)
(* issuer it was to use.                                                     *)
EXTENDS OAuthProxy, FiniteSetTheorems, TLAPS

-----------------------------------------------------------------------------
(* Records.                                                                  *)

(* The requests the actions write have their type.                           *)
LEMMA RequestTypes ==
  /\ NoReq \in ReqType
  /\ \A r \in ReqType, x \in {"idle", "register", "provider", "waiting", "loading", "redeem", "verify"} :
       [r EXCEPT !.pc = x] \in ReqType
  /\ \A r \in ReqType, x \in {"redeem", "verify"}, i \in Issuers \cup {None} :
       [r EXCEPT !.pc = x, !.got = i] \in ReqType
  /\ \A r \in ReqType, i \in Issuers, j \in Issuers \cup {None} :
       [r EXCEPT !.pc = "provider", !.next = "verify", !.from = j, !.issuer = i] \in ReqType
  /\ \A i \in Issuers : [NoReq EXCEPT !.pc = "provider", !.issuer = i, !.next = "idle"] \in ReqType
  <1>1. 0 \in 0..MaxFlows
    BY OAuthAssumption
  <1> QED
    BY <1>1, Zenon DEF NoReq, ReqType

(* A request that starts at the token endpoint.                              *)
LEMMA StartTypes ==
  ASSUME NEW c \in Clients, NEW g \in {"none", "code", "refresh"}, NEW n \in 0..MaxFlows, NEW f \in 0..MaxFlows,
         NEW i \in Issuers
  PROVE  [NoReq EXCEPT !.pc = "provider", !.client = c, !.grant = g, !.code = n, !.flow = f,
                       !.issuer = i, !.next = "redeem"] \in ReqType
  <1>1. 0 \in 0..MaxFlows
    BY OAuthAssumption
  <1> QED
    BY <1>1, Zenon DEF NoReq, ReqType

-----------------------------------------------------------------------------
(* One request changes: what an action does to proc.                         *)
Becomes(p, r) ==
  /\ r \in ReqType
  /\ proc'[p] = r
  /\ \A q \in Procs \ {p} : proc'[q] = proc[q]
  /\ proc' \in [Procs -> ReqType]

LEMMA OneRequest ==
  ASSUME TypeOK, NEW p \in Procs, NEW r \in ReqType, proc' = [proc EXCEPT ![p] = r]
  PROVE  Becomes(p, r)
  BY Zenon DEF TypeOK, Becomes

(* The domain of flow is an initial interval, and the next number is free.   *)
LEMMA NextFlow ==
  ASSUME NEW n \in 0..MaxFlows, DOMAIN flow = 1..n
  PROVE  Cardinality(DOMAIN flow) + 1 = n + 1 /\ (n + 1) \notin DOMAIN flow
  <1>1. 1 \in Int /\ n \in Int
    BY OAuthAssumption
  <1>2. Cardinality(1..n) = n
    BY <1>1, FS_Interval, SMT
  <1> QED
    BY <1>2

-----------------------------------------------------------------------------
(* Consent.                                                                  *)

(* What was begun stays as it was begun, and a confirmation is not undone.   *)
LEMMA ConsentStays ==
  ASSUME OAuthInv, [Next]_vars
  PROVE  /\ \A f \in DOMAIN flow : f \in DOMAIN flow' /\ flow'[f] = flow[f]
         /\ approved \subseteq approved'
         /\ \A f \in approved : f \in approved' /\ flow'[f] = flow[f]
  <1> USE DEF store, browser, grants
  <1>1. \/ UNCHANGED <<flow, approved>>
        \/ \E b \in Browsers, c \in Clients : PrepareMCPOAuthProxy(b, c)
        \/ \E b \in Browsers, f \in DOMAIN flow, allow \in BOOLEAN : BeginMCPOAuthProxy(b, f, allow)
    BY DEF Next, vars, RegisterCount, RegisterCreate, DeleteMCPOAuthClient, IdleMonth,
           CompleteMCPOAuthProxy, Exchange, Redeem, Issue, ForwardMCPOAuthToken,
           AuthenticateMCPOAuthToken, Lookup, LoadDone, Cancel, Expire, ChangeIssuer
  <1> DEFINE Kept == /\ \A f \in DOMAIN flow : f \in DOMAIN flow' /\ flow'[f] = flow[f]
                     /\ approved \subseteq approved'
  <1>2. Kept
    <2>1. CASE UNCHANGED <<flow, approved>>
      BY <2>1
    <2>2. ASSUME NEW b \in Browsers, NEW c \in Clients, PrepareMCPOAuthProxy(b, c)
          PROVE  Kept
      <3>1. PICK n \in 0..MaxFlows : flow \in [1..n -> [client : Clients, browser : Browsers]]
        BY DEF OAuthInv, TypeOK
      <3>2. (Cardinality(DOMAIN flow) + 1) \notin DOMAIN flow
        BY <3>1, NextFlow
      <3> QED
        BY <2>2, <3>2 DEF PrepareMCPOAuthProxy
    <2>3. ASSUME NEW b \in Browsers, NEW f \in DOMAIN flow, NEW allow \in BOOLEAN, BeginMCPOAuthProxy(b, f, allow)
          PROVE  Kept
      BY <2>3 DEF BeginMCPOAuthProxy
    <2> QED
      BY <1>1, <2>1, <2>2, <2>3
  <1>3. approved \subseteq DOMAIN flow
    BY DEF OAuthInv, SealedInv
  <1> QED
    BY <1>2, <1>3

-----------------------------------------------------------------------------
(* Types, and ids that never come back.                                      *)
LEMMA InitHolds == Init => OAuthInv
  <1> SUFFICES ASSUME Init PROVE OAuthInv
    OBVIOUS
  <1> USE DEF Init
  <1>1. 0 \in 0..MaxFlows /\ 0 \in 0..MaxEvents /\ 1..0 = {}
    BY OAuthAssumption
  <1>2. issuer \in Issuers
    BY OAuthAssumption
  <1>3. flow \in [1..0 -> [client : Clients, browser : Browsers]]
    BY <1>1
  <1>4. proc \in [Procs -> ReqType]
    BY RequestTypes
  <1>5. TypeOK
    BY <1>1, <1>2, <1>3, <1>4 DEF TypeOK
  <1>6. GoneForGood /\ SealedInv
    BY DEF GoneForGood, SealedInv
  <1>7. RequestInv /\ CacheInv
    BY DEF RequestInv, CacheInv, NoReq, None
  <1> QED
    BY <1>5, <1>6, <1>7 DEF OAuthInv

(* The registrations.                                                        *)
LEMMA StoreStep ==
  ASSUME OAuthInv, [Next]_vars
  PROVE  /\ clients' \subseteq Clients /\ idle' \subseteq clients' /\ gone' \subseteq Clients
         /\ GoneForGood'
  <1> USE DEF OAuthInv, TypeOK, GoneForGood, Pruned, Touched, Unused, store, browser, grants
  <1>1. ASSUME NEW p \in Procs, RegisterCount(p) \/ RegisterCreate(p)
        PROVE  clients' \subseteq Clients /\ idle' \subseteq clients' /\ gone' \subseteq Clients /\ GoneForGood'
    BY <1>1 DEF RegisterCount, RegisterCreate
  <1>2. ASSUME NEW c \in Clients, DeleteMCPOAuthClient(c)
        PROVE  clients' \subseteq Clients /\ idle' \subseteq clients' /\ gone' \subseteq Clients /\ GoneForGood'
    BY <1>2 DEF DeleteMCPOAuthClient
  <1>3. CASE IdleMonth
    BY <1>3 DEF IdleMonth
  <1>4. ASSUME NEW b \in Browsers, NEW f \in DOMAIN flow, NEW allow \in BOOLEAN, BeginMCPOAuthProxy(b, f, allow)
        PROVE  UNCHANGED <<clients, gone>> /\ idle' \subseteq idle
    BY <1>4 DEF BeginMCPOAuthProxy
  <1>5. ASSUME NEW p \in Procs, Issue(p)
        PROVE  UNCHANGED <<clients, gone>> /\ idle' \subseteq idle
    BY <1>5 DEF Issue
  <1>6. \/ UNCHANGED store
        \/ \E p \in Procs : RegisterCount(p) \/ RegisterCreate(p) \/ Issue(p)
        \/ \E c \in Clients : DeleteMCPOAuthClient(c)
        \/ IdleMonth
        \/ \E b \in Browsers, f \in DOMAIN flow, allow \in BOOLEAN : BeginMCPOAuthProxy(b, f, allow)
    BY DEF Next, vars, PrepareMCPOAuthProxy, CompleteMCPOAuthProxy, Exchange, Redeem, ForwardMCPOAuthToken,
           AuthenticateMCPOAuthToken, Lookup, LoadDone, Cancel, Expire, ChangeIssuer
  <1> QED
    BY <1>1, <1>2, <1>3, <1>4, <1>5, <1>6

(* The requests and the cache keep their types; nothing else writes proc.    *)
LEMMA FoundType ==
  ASSUME TypeOK, NEW p \in Procs, NEW i \in Issuers \cup {None}
  PROVE  Found(p, i) \in ReqType
  <1>1. proc[p] \in ReqType
    BY DEF TypeOK
  <1>2. proc[p].next \in {"redeem", "verify"} \/ proc[p].next = "idle"
    BY <1>1, Zenon DEF ReqType
  <1> QED
    BY <1>1, <1>2, RequestTypes, Zenon DEF Found

(* What the actions on one request make of it.                               *)
RequestStep(p) ==
  \/ RegisterCount(p) \/ RegisterCreate(p)
  \/ \E c \in Clients : \E g \in Grants(c) : Exchange(p, c, g)
  \/ Redeem(p) \/ Issue(p) \/ ForwardMCPOAuthToken(p) \/ AuthenticateMCPOAuthToken(p)
  \/ Lookup(p) \/ (\E ok \in BOOLEAN : LoadDone(p, ok)) \/ Cancel(p)

LEMMA GrantTypes ==
  ASSUME TypeOK, NEW c \in Clients, NEW g \in Grants(c)
  PROVE  /\ g.grant \in {"code", "refresh"} /\ g.code \in 0..MaxFlows /\ g.flow \in 0..MaxFlows
         /\ g.grant = "refresh" => g.flow = g.code
  <1>1. PICK n \in 0..MaxFlows : flow \in [1..n -> [client : Clients, browser : Browsers]]
    BY DEF TypeOK
  <1>2. DOMAIN flow \subseteq 0..MaxFlows /\ Flows \subseteq 0..MaxFlows
    BY <1>1, OAuthAssumption DEF Flows
  <1>3. CASE \E f \in codes, v \in DOMAIN flow : g = [grant |-> "code", code |-> f, flow |-> v]
    <2>1. PICK f \in codes, v \in DOMAIN flow : g = [grant |-> "code", code |-> f, flow |-> v]
      BY <1>3
    <2>2. f \in Flows
      BY DEF TypeOK
    <2> QED
      BY <1>2, <2>1, <2>2
  <1>4. CASE \E t \in refresh : g = [grant |-> "refresh", code |-> t.flow, flow |-> t.flow]
    <2>1. PICK t \in refresh : g = [grant |-> "refresh", code |-> t.flow, flow |-> t.flow]
      BY <1>4
    <2>2. t.flow \in Flows
      BY DEF TypeOK
    <2> QED
      BY <1>2, <2>1, <2>2
  <1> QED
    BY <1>3, <1>4 DEF Grants

LEMMA ProcStep ==
  ASSUME TypeOK, [Next]_vars
  PROVE  proc' \in [Procs -> ReqType]
  <1> USE DEF store, browser, grants
  <1>1. /\ \A p \in Procs : proc[p] \in ReqType
        /\ issuer \in Issuers /\ proc \in [Procs -> ReqType]
    BY DEF TypeOK
  <1>2. \A p \in Procs : proc[p].got \in Issuers \cup {None} /\ proc[p].issuer \in Issuers \cup {None}
    BY <1>1, Zenon DEF ReqType
  <1>3. ASSUME NEW p \in Procs, RegisterCount(p) \/ RegisterCreate(p) \/ Issue(p) \/ Cancel(p)
        PROVE  proc' \in [Procs -> ReqType]
    <2>1. \/ proc' = proc
          \/ proc' = [proc EXCEPT ![p] = [proc[p] EXCEPT !.pc = "register"]]
          \/ proc' = [proc EXCEPT ![p] = NoReq]
      BY <1>3, Zenon DEF RegisterCount, RegisterCreate, Issue, Cancel
    <2> QED
      BY <1>1, <2>1, RequestTypes, OneRequest, Zenon DEF Becomes
  <1>4. ASSUME NEW p \in Procs, NEW c \in Clients, NEW g \in Grants(c), Exchange(p, c, g)
        PROVE  proc' \in [Procs -> ReqType]
    <2>1. g.grant \in {"none", "code", "refresh"} /\ g.code \in 0..MaxFlows /\ g.flow \in 0..MaxFlows
      BY GrantTypes
    <2> DEFINE r == [NoReq EXCEPT !.pc = "provider", !.client = c, !.grant = g.grant, !.code = g.code, !.flow = g.flow,
                     !.issuer = issuer, !.next = "redeem"]
    <2>3. r \in ReqType
      BY <1>1, <2>1, StartTypes, Zenon
    <2>4. proc' = [proc EXCEPT ![p] = r]
      BY <1>4 DEF Exchange
    <2> QED
      BY <2>3, <2>4, OneRequest, Zenon DEF Becomes
  <1>5. ASSUME NEW p \in Procs, Redeem(p)
        PROVE  proc' \in [Procs -> ReqType]
    <2> DEFINE r == [proc[p] EXCEPT !.pc = "provider", !.next = "verify", !.from = proc[p].got, !.issuer = issuer]
    <2>1. proc' = [proc EXCEPT ![p] = r] \/ proc' = [proc EXCEPT ![p] = NoReq]
      BY <1>5, <1>1, Zenon DEF Redeem
    <2>2. r \in ReqType
      BY <1>1, <1>2, RequestTypes, Zenon
    <2> QED
      BY <2>1, <2>2, RequestTypes, OneRequest, Zenon DEF Becomes
  <1>6. ASSUME NEW p \in Procs, ForwardMCPOAuthToken(p) \/ AuthenticateMCPOAuthToken(p)
        PROVE  proc' \in [Procs -> ReqType]
    <2> DEFINE r == [NoReq EXCEPT !.pc = "provider", !.issuer = issuer, !.next = "idle"]
    <2>1. proc' = [proc EXCEPT ![p] = r]
      BY <1>6, Zenon DEF ForwardMCPOAuthToken, AuthenticateMCPOAuthToken
    <2>2. r \in ReqType
      BY <1>1, RequestTypes, Zenon
    <2> QED
      BY <2>1, <2>2, OneRequest, Zenon DEF Becomes
  <1>7. ASSUME NEW p \in Procs, Lookup(p)
        PROVE  proc' \in [Procs -> ReqType]
    <2>1. cache.provider \in Issuers \cup {None}
      BY DEF TypeOK
    <2>2. \/ proc' = [proc EXCEPT ![p] = Found(p, cache.provider)]
          \/ proc' = [proc EXCEPT ![p] = [proc[p] EXCEPT !.pc = "waiting"]]
          \/ proc' = [proc EXCEPT ![p] = [proc[p] EXCEPT !.pc = "loading"]]
      BY <1>7, Zenon DEF Lookup
    <2> QED
      BY <1>1, <2>1, <2>2, FoundType, RequestTypes, OneRequest, Zenon DEF Becomes
  <1>8. ASSUME NEW p \in Procs, NEW ok \in BOOLEAN, LoadDone(p, ok)
        PROVE  proc' \in [Procs -> ReqType]
    <2> DEFINE i == IF ok THEN proc[p].issuer ELSE None
    <2>1. Found(p, i) \in ReqType
      BY <1>2, FoundType
    <2>2. \A q \in Procs : [proc[q] EXCEPT !.pc = "provider"] \in ReqType
      BY <1>1, RequestTypes
    <2> HIDE DEF i
    <2>3. proc' = [q \in Procs |-> CASE q = p -> Found(p, i)
                                     [] q # p /\ Woken(q) -> [proc[q] EXCEPT !.pc = "provider"]
                                     [] OTHER -> proc[q]]
      BY <1>8 DEF LoadDone, i
    <2> QED
      BY <1>1, <2>1, <2>2, <2>3
  <1>9. UNCHANGED proc \/ \E p \in Procs : RequestStep(p)
    BY DEF Next, RequestStep, vars, DeleteMCPOAuthClient, IdleMonth, PrepareMCPOAuthProxy, BeginMCPOAuthProxy,
           CompleteMCPOAuthProxy, Expire, ChangeIssuer
  <1> QED
    BY <1>1, <1>3, <1>4, <1>5, <1>6, <1>7, <1>8, <1>9 DEF RequestStep

(* The authorizations, the sealed values and the cache keep their types.     *)
LEMMA TypeStep ==
  ASSUME OAuthInv, [Next]_vars
  PROVE  TypeOK'
  <1> USE DEF store, browser, grants
  <1>1. TypeOK /\ (\A p \in Procs : proc[p] \in ReqType)
    BY DEF OAuthInv, TypeOK
  <1>2. PICK n \in 0..MaxFlows : flow \in [1..n -> [client : Clients, browser : Browsers]]
    BY <1>1 DEF TypeOK
  <1> DEFINE FlowTyped == \E m \in 0..MaxFlows : flow' \in [1..m -> [client : Clients, browser : Browsers]]
  <1>3. FlowTyped
    <2>1. CASE UNCHANGED flow
      BY <1>2, <2>1
    <2>2. ASSUME NEW b \in Browsers, NEW c \in Clients, PrepareMCPOAuthProxy(b, c)
          PROVE  FlowTyped
      <3> DEFINE v == [client |-> c, browser |-> b]
      <3>1. Cardinality(DOMAIN flow) + 1 = n + 1 /\ DOMAIN flow = 1..n
        BY <1>2, NextFlow
      <3>2. n + 1 \in Flows /\ flow' = [g \in (1..n) \cup {n + 1} |-> IF g = n + 1 THEN v ELSE flow[g]]
        BY <2>2, <3>1 DEF PrepareMCPOAuthProxy
      <3>3. (1..n) \cup {n + 1} = 1..(n + 1) /\ n + 1 \in 0..MaxFlows
        BY <3>2, OAuthAssumption DEF Flows
      <3>4. v \in [client : Clients, browser : Browsers]
        OBVIOUS
      <3>5. flow' \in [1..(n + 1) -> [client : Clients, browser : Browsers]]
        BY <1>2, <3>2, <3>3, <3>4
      <3> QED
        BY <3>3, <3>5
    <2>3. UNCHANGED flow \/ \E b \in Browsers, c \in Clients : PrepareMCPOAuthProxy(b, c)
      BY DEF Next, vars, RegisterCount, RegisterCreate, DeleteMCPOAuthClient, IdleMonth, BeginMCPOAuthProxy,
             CompleteMCPOAuthProxy, Exchange, Redeem, Issue, ForwardMCPOAuthToken,
             AuthenticateMCPOAuthToken, Lookup, LoadDone, Cancel, Expire, ChangeIssuer
    <2> QED
      BY <2>1, <2>2, <2>3
  <1> DEFINE BrowserTyped == cookie' \in [Browsers -> 0..MaxFlows] /\ approved' \subseteq Flows
  <1>4. BrowserTyped
    <2>1. cookie \in [Browsers -> 0..MaxFlows] /\ approved \subseteq Flows /\ 0 \in 0..MaxFlows
      BY <1>1, OAuthAssumption DEF TypeOK
    <2>2. DOMAIN flow \subseteq Flows /\ Flows \subseteq 0..MaxFlows
      BY <1>2, OAuthAssumption DEF Flows
    <2>3. ASSUME NEW b \in Browsers, NEW c \in Clients, PrepareMCPOAuthProxy(b, c)
          PROVE  BrowserTyped
      BY <2>1, <2>2, <2>3 DEF PrepareMCPOAuthProxy, SetCookie
    <2>4. ASSUME NEW b \in Browsers, NEW f \in DOMAIN flow, NEW allow \in BOOLEAN, BeginMCPOAuthProxy(b, f, allow)
          PROVE  BrowserTyped
      BY <2>1, <2>2, <2>4 DEF BeginMCPOAuthProxy, SetCookie
    <2>5. \/ UNCHANGED <<cookie, approved>>
          \/ \E b \in Browsers, c \in Clients : PrepareMCPOAuthProxy(b, c)
          \/ \E b \in Browsers, f \in DOMAIN flow, allow \in BOOLEAN : BeginMCPOAuthProxy(b, f, allow)
      BY DEF Next, vars, RegisterCount, RegisterCreate, DeleteMCPOAuthClient, IdleMonth,
             CompleteMCPOAuthProxy, Exchange, Redeem, Issue, ForwardMCPOAuthToken,
             AuthenticateMCPOAuthToken, Lookup, LoadDone, Cancel, Expire, ChangeIssuer
    <2> QED
      BY <2>1, <2>3, <2>4, <2>5
  <1>5. codes' \subseteq Flows
    <2>1. codes' = codes \/ \E f \in Flows : codes' = codes \cup {f}
      BY DEF Next, vars, RegisterCount, RegisterCreate, DeleteMCPOAuthClient, IdleMonth, BeginMCPOAuthProxy,
             CompleteMCPOAuthProxy, Exchange, Redeem, Issue, ForwardMCPOAuthToken, PrepareMCPOAuthProxy,
             AuthenticateMCPOAuthToken, Lookup, LoadDone, Cancel, Expire, ChangeIssuer
    <2> QED
      BY <1>1, <2>1 DEF TypeOK
  <1>6. spent' \subseteq Flows
    <2>1. spent' \subseteq spent \cup codes
      BY DEF Next, vars, RegisterCount, RegisterCreate, DeleteMCPOAuthClient, IdleMonth, BeginMCPOAuthProxy,
             CompleteMCPOAuthProxy, Exchange, Redeem, Issue, ForwardMCPOAuthToken, PrepareMCPOAuthProxy,
             AuthenticateMCPOAuthToken, Lookup, LoadDone, Cancel, Expire, ChangeIssuer, CodeFits
    <2> QED
      BY <1>1, <2>1 DEF TypeOK
  <1> DEFINE GrantsTyped ==
        /\ refresh' \subseteq [client : Clients, flow : Flows]
        /\ tokens' \subseteq [client : Clients, asked : Flows, flow : Flows]
  <1>7. GrantsTyped
    <2>1. ASSUME NEW p \in Procs, Issue(p)
          PROVE  GrantsTyped
      <3> DEFINE r == proc[p]
      <3>1. r.next = "verify" /\ r.client \in Clients /\ r.flow = r.code /\ r.code \in approved
        BY <2>1, <1>1, Zenon DEF OAuthInv, RequestInv, Issue, ReqType, Consented
      <3>2. r.code \in Flows
        BY <1>1, <3>1 DEF TypeOK
      <3> QED
        BY <1>1, <2>1, <3>1, <3>2 DEF Issue, TypeOK
    <2>2. UNCHANGED <<refresh, tokens>> \/ \E p \in Procs : Issue(p)
      BY DEF Next, vars, RegisterCount, RegisterCreate, DeleteMCPOAuthClient, IdleMonth, BeginMCPOAuthProxy,
             CompleteMCPOAuthProxy, Exchange, Redeem, ForwardMCPOAuthToken, PrepareMCPOAuthProxy,
             AuthenticateMCPOAuthToken, Lookup, LoadDone, Cancel, Expire, ChangeIssuer
    <2> QED
      BY <1>1, <2>1, <2>2 DEF TypeOK
  <1>8. issuer' \in Issuers /\ events' \in 0..MaxEvents
    <2>1. issuer' \in {issuer} \cup Issuers /\ (events' = events \/ (events < MaxEvents /\ events' = events + 1))
      BY DEF Next, vars, RegisterCount, RegisterCreate, DeleteMCPOAuthClient, IdleMonth, BeginMCPOAuthProxy,
             CompleteMCPOAuthProxy, Exchange, Redeem, Issue, ForwardMCPOAuthToken, PrepareMCPOAuthProxy,
             AuthenticateMCPOAuthToken, Lookup, LoadDone, Cancel, Expire, ChangeIssuer
    <2> QED
      BY <1>1, <2>1, OAuthAssumption DEF TypeOK
  <1> DEFINE CacheTyped == cache' \in [issuer : Issuers \cup {None}, provider : Issuers \cup {None},
                                      fresh : BOOLEAN, loading : BOOLEAN]
  <1>9. CacheTyped
    <2>1. \A p \in Procs : proc[p].issuer \in Issuers \cup {None}
      BY <1>1, Zenon DEF ReqType
    <2>2. ASSUME NEW p \in Procs, NEW ok \in BOOLEAN, LoadDone(p, ok)
          PROVE  CacheTyped
      BY <2>1, <2>2 DEF LoadDone
    <2>3. \/ UNCHANGED cache
          \/ cache' = [cache EXCEPT !.loading = TRUE]
          \/ cache' = [cache EXCEPT !.fresh = FALSE]
          \/ \E p \in Procs, ok \in BOOLEAN : LoadDone(p, ok)
      BY DEF Next, vars, RegisterCount, RegisterCreate, DeleteMCPOAuthClient, IdleMonth, BeginMCPOAuthProxy,
             CompleteMCPOAuthProxy, Exchange, Redeem, Issue, ForwardMCPOAuthToken, PrepareMCPOAuthProxy,
             AuthenticateMCPOAuthToken, Lookup, Cancel, Expire, ChangeIssuer
    <2> QED
      BY <1>1, <2>2, <2>3 DEF TypeOK
  <1> QED
    BY <1>1, <1>3, <1>4, <1>5, <1>6, <1>7, <1>8, <1>9, StoreStep, ProcStep DEF TypeOK

-----------------------------------------------------------------------------
(* The sealed values.                                                        *)
LEMMA SealedStep ==
  ASSUME OAuthInv, [Next]_vars
  PROVE  SealedInv'
  <1> USE DEF store, browser, grants
  <1>1. /\ SealedInv /\ RequestInv
        /\ approved \subseteq approved'
        /\ \A f \in DOMAIN flow : f \in DOMAIN flow'
        /\ \A f \in approved : f \in approved' /\ flow'[f] = flow[f]
    BY ConsentStays DEF OAuthInv
  <1>2. approved' \subseteq DOMAIN flow'
    <2>1. approved' \subseteq approved \cup DOMAIN flow
      BY DEF Next, vars, RegisterCount, RegisterCreate, DeleteMCPOAuthClient, IdleMonth, BeginMCPOAuthProxy,
             CompleteMCPOAuthProxy, Exchange, Redeem, Issue, ForwardMCPOAuthToken, PrepareMCPOAuthProxy,
             AuthenticateMCPOAuthToken, Lookup, LoadDone, Cancel, Expire, ChangeIssuer
    <2> QED
      BY <1>1, <2>1 DEF SealedInv
  <1>3. codes' \subseteq approved'
    <2>1. codes' \subseteq codes \cup approved
      BY DEF Next, vars, RegisterCount, RegisterCreate, DeleteMCPOAuthClient, IdleMonth, BeginMCPOAuthProxy,
             CompleteMCPOAuthProxy, Exchange, Redeem, Issue, ForwardMCPOAuthToken, PrepareMCPOAuthProxy,
             AuthenticateMCPOAuthToken, Lookup, LoadDone, Cancel, Expire, ChangeIssuer
    <2> QED
      BY <1>1, <2>1 DEF SealedInv
  <1> DEFINE Good(t) == t.flow \in approved' /\ flow'[t.flow].client = t.client
             Fresh(t) == t.asked = t.flow /\ Good(t)
  <1>4. (\A t \in refresh' : Good(t)) /\ (\A t \in tokens' : Fresh(t))
    <2>1. (\A t \in refresh : Good(t)) /\ (\A t \in tokens : Fresh(t))
      BY <1>1 DEF SealedInv, Consented
    <2>2. ASSUME NEW p \in Procs, Issue(p)
          PROVE  (\A t \in refresh' : Good(t)) /\ (\A t \in tokens' : Fresh(t))
      <3> DEFINE r == proc[p]
                 given == [client |-> r.client, asked |-> r.flow, flow |-> r.code]
                 sealed == [client |-> r.client, flow |-> r.code]
      <3>1. r.flow = r.code /\ r.code \in approved' /\ flow'[r.code].client = r.client
        BY <1>1, <2>2 DEF RequestInv, Issue, Consented
      <3>2. Fresh(given) /\ Good(sealed)
        BY <3>1
      <3>3. refresh' \subseteq refresh \cup {sealed} /\ tokens' \subseteq tokens \cup {given}
        BY <2>2 DEF Issue
      <3> HIDE DEF given, sealed, Good, Fresh
      <3> QED
        BY <2>1, <3>2, <3>3
    <2>3. UNCHANGED <<refresh, tokens>> \/ \E p \in Procs : Issue(p)
      BY DEF Next, vars, RegisterCount, RegisterCreate, DeleteMCPOAuthClient, IdleMonth, BeginMCPOAuthProxy,
             CompleteMCPOAuthProxy, Exchange, Redeem, ForwardMCPOAuthToken, PrepareMCPOAuthProxy,
             AuthenticateMCPOAuthToken, Lookup, LoadDone, Cancel, Expire, ChangeIssuer
    <2> HIDE DEF Good, Fresh
    <2> QED
      BY <2>1, <2>2, <2>3
  <1> QED
    BY <1>2, <1>3, <1>4 DEF SealedInv, Consented

-----------------------------------------------------------------------------
(* The requests.                                                             *)

(* What RequestInv says of one request, as the consents stand.               *)
Backed(r, ap, fl) ==
  /\ r.pc = "verify" => r.next = "verify"
  /\ r.next \in {"redeem", "verify"} => r.client \in Clients
  /\ r.grant = "refresh" => r.flow = r.code
  /\ r.next = "verify" => r.flow = r.code /\ r.code \in ap /\ fl[r.code].client = r.client

LEMMA RequestsBacked ==
  ASSUME \A p \in Procs : proc[p] \in ReqType
  PROVE  RequestInv <=> \A p \in Procs : Backed(proc[p], approved, flow)
  BY Zenon DEF RequestInv, Backed, Consented

LEMMA RequestsStep ==
  ASSUME OAuthInv, [Next]_vars
  PROVE  RequestInv'
  <1> USE DEF store, browser, grants
  <1>1. /\ TypeOK /\ SealedInv
        /\ proc \in [Procs -> ReqType] /\ proc' \in [Procs -> ReqType]
        /\ \A p \in Procs : Backed(proc[p], approved, flow)
        /\ \A f \in approved : f \in approved' /\ flow'[f] = flow[f]
    BY ConsentStays, ProcStep, RequestsBacked DEF OAuthInv, TypeOK
  <1> DEFINE Ok(r) == Backed(r, approved', flow')
  <1>2. \A p \in Procs : Ok(proc[p])
    BY <1>1 DEF Backed
  <1>3. Ok(NoReq)
    BY DEF NoReq, Backed
  <1>4. SUFFICES ASSUME NEW p \in Procs PROVE Ok(proc'[p])
    <2>1. \A p \in Procs : proc'[p] \in ReqType
      BY <1>1
    <2> QED
      BY <2>1, RequestsBacked DEF RequestInv, Backed, Consented
  <1>5. \A r \in ReqType, x \in {"register", "waiting", "loading", "provider"} : Ok(r) => Ok([r EXCEPT !.pc = x])
    BY DEF ReqType, Backed
  <1>6. \A q \in Procs : \A i : Ok(Found(q, i))
    <2> SUFFICES ASSUME NEW q \in Procs, NEW i PROVE Ok(Found(q, i))
      OBVIOUS
    <2>1. proc[q] \in ReqType /\ Ok(proc[q])
      BY <1>1, <1>2
    <2>2. CASE Found(q, i) = NoReq
      BY <1>3, <2>2
    <2>3. CASE /\ proc[q].next # "idle"
               /\ Found(q, i) = [proc[q] EXCEPT !.pc = proc[q].next, !.got = i]
      <3> DEFINE r == proc[q]
                 s == [r EXCEPT !.pc = r.next, !.got = i]
      <3>1. /\ s.pc = r.next /\ s.next = r.next /\ s.client = r.client
            /\ s.grant = r.grant /\ s.flow = r.flow /\ s.code = r.code
        BY <2>1 DEF ReqType
      <3> HIDE DEF r, s
      <3> QED
        BY <2>1, <2>3, <3>1 DEF r, s, Backed
    <2> QED
      BY <2>2, <2>3 DEF Found
  <1>7. ASSUME NEW c \in Clients, NEW g \in Grants(c), Exchange(p, c, g)
        PROVE  Ok(proc'[p])
    <2>1. g.grant = "refresh" => g.flow = g.code
      BY <1>1, GrantTypes
    <2> QED
      BY <1>1, <1>7, <2>1 DEF Exchange, AuthenticateProxyClient, NoReq, Backed
  <1>8. ASSUME Redeem(p)
        PROVE  Ok(proc'[p])
    <2> DEFINE r == proc[p]
               fits == \/ r.grant = "code" /\ CodeFits(r) /\ r.code \notin spent
                       \/ r.grant = "refresh" /\ RefreshFits(r)
    <2>1. CASE fits /\ proc' = [proc EXCEPT ![p].pc = "provider", ![p].next = "verify",
                                            ![p].from = r.got, ![p].issuer = issuer]
      <3>1. r.flow = r.code /\ r.code \in approved' /\ flow'[r.code].client = r.client
        <4>1. CASE r.grant = "code" /\ CodeFits(r)
          BY <1>1, <4>1 DEF CodeFits, SealedInv, Consented
        <4>2. CASE r.grant = "refresh" /\ RefreshFits(r)
          BY <1>1, <1>2, <4>2 DEF RefreshFits, SealedInv, Consented, Backed
        <4> QED
          BY <2>1, <4>1, <4>2
      <3>2. r.client \in Clients
        <4>1. r.client = flow[r.code].client /\ r.code \in DOMAIN flow
          BY <1>1, <2>1 DEF CodeFits, RefreshFits, SealedInv, Consented
        <4>2. PICK n \in 0..MaxFlows : flow \in [1..n -> [client : Clients, browser : Browsers]]
          BY <1>1 DEF TypeOK
        <4> QED
          BY <4>1, <4>2
      <3>3. /\ proc'[p].client = r.client /\ proc'[p].code = r.code
            /\ proc'[p].flow = r.flow /\ proc'[p].next = "verify"
        BY <1>1, <2>1 DEF ReqType
      <3> QED
        BY <1>2, <3>1, <3>2, <3>3 DEF Backed
    <2>2. CASE proc' = [proc EXCEPT ![p] = NoReq]
      BY <1>1, <1>3, <2>2
    <2> QED
      BY <1>8, <2>1, <2>2 DEF Redeem
  <1>9. CASE ForwardMCPOAuthToken(p) \/ AuthenticateMCPOAuthToken(p)
    BY <1>1, <1>9 DEF ForwardMCPOAuthToken, AuthenticateMCPOAuthToken, NoReq, Backed
  <1>10. ASSUME NEW q \in Procs, NEW ok \in BOOLEAN, LoadDone(q, ok)
         PROVE  Ok(proc'[p])
    <2>1. \/ \E i : proc'[p] = Found(p, i)
          \/ proc'[p] = [proc[p] EXCEPT !.pc = "provider"]
          \/ proc'[p] = proc[p]
      BY <1>10 DEF LoadDone
    <2> HIDE DEF Ok
    <2> QED
      BY <1>1, <1>2, <1>5, <1>6, <2>1
  <1>11. ASSUME RegisterCount(p) \/ RegisterCreate(p) \/ Issue(p) \/ Cancel(p) \/ Lookup(p)
         PROVE  Ok(proc'[p])
    <2>1. \/ proc' = proc \/ proc' = [proc EXCEPT ![p] = NoReq]
          \/ \E i : proc' = [proc EXCEPT ![p] = Found(p, i)]
          \/ \E x \in {"register", "waiting", "loading"} : proc' = [proc EXCEPT ![p] = [proc[p] EXCEPT !.pc = x]]
      BY <1>11, <1>1 DEF RegisterCount, RegisterCreate, Issue, Cancel, Lookup
    <2> HIDE DEF Ok
    <2>2. \/ proc'[p] = proc[p] \/ proc'[p] = NoReq
          \/ \E i : proc'[p] = Found(p, i)
          \/ \E x \in {"register", "waiting", "loading"} : proc'[p] = [proc[p] EXCEPT !.pc = x]
      BY <1>1, <2>1, Zenon
    <2>3. \A x \in {"register", "waiting", "loading"} : Ok([proc[p] EXCEPT !.pc = x])
      BY <1>1, <1>2, <1>5
    <2> QED
      BY <1>2, <1>3, <1>6, <2>2, <2>3, Zenon
  <1>12. ASSUME NEW q \in Procs, q # p, RequestStep(q), ~\E ok \in BOOLEAN : LoadDone(q, ok)
         PROVE  proc'[p] = proc[p]
    BY <1>1, <1>12 DEF RequestStep, RegisterCount, RegisterCreate, Exchange, Redeem, Issue, Cancel, Lookup,
                       ForwardMCPOAuthToken, AuthenticateMCPOAuthToken
  <1>13. UNCHANGED proc \/ \E q \in Procs : RequestStep(q)
    BY DEF Next, RequestStep, vars, DeleteMCPOAuthClient, IdleMonth, PrepareMCPOAuthProxy, BeginMCPOAuthProxy,
           CompleteMCPOAuthProxy, Expire, ChangeIssuer
  <1> HIDE DEF Ok
  <1> QED
    BY <1>2, <1>7, <1>8, <1>9, <1>10, <1>11, <1>12, <1>13 DEF RequestStep

-----------------------------------------------------------------------------
(* The cache.                                                                *)

(* CacheInv read off a request's stage, provider and issuer.                 *)
Served(r) == r.pc \in {"redeem", "verify"} => r.got = r.issuer

LEMMA CacheStep ==
  ASSUME OAuthInv, [Next]_vars
  PROVE  CacheInv'
  <1> USE DEF store, browser, grants
  <1>1. /\ TypeOK /\ CacheInv /\ RequestInv
        /\ proc \in [Procs -> ReqType] /\ proc' \in [Procs -> ReqType]
    BY ProcStep DEF OAuthInv, TypeOK
  <1>2. CASE UNCHANGED <<proc, cache>>
    BY <1>1, <1>2 DEF CacheInv
  (* Whatever neither loads nor waits, before and after, touches nothing.    *)
  <1>3. ASSUME NEW p \in Procs, UNCHANGED cache,
               proc[p].pc # "loading", proc'[p].pc # "loading", proc'[p].pc # "waiting" \/ cache.loading,
               Served(proc'[p]), \A q \in Procs \ {p} : proc'[q] = proc[q]
        PROVE  CacheInv'
    <2>1. \A q \in Procs : proc'[q].pc = "loading" <=> proc[q].pc = "loading"
      BY <1>3
    <2>2. \A q \in Procs : proc'[q].pc = "waiting" => proc[q].pc = "waiting" \/ cache.loading
      BY <1>3
    <2>3. \A q \in Procs : Served(proc'[q])
      BY <1>1, <1>3 DEF CacheInv, Served
    <2> QED
      BY <1>1, <1>3, <2>1, <2>2, <2>3 DEF CacheInv, Served
  <1>4. ASSUME NEW p \in Procs,
               \/ RegisterCount(p) \/ RegisterCreate(p) \/ Redeem(p) \/ Issue(p) \/ Cancel(p)
               \/ \E c \in Clients : \E g \in Grants(c) : Exchange(p, c, g)
               \/ ForwardMCPOAuthToken(p) \/ AuthenticateMCPOAuthToken(p)
        PROVE  CacheInv'
    <2>1. /\ UNCHANGED cache /\ \A q \in Procs \ {p} : proc'[q] = proc[q]
          /\ proc[p].pc # "loading"
      BY <1>1, <1>4 DEF RegisterCount, RegisterCreate, Redeem, Issue, Cancel, Exchange,
                        ForwardMCPOAuthToken, AuthenticateMCPOAuthToken
    <2>2. proc' = proc \/ proc'[p].pc \in {"register", "provider", "idle"}
      <3>1. CASE RegisterCount(p) \/ RegisterCreate(p) \/ Issue(p) \/ Cancel(p)
        <4>1. \/ proc' = proc \/ proc' = [proc EXCEPT ![p] = NoReq]
              \/ proc' = [proc EXCEPT ![p] = [proc[p] EXCEPT !.pc = "register"]]
          BY <3>1, Zenon DEF RegisterCount, RegisterCreate, Issue, Cancel
        <4> QED
          BY <1>1, <4>1 DEF NoReq, ReqType
      <3>2. CASE Redeem(p)
        <4>1. \/ proc' = [proc EXCEPT ![p] = NoReq]
              \/ proc' = [proc EXCEPT ![p] = [proc[p] EXCEPT !.pc = "provider", !.next = "verify",
                                                             !.from = proc[p].got, !.issuer = issuer]]
          BY <1>1, <3>2, Zenon DEF Redeem
        <4> DEFINE r == [proc[p] EXCEPT !.pc = "provider", !.next = "verify",
                                        !.from = proc[p].got, !.issuer = issuer]
        <4>2. r.pc = "provider" /\ NoReq.pc = "idle"
          BY <1>1 DEF ReqType, NoReq
        <4>3. proc'[p] = NoReq \/ proc'[p] = r
          BY <1>1, <4>1, Zenon
        <4> HIDE DEF r
        <4> QED
          BY <4>2, <4>3
      <3>3. CASE \E c \in Clients : \E g \in Grants(c) : Exchange(p, c, g)
        BY <1>1, <3>3 DEF Exchange, NoReq
      <3>4. CASE ForwardMCPOAuthToken(p) \/ AuthenticateMCPOAuthToken(p)
        BY <1>1, <3>4 DEF ForwardMCPOAuthToken, AuthenticateMCPOAuthToken, NoReq
      <3> QED
        BY <1>4, <3>1, <3>2, <3>3, <3>4
    <2>3. CASE proc' = proc
      BY <1>2, <2>1, <2>3
    <2>4. CASE proc'[p].pc \in {"register", "provider", "idle"}
      BY <1>3, <2>1, <2>4 DEF Served
    <2> QED
      BY <2>2, <2>3, <2>4
  <1>5. ASSUME NEW p \in Procs, Lookup(p)
        PROVE  CacheInv'
    <2>1. proc[p].pc = "provider" /\ proc[p] \in ReqType
      BY <1>1, <1>5 DEF Lookup
    <2>2. CASE /\ Hit(proc[p].issuer) /\ UNCHANGED cache
               /\ proc' = [proc EXCEPT ![p] = Found(p, cache.provider)]
      <3>1. /\ Found(p, cache.provider).pc \in {"idle", "redeem", "verify"}
            /\ Served(Found(p, cache.provider))
        BY <1>1, <2>1, <2>2 DEF Found, NoReq, ReqType, Served, Hit, CacheInv
      <3>2. proc'[p] = Found(p, cache.provider) /\ \A q \in Procs \ {p} : proc'[q] = proc[q]
        BY <1>1, <2>2
      <3> QED
        BY <1>3, <2>1, <2>2, <3>1, <3>2
    <2>3. CASE ~NobodyLoads /\ proc' = [proc EXCEPT ![p].pc = "waiting"] /\ UNCHANGED cache
      <3>1. proc'[p].pc = "waiting" /\ \A q \in Procs \ {p} : proc'[q] = proc[q]
        BY <1>1, <2>1, <2>3
      <3> QED
        BY <1>3, <2>1, <2>3, <3>1 DEF Served, NobodyLoads
    <2>4. CASE /\ NobodyLoads /\ proc' = [proc EXCEPT ![p].pc = "loading"]
               /\ cache' = [cache EXCEPT !.loading = TRUE]
      <3>1. proc'[p].pc = "loading" /\ \A q \in Procs \ {p} : proc'[q] = proc[q]
        BY <1>1, <2>1, <2>4
      <3>2. cache'.loading /\ cache'.provider = cache.provider /\ cache'.issuer = cache.issuer
        BY <1>1, <2>4 DEF TypeOK
      <3>3. \A q \in Procs : proc[q].pc # "loading" /\ proc[q].pc # "waiting"
        BY <1>1, <2>4 DEF NobodyLoads, CacheInv
      <3> QED
        BY <1>1, <3>1, <3>2, <3>3 DEF CacheInv
    <2> QED
      BY <1>5, <2>2, <2>3, <2>4 DEF Lookup
  <1>6. ASSUME NEW p \in Procs, NEW ok \in BOOLEAN, LoadDone(p, ok)
        PROVE  CacheInv'
    <2> DEFINE i == proc[p].issuer
               found == IF ok THEN i ELSE None
    <2>1. /\ cache'.issuer = i /\ cache'.provider = found /\ cache'.loading = FALSE
          /\ proc[p].pc = "loading"
      BY <1>6 DEF LoadDone
    <2>2. /\ proc'[p] = Found(p, found)
          /\ \A q \in Procs \ {p} : proc'[q] = IF Woken(q) THEN [proc[q] EXCEPT !.pc = "provider"] ELSE proc[q]
      BY <1>6 DEF LoadDone
    <2>3. Found(p, found).pc \in {"idle", "redeem", "verify"} /\ Served(Found(p, found))
      BY <1>1 DEF Found, NoReq, ReqType, Served
    <2>4. ASSUME NEW q \in Procs \ {p}
          PROVE  proc'[q].pc \notin {"waiting", "loading"} /\ Served(proc'[q])
      <3>1. proc[q].pc # "loading" /\ Served(proc[q]) /\ proc[q] \in ReqType
        BY <1>1, <2>1, <2>4 DEF CacheInv, Served
      <3>2. CASE Woken(q)
        BY <2>2, <3>1, <3>2 DEF Served, ReqType
      <3>3. CASE ~Woken(q)
        BY <2>2, <3>1, <3>3 DEF Woken
      <3> QED
        BY <3>2, <3>3
    <2>5. \A q \in Procs : proc'[q].pc \notin {"waiting", "loading"} /\ Served(proc'[q])
      BY <2>2, <2>3, <2>4
    <2> QED
      BY <2>1, <2>5 DEF CacheInv, Served
  <1>7. CASE Expire
    <2>1. cache'.loading = cache.loading /\ cache'.provider = cache.provider /\ cache'.issuer = cache.issuer
      BY <1>1, <1>7 DEF Expire, TypeOK
    <2> QED
      BY <1>1, <1>7, <2>1 DEF Expire, CacheInv
  <1>8. \/ UNCHANGED <<proc, cache>> \/ Expire
        \/ \E p \in Procs : RequestStep(p)
    BY DEF Next, RequestStep, vars, DeleteMCPOAuthClient, IdleMonth, PrepareMCPOAuthProxy, BeginMCPOAuthProxy,
           CompleteMCPOAuthProxy, ChangeIssuer
  <1> QED
    BY <1>2, <1>4, <1>5, <1>6, <1>7, <1>8 DEF RequestStep

-----------------------------------------------------------------------------
(* Registrations.                                                            *)

(* Only RegisterCount makes a request one that may insert.                   *)
LEMMA RegisteringStep ==
  ASSUME OAuthInv, [Next]_vars, NEW q \in Procs, proc'[q].pc = "register", proc[q].pc # "register"
  PROVE  RegisterCount(q) /\ Room
  <1> USE DEF store, browser, grants
  <1>1. proc \in [Procs -> ReqType] /\ proc[q] \in ReqType /\ RequestInv
    BY DEF OAuthInv, TypeOK
  <1>2. NoReq.pc = "idle"
    BY DEF NoReq
  <1>3. \A i : Found(q, i).pc # "register"
    <2>1. \A i : proc[q].next # "idle" => [proc[q] EXCEPT !.pc = proc[q].next, !.got = i].pc # "register"
      BY <1>1 DEF ReqType
    <2> QED
      BY <1>2, <2>1 DEF Found
  <1>4. PICK p \in Procs : RequestStep(p)
    BY DEF Next, RequestStep, vars, DeleteMCPOAuthClient, IdleMonth, PrepareMCPOAuthProxy, BeginMCPOAuthProxy,
           CompleteMCPOAuthProxy, Expire, ChangeIssuer
  <1>5. CASE \E ok \in BOOLEAN : LoadDone(p, ok)
    <2>1. \/ \E i : proc'[q] = Found(q, i)
          \/ proc'[q] = [proc[q] EXCEPT !.pc = "provider"]
          \/ proc'[q] = proc[q]
      BY <1>5 DEF LoadDone
    <2>2. [proc[q] EXCEPT !.pc = "provider"].pc = "provider"
      BY <1>1 DEF ReqType
    <2> QED
      BY <1>3, <2>1, <2>2
  <1>6. CASE ~\E ok \in BOOLEAN : LoadDone(p, ok)
    <2>1. p = q
      BY <1>1, <1>4, <1>6 DEF RequestStep, RegisterCount, RegisterCreate, Exchange, Redeem, Issue, Cancel, Lookup,
                              ForwardMCPOAuthToken, AuthenticateMCPOAuthToken
    <2>2. CASE RegisterCreate(q) \/ Issue(q) \/ Cancel(q)
      BY <1>1, <1>2, <2>2 DEF RegisterCreate, Issue, Cancel
    <2>3. CASE \E c \in Clients : \E g \in Grants(c) : Exchange(q, c, g)
      BY <1>1, <2>3 DEF Exchange, NoReq
    <2>4. CASE ForwardMCPOAuthToken(q) \/ AuthenticateMCPOAuthToken(q)
      BY <1>1, <2>4 DEF ForwardMCPOAuthToken, AuthenticateMCPOAuthToken, NoReq
    <2>5. CASE Redeem(q)
      <3> DEFINE r == [proc[q] EXCEPT !.pc = "provider", !.next = "verify", !.from = proc[q].got, !.issuer = issuer]
      <3>1. proc'[q] = NoReq \/ proc'[q] = r
        BY <1>1, <2>5, Zenon DEF Redeem
      <3>2. r.pc = "provider"
        BY <1>1 DEF ReqType
      <3> HIDE DEF r
      <3> QED
        BY <1>2, <3>1, <3>2
    <2>6. CASE Lookup(q)
      <3>1. \/ \E i : proc' = [proc EXCEPT ![q] = Found(q, i)]
            \/ \E x \in {"waiting", "loading"} : proc' = [proc EXCEPT ![q] = [proc[q] EXCEPT !.pc = x]]
        BY <2>6 DEF Lookup
      <3>2. \A x \in {"waiting", "loading"} : [proc[q] EXCEPT !.pc = x].pc = x
        BY <1>1 DEF ReqType
      <3>3. \/ \E i : proc'[q] = Found(q, i)
            \/ \E x \in {"waiting", "loading"} : proc'[q] = [proc[q] EXCEPT !.pc = x]
        BY <1>1, <3>1, Zenon
      <3> QED
        BY <1>3, <3>2, <3>3
    <2>7. CASE RegisterCount(q)
      BY <1>1, <2>7 DEF RegisterCount
    <2> QED
      BY <1>4, <1>6, <2>1, <2>2, <2>3, <2>4, <2>5, <2>6, <2>7 DEF RequestStep
  <1> QED
    BY <1>5, <1>6

LEMMA RegisterStep ==
  ASSUME OAuthInv, RegisterInv, [Next]_vars
  PROVE  RegisterInv'
  <1> USE DEF store, browser, grants
  <1>1. /\ IsFiniteSet(Clients) /\ IsFiniteSet(Procs) /\ Limit \in Nat \ {0}
        /\ clients \subseteq Clients /\ clients' \subseteq Clients
        /\ proc \in [Procs -> ReqType]
    BY OAuthAssumption, StoreStep DEF OAuthInv, TypeOK
  <1>2. /\ Registering \subseteq Procs /\ Registering' \subseteq Procs
    BY DEF Registering
  <1>3. /\ IsFiniteSet(clients) /\ IsFiniteSet(clients') /\ IsFiniteSet(Registering) /\ IsFiniteSet(Registering')
        /\ Cardinality(Registering') <= Cardinality(Procs)
    BY <1>1, <1>2, FS_Subset
  <1>4. /\ Cardinality(clients) \in Nat /\ Cardinality(clients') \in Nat /\ Cardinality(Procs) \in Nat
        /\ Cardinality(Registering) \in Nat /\ Cardinality(Registering') \in Nat
    BY <1>1, <1>3, FS_CardinalityType
  <1>5. CASE clients' \subseteq clients /\ Registering' \subseteq Registering
    <2>1. Cardinality(clients') <= Cardinality(clients) /\ Cardinality(Registering') <= Cardinality(Registering)
      BY <1>3, <1>5, FS_Subset
    <2> QED
      BY <1>1, <1>4, <2>1 DEF RegisterInv
  <1>6. ASSUME NEW q \in Procs, RegisterCount(q), Room
        PROVE  RegisterInv'
    <2>1. clients' = Pruned /\ Cardinality(Pruned) < Limit
      BY <1>6 DEF RegisterCount, Room
    <2> QED
      BY <1>1, <1>3, <1>4, <2>1 DEF RegisterInv
  <1>7. ASSUME NEW p \in Procs, RegisterCreate(p)
        PROVE  RegisterInv'
    <2>1. \E c : clients' \subseteq clients \cup {c}
      BY <1>7 DEF RegisterCreate
    <2>2. PICK c : clients' \subseteq clients \cup {c}
      BY <2>1
    <2>3. IsFiniteSet(clients \cup {c}) /\ Cardinality(clients \cup {c}) <= Cardinality(clients) + 1
      <3>1. /\ IsFiniteSet(clients \cup {c})
            /\ \/ c \in clients /\ Cardinality(clients \cup {c}) = Cardinality(clients)
               \/ c \notin clients /\ Cardinality(clients \cup {c}) = Cardinality(clients) + 1
        BY <1>3, FS_AddElement, Zenon
      <3> QED
        BY <1>4, <3>1
    <2>4. Cardinality(clients') <= Cardinality(clients \cup {c}) /\ Cardinality(clients \cup {c}) \in Nat
      BY <2>2, <2>3, FS_Subset, FS_CardinalityType
    <2>5. p \in Registering /\ Registering' = Registering \ {p}
      <3>1. NoReq.pc = "idle"
        BY DEF NoReq
      <3> QED
        BY <1>1, <1>7, <3>1 DEF RegisterCreate, Registering
    <2>6. Cardinality(Registering') = Cardinality(Registering) - 1
      BY <1>3, <2>5, FS_RemoveElement
    <2> QED
      BY <1>1, <1>4, <2>3, <2>4, <2>6 DEF RegisterInv
  <1>8. (\E p \in Procs : RegisterCreate(p)) \/ clients' \subseteq clients
    BY DEF Next, vars, Pruned, RegisterCount, DeleteMCPOAuthClient, IdleMonth, BeginMCPOAuthProxy,
           CompleteMCPOAuthProxy, Exchange, Redeem, Issue, ForwardMCPOAuthToken, PrepareMCPOAuthProxy,
           AuthenticateMCPOAuthToken, Lookup, LoadDone, Cancel, Expire, ChangeIssuer
  <1>9. (\E q \in Procs : RegisterCount(q) /\ Room) \/ Registering' \subseteq Registering
    BY RegisteringStep DEF Registering
  <1> QED
    BY <1>5, <1>6, <1>7, <1>8, <1>9

-----------------------------------------------------------------------------
(* The theorems.                                                             *)

(* OAuthInv is inductive: registrations, consents, sealed values, requests   *)
(* and the discovery cache stay as the proxy's handlers leave them.          *)
THEOREM OAuthInvariant == Spec => []OAuthInv
  <1>1. OAuthInv /\ [Next]_vars => OAuthInv'
    <2> SUFFICES ASSUME OAuthInv, [Next]_vars PROVE OAuthInv'
      OBVIOUS
    <2> QED
      BY TypeStep, StoreStep, SealedStep, RequestsStep, CacheStep DEF OAuthInv
  <1> QED
    BY <1>1, InitHolds, PTL DEF Spec

(* A client gets a token only for the flow it asked with, which it began     *)
(* itself and whose own consent page was confirmed (CompleteMCPOAuthProxy,   *)
(* ExchangeMCPOAuthProxy).                                                   *)
THEOREM ConsentSafety == Spec => []TokensFollowConsent
  <1>1. OAuthInv => TokensFollowConsent
    BY DEF OAuthInv, SealedInv, Consented, TokensFollowConsent
  <1> QED
    BY <1>1, OAuthInvariant, PTL

(* However registrations overlap, they exceed the limit by fewer than the    *)
(* requests that are handled at the same time (RegisterMCPOAuthClient).      *)
THEOREM RegistrationSafety == Spec => []RegistrationsBounded
  <1>1. Init => RegisterInv
    <2> SUFFICES ASSUME Init PROVE RegisterInv
      OBVIOUS
    <2>1. Registering = {} /\ clients = {}
      BY DEF Init, Registering, NoReq
    <2>2. Cardinality({}) = 0 /\ Cardinality(Procs) \in Nat
      BY OAuthAssumption, FS_EmptySet, FS_CardinalityType
    <2> QED
      BY <2>1, <2>2, OAuthAssumption DEF RegisterInv
  <1>2. OAuthInv /\ RegisterInv /\ [Next]_vars => RegisterInv'
    BY RegisterStep
  <1>3. OAuthInv /\ RegisterInv => RegistrationsBounded
    <2> SUFFICES ASSUME OAuthInv, RegisterInv PROVE RegistrationsBounded
      OBVIOUS
    <2>1. IsFiniteSet(clients) /\ IsFiniteSet(Registering)
      BY OAuthAssumption, FS_Subset DEF OAuthInv, TypeOK, Registering
    <2>2. Cardinality(clients) \in Nat /\ Cardinality(Registering) \in Nat /\ Cardinality(Procs) \in Nat
      BY <2>1, OAuthAssumption, FS_CardinalityType
    <2> QED
      BY <2>2, OAuthAssumption DEF RegisterInv, RegistrationsBounded
  <1> QED
    BY <1>1, <1>2, <1>3, OAuthInvariant, PTL DEF Spec

(* The discovery cache serves the issuer a request was to use, loads once at *)
(* a time, and leaves nobody waiting for a load that is over (mcpProvider).  *)
THEOREM CacheSafety == Spec => []CacheServes
  <1>1. OAuthInv => CacheServes
    BY DEF OAuthInv, CacheInv, CacheServes
  <1> QED
    BY <1>1, OAuthInvariant, PTL
=============================================================================
