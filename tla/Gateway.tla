------------------------------- MODULE Gateway -------------------------------
(* What a caller may do, over MCP and over REST: the tool catalogue          *)
(* (transport/mcpserver), the REST routes (transport/httpapi), the policy    *)
(* gateway they share (application/mcppolicy.go, mcpscopes.go) and the       *)
(* checks inside the operations themselves.                                  *)
(*                                                                           *)
(* A request is authenticated, then checked, then runs; the credential, the  *)
(* caller's role, the administrator's switches and the policy may all change *)
(* in between. An operation carries the name of the tool that runs it; its   *)
(* effects are listed apart from the scopes the gateway asks for.            *)
EXTENDS Naturals, FiniteSets

CONSTANTS
  ScopeSets,   \* the scopes a key may be given
  TokenScopes, \* the scopes of the OAuth access token
  Switchable,  \* permissions an administrator turns off and on
  Policies,    \* what the setting mcp.policy may hold
  MaxChanges   \* bound: changes of configuration

VARIABLES
  role, active,  \* the caller's row in users
  key,           \* a personal key of the caller
  permitted,     \* mcp.permissions.*: scopes that are switched on
  enabled,       \* mcp.enabled, mcp.http_enabled
  stored,        \* mcp.policy in the settings table
  cached,        \* the policy this replica has parsed
  deleteRule,    \* one of the caller's rules deletes mail
  req,           \* the request being handled
  stream,        \* the principal of an open event stream
  changes

vars == <<role, active, key, permitted, enabled, stored, cached, deleteRule, req, stream, changes>>

-----------------------------------------------------------------------------
(* The catalogue, one set per register function of the MCP server.           *)
DeleteTools == {"mail_local_delete", "mail_server_delete_preview",
                "mail_server_delete_request_approval", "mail_server_delete"}
AccountTools == {"mail_account_list", "mail_account_get", "mail_account_create", "mail_account_update",
                 "mail_account_test", "mail_account_disable", "secret_registration_begin",
                 "secret_rotation_begin", "secret_revoke"}
SyncTools == {"mail_sync_start", "job_status", "job_cancel"}
QueryTools == {"mail_search", "mail_sent_search", "mail_message_get", "mail_thread_get",
               "mail_attachment_list", "mail_hybrid_search", "mail_thread_timeline",
               "mail_work_inbox", "mail_batch_update"}
AnalyzeTools == {"mail_summarize", "mail_classify", "mail_action_items_extract",
                 "mail_entities_extract", "mail_phishing_inspect"}
AITools == AnalyzeTools \cup
           {"mail_thread_summarize", "mail_attachment_extract_text", "mail_attachment_summarize",
            "mail_auth_inspect", "mail_embeddings_build", "mail_semantic_search", "mail_eval_prompt",
            "mail_question_answer", "mail_calendar_extract", "mail_rule_draft_from_text",
            "mail_daily_digest", "mail_suggest_replies"}
ComposeTools == {"mail_draft_create", "mail_draft_update", "mail_draft_rewrite", "mail_send_preview",
                 "mail_send_request_approval", "mail_send", "mail_outbound_status"}
RuleTools == {"mail_rules_list", "mail_rule_create", "mail_rule_update", "mail_rule_delete",
              "mail_apply_rules"}
ActionCardTools == {"mail_action_cards_extract", "mail_action_cards_list",
                    "mail_action_card_set_status", "mail_action_card_export"}
CollabTools == {"mail_team_inbox", "mail_collab_get", "mail_assign", "mail_set_work_status",
                "mail_add_note"}
AuditTools == {"mail_audit_search"}
Discovery == {"mail_capabilities", "mail_identity", "mail_system_info"}
DiscoveryTools == Discovery \cup {"mail_draft_get"}
ParityTools == {"mail_action_card_create", "mail_events", "mail_drafts_list", "mail_draft_delete",
                "mail_outbound_list", "job_list", "mail_set_sla"}
RenderTools == {"mail_text_rewrite", "mail_render", "mail_templates", "mail_signature_list",
                "mail_signature_get", "mail_signature_save", "mail_signature_delete"}
AttachmentTools == {"mail_draft_attachment_add", "mail_draft_attachment_get",
                    "mail_draft_attachment_remove"}

Tools == DeleteTools \cup AccountTools \cup SyncTools \cup QueryTools \cup AITools \cup ComposeTools
         \cup RuleTools \cup ActionCardTools \cup CollabTools \cup AuditTools \cup DiscoveryTools
         \cup ParityTools \cup RenderTools \cup AttachmentTools

MCPToolAliases == {<<"mail_accounts_list", "mail_account_list">>, <<"mail_get", "mail_message_get">>,
                   <<"mail_thread", "mail_thread_get">>, <<"mail_draft", "mail_draft_create">>,
                   <<"mail_preview", "mail_send_preview">>, <<"mail_approve", "mail_send_request_approval">>,
                   <<"mail_systeminfo", "mail_system_info">>, <<"mail_ask", "mail_question_answer">>}

CanonicalMCPTool(t) ==
  IF \E x \in MCPToolAliases : x[1] = t THEN (CHOOSE x \in MCPToolAliases : x[1] = t)[2] ELSE t

(* toolAccess: read 0, write 1, send 2, delete 3, admin 4.                   *)
Level(t) ==
  CASE t \in {"mail_text_rewrite", "mail_draft_delete", "mail_action_card_create",
              "mail_draft_attachment_add", "mail_draft_attachment_remove", "mail_set_sla",
              "mail_render", "mail_signature_save", "mail_signature_delete", "mail_sync_start",
              "job_cancel", "mail_embeddings_build", "mail_draft_create", "mail_draft_update",
              "mail_draft_rewrite", "mail_batch_update", "mail_rule_create", "mail_rule_update",
              "mail_rule_delete", "mail_apply_rules", "mail_action_cards_extract",
              "mail_action_card_set_status", "mail_action_card_export", "mail_assign",
              "mail_set_work_status", "mail_add_note"} -> 1
    [] t \in {"mail_send_request_approval", "mail_send"} -> 2
    [] t = "mail_local_delete" -> 3
    [] t \in {"mail_account_create", "mail_account_update", "mail_account_disable", "secret_revoke",
              "mail_server_delete_preview", "mail_server_delete_request_approval",
              "mail_server_delete"} -> 4
    [] t \notin Tools -> 4
    [] OTHER -> 0

MCPScopes == {"mail.read", "mail.search", "mail.ai", "mail.draft", "mail.send", "mail.delete",
              "mail.work", "admin.read", "admin.write"}
AdminScopes == {"admin.read", "admin.write"}

(* What a key created before scopes existed still may do.                    *)
LegacyScopes == MCPScopes \ AdminScopes
DefaultMCPScopes == {"mail.read", "mail.search"}

MCPToolScopes(t) ==
  CASE t \in {"mail_text_rewrite", "mail_draft_rewrite"} -> {"mail.draft", "mail.ai"}
    [] t \in Discovery -> {}
    [] t \in {"mail_search", "mail_sent_search"} -> {"mail.search"}
    [] t \in {"mail_hybrid_search", "mail_semantic_search"} -> {"mail.search", "mail.ai"}
    [] t \in AITools \ {"mail_semantic_search", "mail_attachment_extract_text", "mail_auth_inspect"} ->
         {"mail.ai"}
    [] t \in AttachmentTools \cup (RenderTools \ {"mail_templates", "mail_text_rewrite"}) \cup
             {"mail_drafts_list", "mail_draft_create", "mail_draft_update", "mail_draft_get",
              "mail_draft_delete", "mail_send_preview"} ->
         {"mail.draft"}
    [] t \in {"mail_send", "mail_send_request_approval"} -> {"mail.send"}
    [] t \in DeleteTools -> {"mail.delete"}
    [] t \in {"mail_account_create", "mail_account_update", "mail_account_disable", "secret_revoke"} ->
         {"admin.write"}
    [] t = "mail_audit_search" -> {"admin.read"}
    [] t = "mail_action_cards_extract" -> {"mail.work", "mail.ai"}
    [] t \in {"mail_sync_start", "job_cancel", "mail_batch_update", "mail_rule_create",
              "mail_rule_update", "mail_rule_delete", "mail_apply_rules", "mail_action_card_set_status",
              "mail_action_card_export", "mail_assign", "mail_set_work_status", "mail_add_note",
              "mail_set_sla", "mail_action_card_create"} -> {"mail.work"}
    [] OTHER -> IF t \in Tools /\ Level(t) = 0 THEN {"mail.read"} ELSE {"admin.write"}

-----------------------------------------------------------------------------
(* The routes, one set per group of handlers: the tool whose policy guards   *)
(* the route when a delegated credential uses it, and the operation it runs. *)
(* Unguarded routes are closed to delegated credentials.                     *)
Own(S) == {<<t, t>> : t \in S}
Unguarded(S) == {<<"none", t>> : t \in S}

SystemRoutes == Own(Discovery \ {"mail_capabilities"}) \cup Unguarded({"capabilities", "preferences", "session"})
AdminRoutes == Unguarded({"users", "settings", "incidents", "probe", "operations"})
KeyRoutes == Unguarded({"keys_list", "key_create", "key_scopes", "key_revoke"})
SecretRoutes == Unguarded({"secret_create", "secret_rotate", "secret_revoke"})
AccountRoutes == Own({"mail_account_list", "mail_account_get", "mail_account_test", "mail_sync_start"})
                 \cup Unguarded({"mail_account_create", "mail_account_update", "account_delete",
                                 "mail_account_disable"})
JobRoutes == Own({"job_list", "job_status", "job_cancel"})
MessageRoutes == Own({"mail_search", "mail_message_get", "mail_attachment_list", "mail_auth_inspect",
                      "mail_attachment_extract_text", "mail_attachment_summarize", "mail_thread_get",
                      "mail_local_delete"})
                 \cup {<<"mail_search", "mail_sent_search">>}
                 \cup Unguarded(DeleteTools \ {"mail_local_delete"})
ImageRoutes == {<<"mail_message_get", "mail_message_get">>, <<"mail_set_work_status", "images_allow">>}
AIRoutes == {<<"mail_summarize", t>> : t \in AnalyzeTools}
            \cup Own({"mail_suggest_replies", "mail_calendar_extract", "mail_thread_summarize",
                      "mail_question_answer", "mail_semantic_search", "mail_embeddings_build"})
QueryRoutes == Own({"mail_batch_update", "mail_hybrid_search", "mail_thread_timeline",
                    "mail_eval_prompt", "mail_daily_digest"})
DraftRoutes == Own({"mail_draft_create", "mail_draft_get", "mail_draft_update", "mail_draft_rewrite",
                    "mail_draft_delete", "mail_send_preview", "mail_send_request_approval", "mail_send",
                    "mail_outbound_list", "mail_outbound_status"})
DraftListRoute == {<<"mail_draft_get", "mail_drafts_list">>}
RuleRoutes == Own(RuleTools \cup {"mail_rule_draft_from_text"})
CardRoutes == Own(ActionCardTools \cup {"mail_action_card_create", "mail_work_inbox"})
CollabRoutes == Own(CollabTools \cup {"mail_set_sla"})
RenderRoutes == Own(RenderTools)
AttachmentRoutes == Own(AttachmentTools)
EventRoutes == Own({"mail_events", "mail_audit_search"})

Routes == SystemRoutes \cup AdminRoutes \cup KeyRoutes \cup SecretRoutes \cup AccountRoutes \cup JobRoutes
          \cup MessageRoutes \cup ImageRoutes \cup AIRoutes \cup QueryRoutes \cup DraftRoutes
          \cup DraftListRoute \cup RuleRoutes \cup CardRoutes \cup CollabRoutes \cup RenderRoutes
          \cup AttachmentRoutes \cup EventRoutes

(* resources/read is checked as the tool that returns the same thing.        *)
ResourceTool == {"mail_capabilities", "mail_system_info", "mail_draft_get", "mail_account_get",
                 "mail_thread_get", "mail_action_cards_list", "job_status", "mail_message_get"}

(* The argument of an operation, as far as it changes what the operation     *)
(* does: AI asked for in a draft, deletion or a legal hold in a batch, a     *)
(* deleting action in a rule.                                                *)
Args(op) ==
  CASE op \in {"mail_draft_create", "mail_draft_update", "mail_render"} -> {"plain", "ai"}
    [] op = "mail_batch_update" -> {"plain", "delete", "hold"}
    [] op \in {"mail_rule_create", "mail_rule_update"} -> {"plain", "delete"}
    [] OTHER -> {"plain"}

McpEntries == [via : {"mcp"}, tool : Tools \cup {x[1] : x \in MCPToolAliases},
               op : Tools, arg : {"plain", "ai", "delete", "hold"}]
AllEntries ==
  {e \in McpEntries : e.op = CanonicalMCPTool(e.tool) /\ e.arg \in Args(e.op)} \cup
  UNION {{[via |-> "rest", tool |-> r[1], op |-> r[2], arg |-> a] : a \in Args(r[2])} : r \in Routes}

-----------------------------------------------------------------------------
(* What operations do besides reading, from the application services: they   *)
(* call the AI provider, write drafts, send, delete, change the work on a    *)
(* message, read the audit log, change accounts, or touch identities.        *)
AIOps == (AITools \ {"mail_attachment_extract_text", "mail_auth_inspect"})
         \cup {"mail_hybrid_search", "mail_draft_rewrite", "mail_text_rewrite",
               "mail_action_cards_extract"}
CollabOps == {"mail_assign", "mail_set_work_status", "mail_add_note", "mail_set_sla"}
CardOps == {"mail_action_cards_extract", "mail_action_card_set_status", "mail_action_card_export",
            "mail_action_card_create"}
RuleOps == RuleTools \ {"mail_rules_list"}
AccountOps == {"mail_account_create", "mail_account_update", "mail_account_disable", "account_delete",
               "secret_revoke"}
IdentityOps == {"users", "settings", "incidents", "probe", "operations", "key_create", "key_scopes",
                "key_revoke", "secret_create", "secret_rotate", "preferences"}
EffectOps ==
  [ai     |-> AIOps,
   draft  |-> {"mail_draft_create", "mail_draft_update", "mail_draft_rewrite", "mail_draft_delete",
               "mail_draft_attachment_add", "mail_draft_attachment_remove", "mail_signature_save",
               "mail_signature_delete"},
   send   |-> {"mail_send_request_approval", "mail_send"},
   delete |-> DeleteTools \ {"mail_server_delete_preview"},
   hold   |-> {},
   work   |-> CollabOps \cup CardOps \cup RuleOps \cup
              {"mail_sync_start", "job_cancel", "mail_batch_update", "images_allow"},
   audit  |-> {"mail_audit_search"},
   admin  |-> AccountOps,
   identity |-> IdentityOps]

Effects(op, arg) ==
  {e \in DOMAIN EffectOps : op \in EffectOps[e]}
  \cup ({arg} \ {"plain"})
  \cup (IF op = "mail_apply_rules" /\ deleteRule THEN {"delete"} ELSE {})

-----------------------------------------------------------------------------
(* The policy gateway.                                                       *)
BuiltinRoleMax(r) == IF r = "admin" THEN 4 ELSE 2

NoPolicy == [valid |-> TRUE, deny |-> {}, roleDeny |-> [r \in {"user", "admin"} |-> {}],
             roleAllow |-> [r \in {"user", "admin"} |-> {}],
             roleMax |-> [r \in {"user", "admin"} |-> BuiltinRoleMax(r)], allow |-> {}]

(* loadMCPPolicy: names are canonical; a policy that does not parse denies   *)
(* every tool but those of discovery.                                        *)
LoadMCPPolicy(p) ==
  LET canonical(S) == {CanonicalMCPTool(t) : t \in S}
      roles(f) == [r \in DOMAIN f |-> canonical(f[r])]
  IN IF p.valid
     THEN [p EXCEPT !.deny = canonical(@), !.allow = canonical(@),
                    !.roleDeny = roles(@), !.roleAllow = roles(@)]
     ELSE [NoPolicy EXCEPT !.valid = FALSE, !.deny = Tools \ Discovery]

EvaluateAccess(pol, r, t) ==
  /\ t \notin pol.deny
  /\ t \notin pol.roleDeny[r]
  /\ \/ pol.roleAllow[r] # {} /\ t \in pol.roleAllow[r]
     \/ pol.roleAllow[r] = {} /\ (Level(t) <= pol.roleMax[r] \/ t \in pol.allow)

Scoped(p) == p.method \in {"mcp_key", "mcp_oauth"}

CheckMCPPermissionScopes(p, required) ==
  /\ enabled
  /\ Scoped(p) => required \subseteq p.scopes
  /\ required \subseteq permitted

(* A caller without a principal is the local stdio process.                  *)
CheckMCPToolPolicy(p, t) ==
  /\ CheckMCPPermissionScopes(p, MCPToolScopes(t))
  /\ p.method = "stdio" \/ EvaluateAccess(cached, p.role, t)

(* checkMCPRequestPolicy: the tool, and what its arguments add.              *)
CheckMCPRequestPolicy(p, e) ==
  /\ CheckMCPToolPolicy(p, CanonicalMCPTool(e.tool))
  /\ e.arg = "ai" => CheckMCPPermissionScopes(p, {"mail.ai"})
  /\ e.arg = "delete" /\ e.op = "mail_batch_update" => CheckMCPToolPolicy(p, "mail_local_delete")

(* checkMCPRESTScope: an unguarded route is closed to delegated credentials. *)
CheckMCPRESTScope(p, e) ==
  Scoped(p) => e.tool # "none" /\ CheckMCPToolPolicy(p, e.tool)

(* The checks that operations make themselves, whatever called them.         *)
DeleteCheck(p, e) ==
  "delete" \in Effects(e.op, e.arg) /\ e.op \notin DeleteTools \ {"mail_local_delete"} =>
    CheckMCPToolPolicy(p, "mail_local_delete")
HoldCheck(p, e) ==
  e.arg = "hold" => p.role = "admin" /\ CheckMCPPermissionScopes(p, {"admin.write"})
\* Mutant: composing relies on the transport.
ComposeCheckNone(p, e) == TRUE

ComposeCheck(p, e) ==
  /\ e.arg = "ai" \/ e.op \in {"mail_draft_rewrite", "mail_text_rewrite"} =>
       CheckMCPPermissionScopes(p, {"mail.ai"})
  /\ e.op \in AttachmentTools \cup (RenderTools \ {"mail_templates"}) =>
       CheckMCPPermissionScopes(p, {"mail.draft"})
DraftListCheck(p, e) == e.op = "mail_drafts_list" => "mail.draft" \in p.scopes
ImagesCheck(p, e) == e.op = "images_allow" => "mail.work" \in p.scopes
CardCheck(p, e) == e.op = "mail_action_card_create" => CheckMCPToolPolicy(p, e.op)
EventsCheck(p, e) == e.op = "mail_events" => CheckMCPToolPolicy(p, e.op)
RequireAdmin(p, e) ==
  e.op \in {"users", "settings", "incidents", "probe", "operations"} => p.role = "admin"

InnerCheck(p, e) ==
  /\ Scoped(p) =>
       /\ DeleteCheck(p, e) /\ HoldCheck(p, e) /\ ComposeCheck(p, e) /\ DraftListCheck(p, e)
       /\ ImagesCheck(p, e) /\ CardCheck(p, e) /\ EventsCheck(p, e)
       /\ e.op \notin {"key_create", "key_scopes"}
  /\ RequireAdmin(p, e)

-----------------------------------------------------------------------------
NoPrincipal == [method |-> "stdio", role |-> "user", scopes |-> {}]
Idle == [stage |-> "idle", by |-> NoPrincipal,
         entry |-> [via |-> "mcp", tool |-> "mail_identity", op |-> "mail_identity", arg |-> "plain"],
         clean |-> TRUE]
Closed == [NoPrincipal EXCEPT !.method = "closed"]

Init ==
  /\ role \in {"user", "admin"} /\ active = TRUE
  /\ key \in [status : {"active"}, scopes : ScopeSets]
  /\ permitted = MCPScopes /\ enabled = TRUE
  /\ stored = NoPolicy /\ cached = NoPolicy
  /\ deleteRule \in BOOLEAN
  /\ req = Idle /\ stream = Closed /\ changes = 0

(* A credential, and the principal it gives now. Sessions and keys are       *)
(* looked up on every call; the API token is an administrator.               *)
Principals(via) ==
  LET as(m, r, s) == [method |-> m, role |-> r, scopes |-> s]
  IN {p \in {as("mcp_key", role, key.scopes), as("mcp_oauth", role, TokenScopes),
             as("session", role, {}), as("api_token", "admin", {}), NoPrincipal} :
        /\ p.method \in {"mcp_key", "mcp_oauth", "session"} => active
        /\ p.method = "mcp_key" => key.status = "active"
        /\ p.method \in {"mcp_oauth", "stdio"} => via = "mcp"
        /\ p.method = "session" => via = "rest"}

(* The middleware of either transport authenticates the request. The caller  *)
(* makes one request at a time and none while it follows the stream, which   *)
(* shares nothing with it.                                                   *)
Authenticate(e) ==
  /\ req.stage = "idle" /\ stream = Closed
  /\ e.via = "mcp" => enabled
  /\ \E p \in Principals(e.via) :
       req' = [stage |-> "authenticated", by |-> p, entry |-> e, clean |-> TRUE]
  /\ UNCHANGED <<role, active, key, permitted, enabled, stored, cached, deleteRule, stream, changes>>

(* The gateway's answer, from the principal taken at authentication and the  *)
(* switches and policy of now.                                               *)
Gateway ==
  /\ req.stage = "authenticated"
  /\ LET ok == IF req.entry.via = "mcp" THEN CheckMCPRequestPolicy(req.by, req.entry)
               ELSE CheckMCPRESTScope(req.by, req.entry)
     IN req' = IF ok THEN [req EXCEPT !.stage = "allowed"] ELSE Idle
  /\ UNCHANGED <<role, active, key, permitted, enabled, stored, cached, deleteRule, stream, changes>>

(* The key that an operation of the caller, or of an administrator, leaves.  *)
KeyAfter(p, op, s) ==
  CASE op = "key_revoke" -> [key EXCEPT !.status = "revoked"]
    [] op = "key_scopes" /\ (p.role = "admin" \/ s \cap AdminScopes = {}) -> [key EXCEPT !.scopes = s]
    [] OTHER -> key

Run ==
  /\ req.stage = "allowed"
  /\ LET e == req.entry IN
     \/ /\ InnerCheck(req.by, e)
        /\ \E s \in ScopeSets : key' = KeyAfter(req.by, e.op, s)
        /\ deleteRule' = CASE e.op = "mail_rule_delete" -> FALSE
                           [] e.op \in {"mail_rule_create", "mail_rule_update"} -> e.arg = "delete"
                           [] OTHER -> deleteRule
     \/ /\ ~InnerCheck(req.by, e)
        /\ UNCHANGED <<key, deleteRule>>
  /\ req' = Idle
  /\ UNCHANGED <<role, active, permitted, enabled, stored, cached, stream, changes>>

-----------------------------------------------------------------------------
(* What others change meanwhile.                                             *)
Change ==
  /\ changes < MaxChanges /\ changes' = changes + 1
  /\ req' = [req EXCEPT !.clean = req.stage = "idle"]
  /\ UNCHANGED <<deleteRule, stream>>

(* Administrators edit the user.                                             *)
EditUser ==
  /\ Change
  /\ \/ role' = (IF role = "user" THEN "admin" ELSE "user") /\ UNCHANGED active
     \/ active' = ~active /\ UNCHANGED role
  /\ UNCHANGED <<key, permitted, enabled, stored, cached>>

(* From another session: RevokeMCPKey, UpdateMCPKeyScopes.                   *)
EditKey ==
  /\ Change
  /\ \/ key' = [key EXCEPT !.status = "revoked"]
     \/ \E s \in ScopeSets \ {key.scopes} : key' = [key EXCEPT !.scopes = s]
  /\ UNCHANGED <<role, active, permitted, enabled, stored, cached>>

(* applyRuntimeSettings: the switches.                                       *)
FlipSwitch ==
  /\ Change
  /\ \/ enabled' = ~enabled /\ UNCHANGED permitted
     \/ \E s \in Switchable :
          /\ permitted' = IF s \in permitted THEN permitted \ {s} ELSE permitted \cup {s}
          /\ UNCHANGED enabled
  /\ UNCHANGED <<role, active, key, stored, cached>>

SavePolicy ==
  /\ Change
  /\ \E p \in Policies \ {stored} : stored' = p
  /\ UNCHANGED <<role, active, key, permitted, enabled, cached>>

(* After the save here, or when another replica's notification arrives.      *)
ReloadPolicy ==
  /\ cached # LoadMCPPolicy(stored)
  /\ cached' = LoadMCPPolicy(stored)
  /\ req' = [req EXCEPT !.clean = req.stage = "idle"]
  /\ UNCHANGED <<role, active, key, permitted, enabled, stored, deleteRule, stream, changes>>

-----------------------------------------------------------------------------
(* The event stream of a key: opened like any request, then authenticated    *)
(* and checked again on every tick.                                          *)
KeyPrincipal == [method |-> "mcp_key", role |-> role, scopes |-> key.scopes]
MayStream == active /\ key.status = "active" /\ CheckMCPToolPolicy(KeyPrincipal, "mail_events")

OpenStream ==
  /\ stream = Closed /\ req.stage = "idle" /\ MayStream
  /\ stream' = KeyPrincipal
  /\ UNCHANGED <<role, active, key, permitted, enabled, stored, cached, deleteRule, req, changes>>

\* Mutant: the principal of the first request is checked for ever.
StreamTickAsOpened ==
  /\ stream # Closed
  /\ stream' = IF CheckMCPToolPolicy(stream, "mail_events") THEN stream ELSE Closed
  /\ UNCHANGED <<role, active, key, permitted, enabled, stored, cached, deleteRule, req, changes>>

StreamTick ==
  /\ stream # Closed
  /\ stream' = IF MayStream THEN KeyPrincipal ELSE Closed
  /\ UNCHANGED <<role, active, key, permitted, enabled, stored, cached, deleteRule, req, changes>>

-----------------------------------------------------------------------------
Next ==
  \/ \E e \in AllEntries : Authenticate(e)
  \/ Gateway
  \/ Run
  \/ EditUser
  \/ EditKey
  \/ FlipSwitch
  \/ SavePolicy
  \/ ReloadPolicy
  \/ OpenStream
  \/ StreamTick

(* The ticker of an open stream runs as long as the stream does.             *)
Spec == Init /\ [][Next]_vars /\ WF_vars(StreamTick)

-----------------------------------------------------------------------------
(* A step in which the operation of a request takes effect.                  *)
Performs(op) ==
  /\ req.stage = "allowed" /\ req'.stage = "idle"
  /\ req.entry.op = op /\ InnerCheck(req.by, req.entry)

(* The scope that stands for an effect, as the key's owner reads it.         *)
ScopeOf(e) ==
  CASE e = "ai" -> "mail.ai" [] e = "draft" -> "mail.draft" [] e = "send" -> "mail.send"
    [] e = "delete" -> "mail.delete" [] e = "work" -> "mail.work" [] e = "audit" -> "admin.read"
    [] e \in {"hold", "admin"} -> "admin.write"

(* No tool, alias, route or argument lets a delegated credential do more     *)
(* than its key says: if nothing changed while the request was handled, each *)
(* of its effects was covered by a scope the key has and the administrator   *)
(* has switched on, deleting and administering also by the caller's role or  *)
(* by the policy, and identities and credentials were out of its reach.      *)
EffectsGranted ==
  [][LET p == req.by IN
     req.clean /\ Scoped(p) /\ Performs(req.entry.op) =>
       \A e \in Effects(req.entry.op, req.entry.arg) :
         /\ e # "identity"
         /\ ScopeOf(e) \in (IF p.method = "mcp_key" THEN key.scopes ELSE TokenScopes) \cap permitted
         /\ e \in {"delete", "admin", "hold"} /\ cached = NoPolicy => role = "admin"]_vars

(* An event stream ends after its key is revoked, its owner disabled, its    *)
(* scope taken away or the tool denied.                                      *)
StreamStops == (stream # Closed /\ ~MayStream) ~> (stream = Closed \/ MayStream)

(* "A key cannot evade its scope/gateway policy by switching MCP to REST":   *)
(* an operation that runs for a delegated credential over REST is one the    *)
(* policy allows it as a tool.                                               *)
TransportsAgree ==
  [][\A t \in Tools : req.clean /\ Scoped(req.by) /\ Performs(t) => EvaluateAccess(cached, req.by.role, t)]_vars

-----------------------------------------------------------------------------
(* The inductive invariant behind EffectsGranted: while nothing has changed, *)
(* the principal that a request carries is the one its credential gives now, *)
(* and the gateway would let it pass again.                                  *)
PrincipalCurrent ==
  req.clean /\ req.stage # "idle" /\ Scoped(req.by) =>
    /\ req.by.role = role
    /\ req.by.scopes = IF req.by.method = "mcp_key" THEN key.scopes ELSE TokenScopes

StillAllowed ==
  req.clean /\ req.stage = "allowed" =>
    IF req.entry.via = "mcp" THEN CheckMCPRequestPolicy(req.by, req.entry)
    ELSE CheckMCPRESTScope(req.by, req.entry)

GateInv ==
  /\ role \in {"user", "admin"}
  /\ req = [stage |-> req.stage, by |-> req.by, entry |-> req.entry, clean |-> req.clean]
  /\ req.stage \in {"idle", "authenticated", "allowed"} /\ req.clean \in BOOLEAN
  /\ req.stage # "idle" => req.entry \in AllEntries
  /\ PrincipalCurrent
  /\ StillAllowed
=============================================================================
