----------------------------- MODULE MCGateway -----------------------------
(* Every tool and route, with keys that lack one scope or have few, and      *)
(* policies of each kind.                                                    *)
EXTENDS Gateway

MCScopeSets == {LegacyScopes, MCPScopes \ {"mail.ai"}, MCPScopes \ {"mail.delete"}}
MCTokenScopes == {"mail.draft", "mail.work", "admin.read"}
MCSwitchable == {"mail.ai", "admin.write"}
MCPolicies ==
  {NoPolicy,
   [NoPolicy EXCEPT !.valid = FALSE],
   [NoPolicy EXCEPT !.deny = {"mail_get", "mail_drafts_list"}, !.roleMax["user"] = 3,
                    !.roleDeny["user"] = {"mail_classify"}]}
=============================================================================
