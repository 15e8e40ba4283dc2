---------------------------- MODULE ApiClientProofs ----------------------------
(***************************************************************************)
(* Theorems about ApiClient, for any base URLs, base paths, tenants and    *)
(* ids.  The facts about the operations of the SDK are proved by going     *)
(* through the definitions of Services; those about base paths and ids     *)
(* hold for texts of any length.                                           *)
(***************************************************************************)
EXTENDS ApiClient, WellFoundedInduction, TLAPS

--------------------------------------------------------------------------------
(* The operations                                                             *)

\* An operation is in the published list exactly when it never sends.
Listed(op) ==
    /\ op.method # "none" => ~Pending(op)
    /\ op.method = "none" =>
           \/ Pending(op)
           \/ op.service = "policy" /\ op.name \in {"EnableSimulation", "DisableSimulation"}

LEMMA PendingNames == \A op :
    /\ op.service \notin {"agent", "audit", "decision", "governance", "pam",
                          "policy", "tenant", "token", "webhook"} => ~Pending(op)
    /\ op.service = "agent" => (Pending(op) <=> op.name \in
           {"GetCard", "GetDelegationChain", "GetBaseline", "GetSnapshot", "Suspend",
            "Reactivate"})
    /\ op.service = "audit" => (Pending(op) <=> op.name \in
           {"CreateSIEMConfig", "ListSIEMConfigs", "DeleteSIEMConfig"})
    /\ op.service = "decision" => (Pending(op) <=> op.name \in
           {"BatchEvaluate", "Simulate"})
    /\ op.service = "governance" => (Pending(op) <=> op.name \in
           {"GetCertificationItems", "GetAccessRequest", "GetPostureScore",
            "ListEntitlements", "ListAccessBundles", "SetResourceOwner",
            "GetResourceOwner"})
    /\ op.service = "pam" => (Pending(op) <=> op.name \in
           {"GetEphemeralCredential", "GetSessionRecording", "GetAnalytics"})
    /\ op.service = "policy" => (Pending(op) <=> op.name \in
           {"Update", "Delete", "RollbackBundle", "CreateNamedLocation",
            "ListNamedLocations", "DeleteNamedLocation", "RequestBreakGlass",
            "RevokeBreakGlass", "ReBAcCheck", "ReBAcWrite", "ReBAcDelete"})
    /\ op.service = "tenant" => (Pending(op) <=> op.name \in
           {"ExportData", "GetExportStatus", "UpdateConfiguration", "UpdateBranding"})
    /\ op.service = "token" => (Pending(op) <=> op.name \in
           {"Revoke", "ClientCredentials", "Mint"})
    /\ op.service = "webhook" => (Pending(op) <=> op.name \in
           {"Subscribe", "Unsubscribe", "Get", "List", "ListDeliveries",
            "ListDeadLetters", "RetryDeadLetter"})
  BY DEF Pending, PendingBackendContractOperations

LEMMA AllListed == \A op \in Ops : Listed(op)
<1>1. \A op \in agentIdentities : Listed(op)
  BY PendingNames DEF agentIdentities, Listed, Op, Sends, Queries, Lists, Absent
<1>2. \A op \in agentBehaviour : Listed(op)
  BY PendingNames DEF agentBehaviour, Listed, Op, Sends, Queries, Lists, Absent
<1>3. \A op \in agentTools : Listed(op)
  BY PendingNames DEF agentTools, Listed, Op, Sends, Queries, Lists, Absent
<1>4. \A op \in governanceCampaigns : Listed(op)
  BY PendingNames DEF governanceCampaigns, Listed, Op, Sends, Queries, Lists, Absent
<1>5. \A op \in governanceAccess : Listed(op)
  BY PendingNames DEF governanceAccess, Listed, Op, Sends, Queries, Lists, Absent
<1>6. \A op \in policyBundles : Listed(op)
  BY PendingNames DEF policyBundles, Listed, Op, Sends, Queries, Lists, Absent
<1>7. \A op \in policyDecisions : Listed(op)
  BY PendingNames DEF policyDecisions, Listed, Op, Sends, Queries, Lists, Absent
<1>8. \A op \in pamSessions : Listed(op)
  BY PendingNames DEF pamSessions, Listed, Op, Sends, Queries, Lists, Absent
<1>9. \A op \in pamDecisions : Listed(op)
  BY PendingNames DEF pamDecisions, Listed, Op, Sends, Queries, Lists, Absent
<1>10. \A op \in scimUsers : Listed(op)
  BY PendingNames DEF scimUsers, Listed, Op, Sends, Queries, Lists, Absent
<1>11. \A op \in scimGroups : Listed(op)
  BY PendingNames DEF scimGroups, Listed, Op, Sends, Queries, Lists, Absent
<1>12. \A op \in tenantOps : Listed(op)
  BY PendingNames DEF tenantOps, Listed, Op, Sends, Queries, Lists, Absent
<1>13. \A op \in tokenOps : Listed(op)
  BY PendingNames DEF tokenOps, Listed, Op, Sends, Queries, Lists, Absent
<1>14. \A op \in credentialOps : Listed(op)
  BY PendingNames DEF credentialOps, Listed, Op, Sends, Queries, Lists, Absent
<1>15. \A op \in auditOps : Listed(op)
  BY PendingNames DEF auditOps, Listed, Op, Sends, Queries, Lists, Absent
<1>16. \A op \in secretsOps : Listed(op)
  BY PendingNames DEF secretsOps, Listed, Op, Sends, Queries, Lists, Absent
<1>17. \A op \in didOps : Listed(op)
  BY PendingNames DEF didOps, Listed, Op, Sends, Queries, Lists, Absent
<1>18. \A op \in deviceOps : Listed(op)
  BY PendingNames DEF deviceOps, Listed, Op, Sends, Queries, Lists, Absent, OfDevice
<1>19. \A op \in nhimgmtOps : Listed(op)
  BY PendingNames DEF nhimgmtOps, Listed, Op, Sends, Queries, Lists, Absent
<1>20. \A op \in notificationOps : Listed(op)
  BY PendingNames DEF notificationOps, Listed, Op, Sends, Queries, Lists, Absent
<1>21. \A op \in machineOps : Listed(op)
  BY PendingNames DEF machineOps, Listed, Op, Sends, Queries, Lists, Absent, OfMachine
<1>22. \A op \in blockchainCredentials : Listed(op)
  BY PendingNames DEF blockchainCredentials, Listed, Op, Sends, Queries, Lists,
         Absent, OfCredential, QueryCredential
<1>23. \A op \in blockchainDIDs : Listed(op)
  BY PendingNames DEF blockchainDIDs, Listed, Op, Sends, Queries, Lists, Absent,
         OfLedger
<1>24. \A op \in blockchainTrust : Listed(op)
  BY PendingNames DEF blockchainTrust, Listed, Op, Sends, Queries, Lists, Absent,
         OfLedger
<1>25. \A op \in decisionOps : Listed(op)
  BY PendingNames DEF decisionOps, Listed, Op, Sends, Queries, Lists, Absent
<1>26. \A op \in webhookOps : Listed(op)
  BY PendingNames DEF webhookOps, Listed, Op, Sends, Queries, Lists, Absent
<1>27. \A op \in healthOps : Listed(op)
  BY PendingNames DEF healthOps, Listed, Op, Sends, Queries, Lists, Absent
<1>28. \A op \in userOps : Listed(op)
  BY PendingNames DEF userOps, Listed, Op, Sends, Queries, Lists, Absent
<1> QED BY <1>1, <1>2, <1>3, <1>4, <1>5, <1>6, <1>7, <1>8, <1>9, <1>10, <1>11, <1>12,
       <1>13, <1>14, <1>15, <1>16, <1>17, <1>18, <1>19, <1>20, <1>21, <1>22, <1>23,
       <1>24, <1>25, <1>26, <1>27, <1>28 DEF Ops

\* The words of the routes.
Words ==
    {".well-known", "Groups", "ResourceTypes", "ServiceProviderConfig", "Users",
     "access-requests", "agents", "anchor", "approve", "audit-logs", "auth",
     "authorize", "batch-revoke", "batch-suspend", "blockchain", "bundles", "call",
     "certifications", "check", "compliance", "connections", "consent", "create",
     "credentials", "data", "decide", "decision", "decrypt", "delegate", "delegation",
     "devices", "didcomm", "dids", "drift-history", "elevate", "elevations",
     "encrypt", "enroll", "entitlements", "evaluate", "exchange", "github",
     "governance", "graph", "hash", "health", "history", "identities", "identity",
     "inbox", "introspect", "inventory", "issuers", "items", "jwks.json", "k8s",
     "kill-all", "lease", "leases", "machine", "mcp", "me", "metadata", "metrics",
     "mint", "mounts", "nhi", "non-compliant", "notifications",
     "openid-configuration", "pam", "policies", "posture", "push-tokens",
     "reactivate", "ready", "recalibrate-baseline", "receipts", "refresh", "register",
     "register-meta", "renew", "revocation-status", "revocations", "revoke", "rotate",
     "rotations", "schemas", "scim", "secrets", "send", "servers", "sod", "stats",
     "status", "summary", "suspend", "suspension-status", "suspensions", "sys",
     "tenants", "token", "tokens", "tools", "trend", "trust", "trusted", "unsuspend",
     "users", "v1", "v2", "verifiers", "verify", "version", "withdraw"}

\* The words a route begins with, before or after the version.
Heads == {"v1", "pam", "scim", "auth", ".well-known", "blockchain", "health", "ready",
          "version", "metrics"}

\* Parts of paths.  The provers do not know that a text in quotes is in STRING.
Part == STRING \cup Words \cup AllParams \cup Unusable
        \cup {"x", "api", "cli", "device", "docs", "dpop", "oauth", "oid4vci", "me", "tenants",
              Blank, Odd, OddEscaped}

\* Routes of more than one part, and of one.
Long(r) ==
    /\ r \in Seq(Words \cup AllParams)
    /\ Len(r) > 1
    /\ r[1] \in Heads
    /\ r[1] = "v1" => r[2] \in Words \ {"v1", "api"}
    /\ r[1] = "auth" => r = <<"auth", "token", "exchange">>
Short == {<<"health">>, <<"ready">>, <<"version">>, <<"metrics">>}

Routed(op) ==
    IF op.method = "none" THEN op.route = <<>>
    ELSE Long(op.route) \/ (op.route \in Short /\ op.query = NoQuery)

LEMMA AllRouted == \A op \in Ops : Routed(op)
<1>1. \A op \in agentIdentities : Routed(op)
  <2>1. /\ Long(<<"v1", "agents">>)
        /\ Long(<<"v1", "agents", "$id">>)
        /\ Long(<<"v1", "delegation", "delegate">>)
    BY DEF Long, Heads, Words, AllParams, SegmentParams, SlashParams, RawParams
  <2> QED BY <2>1 DEF agentIdentities, Routed, Op, Sends, Queries, Lists, Absent
<1>2. \A op \in agentBehaviour : Routed(op)
  <2>1. /\ Long(<<"v1", "agents", "$id", "recalibrate-baseline">>)
        /\ Long(<<"v1", "agents", "$id", "drift-history">>)
        /\ Long(<<"v1", "agents", "kill-all">>)
        /\ Long(<<"v1", "agents", "inventory">>)
    BY DEF Long, Heads, Words, AllParams, SegmentParams, SlashParams, RawParams
  <2> QED BY <2>1 DEF agentBehaviour, Routed, Op, Sends, Queries, Lists, Absent
<1>3. \A op \in agentTools : Routed(op)
  <2>1. /\ Long(<<"v1", "mcp", "servers">>)
        /\ Long(<<"v1", "mcp", "authorize">>)
        /\ Long(<<"v1", "mcp", "servers", "$id">>)
        /\ Long(<<"v1", "mcp", "servers", "$id", "tools">>)
        /\ Long(<<"v1", "mcp", "call">>)
    BY DEF Long, Heads, Words, AllParams, SegmentParams, SlashParams, RawParams
  <2> QED BY <2>1 DEF agentTools, Routed, Op, Sends, Queries, Lists, Absent
<1>4. \A op \in governanceCampaigns : Routed(op)
  <2>1. /\ Long(<<"v1", "governance", "certifications">>)
        /\ Long(<<"v1", "governance", "certifications", "$id">>)
        /\ Long(<<"v1", "governance", "certifications", "items", "$id", "decide">>)
    BY DEF Long, Heads, Words, AllParams, SegmentParams, SlashParams, RawParams
  <2> QED BY <2>1 DEF governanceCampaigns, Routed, Op, Sends, Queries, Lists, Absent
<1>5. \A op \in governanceAccess : Routed(op)
  <2>1. /\ Long(<<"v1", "governance", "access-requests">>)
        /\ Long(<<"v1", "governance", "access-requests", "$id", "approve">>)
        /\ Long(<<"v1", "governance", "entitlements", "sod", "check">>)
    BY DEF Long, Heads, Words, AllParams, SegmentParams, SlashParams, RawParams
  <2> QED BY <2>1 DEF governanceAccess, Routed, Op, Sends, Queries, Lists, Absent
<1>6. \A op \in policyBundles : Routed(op)
  <2>1. /\ Long(<<"v1", "policies", "bundles">>)
        /\ Long(<<"v1", "policies", "bundles", "$id">>)
    BY DEF Long, Heads, Words, AllParams, SegmentParams, SlashParams, RawParams
  <2> QED BY <2>1 DEF policyBundles, Routed, Op, Sends, Queries, Lists, Absent
<1>7. \A op \in policyDecisions : Routed(op)
  BY DEF policyDecisions, Routed, Op, Sends, Queries, Lists, Absent
<1>8. \A op \in pamSessions : Routed(op)
  <2>1. /\ Long(<<"pam", "elevate">>)
        /\ Long(<<"pam", "elevate", "$id", "revoke">>)
        /\ Long(<<"pam", "elevations", "$id">>)
        /\ Long(<<"pam", "elevations">>)
    BY DEF Long, Heads, Words, AllParams, SegmentParams, SlashParams, RawParams
  <2> QED BY <2>1 DEF pamSessions, Routed, Op, Sends, Queries, Lists, Absent
<1>9. \A op \in pamDecisions : Routed(op)
  <2>1. /\ Long(<<"pam", "elevate", "$id", "approve">>)
    BY DEF Long, Heads, Words, AllParams, SegmentParams, SlashParams, RawParams
  <2> QED BY <2>1 DEF pamDecisions, Routed, Op, Sends, Queries, Lists, Absent
<1>10. \A op \in scimUsers : Routed(op)
  <2>1. /\ Long(<<"scim", "v2", "Users">>)
        /\ Long(<<"scim", "v2", "Users", "<id>">>)
    BY DEF Long, Heads, Words, AllParams, SegmentParams, SlashParams, RawParams
  <2> QED BY <2>1 DEF scimUsers, Routed, Op, Sends, Queries, Lists, Absent
<1>11. \A op \in scimGroups : Routed(op)
  <2>1. /\ Long(<<"scim", "v2", "Groups">>)
        /\ Long(<<"scim", "v2", "Groups", "<id>">>)
        /\ Long(<<"scim", "v2", "ServiceProviderConfig">>)
        /\ Long(<<"scim", "v2", "ResourceTypes">>)
    BY DEF Long, Heads, Words, AllParams, SegmentParams, SlashParams, RawParams
  <2> QED BY <2>1 DEF scimGroups, Routed, Op, Sends, Queries, Lists, Absent
<1>12. \A op \in tenantOps : Routed(op)
  <2>1. /\ Long(<<"v1", "tenants">>)
        /\ Long(<<"v1", "tenants", "$id">>)
    BY DEF Long, Heads, Words, AllParams, SegmentParams, SlashParams, RawParams
  <2> QED BY <2>1 DEF tenantOps, Routed, Op, Sends, Queries, Lists, Absent
<1>13. \A op \in tokenOps : Routed(op)
  <2>1. /\ Long(<<"v1", "auth", "introspect">>)
        /\ Long(<<"auth", "token", "exchange">>)
        /\ Long(<<"v1", "auth", "tokens", "refresh">>)
        /\ Long(<<".well-known", "jwks.json">>)
        /\ Long(<<".well-known", "openid-configuration">>)
    BY DEF Long, Heads, Words, AllParams, SegmentParams, SlashParams, RawParams
  <2> QED BY <2>1 DEF tokenOps, Routed, Op, Sends, Queries, Lists, Absent
<1>14. \A op \in credentialOps : Routed(op)
  <2>1. /\ Long(<<"v1", "credentials", "anchor">>)
        /\ Long(<<"v1", "credentials", "status">>)
        /\ Long(<<"v1", "credentials", "revoke">>)
        /\ Long(<<"v1", "credentials", "verify">>)
        /\ Long(<<"v1", "credentials">>)
    BY DEF Long, Heads, Words, AllParams, SegmentParams, SlashParams, RawParams
  <2> QED BY <2>1 DEF credentialOps, Routed, Op, Sends, Queries, Lists, Absent
<1>15. \A op \in auditOps : Routed(op)
  <2>1. /\ Long(<<"v1", "audit-logs">>)
        /\ Long(<<"v1", "audit-logs", "$id">>)
    BY DEF Long, Heads, Words, AllParams, SegmentParams, SlashParams, RawParams
  <2> QED BY <2>1 DEF auditOps, Routed, Op, Sends, Queries, Lists, Absent
<1>16. \A op \in secretsOps : Routed(op)
  <2>1. /\ Long(<<"v1", "secrets", "sys", "mounts">>)
        /\ Long(<<"v1", "secrets", "$engine", "data", "$path">>)
        /\ Long(<<"v1", "secrets", "$engine", "encrypt">>)
        /\ Long(<<"v1", "secrets", "$engine", "decrypt">>)
        /\ Long(<<"v1", "secrets", "$engine", "lease", "$path">>)
        /\ Long(<<"v1", "secrets", "sys", "leases", "renew">>)
        /\ Long(<<"v1", "secrets", "sys", "leases", "revoke">>)
    BY DEF Long, Heads, Words, AllParams, SegmentParams, SlashParams, RawParams
  <2> QED BY <2>1 DEF secretsOps, Routed, Op, Sends, Queries, Lists, Absent
<1>17. \A op \in didOps : Routed(op)
  <2>1. /\ Long(<<"v1", "dids", "create">>)
        /\ Long(<<"v1", "dids", "<id>">>)
        /\ Long(<<"v1", "dids">>)
        /\ Long(<<"v1", "dids", "<id>", "rotate">>)
        /\ Long(<<"v1", "dids", "<id>", "rotations">>)
        /\ Long(<<"v1", "consent", "receipts">>)
        /\ Long(<<"v1", "consent", "receipts", "<id>">>)
        /\ Long(<<"v1", "consent", "receipts", "<id>", "withdraw">>)
        /\ Long(<<"v1", "didcomm", "identity">>)
        /\ Long(<<"v1", "didcomm", "inbox">>)
    BY DEF Long, Heads, Words, AllParams, SegmentParams, SlashParams, RawParams
  <2> QED BY <2>1 DEF didOps, Routed, Op, Sends, Queries, Lists, Absent
<1>18. \A op \in deviceOps : Routed(op)
  <2>1. /\ Long(<<"v1", "devices">>)
        /\ Long(<<"v1", "devices", "<id>">>)
        /\ Long(<<"v1", "devices", "<id>", "revoke">>)
        /\ Long(<<"v1", "devices", "<id>", "posture">>)
        /\ Long(<<"v1", "devices", "<id>", "history">>)
        /\ Long(<<"v1", "devices", "<id>", "trend">>)
        /\ Long(<<"v1", "devices", "<id>", "trust">>)
        /\ Long(<<"v1", "devices", "<id>", "verify">>)
        /\ Long(<<"v1", "compliance", "summary">>)
        /\ Long(<<"v1", "compliance", "non-compliant">>)
    BY DEF Long, Heads, Words, AllParams, SegmentParams, SlashParams, RawParams
  <2> QED BY <2>1 DEF deviceOps, Routed, Op, Sends, Queries, Lists, Absent, OfDevice
<1>19. \A op \in nhimgmtOps : Routed(op)
  <2>1. /\ Long(<<"v1", "nhi", "identities">>)
        /\ Long(<<"v1", "nhi", "identities", "<id>">>)
        /\ Long(<<"v1", "nhi", "identities", "<id>", "rotate">>)
        /\ Long(<<"v1", "nhi", "connections">>)
        /\ Long(<<"v1", "nhi", "connections", "<id>">>)
        /\ Long(<<"v1", "nhi", "graph">>)
        /\ Long(<<"v1", "nhi", "evaluate">>)
    BY DEF Long, Heads, Words, AllParams, SegmentParams, SlashParams, RawParams
  <2> QED BY <2>1 DEF nhimgmtOps, Routed, Op, Sends, Queries, Lists, Absent
<1>20. \A op \in notificationOps : Routed(op)
  <2>1. /\ Long(<<"v1", "notifications", "send">>)
        /\ Long(<<"v1", "notifications", "<id>">>)
        /\ Long(<<"v1", "notifications">>)
        /\ Long(<<"v1", "push-tokens">>)
        /\ Long(<<"v1", "push-tokens", "users", "<id>">>)
        /\ Long(<<"v1", "push-tokens", "<kind>", "<id>">>)
    BY DEF Long, Heads, Words, AllParams, SegmentParams, SlashParams, RawParams
  <2> QED BY <2>1 DEF notificationOps, Routed, Op, Sends, Queries, Lists, Absent
<1>21. \A op \in machineOps : Routed(op)
  <2>1. /\ Long(<<"v1", "machine", "github", "enroll">>)
        /\ Long(<<"v1", "machine", "github", "tokens", "mint">>)
        /\ Long(<<"v1", "machine", "k8s", "enroll">>)
        /\ Long(<<"v1", "machine", "k8s", "tokens", "mint">>)
    BY DEF Long, Heads, Words, AllParams, SegmentParams, SlashParams, RawParams
  <2> QED BY <2>1 DEF machineOps, Routed, Op, Sends, Queries, Lists, Absent, OfMachine
<1>22. \A op \in blockchainCredentials : Routed(op)
  <2>1. /\ Long(<<"blockchain", "credentials", "anchor">>)
        /\ Long(<<"blockchain", "credentials", "revoke">>)
        /\ Long(<<"blockchain", "credentials", "batch-revoke">>)
        /\ Long(<<"blockchain", "credentials", "status">>)
        /\ Long(<<"blockchain", "credentials", "hash">>)
        /\ Long(<<"blockchain", "credentials", "revocation-status">>)
        /\ Long(<<"blockchain", "credentials", "revocations">>)
        /\ Long(<<"blockchain", "credentials", "suspend">>)
        /\ Long(<<"blockchain", "credentials", "unsuspend">>)
        /\ Long(<<"blockchain", "credentials", "batch-suspend">>)
        /\ Long(<<"blockchain", "credentials", "suspension-status">>)
        /\ Long(<<"blockchain", "credentials", "suspensions">>)
        /\ Long(<<"blockchain", "status">>)
        /\ Long(<<"blockchain", "metadata">>)
        /\ Long(<<"blockchain", "issuers", "<id>">>)
    BY DEF Long, Heads, Words, AllParams, SegmentParams, SlashParams, RawParams
  <2> QED BY <2>1 DEF blockchainCredentials, Routed, Op, Sends, Queries, Lists,
            Absent, OfCredential, QueryCredential
<1>23. \A op \in blockchainDIDs : Routed(op)
  <2>1. /\ Long(<<"blockchain", "dids", "register">>)
        /\ Long(<<"blockchain", "dids", "register-meta">>)
        /\ Long(<<"blockchain", "dids", "<id>">>)
        /\ Long(<<"blockchain", "dids", "<id>", "reactivate">>)
        /\ Long(<<"blockchain", "dids", "<id>", "status">>)
    BY DEF Long, Heads, Words, AllParams, SegmentParams, SlashParams, RawParams
  <2> QED BY <2>1 DEF blockchainDIDs, Routed, Op, Sends, Queries, Lists, Absent,
            OfLedger
<1>24. \A op \in blockchainTrust : Routed(op)
  <2>1. /\ Long(<<"blockchain", "trust", "issuers">>)
        /\ Long(<<"blockchain", "trust", "issuers", "<id>">>)
        /\ Long(<<"blockchain", "trust", "issuers", "<id>", "trusted">>)
        /\ Long(<<"blockchain", "trust", "verifiers">>)
        /\ Long(<<"blockchain", "trust", "verifiers", "<id>">>)
        /\ Long(<<"blockchain", "trust", "schemas">>)
        /\ Long(<<"blockchain", "trust", "schemas", "<id>">>)
        /\ Long(<<"blockchain", "trust", "evaluate">>)
        /\ Long(<<"blockchain", "trust", "stats">>)
    BY DEF Long, Heads, Words, AllParams, SegmentParams, SlashParams, RawParams
  <2> QED BY <2>1 DEF blockchainTrust, Routed, Op, Sends, Queries, Lists, Absent,
            OfLedger
<1>25. \A op \in decisionOps : Routed(op)
  <2>1. /\ Long(<<"v1", "decision", "auth">>)
    BY DEF Long, Heads, Words, AllParams, SegmentParams, SlashParams, RawParams
  <2> QED BY <2>1 DEF decisionOps, Routed, Op, Sends, Queries, Lists, Absent
<1>26. \A op \in webhookOps : Routed(op)
  BY DEF webhookOps, Routed, Op, Sends, Queries, Lists, Absent
<1>27. \A op \in healthOps : Routed(op)
  BY DEF healthOps, Routed, Op, Sends, Queries, Lists, Absent, Short
<1>28. \A op \in userOps : Routed(op)
  <2>1. /\ Long(<<"v1", "users", "me">>)
    BY DEF Long, Heads, Words, AllParams, SegmentParams, SlashParams, RawParams
  <2> QED BY <2>1 DEF userOps, Routed, Op, Sends, Queries, Lists, Absent
<1> QED BY <1>1, <1>2, <1>3, <1>4, <1>5, <1>6, <1>7, <1>8, <1>9, <1>10, <1>11, <1>12,
       <1>13, <1>14, <1>15, <1>16, <1>17, <1>18, <1>19, <1>20, <1>21, <1>22, <1>23,
       <1>24, <1>25, <1>26, <1>27, <1>28 DEF Ops

--------------------------------------------------------------------------------
(* What a client is built from                                                *)

OptionsOK ==
    options \in [baseURL : BaseURLs \cup {None}, apiBase : BasePaths \cup {DefaultConfig.apiBase},
                 basePath : BasePaths \cup {Empty}, tenant : Tenants \cup {NoText}]

ClientOK ==
    client # None =>
        /\ client.base \in ConfiguredBases
        /\ \E u \in BaseURLs : client.mount = normalizeBase(u.path, client.base)

\* A call has a client.
Inv == OptionsOK /\ ClientOK /\ (client = None => call = None)

\* What a step does to the call: nothing, return from it, or make one with the client
\* that is there.
ServiceStep ==
    /\ Ready("client")
    /\ UNCHANGED client
    /\ \E op \in Ops : ServiceRefuses(op) \/ ServiceUnsupported(op) \/ ServiceSends(op)

RawStep ==
    /\ UNCHANGED client
    /\ \E r \in RawRoutes, how \in Spellings, q \in BOOLEAN :
           \/ Ready("client") /\ ClientDoRaw(r, how, q)
           \/ Ready("raw") /\ RawDo(r, how, q)

LEMMA Kinds ==
    ASSUME [Next]_vars, Inv
    PROVE  \/ call' = None
           \/ call' = call /\ client' = client
           \/ ServiceStep \/ RawStep
<1>1. CASE UNCHANGED vars
  BY <1>1 DEF vars
<1>2. CASE Configure
  BY <1>2 DEF Configure, WithBaseURL, WithAPIBasePath, WithBasePath, WithTenantID, Option
<1>3. CASE NewClient \/ NewRawClient
  BY <1>3 DEF NewClient, NewRawClient, New, Inv
<1>4. CASE Return
  BY <1>4 DEF Return
<1>5. ASSUME NEW op \in Ops, Ready("client"),
             ServiceRefuses(op) \/ ServiceUnsupported(op) \/ ServiceSends(op)
      PROVE  ServiceStep
  <2>1. UNCHANGED client
    BY <1>5 DEF ServiceRefuses, ServiceUnsupported, ServiceSends, ServiceCall
  <2> QED BY <1>5, <2>1 DEF ServiceStep
<1>6. ASSUME NEW r \in RawRoutes, NEW how \in Spellings, NEW q \in BOOLEAN,
             \/ Ready("client") /\ ClientDoRaw(r, how, q)
             \/ Ready("raw") /\ RawDo(r, how, q)
      PROVE  RawStep
  <2>1. UNCHANGED client
    BY <1>6 DEF ClientDoRaw, RawDo, RawCall
  <2> QED BY <1>6, <2>1 DEF RawStep
<1> QED BY <1>1, <1>2, <1>3, <1>4, <1>5, <1>6 DEF Next

LEMMA Effective ==
    ASSUME OptionsOK
    PROVE  cleanBasePath(effectiveAPIBasePath) \in ConfiguredBases
<1>1. effectiveAPIBasePath \in BasePaths \cup {DefaultConfig.apiBase}
  BY DEF OptionsOK, effectiveAPIBasePath
<1> QED BY <1>1 DEF ConfiguredBases

LEMMA InitInv == Init => Inv
  BY DEF Init, Inv, OptionsOK, ClientOK, DefaultConfig

LEMMA NextInv == Inv /\ [Next]_vars => Inv'
<1> SUFFICES ASSUME Inv, [Next]_vars PROVE Inv'
  OBVIOUS
<1>1. CASE UNCHANGED <<options, client>> /\ client # None
  BY <1>1 DEF Inv, OptionsOK, ClientOK, ConfiguredBases
<1>2. CASE UNCHANGED vars
  BY <1>2 DEF vars, Inv, OptionsOK, ClientOK, ConfiguredBases
<1>3. CASE Configure
  <2>1. UNCHANGED <<client, call>> /\ client = None
    BY <1>3 DEF Configure, WithBaseURL, WithAPIBasePath, WithBasePath, WithTenantID, Option
  <2>2. OptionsOK'
    BY <1>3 DEF Configure, WithBaseURL, WithAPIBasePath, WithBasePath, WithTenantID, Option,
                Inv, OptionsOK, DefaultConfig
  <2> QED BY <2>1, <2>2 DEF Inv, ClientOK
<1>4. CASE NewClient \/ NewRawClient
  <2>1. PICK kind \in {"client", "raw"} : New(kind) /\ ValidateRaw
    BY <1>4 DEF NewClient, NewRawClient, Validate
  <2>2. OptionsOK'
    BY <2>1 DEF New, OptionsOK, DefaultConfig
  <2>3. options.baseURL \in BaseURLs
    BY <2>1 DEF ValidateRaw, Inv, OptionsOK
  <2>4. client'.base = cleanBasePath(effectiveAPIBasePath)
        /\ client'.mount = normalizeBase(options.baseURL.path, client'.base)
    BY <2>1 DEF New
  <2>5. ClientOK'
    BY <2>3, <2>4, Effective DEF ClientOK, ConfiguredBases, Inv
  <2>6. call' = None
    BY <2>1 DEF New, Inv
  <2> QED BY <2>2, <2>5, <2>6 DEF Inv
<1>5. CASE Return
  BY <1>5, <1>1 DEF Return, Inv
<1>6. CASE /\ Ready("client")
           /\ \/ \E op \in Ops : ServiceRefuses(op) \/ ServiceUnsupported(op) \/ ServiceSends(op)
              \/ \E r \in RawRoutes, how \in Spellings, q \in BOOLEAN : ClientDoRaw(r, how, q)
  BY <1>6, <1>1 DEF Ready, ServiceRefuses, ServiceUnsupported, ServiceSends, ServiceCall,
                    ClientDoRaw, RawCall
<1>7. CASE /\ Ready("raw")
           /\ \E r \in RawRoutes, how \in Spellings, q \in BOOLEAN : RawDo(r, how, q)
  BY <1>7, <1>1 DEF Ready, RawDo, RawCall
<1> QED BY <1>2, <1>3, <1>4, <1>5, <1>6, <1>7 DEF Next

LEMMA InvHolds == Spec => []Inv
  BY InitInv, NextInv, PTL DEF Spec

--------------------------------------------------------------------------------
(* The list of pending operations                                             *)

LEMMA PendingStep == Inv /\ PendingIsExact /\ [Next]_vars => PendingIsExact'
<1> SUFFICES ASSUME Inv, PendingIsExact, [Next]_vars PROVE PendingIsExact'
  OBVIOUS
<1>1. CASE call' = None
  BY <1>1 DEF PendingIsExact
<1>2. CASE call' = call
  BY <1>2 DEF PendingIsExact
<1>3. CASE ServiceStep
  <2>1. PICK op \in Ops : ServiceRefuses(op) \/ ServiceUnsupported(op) \/ ServiceSends(op)
    BY <1>3 DEF ServiceStep
  <2>2. Listed(op)
    BY AllListed
  <2>3. \A ids, q, outcome :
            ServiceCall(op, ids, q, outcome) => call'.op = op /\ call'.outcome = outcome
    BY DEF ServiceCall
  <2>4. CASE ServiceRefuses(op)
    <3>1. call'.op = op /\ call'.outcome = "refused"
      BY <2>3, <2>4, Zenon DEF ServiceRefuses
    <3> QED BY <3>1 DEF PendingIsExact
  <2>5. CASE ServiceUnsupported(op)
    <3>1. call'.op = op /\ call'.outcome = "unsupported" /\ op.method = "none"
      BY <2>3, <2>5, Zenon DEF ServiceUnsupported
    <3> QED BY <2>2, <3>1 DEF Listed, PendingIsExact
  <2>6. CASE ServiceSends(op)
    <3>1. call'.op = op /\ call'.outcome = "sent" /\ op.method # "none"
      BY <2>3, <2>6, Zenon DEF ServiceSends
    <3> QED BY <2>2, <3>1 DEF Listed, PendingIsExact
  <2> QED BY <2>1, <2>4, <2>5, <2>6
<1>4. CASE RawStep
  <2>1. call'.op = None
    BY <1>4 DEF RawStep, RawDo, ClientDoRaw, RawCall
  <2> QED BY <2>1 DEF PendingIsExact
<1> QED BY <1>1, <1>2, <1>3, <1>4, Kinds

\* PendingBackendContractOperations names exactly the operations that never reach the
\* backend, but for the two of policy that end in Update, however a client is configured
\* and whatever it is asked for.
THEOREM PendingListIsExact == Spec => []PendingIsExact
<1>1. Init => PendingIsExact
  BY DEF Init, PendingIsExact
<1> QED BY <1>1, PendingStep, InvHolds, PTL DEF Spec

--------------------------------------------------------------------------------
(* Parts and prefixes                                                         *)

\* Words of the API stand for themselves.
LEMMA PlainWords ==
    \A w \in Words \cup {"x", "api"} :
        w \notin Unusable \cup {Blank, Odd, OddEscaped} \cup AllParams
  BY DEF Words, Unusable, NoText, Blank, Odd, OddEscaped, AllParams, SegmentParams, SlashParams,
         RawParams

LEMMA HeadWords == Heads \subseteq Words
  BY DEF Heads, Words

LEMMA PrefixAt ==
    ASSUME NEW S, NEW s \in Seq(S), NEW t \in Seq(S)
    PROVE  IsPrefix(s, t) <=> Len(s) <= Len(t) /\ \A i \in 1..Len(s) : s[i] = t[i]
<1>1. CASE Len(s) <= Len(t)
  <2>1. SubSeq(s, 1, Len(s)) \in Seq(S) /\ SubSeq(t, 1, Len(s)) \in Seq(S)
        /\ Len(SubSeq(s, 1, Len(s))) = Len(s) /\ Len(SubSeq(t, 1, Len(s))) = Len(s)
        /\ \A i \in 1..Len(s) : SubSeq(s, 1, Len(s))[i] = s[i] /\ SubSeq(t, 1, Len(s))[i] = t[i]
    BY <1>1
  <2>2. SubSeq(s, 1, Len(s)) = SubSeq(t, 1, Len(s)) <=> \A i \in 1..Len(s) : s[i] = t[i]
    BY <2>1
  <2> QED BY <1>1, <2>2 DEF IsPrefix
<1> QED BY <1>1 DEF IsPrefix

LEMMA OnePrefix ==
    ASSUME NEW S, NEW w \in S, NEW t \in Seq(S)
    PROVE  IsPrefix(<<w>>, t) <=> t # <<>> /\ t[1] = w
<1> DEFINE s == <<w>>
<1>1. s \in Seq(S) /\ Len(s) = 1 /\ s[1] = w
  OBVIOUS
<1> HIDE DEF s
<1>2. IsPrefix(s, t) <=> Len(s) <= Len(t) /\ \A i \in 1..Len(s) : s[i] = t[i]
  BY <1>1, PrefixAt
<1>3. Len(t) \in Nat /\ (t = <<>> <=> Len(t) = 0)
  OBVIOUS
<1>4. IsPrefix(s, t) <=> t # <<>> /\ t[1] = w
  BY <1>1, <1>2, <1>3
<1> QED BY <1>4 DEF s

\* What the routes of the operations that send have in common.
LEMMA RouteWords ==
    ASSUME NEW op \in Ops, op.method # "none"
    PROVE  /\ op.route \in Seq(Words \cup AllParams) /\ Len(op.route) > 0
           /\ op.route[1] \in Heads
           /\ op.route[1] = "v1" => Len(op.route) > 1 /\ op.route[2] \in Words \ {"v1", "api"}
           /\ op.route[1] = "auth" => op.route = <<"auth", "token", "exchange">>
           /\ Len(op.route) > 1 \/ (op.route[1] \in {"health", "ready", "version", "metrics"}
                                    /\ Len(op.route) = 1 /\ op.query = NoQuery)
<1> DEFINE R == op.route
           A == Words \cup AllParams
<1>1. CASE Long(R)
  BY <1>1 DEF Long
<1>2. CASE R \in Short /\ op.query = NoQuery
  <2>1. \A w \in {"health", "ready", "version", "metrics"} :
            /\ <<w>> \in Seq(A) /\ Len(<<w>>) = 1 /\ <<w>>[1] = w
            /\ w \in Heads /\ w \notin {"v1", "auth"}
    BY DEF Heads, Words
  <2>2. PICK w \in {"health", "ready", "version", "metrics"} : R = <<w>>
    BY <1>2 DEF Short
  <2>3. R \in Seq(A) /\ Len(R) = 1 /\ R[1] = w /\ w \in Heads /\ w \notin {"v1", "auth"}
    BY <2>1, <2>2
  <2> HIDE DEF R
  <2>4. Len(R) > 0
    BY <2>3
  <2> QED BY <1>2, <2>3, <2>4 DEF R
<1> QED BY <1>1, <1>2, AllRouted DEF Routed

\* A route without its version begins with a word, which is neither a version nor the
\* base path of the API.
LEMMA Unversioned ==
    ASSUME NEW op \in Ops, op.method # "none"
    PROVE  LET r == WithoutVersion(op.route)
           IN  /\ r \in Seq(Words \cup AllParams)
               /\ Len(r) > 0
               /\ r[1] \in Words \ {"v1", "api"}
<1> DEFINE R == op.route
           S == Words \cup AllParams
<1>1. R \in Seq(S) /\ Len(R) > 0 /\ R[1] \in Heads
      /\ (R[1] = "v1" => Len(R) > 1 /\ R[2] \in Words \ {"v1", "api"})
  BY RouteWords
<1>2. "v1" \in S
  BY DEF Words
<1>3. IsPrefix(<<"v1">>, R) <=> R[1] = "v1"
  <2>1. IsPrefix(<<"v1">>, R) <=> R # <<>> /\ R[1] = "v1"
    BY <1>1, <1>2, OnePrefix
  <2> QED BY <1>1, <2>1
<1>4. CASE R[1] = "v1"
  <2>1. WithoutVersion(R) = Tail(R)
    BY <1>3, <1>4 DEF WithoutVersion
  <2>2. Tail(R) \in Seq(S) /\ Len(Tail(R)) > 0 /\ Tail(R)[1] = R[2]
    BY <1>1, <1>4
  <2> QED BY <1>1, <1>4, <2>1, <2>2
<1>5. CASE R[1] # "v1"
  <2>1. WithoutVersion(R) = R
    BY <1>3, <1>5 DEF WithoutVersion
  <2>2. R[1] \in Words \ {"v1", "api"}
    BY <1>1, <1>5 DEF Heads, Words
  <2> QED BY <1>1, <2>1, <2>2
<1> QED BY <1>4, <1>5

\* A plain route, of parts.
RawOK(r) ==
    /\ r \in Seq(Part)
    /\ r # <<>>
    /\ r[1] \notin {"v1", "api"}
    /\ \A i \in 1..Len(r) : r[i] \notin Unusable \cup {Blank}

\* What a raw client may be asked for is made of parts.
LEMMA RawRoutesParts == ASSUME NEW r \in RawRoutes PROVE r \in Seq(Part)
<1>1. CASE r \in RawTexts
  <2>1. r \in Seq(STRING)
    BY <1>1, ClientAssumption
  <2>2. Len(r) \in Nat /\ r = [i \in 1..Len(r) |-> r[i]] /\ \A i \in 1..Len(r) : r[i] \in STRING
    BY <2>1
  <2>3. \A i \in 1..Len(r) : r[i] \in Part
    BY <2>2 DEF Part
  <2> QED BY <2>2, <2>3
<1>2. CASE r \notin RawTexts
  <2>1. PICK op \in Ops : r = [i \in DOMAIN WithoutVersion(op.route) |->
                  IF WithoutVersion(op.route)[i] \in AllParams THEN "x"
                  ELSE WithoutVersion(op.route)[i]]
    BY <1>2 DEF RawRoutes
  <2> DEFINE R == WithoutVersion(op.route)
  <2>2. CASE op.method = "none"
    <3>1. op.route = <<>>
      BY <2>2, AllRouted DEF Routed
    <3>2. R = <<>>
      BY <3>1 DEF WithoutVersion, IsPrefix
    <3> QED BY <2>1, <3>2
  <2>3. CASE op.method # "none"
    <3>1. R \in Seq(Words \cup AllParams)
      BY <2>3, Unversioned
    <3> HIDE DEF R
    <3>2. r = [i \in 1..Len(R) |-> IF R[i] \in AllParams THEN "x" ELSE R[i]]
      BY <2>1, <3>1 DEF R
    <3>3. \A i \in 1..Len(R) : (IF R[i] \in AllParams THEN "x" ELSE R[i]) \in Part
      BY <3>1 DEF Part
    <3>4. Len(R) \in Nat
      BY <3>1
    <3> QED BY <3>2, <3>3, <3>4
  <2> QED BY <2>2, <2>3
<1> QED BY <1>1, <1>2

LEMMA RawRoutesOK == ASSUME NEW r \in RawRoutes, PlainRoute(r) PROVE RawOK(r)
<1>1. r \in Seq(Part) /\ DOMAIN r = 1..Len(r)
  BY RawRoutesParts
<1> QED BY <1>1 DEF RawOK, PlainRoute

--------------------------------------------------------------------------------
(* The base path                                                              *)

\* A set of naturals has a least element: the form of induction used below.
LEMMA LeastNat ==
    ASSUME NEW T \in SUBSET Nat, T # {}
    PROVE  \E m \in T : \A n \in T : m <= n
<1>1. PICK m \in T : \A n \in T : <<n, m>> \notin OpToRel(<, Nat)
  BY NatLessThanWellFounded, WFMin
<1>2. \A n \in T : ~(n < m)
  BY <1>1 DEF OpToRel
<1> QED BY <1>2

LEMMA MaxIndex ==
    ASSUME NEW n \in Nat, NEW T \in SUBSET (1..n), T # {}
    PROVE  Max(T) \in T /\ \A i \in T : i <= Max(T)
<1> DEFINE U == {k \in Nat : n - k \in T}
<1>1. U # {}
  <2>1. PICK i \in T : TRUE
    OBVIOUS
  <2>2. n - i \in Nat /\ n - (n - i) = i
    OBVIOUS
  <2> QED BY <2>1, <2>2
<1>2. PICK k \in U : \A l \in U : k <= l
  BY <1>1, LeastNat
<1>3. \A i \in T : i <= n - k
  <2> SUFFICES ASSUME NEW i \in T PROVE i <= n - k
    OBVIOUS
  <2>1. n - i \in Nat /\ n - (n - i) = i
    OBVIOUS
  <2>2. n - i \in U
    BY <2>1
  <2>3. k <= n - i
    BY <1>2, <2>2
  <2> QED BY <2>1, <2>3
<1>4. \E m \in T : \A i \in T : m >= i
  BY <1>2, <1>3
<1>5. Max(T) \in T /\ \A i \in T : Max(T) >= i
  BY <1>4 DEF Max
<1> QED BY <1>5

LEMMA TrimRight ==
    ASSUME NEW S, NEW v \in Seq(S)
    PROVE  LET t == TrimRightSlashes(v)
           IN  /\ t \in Seq(S) /\ Len(t) <= Len(v)
               /\ \A i \in 1..Len(t) : t[i] = v[i]
               /\ t # <<>> => t[Len(t)] # NoText
               /\ \A i \in 1..Len(v) : v[i] # NoText => i <= Len(t)
<1> DEFINE full == {i \in DOMAIN v : v[i] # NoText}
           t == TrimRightSlashes(v)
<1>1. CASE full = {}
  <2>1. t = <<>>
    BY <1>1 DEF TrimRightSlashes
  <2> QED BY <1>1, <2>1
<1>2. CASE full # {}
  <2>1. full \in SUBSET (1..Len(v)) /\ Len(v) \in Nat
    OBVIOUS
  <2>2. PICK m \in full : m = Max(full) /\ \A i \in full : i <= m
    BY <1>2, <2>1, MaxIndex
  <2>3. t = SubSeq(v, 1, m)
    BY <1>2, <2>2 DEF TrimRightSlashes
  <2>4. m \in 1..Len(v) /\ v[m] # NoText
    OBVIOUS
  <2>5. SubSeq(v, 1, m) \in Seq(S) /\ Len(SubSeq(v, 1, m)) = m
        /\ \A i \in 1..m : SubSeq(v, 1, m)[i] = v[i]
    BY <2>4
  <2>6. m \in Nat /\ m >= 1 /\ m <= Len(v)
    BY <2>4
  <2>7. t[m] = v[m]
    BY <2>3, <2>5, <2>6
  <2>8. \A i \in 1..Len(v) : v[i] # NoText => i <= m
    BY <2>2
  <2> HIDE DEF full, t
  <2>9. Len(t) = m /\ t \in Seq(S) /\ \A i \in 1..m : t[i] = v[i]
    BY <2>3, <2>5
  <2> QED BY <2>4, <2>6, <2>7, <2>8, <2>9 DEF t
<1> QED BY <1>1, <1>2

LEMMA Pairs ==
    \A x, y \in Part : /\ <<x, y>> \in Seq(Part) /\ Len(<<x, y>>) = 2
                       /\ <<x, y>>[1] = x /\ <<x, y>>[2] = y
  OBVIOUS

LEMMA BasesAreSeqs ==
    ASSUME NEW b \in ConfiguredBases
    PROVE  b \in Seq(Part) /\ (b # <<>> => b[Len(b)] # NoText)
<1>1. PICK v \in BasePaths \cup {DefaultConfig.apiBase} : b = cleanBasePath(v)
  BY DEF ConfiguredBases
<1>2. v \in Seq(Part) /\ v # <<>>
  <2>1. CASE v \in BasePaths
    <3>1. v \in Seq(STRING) /\ v # <<>>
      BY <2>1, ClientAssumption
    <3>2. Len(v) \in Nat /\ v = [i \in 1..Len(v) |-> v[i]] /\ \A i \in 1..Len(v) : v[i] \in STRING
      BY <3>1
    <3>3. \A i \in 1..Len(v) : v[i] \in Part
      BY <3>2 DEF Part
    <3> QED BY <3>1, <3>2, <3>3
  <2>2. CASE v = <<NoText, "api", "v1">>
    <3>1. NoText \in Part /\ "api" \in Part /\ "v1" \in Part
      BY DEF Part, Unusable, Words
    <3> QED BY <2>2, <3>1
  <2> QED BY <2>1, <2>2 DEF DefaultConfig
<1>3. CASE v \in {Empty, <<Blank>>}
  <2>1. b = <<"api", "v1">>
    BY <1>1, <1>3 DEF cleanBasePath, defaultAPIBasePath
  <2>2. "api" \in Part /\ "v1" \in Part /\ "v1" # NoText
    BY DEF Part, Words, NoText
  <2> QED BY <2>1, <2>2, Pairs
<1>4. CASE v \notin {Empty, <<Blank>>}
  <2> DEFINE u == IF v[1] = NoText THEN Tail(v) ELSE v
  <2>1. u \in Seq(Part)
    BY <1>2
  <2>2. b = TrimRightSlashes(u)
    BY <1>1, <1>4 DEF cleanBasePath
  <2> HIDE DEF u
  <2> QED BY <2>1, <2>2, TrimRight
<1> QED BY <1>3, <1>4

--------------------------------------------------------------------------------
(* The tenant check                                                           *)

LEMMA PrefixesOK ==
    \A prefix \in TenantOptional : prefix \in Seq(Part) /\ Len(prefix) > 0
<1>1. \A x \in Part : <<x>> \in Seq(Part) /\ Len(<<x>>) = 1
  OBVIOUS
<1>2. \A x, y \in Part : <<x, y>> \in Seq(Part) /\ Len(<<x, y>>) = 2
  OBVIOUS
<1> DEFINE W == {"health", "ready", "version", "metrics", "docs", ".well-known", "auth", "oauth",
                 "cli", "device", "dpop", "me", "tenants", "users", "scim", "oid4vci", "pam"}
<1>3. W \subseteq Part
  BY DEF Part, Words
<1>4. \A prefix \in TenantOptional :
          (\E x \in W : prefix = <<x>>) \/ (\E x, y \in W : prefix = <<x, y>>)
  BY Zenon DEF TenantOptional
<1> HIDE DEF W
<1>5. \A x \in W : <<x>> \in Seq(Part) /\ Len(<<x>>) > 0
  BY <1>1, <1>3
<1>6. \A x, y \in W : <<x, y>> \in Seq(Part) /\ Len(<<x, y>>) > 0
  BY <1>2, <1>3
<1> QED BY <1>4, <1>5, <1>6, Zenon

LEMMA PartPrefix ==
    \A s, t \in Seq(Part) :
        IsPrefix(s, t) <=> Len(s) <= Len(t) /\ \A i \in 1..Len(s) : s[i] = t[i]
<1> TAKE s, t \in Seq(Part)
<1> QED BY PrefixAt

\* What normalizeRouteForTenantCheck takes off.
Rest(parts) ==
    WithoutVersion(IF IsPrefix(defaultAPIBasePath, parts) THEN SubSeq(parts, 3, Len(parts))
                   ELSE parts)

\* b \o r at its places.
LEMMA Joined ==
    ASSUME NEW S, NEW b \in Seq(S), NEW r \in Seq(S)
    PROVE  /\ b \o r \in Seq(S)
           /\ Len(b \o r) = Len(b) + Len(r)
           /\ \A i \in 1..Len(b) : (b \o r)[i] = b[i]
           /\ \A i \in 1..Len(r) : (b \o r)[Len(b) + i] = r[i]
  OBVIOUS

LEMMA VersionOf ==
    ASSUME NEW t \in Seq(Part)
    PROVE  /\ t # <<>> /\ t[1] = "v1" => WithoutVersion(t) = Tail(t)
           /\ t = <<>> \/ t[1] # "v1" => WithoutVersion(t) = t
<1>1. "v1" \in Part
  BY DEF Part, Words
<1>2. IsPrefix(<<"v1">>, t) <=> t # <<>> /\ t[1] = "v1"
  BY <1>1, OnePrefix
<1> QED BY <1>2 DEF WithoutVersion

LEMMA DefaultBase ==
    ASSUME NEW t \in Seq(Part)
    PROVE  IsPrefix(defaultAPIBasePath, t) <=> Len(t) > 1 /\ t[1] = "api" /\ t[2] = "v1"
<1> DEFINE s == defaultAPIBasePath
<1>1. s \in Seq(Part) /\ Len(s) = 2 /\ s[1] = "api" /\ s[2] = "v1"
  <2>1. "api" \in Part /\ "v1" \in Part
    BY DEF Part, Words
  <2> QED BY <2>1, Pairs DEF defaultAPIBasePath
<1> HIDE DEF s
<1>2. IsPrefix(s, t) <=> Len(s) <= Len(t) /\ \A i \in 1..Len(s) : s[i] = t[i]
  BY <1>1, PartPrefix
<1>3. Len(t) \in Nat
  OBVIOUS
<1>4. IsPrefix(s, t) <=> Len(t) > 1 /\ t[1] = "api" /\ t[2] = "v1"
  BY <1>1, <1>2, <1>3
<1> QED BY <1>4 DEF s

\* Of a route written after b only b is taken off.
LEMMA RestOfJoined ==
    ASSUME NEW b \in Seq(Part), NEW r \in Seq(Part), r # <<>>, r[1] \notin {"v1", "api"}
    PROVE  Rest(b) \in Seq(Part) /\ Rest(b \o r) = Rest(b) \o r
<1> DEFINE t == b \o r
           off(s) == IF IsPrefix(defaultAPIBasePath, s) THEN SubSeq(s, 3, Len(s)) ELSE s
<1>1. /\ t \in Seq(Part) /\ Len(t) = Len(b) + Len(r)
      /\ \A i \in 1..Len(b) : t[i] = b[i]
      /\ \A i \in 1..Len(r) : t[Len(b) + i] = r[i]
  BY Joined
<1>2. Len(b) \in Nat /\ Len(r) \in Nat /\ Len(r) > 0
  OBVIOUS
<1>3. IsPrefix(defaultAPIBasePath, t) <=> IsPrefix(defaultAPIBasePath, b)
  <2>1. IsPrefix(defaultAPIBasePath, t) <=> Len(t) > 1 /\ t[1] = "api" /\ t[2] = "v1"
    BY <1>1, DefaultBase
  <2>2. IsPrefix(defaultAPIBasePath, b) <=> Len(b) > 1 /\ b[1] = "api" /\ b[2] = "v1"
    BY DefaultBase
  <2> HIDE DEF t
  <2>3. CASE Len(b) = 0
    <3>1. t[1] = r[1]
      BY <1>1, <1>2, <2>3
    <3> QED BY <2>1, <2>2, <2>3, <3>1
  <2>4. CASE Len(b) = 1
    <3>1. t[2] = r[1]
      BY <1>1, <1>2, <2>4
    <3> QED BY <2>1, <2>2, <2>4, <3>1
  <2>5. CASE Len(b) > 1
    <3>1. t[1] = b[1] /\ t[2] = b[2] /\ Len(t) > 1
      BY <1>1, <1>2, <2>5
    <3> QED BY <2>1, <2>2, <2>5, <3>1
  <2>6. Len(b) = 0 \/ Len(b) = 1 \/ Len(b) > 1
    <3>1. \A n \in Nat : n = 0 \/ n = 1 \/ n > 1
      OBVIOUS
    <3> QED BY <1>2, <3>1, Zenon
  <2> QED BY <2>3, <2>4, <2>5, <2>6
<1>4. off(b) \in Seq(Part) /\ off(t) = off(b) \o r
  <2>1. CASE IsPrefix(defaultAPIBasePath, b)
    <3>1. Len(b) > 1
      BY <2>1, DefaultBase
    <3>2. SubSeq(b \o r, 3, Len(b) + Len(r)) = SubSeq(b, 3, Len(b)) \o r
          /\ SubSeq(b, 3, Len(b)) \in Seq(Part)
      BY <1>2, <3>1
    <3> QED BY <1>1, <1>3, <2>1, <3>2
  <2>2. CASE ~IsPrefix(defaultAPIBasePath, b)
    BY <1>3, <2>2
  <2> QED BY <2>1, <2>2
<1>5. PICK c : c = off(b)
  OBVIOUS
<1>6. WithoutVersion(c \o r) = WithoutVersion(c) \o r /\ WithoutVersion(c) \in Seq(Part)
  <2>1. c \in Seq(Part)
    BY <1>4, <1>5
  <2>2. /\ c \o r \in Seq(Part) /\ Len(c \o r) = Len(c) + Len(r)
        /\ \A i \in 1..Len(c) : (c \o r)[i] = c[i]
        /\ \A i \in 1..Len(r) : (c \o r)[Len(c) + i] = r[i]
    BY <2>1, Joined
  <2>3. CASE c = <<>>
    <3>1. c \o r = r
      BY <2>3
    <3>2. WithoutVersion(r) = r /\ WithoutVersion(c) = c
      BY <2>1, <2>3, VersionOf
    <3> QED BY <2>1, <3>1, <3>2
  <2>4. CASE c # <<>>
    <3>1. (c \o r)[1] = c[1] /\ c \o r # <<>> /\ Tail(c \o r) = Tail(c) \o r
          /\ Tail(c) \in Seq(Part)
      BY <1>2, <2>1, <2>2, <2>4
    <3> QED BY <2>1, <2>2, <2>4, <3>1, VersionOf
  <2> QED BY <2>3, <2>4
<1> QED BY <1>4, <1>5, <1>6 DEF Rest

\* The way a route is spelled puts something before it.
LEMMA SpelledWith ==
    ASSUME NEW r, RawOK(r), NEW how \in Spellings, ClientOK, client # None
    PROVE  \E b \in {<<>>, <<"v1">>, client.base} :
               Spell(r, how) = b \o r /\ (b # client.base => how # "based")
                             /\ (b # <<"v1">> => how # "versioned") /\ (b # <<>> => how # "bare")
<1>1. r \in Seq(Part) /\ r # <<>>
  BY DEF RawOK
<1>2. client.base \in Seq(Part)
  BY BasesAreSeqs DEF ClientOK
<1>3. <<"v1">> \in Seq(Part)
  <2>1. "v1" \in Part
    BY DEF Part, Words
  <2> QED BY <2>1
<1>4. \A b \in Seq(Part) : b \o r # <<>>
  <2> SUFFICES ASSUME NEW b \in Seq(Part) PROVE b \o r # <<>>
    OBVIOUS
  <2>1. Len(b \o r) = Len(b) + Len(r) /\ Len(r) > 0 /\ Len(b) \in Nat
    BY <1>1
  <2> QED BY <2>1
<1>5. CASE how = "versioned"
  <2>1. Spell(r, how) = <<"v1">> \o r
    BY <1>3, <1>4, <1>5 DEF Spell
  <2> QED BY <1>5, <2>1
<1>6. CASE how = "based"
  <2>1. Spell(r, how) = client.base \o r
    BY <1>2, <1>4, <1>6 DEF Spell
  <2> QED BY <1>6, <2>1
<1>7. CASE how = "bare"
  <2>1. Spell(r, how) = r /\ <<>> \o r = r
    BY <1>1, <1>7 DEF Spell
  <2> QED BY <1>7, <2>1
<1> QED BY <1>5, <1>6, <1>7 DEF Spellings

LEMMA Normalized ==
    ASSUME NEW t, NEW q, TrimPath([parts |-> t, query |-> q]) = [parts |-> t, query |-> q]
    PROVE  normalizeRouteForTenantCheck([parts |-> t, query |-> q])
             = [parts |-> Rest(t), query |-> q]
<1> DEFINE p == [parts |-> t, query |-> q]
<1>1. normalizeRouteForTenantCheck(p) = [p EXCEPT !.parts = Rest(p.parts)]
  BY DEF normalizeRouteForTenantCheck, Rest
<1>2. p.parts = t /\ \A x : [p EXCEPT !.parts = x] = [parts |-> x, query |-> q]
  OBVIOUS
<1> QED BY <1>1, <1>2

LEMMA FullRoute ==
    ASSUME NEW t \in Seq(Part), t # <<>>, t[Len(t)] # NoText
    PROVE  t \notin {<<>>, Empty}
<1>1. Len(Empty) = 1 /\ Empty[1] = NoText
  BY DEF Empty
<1> QED BY <1>1

LEMMA TenantCheck ==
    ASSUME NEW r, RawOK(r), NEW b \in Seq(Part), TenantFree(b), NEW q,
           IsTenantOptionalPath([parts |-> b \o r, query |-> q])
    PROVE  \E prefix \in TenantOptional : IsPrefix(prefix, r)
<1>1. /\ r \in Seq(Part) /\ r # <<>> /\ r[1] \notin {"v1", "api"}
      /\ \A i \in 1..Len(r) : r[i] \notin Unusable \cup {Blank}
  BY DEF RawOK
<1> DEFINE p == [parts |-> b \o r, query |-> q]
           n == Rest(b)
<1>2. n \in Seq(Part) /\ Rest(b \o r) = n \o r
  BY <1>1, RestOfJoined
<1>3. Len(r) \in 1..Len(r) /\ (b \o r)[Len(b \o r)] = r[Len(r)]
  BY <1>1
<1>4. normalizeRouteForTenantCheck(p) = [parts |-> n \o r, query |-> q]
  <2>1. TrimPath(p) = p
    BY <1>1, <1>3 DEF TrimPath, Last
  <2>2. normalizeRouteForTenantCheck(p) = [parts |-> Rest(b \o r), query |-> q]
    BY <2>1, Normalized
  <2> QED BY <1>2, <2>2
<1>5. n = <<>> \/ \A prefix \in TenantOptional : n[1] # prefix[1]
  BY DEF TenantFree, normalizeRouteForTenantCheck, TrimPath, Rest
<1> HIDE DEF n, p
<1>6. n \o r \in Seq(Part) /\ Len(n \o r) = Len(n) + Len(r)
      /\ (\A i \in 1..Len(n) : (n \o r)[i] = n[i])
      /\ (\A i \in 1..Len(r) : (n \o r)[Len(n) + i] = r[i])
  BY <1>1, <1>2, Joined
<1>7. n \o r \notin {<<>>, Empty}
  <2>1. Len(n \o r) > 0 /\ (n \o r)[Len(n \o r)] = r[Len(r)] /\ r[Len(r)] # NoText
    BY <1>1, <1>2, <1>3, <1>6 DEF Unusable
  <2>2. n \o r # <<>>
    BY <1>6, <2>1
  <2>3. (n \o r)[Len(n \o r)] # NoText
    BY <2>1
  <2> QED BY <1>6, <2>2, <2>3, FullRoute
<1>8. PICK prefix \in TenantOptional : Under([parts |-> n \o r, query |-> q], prefix)
  <2> DEFINE route == [parts |-> n \o r, query |-> q]
  <2>1. \/ route.parts \in {<<>>, Empty} /\ ~route.query
        \/ \E prefix \in TenantOptional : Under(route, prefix)
    BY <1>4, Zenon DEF IsTenantOptionalPath, p
  <2>2. route.parts = n \o r
    OBVIOUS
  <2> HIDE DEF route
  <2>3. \E prefix \in TenantOptional : Under(route, prefix)
    BY <1>7, <2>1, <2>2
  <2> QED BY <2>3 DEF route
<1>9. prefix \in Seq(Part) /\ Len(prefix) > 0
  BY PrefixesOK
<1>10. IsPrefix(prefix, n \o r)
  <2>1. CASE n \o r = prefix
    <3>1. IsPrefix(prefix, prefix)
      BY <1>9, PartPrefix
    <3> QED BY <2>1, <3>1
  <2> QED BY <1>8, <2>1 DEF Under, IsStrictPrefix
<1>11. CASE n = <<>>
  <2>1. n \o r = r
    BY <1>1, <1>11
  <2> QED BY <1>10, <2>1
<1>12. CASE n # <<>>
  <2>1. Len(n) > 0
    BY <1>2, <1>12
  <2>2. (n \o r)[1] = n[1]
    BY <1>2, <1>6, <2>1
  <2>3. \A i \in 1..Len(prefix) : prefix[i] = (n \o r)[i]
    BY <1>6, <1>9, <1>10, PartPrefix
  <2>4. 1 \in 1..Len(prefix)
    BY <1>9
  <2> QED BY <1>5, <1>12, <2>2, <2>3, <2>4
<1> QED BY <1>11, <1>12

LEMMA NothingBefore == TenantFree(<<>>) /\ TenantFree(<<"v1">>)
<1>1. \A t \in Seq(Part) : Len(t) = 0 \/ Len(t) = 1 => ~IsPrefix(defaultAPIBasePath, t)
  <2> TAKE t \in Seq(Part)
  <2>1. IsPrefix(defaultAPIBasePath, t) => Len(t) > 1
    BY DefaultBase
  <2>2. ~(0 > 1) /\ ~(1 > 1)
    OBVIOUS
  <2> QED BY <2>1, <2>2, Zenon
<1>2. \A t : WithoutVersion(t) = <<>> /\ ~IsPrefix(defaultAPIBasePath, t) => TenantFree(t)
  BY DEF TenantFree, normalizeRouteForTenantCheck, TrimPath
<1>3. TenantFree(<<>>)
  <2>1. <<>> \in Seq(Part) /\ Len(<<>>) = 0
    OBVIOUS
  <2>2. WithoutVersion(<<>>) = <<>>
    BY <2>1, VersionOf
  <2>3. ~IsPrefix(defaultAPIBasePath, <<>>)
    BY <1>1, <2>1, Zenon
  <2> QED BY <1>2, <2>2, <2>3
<1>4. TenantFree(<<"v1">>)
  <2> DEFINE t == <<"v1">>
  <2>1. "v1" \in Part
    BY DEF Part, Words
  <2>2. t \in Seq(Part) /\ Len(t) = 1 /\ t[1] = "v1" /\ t # <<>> /\ Tail(t) = <<>>
    BY <2>1
  <2> HIDE DEF t
  <2>3. WithoutVersion(t) = <<>>
    BY <2>2, VersionOf
  <2>4. ~IsPrefix(defaultAPIBasePath, t)
    BY <1>1, <2>2, Zenon
  <2>5. TenantFree(t)
    BY <1>2, <2>3, <2>4
  <2> QED BY <2>5 DEF t
<1> QED BY <1>3, <1>4

--------------------------------------------------------------------------------
(* The URL of a call                                                          *)

\* The equation of Clean.
CleanedBy(parts, done) ==
    [i \in 0..Len(parts) |->
        IF i = 0 THEN <<>>
        ELSE IF parts[i] = ".." THEN SubSeq(done[i - 1], 1, Len(done[i - 1]) - 1)
        ELSE IF parts[i] \in Unusable THEN done[i - 1]
        ELSE Append(done[i - 1], parts[i])]

\* Clean changes nothing where every part is usable.
LEMMA CleanUsable ==
    ASSUME NEW t \in Seq(Part), \A i \in 1..Len(t) : t[i] \notin Unusable
    PROVE  Clean(t) = t
<1> DEFINE g == [i \in 0..Len(t) |-> SubSeq(t, 1, i)]
           f == CHOOSE done : done = CleanedBy(t, done)
<1>1. Clean(t) = f[Len(t)]
  BY DEF Clean, CleanedBy
<1>2. Len(t) \in Nat
  OBVIOUS
<1>3. \A i \in 1..Len(t) : t[i] # ".." /\ t[i] \notin Unusable
  BY DEF Unusable
<1>4. \A i \in 1..Len(t) : SubSeq(t, 1, i) = Append(SubSeq(t, 1, i - 1), t[i])
  <2> SUFFICES ASSUME NEW i \in 1..Len(t)
               PROVE  SubSeq(t, 1, i) = Append(SubSeq(t, 1, i - 1), t[i])
    OBVIOUS
  <2>1. i - 1 \in 0..Len(t) /\ Len(SubSeq(t, 1, i - 1)) = i - 1 /\ Len(SubSeq(t, 1, i)) = i
        /\ SubSeq(t, 1, i - 1) \in Seq(Part) /\ SubSeq(t, 1, i) \in Seq(Part)
    BY <1>2
  <2> QED BY <1>2, <2>1
<1>5. SubSeq(t, 1, 0) = <<>> /\ SubSeq(t, 1, Len(t)) = t
  BY <1>2
<1>6. g = CleanedBy(t, g)
  <2>1. \A i \in 0..Len(t) : g[i] = CleanedBy(t, g)[i]
    <3> SUFFICES ASSUME NEW i \in 0..Len(t) PROVE g[i] = CleanedBy(t, g)[i]
      OBVIOUS
    <3>1. CASE i = 0
      BY <1>2, <1>5, <3>1 DEF CleanedBy
    <3>2. CASE i # 0
      <4>1. i \in 1..Len(t) /\ i - 1 \in 0..Len(t)
        BY <1>2, <3>2
      <4>2. CleanedBy(t, g)[i] = Append(g[i - 1], t[i])
        BY <1>3, <3>2, <4>1 DEF CleanedBy
      <4> QED BY <1>4, <4>1, <4>2
    <3> QED BY <3>1, <3>2
  <2> QED BY <2>1 DEF CleanedBy
<1>7. f = CleanedBy(t, f)
  BY <1>6
<1> HIDE DEF f, g
<1>8. \A i \in 0..Len(t) : f[i] = SubSeq(t, 1, i)
  <2> DEFINE T == {i \in 0..Len(t) : f[i] # SubSeq(t, 1, i)}
  <2> SUFFICES ASSUME T # {} PROVE FALSE
    OBVIOUS
  <2>1. T \in SUBSET Nat
    BY <1>2
  <2>2. PICK i \in T : \A j \in T : i <= j
    BY <2>1, LeastNat
  <2>3. i \in 0..Len(t) /\ f[i] # SubSeq(t, 1, i) /\ i \in Nat
    BY <2>2
  <2>4. i # 0
    BY <1>5, <1>7, <2>3 DEF CleanedBy
  <2>5. i \in 1..Len(t) /\ i - 1 \in 0..Len(t) /\ ~(i <= i - 1)
    BY <1>2, <2>3, <2>4
  <2>6. f[i - 1] = SubSeq(t, 1, i - 1)
    BY <2>2, <2>5
  <2>7. f[i] = Append(f[i - 1], t[i])
    BY <1>3, <1>7, <2>4, <2>5 DEF CleanedBy
  <2> QED BY <1>4, <2>3, <2>5, <2>6, <2>7
<1> QED BY <1>1, <1>2, <1>5, <1>8

LEMMA SuffixAt ==
    ASSUME NEW S, NEW s \in Seq(S), NEW t \in Seq(S)
    PROVE  IsSuffix(s, t) <=>
               Len(s) <= Len(t) /\ \A k \in 1..Len(s) : s[k] = t[Len(t) - Len(s) + k]
<1> DEFINE u == Reverse(s)
           v == Reverse(t)
<1>1. Len(s) \in Nat /\ Len(t) \in Nat
  OBVIOUS
<1>2. /\ u \in Seq(S) /\ Len(u) = Len(s) /\ \A i \in 1..Len(s) : u[i] = s[(Len(s) - i) + 1]
      /\ v \in Seq(S) /\ Len(v) = Len(t) /\ \A i \in 1..Len(t) : v[i] = t[(Len(t) - i) + 1]
  BY DEF Reverse
<1>3. IsSuffix(s, t) <=> IsPrefix(u, v)
  BY DEF IsSuffix
<1> HIDE DEF u, v
<1>4. IsPrefix(u, v) <=> Len(u) <= Len(v) /\ \A i \in 1..Len(u) : u[i] = v[i]
  BY <1>2, PrefixAt
<1>5. CASE Len(s) <= Len(t)
  <2>1. ASSUME \A i \in 1..Len(u) : u[i] = v[i], NEW k \in 1..Len(s)
        PROVE  s[k] = t[Len(t) - Len(s) + k]
    <3>0. (Len(s) - k) + 1 \in 1..Len(s)
      BY <1>1
    <3>1. PICK i \in 1..Len(s) : i = (Len(s) - k) + 1
      BY <3>0
    <3>2. (Len(s) - i) + 1 = k /\ (Len(t) - i) + 1 = Len(t) - Len(s) + k /\ i \in 1..Len(t)
      BY <1>1, <1>5, <3>1
    <3>3. u[i] = s[k] /\ v[i] = t[Len(t) - Len(s) + k]
      BY <1>2, <3>1, <3>2
    <3> QED BY <1>2, <2>1, <3>1, <3>3
  <2>2. ASSUME \A k \in 1..Len(s) : s[k] = t[Len(t) - Len(s) + k], NEW i \in 1..Len(u)
        PROVE  u[i] = v[i]
    <3>0. (Len(s) - i) + 1 \in 1..Len(s)
      BY <1>1, <1>2
    <3>1. PICK k \in 1..Len(s) : k = (Len(s) - i) + 1
      BY <3>0
    <3>2. (Len(t) - i) + 1 = Len(t) - Len(s) + k /\ i \in 1..Len(t) /\ i \in 1..Len(s)
      BY <1>1, <1>2, <1>5, <3>1
    <3>3. u[i] = s[k] /\ v[i] = t[Len(t) - Len(s) + k]
      BY <1>2, <3>1, <3>2
    <3> QED BY <2>2, <3>1, <3>3
  <2>3. (\A i \in 1..Len(u) : u[i] = v[i]) <=> (\A k \in 1..Len(s) : s[k] = t[Len(t) - Len(s) + k])
    BY <2>1, <2>2
  <2> QED BY <1>2, <1>3, <1>4, <1>5, <2>3
<1>6. CASE ~(Len(s) <= Len(t))
  BY <1>2, <1>3, <1>4, <1>6
<1> QED BY <1>5, <1>6

\* The path of the base URL does not end in the base path that normalizeBase took off.
LEMMA MountIsClean ==
    ASSUME NEW b \in Seq(Part), b # <<>>, NEW path \in Seq(Part), ~Twice(b, path)
    PROVE  ~IsSuffix(b, normalizeBase(path, b))
<1> DEFINE w == TrimRightSlashes(path)
           m == TrimRightSlashes(SubSeq(w, 1, Len(w) - Len(b)))
<1>1. w \in Seq(Part) /\ Len(w) <= Len(path) /\ \A i \in 1..Len(w) : w[i] = path[i]
  BY TrimRight
<1> HIDE DEF w
<1>2. CASE ~IsSuffix(b, w)
  BY <1>2 DEF normalizeBase, w
<1>3. CASE IsSuffix(b, w)
  <2>1. Len(b) \in Nat /\ Len(b) > 0 /\ Len(w) \in Nat /\ Len(path) \in Nat
    BY <1>1
  <2>2. Len(b) <= Len(w) /\ \A k \in 1..Len(b) : b[k] = w[Len(w) - Len(b) + k]
    BY <1>1, <1>3, SuffixAt
  <2>3. PICK n \in Nat : n = Len(w) - Len(b)
    BY <2>1, <2>2
  <2>4. SubSeq(w, 1, n) \in Seq(Part) /\ Len(SubSeq(w, 1, n)) = n
        /\ \A i \in 1..n : SubSeq(w, 1, n)[i] = w[i]
    BY <1>1, <2>1, <2>3
  <2>5. m \in Seq(Part) /\ Len(m) \in Nat /\ Len(m) <= n /\ \A i \in 1..Len(m) : m[i] = w[i]
    <3> DEFINE x == SubSeq(w, 1, n)
    <3>1. m = TrimRightSlashes(x)
      BY <2>3
    <3> HIDE DEF x, m
    <3>2. m \in Seq(Part) /\ Len(m) <= Len(x) /\ \A i \in 1..Len(m) : m[i] = x[i]
      BY <2>4, <3>1, TrimRight DEF x
    <3>3. Len(m) \in Nat /\ Len(x) = n /\ \A i \in 1..n : x[i] = w[i]
      BY <2>4, <3>2 DEF x
    <3> QED BY <3>2, <3>3
  <2>6. normalizeBase(path, b) = m
    BY <1>3 DEF normalizeBase, w
  <2> HIDE DEF m
  <2>7. SUFFICES ASSUME IsSuffix(b, m) PROVE FALSE
    BY <2>6
  <2>8. Len(b) <= Len(m) /\ \A k \in 1..Len(b) : b[k] = m[Len(m) - Len(b) + k]
    BY <2>5, <2>7, SuffixAt
  <2>a. Len(m) - Len(b) + 1 \in Nat
    BY <2>1, <2>5, <2>8
  <2>9. PICK i \in Nat : i = Len(m) - Len(b) + 1
    BY <2>a
  <2>10. PICK j \in Nat : j = n + 1
    BY <2>3
  <2>11. i \in 1..Len(path) /\ j \in 1..Len(path) /\ i + Len(b) <= j
         /\ i + Len(b) - 1 <= Len(path) /\ j + Len(b) - 1 <= Len(path)
    BY <1>1, <2>1, <2>2, <2>3, <2>5, <2>8, <2>9, <2>10
  <2>12. OccursAt(i, b, path)
    <3>1. ASSUME NEW k \in 1..Len(b) PROVE path[i + k - 1] = b[k]
      <4>1. i + k - 1 = Len(m) - Len(b) + k /\ i + k - 1 \in 1..Len(m) /\ i + k - 1 \in 1..Len(w)
            /\ i + k - 1 \in 1..n
        BY <2>1, <2>2, <2>3, <2>5, <2>8, <2>9
      <4> QED BY <1>1, <2>5, <2>8, <4>1
    <3> QED BY <2>11, <3>1 DEF OccursAt
  <2>13. OccursAt(j, b, path)
    <3>1. ASSUME NEW k \in 1..Len(b) PROVE path[j + k - 1] = b[k]
      <4>1. j + k - 1 = Len(w) - Len(b) + k /\ j + k - 1 \in 1..Len(w)
        BY <2>1, <2>2, <2>3, <2>10
      <4> QED BY <1>1, <2>2, <4>1
    <3> QED BY <2>11, <3>1 DEF OccursAt
  <2> QED BY <2>11, <2>12, <2>13 DEF Twice
<1> QED BY <1>2, <1>3

\* Routes begin with a word.
LEMMA RouteParts ==
    ASSUME NEW op \in Ops, op.method # "none"
    PROVE  /\ WithoutVersion(op.route) \in Seq(Part) /\ Len(WithoutVersion(op.route)) > 0
           /\ WithoutVersion(op.route)[1] \notin {"v1", "api"}
           /\ op.route \in Seq(Part) /\ Len(op.route) > 0 /\ op.route[1] # "api"
           /\ WithoutVersion(op.route) = IF op.route[1] = "v1" THEN Tail(op.route) ELSE op.route
<1> DEFINE R == op.route
           W == WithoutVersion(R)
           A == Words \cup AllParams
<1>1. W \in Seq(A) /\ Len(W) > 0 /\ W[1] \in Words \ {"v1", "api"}
  BY Unversioned
<1>2. R \in Seq(A) /\ Len(R) > 0 /\ R[1] \in Heads
  BY RouteWords
<1>3. \A t \in Seq(A) : t \in Seq(Part)
  <2> TAKE t \in Seq(A)
  <2>1. Len(t) \in Nat /\ t = [i \in 1..Len(t) |-> t[i]] /\ \A i \in 1..Len(t) : t[i] \in A
    OBVIOUS
  <2>2. \A i \in 1..Len(t) : t[i] \in Part
    BY <2>1 DEF Part
  <2> QED BY <2>1, <2>2
<1>4. R[1] # "api"
  BY <1>2 DEF Heads
<1>5. R \in Seq(Part) /\ R # <<>> /\ W \in Seq(Part)
  BY <1>1, <1>2, <1>3
<1> HIDE DEF R
<1>6. W = IF R[1] = "v1" THEN Tail(R) ELSE R
  BY <1>5, VersionOf
<1> QED BY <1>1, <1>2, <1>4, <1>5, <1>6 DEF R

LEMMA SomeVersion == \E op \in Ops : op.method # "none" /\ op.route[1] = "v1"
<1> DEFINE op == Sends("agent", "Inventory", "GET", <<"v1", "agents", "inventory">>, {})
<1>1. op \in agentBehaviour
  BY Zenon DEF agentBehaviour
<1>2. op \in Ops
  BY <1>1, Zenon DEF Ops
<1>3. op.method = "GET" /\ op.route = <<"v1", "agents", "inventory">>
  BY DEF Sends, Op
<1>4. op.route[1] = "v1"
  BY <1>3
<1> HIDE DEF op
<1> QED BY <1>2, <1>3, <1>4

\* The base path that buildURL puts before a route.
Effectual(base) == IF base = <<>> THEN defaultAPIBasePath ELSE base

LEMMA BaseParts ==
    ASSUME PlainConfiguration, NEW base \in ConfiguredBases
    PROVE  /\ Effectual(base) \in Seq(Part) /\ Len(Effectual(base)) > 0
           /\ \A i \in 1..Len(Effectual(base)) :
                  Effectual(base)[i] \notin Unusable \cup {Odd, OddEscaped}
<1>1. base \in Seq(Part) /\ PlainBase(base)
  BY BasesAreSeqs DEF PlainConfiguration
<1>2. CASE base = <<>>
  <2>1. "api" \in Part /\ "v1" \in Part /\ "api" \notin Unusable \cup {Odd, OddEscaped}
        /\ "v1" \notin Unusable \cup {Odd, OddEscaped}
    BY DEF Part, Words, Unusable, NoText, Odd, OddEscaped
  <2>3. Effectual(base) = <<"api", "v1">>
    BY <1>2 DEF Effectual, defaultAPIBasePath
  <2> DEFINE B == Effectual(base)
  <2>4. B \in Seq(Part) /\ Len(B) = 2 /\ B[1] = "api" /\ B[2] = "v1"
    BY <2>1, <2>3, Pairs
  <2> HIDE DEF B
  <2>5. \A i \in 1..Len(B) : B[i] \notin Unusable \cup {Odd, OddEscaped}
    <3>1. \A i \in 1..2 : i = 1 \/ i = 2
      OBVIOUS
    <3> QED BY <2>1, <2>4, <3>1
  <2>6. Len(B) > 0
    BY <2>4
  <2> QED BY <2>4, <2>5, <2>6 DEF B
<1>3. CASE base # <<>>
  <2>1. Effectual(base) = base /\ Len(base) > 0 /\ DOMAIN base = 1..Len(base)
    BY <1>1, <1>3 DEF Effectual
  <2> QED BY <1>1, <2>1 DEF PlainBase
<1> QED BY <1>2, <1>3

\* The base path does not begin like a route, but for "/v1".
LEMMA BaseApart ==
    ASSUME PlainConfiguration, NEW base \in ConfiguredBases
    PROVE  /\ Effectual(base)[1] = "v1" => Effectual(base) = <<"v1">>
           /\ \A op \in Ops : op.method # "none" =>
                  Effectual(base)[1] # WithoutVersion(op.route)[1]
           /\ Effectual(base)[1] # "v1" =>
                  \A op \in Ops : op.method # "none" => Effectual(base)[1] # op.route[1]
<1>1. base \in Seq(Part) /\ PlainBase(base)
  BY BasesAreSeqs DEF PlainConfiguration
<1>2. \A op \in Ops : op.method # "none" =>
          /\ WithoutVersion(op.route) \in Seq(Part) /\ Len(WithoutVersion(op.route)) > 0
          /\ WithoutVersion(op.route)[1] \notin {"v1", "api"}
          /\ op.route \in Seq(Part) /\ Len(op.route) > 0 /\ op.route[1] # "api"
  BY RouteParts
<1>3. CASE base = <<>>
  <2>1. Effectual(base)[1] = "api"
    BY <1>3 DEF Effectual, defaultAPIBasePath
  <2> QED BY <1>2, <2>1
<1>4. CASE base = <<"v1">>
  <2>1. Effectual(base) = <<"v1">> /\ Effectual(base)[1] = "v1"
    BY <1>4 DEF Effectual
  <2> QED BY <1>2, <2>1
<1>5. CASE base \notin {<<>>, <<"v1">>}
  <2>1. Effectual(base) = base /\ base # <<>>
    BY <1>5 DEF Effectual
  <2>2. \A op \in Ops : /\ ~IsPrefix(<<base[1]>>, op.route)
                        /\ ~IsPrefix(<<base[1]>>, WithoutVersion(op.route))
    BY <1>1, <1>5 DEF PlainBase
  <2>3. base[1] \in Part
    BY <1>1, <2>1
  <2>4. \A t \in Seq(Part) : Len(t) > 0 /\ ~IsPrefix(<<base[1]>>, t) => t[1] # base[1]
    <3> TAKE t \in Seq(Part)
    <3>1. IsPrefix(<<base[1]>>, t) <=> t # <<>> /\ t[1] = base[1]
      BY <2>3, OnePrefix
    <3> QED BY <3>1
  <2>5. \A op \in Ops : op.method # "none" =>
            base[1] # op.route[1] /\ base[1] # WithoutVersion(op.route)[1]
    BY <1>2, <2>2, <2>4
  <2>6. base[1] # "v1"
    <3>1. PICK op \in Ops : op.method # "none" /\ op.route[1] = "v1"
      BY SomeVersion
    <3> QED BY <2>5, <3>1
  <2> QED BY <2>1, <2>5, <2>6
<1> QED BY <1>3, <1>4, <1>5

Roots == {<<"health">>, <<"ready">>, <<"version">>, <<"metrics">>, <<"docs">>,
          <<".well-known">>, <<"scim">>, <<"oid4vci">>, <<"oauth">>,
          <<"auth", "token">>, <<"cli", "device">>, <<"dpop">>, <<"pam">>}

LEMMA RootsOK ==
    \A prefix \in Roots : /\ prefix \in Seq(Part) /\ Len(prefix) > 0
                          /\ prefix[1] \notin {"v1", "blockchain"}
<1> DEFINE W == {"health", "ready", "version", "metrics", "docs", ".well-known", "auth", "oauth",
                 "token", "cli", "device", "dpop", "scim", "oid4vci", "pam"}
<1>1. \A x \in W : x \in Part /\ x \notin {"v1", "blockchain"}
  BY DEF Part, Words
<1>2. \A prefix \in Roots :
          (\E x \in W : prefix = <<x>>) \/ (\E x, y \in W : prefix = <<x, y>>)
  BY Zenon DEF Roots
<1> HIDE DEF W
<1>3. ASSUME NEW prefix, NEW x \in W, prefix = <<x>>
      PROVE  prefix \in Seq(Part) /\ Len(prefix) > 0 /\ prefix[1] = x
  BY <1>1, <1>3
<1>4. ASSUME NEW prefix, NEW x \in W, NEW y \in W, prefix = <<x, y>>
      PROVE  prefix \in Seq(Part) /\ Len(prefix) > 0 /\ prefix[1] = x
  BY <1>1, <1>4
<1> QED BY <1>1, <1>2, <1>3, <1>4, Zenon

\* Under a prefix, or not, by the first part.
LEMMA NotUnder ==
    ASSUME NEW t \in Seq(Part), NEW q, NEW prefix \in Seq(Part), Len(prefix) > 0,
           t = <<>> \/ t[1] # prefix[1]
    PROVE  ~Under([parts |-> t, query |-> q], prefix)
<1>1. ~IsPrefix(prefix, t) /\ t # prefix
  <2>1. 1 \in 1..Len(prefix) /\ Len(prefix) \in Nat
    OBVIOUS
  <2>2. IsPrefix(prefix, t) => Len(prefix) <= Len(t) /\ prefix[1] = t[1]
    BY <2>1, PartPrefix
  <2>3. t # <<>> \/ Len(t) = 0
    OBVIOUS
  <2> QED BY <2>1, <2>2, <2>3
<1> QED BY <1>1 DEF Under, IsStrictPrefix

LEMMA RootByParts ==
    ASSUME NEW t \in Seq(Part), NEW q
    PROVE  isRootRoute([parts |-> t, query |-> q]) <=>
               \E prefix \in Roots : Under([parts |-> t, query |-> q], prefix)
  BY Zenon DEF isRootRoute, Roots

\* What buildURL returns, by cases.
LEMMA BuiltAsIs ==
    ASSUME NEW base, NEW p, TrimPath(p) = p, Under(p, Effectual(base)) \/ isRootRoute(p)
    PROVE  buildURL(base, p) = p.parts
  BY DEF buildURL, Effectual

LEMMA BuiltAfterBase ==
    ASSUME NEW base, NEW p, TrimPath(p) = p, ~Under(p, Effectual(base)), ~isRootRoute(p),
           NEW v, v = (IsPrefix(<<"v1">>, p.parts) /\ (p.query => Len(p.parts) > 1))
    PROVE  buildURL(base, p) = Clean(Effectual(base) \o (IF v THEN Tail(p.parts) ELSE p.parts))
  BY DEF buildURL, Effectual

LEMMA Untrimmed ==
    ASSUME NEW t \in Seq(Part), t = <<>> \/ t[Len(t)] # Blank, NEW q
    PROVE  TrimPath([parts |-> t, query |-> q]) = [parts |-> t, query |-> q]
  BY DEF TrimPath, Last

\* A URL after the base path, of parts that are usable.
LEMMA CleanJoined ==
    ASSUME PlainConfiguration, NEW base \in ConfiguredBases, NEW r \in Seq(Part),
           \A i \in 1..Len(r) : r[i] \notin Unusable
    PROVE  Clean(Effectual(base) \o r) = Effectual(base) \o r
<1> DEFINE B == Effectual(base)
           t == B \o r
<1>1. B \in Seq(Part) /\ \A i \in 1..Len(B) : B[i] \notin Unusable
  BY BaseParts
<1>2. t \in Seq(Part) /\ Len(t) = Len(B) + Len(r)
      /\ (\A i \in 1..Len(B) : t[i] = B[i]) /\ (\A i \in 1..Len(r) : t[Len(B) + i] = r[i])
  BY <1>1, Joined
<1>3. Len(B) \in Nat /\ Len(r) \in Nat
  BY <1>1
<1> HIDE DEF t, B
<1>4. ASSUME NEW i \in 1..Len(t) PROVE t[i] \notin Unusable
  <2>1. CASE i <= Len(B)
    BY <1>1, <1>2, <1>3, <2>1
  <2>2. CASE ~(i <= Len(B))
    <3>0. i - Len(B) \in 1..Len(r)
      BY <1>2, <1>3, <2>2
    <3>1. PICK k \in 1..Len(r) : i - Len(B) = k
      BY <3>0
    <3>2. i = Len(B) + k
      BY <1>3, <3>1
    <3> QED BY <1>2, <3>2
  <2> QED BY <2>1, <2>2
<1>5. Clean(t) = t
  BY <1>2, <1>4, CleanUsable
<1> QED BY <1>5 DEF t, B

LEMMA RawURL ==
    ASSUME PlainConfiguration, ClientOK, client # None, NEW r, RawOK(r), NEW how \in Spellings,
           NEW q \in BOOLEAN, r[1] # Effectual(client.base)[1]
    PROVE  LET url == buildURL(client.base, [parts |-> Spell(r, how), query |-> q])
           IN  \/ url = Effectual(client.base) \o r
               \/ isRootRoute([parts |-> r, query |-> FALSE]) /\ url = r
<1> DEFINE B == Effectual(client.base)
<1>1. client.base \in ConfiguredBases
  BY DEF ClientOK
<1>2. /\ r \in Seq(Part) /\ r # <<>> /\ r[1] \notin {"v1", "api"}
      /\ \A i \in 1..Len(r) : r[i] \notin Unusable \cup {Blank}
  BY DEF RawOK
<1>3. B \in Seq(Part) /\ Len(B) > 0
      /\ \A i \in 1..Len(B) : B[i] \notin Unusable \cup {Odd, OddEscaped}
  BY <1>1, BaseParts
<1>4. B[1] # r[1] /\ (B[1] = "v1" => B = <<"v1">>)
  BY <1>1, BaseApart
<1>5. Len(r) \in 1..Len(r) /\ Len(r) \in Nat /\ Len(B) \in Nat
  BY <1>2, <1>3
<1>6. Clean(B \o r) = B \o r
  BY <1>1, <1>2, CleanJoined
<1>7. client.base \in Seq(Part)
  BY <1>1, BasesAreSeqs
<1> HIDE DEF B
<1>8. \A x \in Seq(Part) :
          TrimPath([parts |-> x \o r, query |-> q]) = [parts |-> x \o r, query |-> q]
  <2> TAKE x \in Seq(Part)
  <2>1. x \o r \in Seq(Part) /\ (x \o r)[Len(x \o r)] = r[Len(r)]
    BY <1>2, <1>5
  <2>2. (x \o r)[Len(x \o r)] # Blank
    BY <1>2, <1>5, <2>1
  <2> QED BY <2>1, <2>2, Untrimmed
<1>9. CASE how = "bare" \/ (how = "based" /\ client.base = <<>>)
  <2> DEFINE p == [parts |-> r, query |-> q]
  <2>1. Spell(r, how) = r
    <3>1. <<>> \o r = r
      BY <1>2
    <3> QED BY <1>2, <1>9, <3>1 DEF Spell
  <2>2. TrimPath(p) = p
    <3>1. <<>> \o r = r /\ <<>> \in Seq(Part)
      BY <1>2
    <3> QED BY <1>8, <3>1
  <2>3. ~Under(p, B)
    BY <1>2, <1>3, <1>4, NotUnder
  <2>4. isRootRoute(p) => isRootRoute([parts |-> r, query |-> FALSE])
    <3>1. ASSUME NEW prefix \in Roots, Under(p, prefix)
          PROVE  Under([parts |-> r, query |-> FALSE], prefix)
      BY <3>1 DEF Under
    <3> QED BY <1>2, <3>1, RootByParts
  <2>5. p.parts = r
    OBVIOUS
  <2>6. ~IsPrefix(<<"v1">>, r)
    <3>1. "v1" \in Part
      BY DEF Part, Words
    <3> QED BY <1>2, <3>1, OnePrefix
  <2> HIDE DEF p
  <2>7. CASE isRootRoute(p)
    <3>1. buildURL(client.base, p) = r
      BY <2>2, <2>5, <2>7, BuiltAsIs
    <3> QED BY <2>1, <2>4, <2>7, <3>1 DEF p
  <2>8. CASE ~isRootRoute(p)
    <3>1. buildURL(client.base, p) = Clean(B \o r)
      BY <2>2, <2>3, <2>5, <2>6, <2>8, BuiltAfterBase DEF B
    <3> QED BY <1>6, <2>1, <3>1 DEF p, B
  <2> QED BY <2>7, <2>8
<1>10. CASE how = "based" /\ client.base # <<>>
  <2>1. B = client.base
    BY <1>10 DEF B, Effectual
  <2> DEFINE t == B \o r
             p == [parts |-> t, query |-> q]
  <2>2. t \in Seq(Part) /\ Len(t) = Len(B) + Len(r) /\ \A i \in 1..Len(B) : t[i] = B[i]
    BY <1>2, <1>3, Joined
  <2>3. Len(t) > Len(B) /\ Len(B) <= Len(t)
    BY <1>5, <2>2
  <2>4. t # <<>> /\ t # B
    BY <1>3, <1>5, <2>2, <2>3
  <2>5. Spell(r, how) = t
    BY <1>10, <2>1, <2>4 DEF Spell
  <2>6. TrimPath(p) = p
    BY <1>3, <1>8
  <2> HIDE DEF t
  <2>7. IsPrefix(B, t)
    BY <1>3, <2>2, <2>3, PartPrefix
  <2>8. Under(p, B)
    BY <2>4, <2>7 DEF Under, IsStrictPrefix
  <2>9. buildURL(client.base, p) = p.parts
    BY <2>6, <2>8, BuiltAsIs DEF B
  <2> QED BY <2>5, <2>9 DEF t, B
<1>11. CASE how = "versioned"
  <2> DEFINE one == <<"v1">>
             t == one \o r
             p == [parts |-> t, query |-> q]
  <2>1. one \in Seq(Part) /\ Len(one) = 1 /\ one[1] = "v1" /\ one # <<>>
    <3>1. "v1" \in Part
      BY DEF Part, Words
    <3> QED BY <3>1
  <2>2. Tail(t) = r
    BY <1>2
  <2> HIDE DEF one
  <2>3. t \in Seq(Part) /\ Len(t) = Len(one) + Len(r) /\ \A i \in 1..Len(one) : t[i] = one[i]
    BY <1>2, <2>1, Joined
  <2>4. t # <<>> /\ Len(t) > 1 /\ t[1] = "v1" /\ Len(one) <= Len(t) /\ t # one
    BY <1>5, <2>1, <2>3
  <2>5. Spell(r, how) = t
    BY <1>11, <2>4 DEF Spell, one
  <2>6. TrimPath(p) = p
    BY <1>8, <2>1
  <2>7. CASE B = one
    <3> HIDE DEF t
    <3>1. IsPrefix(one, t)
      BY <2>1, <2>3, <2>4, PartPrefix
    <3>2. Under(p, B)
      BY <2>4, <2>7, <3>1 DEF Under, IsStrictPrefix
    <3>3. buildURL(client.base, p) = p.parts
      BY <2>6, <3>2, BuiltAsIs DEF B
    <3> QED BY <2>5, <2>7, <3>3 DEF t, B
  <2>8. CASE B # one
    <3> HIDE DEF t
    <3>1. ~Under(p, B)
      BY <1>3, <1>4, <2>3, <2>4, <2>8, NotUnder DEF one
    <3>2. ~isRootRoute(p)
      <4>1. ASSUME NEW prefix \in Roots PROVE ~Under(p, prefix)
        BY <2>3, <2>4, RootsOK, NotUnder
      <4> QED BY <2>3, <4>1, RootByParts
    <3>3. IsPrefix(<<"v1">>, t)
      <4>1. "v1" \in Part
        BY DEF Part, Words
      <4> QED BY <2>3, <2>4, <4>1, OnePrefix
    <3>4. p.parts = t /\ p.query = q
      OBVIOUS
    <3> HIDE DEF p
    <3>5. buildURL(client.base, p) = Clean(B \o Tail(t))
      BY <2>4, <2>6, <3>1, <3>2, <3>3, <3>4, BuiltAfterBase DEF B
    <3> QED BY <1>6, <2>2, <2>5, <3>5 DEF p, B
  <2> QED BY <2>7, <2>8
<1> QED BY <1>9, <1>10, <1>11 DEF Spellings

LEMMA Mounts ==
    ASSUME PlainConfiguration, ClientOK, client # None
    PROVE  /\ client.mount \in Seq(Part)
           /\ \A i \in 1..Len(client.mount) : client.mount[i] \notin {Odd, OddEscaped}
           /\ client.base # <<>> => ~IsSuffix(client.base, client.mount)
<1>1. client.base \in ConfiguredBases /\ client.base \in Seq(Part)
  BY BasesAreSeqs DEF ClientOK
<1>2. PICK u \in BaseURLs : client.mount = normalizeBase(u.path, client.base)
  BY DEF ClientOK
<1>3. u.path \in Seq(Part)
  <2>1. u.path \in Seq(STRING)
    BY ClientAssumption
  <2>2. Len(u.path) \in Nat /\ u.path = [i \in 1..Len(u.path) |-> u.path[i]]
        /\ \A i \in 1..Len(u.path) : u.path[i] \in STRING
    BY <2>1
  <2>3. \A i \in 1..Len(u.path) : u.path[i] \in Part
    BY <2>2 DEF Part
  <2> QED BY <2>1, <2>2, <2>3
<1>4. \A i \in 1..Len(u.path) : u.path[i] \notin {Odd, OddEscaped}
  BY <1>3 DEF PlainConfiguration
<1>5. client.base # <<>> => ~IsSuffix(client.base, client.mount)
  BY <1>1, <1>2, <1>3, MountIsClean DEF PlainConfiguration
<1> DEFINE w == TrimRightSlashes(u.path)
           x == SubSeq(w, 1, Len(w) - Len(client.base))
<1>6. w \in Seq(Part) /\ Len(w) <= Len(u.path) /\ \A i \in 1..Len(w) : w[i] = u.path[i]
  BY <1>3, TrimRight
<1>7. Len(w) \in Nat /\ Len(u.path) \in Nat /\ Len(client.base) \in Nat
  BY <1>1, <1>3, <1>6
<1>8. \A i \in 1..Len(w) : w[i] \notin {Odd, OddEscaped}
  BY <1>4, <1>6, <1>7
<1>9. CASE client.mount = w
  BY <1>5, <1>6, <1>8, <1>9
<1>10. CASE client.mount = TrimRightSlashes(x) /\ IsSuffix(client.base, w)
  <2> HIDE DEF w
  <2>1. Len(client.base) <= Len(w)
    BY <1>1, <1>6, <1>10, SuffixAt
  <2>0. Len(w) - Len(client.base) \in Nat
    BY <1>7, <2>1
  <2>2. PICK n \in Nat : n = Len(w) - Len(client.base)
    BY <2>0
  <2>3. x \in Seq(Part) /\ Len(x) = n /\ n <= Len(w) /\ \A i \in 1..n : x[i] = w[i]
    <3>1. n <= Len(w)
      BY <1>7, <2>1, <2>2
    <3>2. x = SubSeq(w, 1, n)
      BY <2>2
    <3> HIDE DEF x
    <3> QED BY <1>6, <3>1, <3>2
  <2> HIDE DEF x
  <2>4. client.mount \in Seq(Part) /\ Len(client.mount) <= Len(x)
        /\ \A i \in 1..Len(client.mount) : client.mount[i] = x[i]
    BY <1>10, <2>3, TrimRight
  <2>5. Len(client.mount) \in Nat
    BY <2>4
  <2>6. ASSUME NEW i \in 1..Len(client.mount) PROVE client.mount[i] \notin {Odd, OddEscaped}
    <3>1. client.mount[i] = x[i] /\ i \in 1..n
      BY <2>3, <2>4, <2>5
    <3>2. x[i] = w[i] /\ i \in 1..Len(w)
      BY <1>7, <2>3, <3>1
    <3> QED BY <1>8, <3>1, <3>2
  <2> QED BY <1>5, <2>4, <2>6
<1> QED BY <1>2, <1>9, <1>10 DEF normalizeBase

\* The conjunct of BasePathOnce about the raw calls.
RawURLsBased ==
    RawSent /\ PlainRoute(call.route) /\ call.route[1] # BasePath[1]
      /\ ~isRootRoute([parts |-> call.route, query |-> FALSE]) =>
        call.url = client.mount \o BasePath \o call.route

LEMMA BasedStep ==
    ASSUME PlainConfiguration
    PROVE  Inv /\ RawURLsBased /\ [Next]_vars => RawURLsBased'
<1> SUFFICES ASSUME Inv, RawURLsBased, [Next]_vars PROVE RawURLsBased'
  OBVIOUS
<1>1. CASE call' = None
  BY <1>1 DEF RawURLsBased, RawSent, Sent
<1>2. CASE call' = call /\ client' = client
  BY <1>2 DEF RawURLsBased, RawSent, Sent, BasePath, PlainRoute
<1>3. CASE ServiceStep
  <2>1. PICK op \in Ops : ServiceRefuses(op) \/ ServiceUnsupported(op) \/ ServiceSends(op)
    BY <1>3 DEF ServiceStep
  <2>2. \A ids, q, outcome : ServiceCall(op, ids, q, outcome) => call'.op = op
    BY DEF ServiceCall
  <2>3. call'.op = op
    BY <2>1, <2>2, Zenon DEF ServiceRefuses, ServiceUnsupported, ServiceSends
  <2>4. call'.op # None
    BY <2>3, ClientAssumption
  <2> QED BY <2>4 DEF RawURLsBased, RawSent
<1>4. CASE RawStep
  <2>1. client' = client
    BY <1>4 DEF RawStep
  <2>2. PICK r \in RawRoutes, how \in Spellings, q \in BOOLEAN, kind \in {"client", "raw"} :
            Ready(kind) /\ (ClientDoRaw(r, how, q) \/ RawDo(r, how, q))
    BY <1>4 DEF RawStep
  <2> DEFINE p == [parts |-> Spell(r, how), query |-> q]
  <2>3. call'.route = r /\ (call'.outcome = "sent" => call'.url = Request(p))
    <3>1. \A accepted : RawCall(r, p, how, accepted) =>
              call'.route = r /\ (call'.outcome = "sent" => call'.url = Request(p))
      BY DEF RawCall
    <3>2. \E accepted : RawCall(r, p, how, accepted)
      BY <2>2, Zenon DEF ClientDoRaw, RawDo
    <3> QED BY <3>1, <3>2
  <2>4. SUFFICES ASSUME call'.outcome = "sent", PlainRoute(r),
                        r[1] # Effectual(client.base)[1],
                        ~isRootRoute([parts |-> r, query |-> FALSE])
                 PROVE  call'.url = client.mount \o Effectual(client.base) \o r
    BY <2>1, <2>3 DEF RawURLsBased, RawSent, Sent, BasePath, Effectual, PlainRoute
  <2>5. RawOK(r)
    BY <2>4, RawRoutesOK
  <2>6. client # None /\ ClientOK
    BY <2>2 DEF Ready, Inv
  <2>7. buildURL(client.base, p) = Effectual(client.base) \o r
    BY <2>4, <2>5, <2>6, RawURL
  <2>8. call'.url = client.mount \o (Effectual(client.base) \o r)
    BY <2>3, <2>4, <2>7 DEF Request
  <2>9. client.mount \in Seq(Part) /\ Effectual(client.base) \in Seq(Part) /\ r \in Seq(Part)
    BY <2>5, <2>6, Mounts, BaseParts DEF ClientOK, RawOK
  <2>10. \A x, y, z \in Seq(Part) : x \o (y \o z) = x \o y \o z
    OBVIOUS
  <2> QED BY <2>8, <2>9, <2>10
<1> QED BY <1>1, <1>2, <1>3, <1>4, Kinds

\* The base path stands in the URL of a call once, however the base URL is written and in
\* whichever of the three ways the plain route of a raw call is, when the configuration is
\* a plain one.
THEOREM BasePathStandsOnce ==
    ASSUME PlainConfiguration
    PROVE  Spec => []BasePathOnce
<1>1. Init => RawURLsBased
  BY DEF Init, RawURLsBased, RawSent, Sent
<1>2. Inv /\ RawURLsBased => BasePathOnce
  <2> SUFFICES ASSUME Inv, RawURLsBased, Sent
               PROVE  /\ client.base # <<>> => ~IsSuffix(client.base, client.mount)
                      /\ RawURLsBased
    BY DEF BasePathOnce, RawURLsBased
  <2>1. client # None /\ ClientOK
    BY DEF Inv, Sent
  <2> QED BY <2>1, Mounts
<1> QED BY <1>1, <1>2, BasedStep, InvHolds, PTL DEF Spec

--------------------------------------------------------------------------------
(* The tenant of a raw call                                                   *)

\* No base path begins like a plain route that needs no tenant.
LEMMA OptionalApart ==
    ASSUME PlainConfiguration, NEW base \in ConfiguredBases, TenantFree(base), NEW r, RawOK(r),
           NEW prefix \in TenantOptional, IsPrefix(prefix, r)
    PROVE  r[1] # Effectual(base)[1]
<1>1. base \in Seq(Part) /\ r \in Seq(Part) /\ r[1] \notin {"v1", "api"}
  BY BasesAreSeqs DEF RawOK
<1>2. prefix \in Seq(Part) /\ Len(prefix) > 0
  BY PrefixesOK
<1>3. r[1] = prefix[1]
  <2>1. 1 \in 1..Len(prefix)
    BY <1>2
  <2> QED BY <1>1, <1>2, <2>1, PartPrefix
<1>4. CASE base = <<>>
  <2>1. Effectual(base)[1] = "api"
    BY <1>4 DEF Effectual, defaultAPIBasePath
  <2> QED BY <1>1, <2>1
<1>5. CASE base # <<>> /\ base[1] \in {"v1", "api"}
  BY <1>1, <1>5 DEF Effectual
<1>6. CASE base # <<>> /\ base[1] \notin {"v1", "api"}
  <2>1. ~IsPrefix(defaultAPIBasePath, base) /\ WithoutVersion(base) = base
    BY <1>1, <1>6, DefaultBase, VersionOf
  <2>2. Rest(base) = base
    BY <2>1 DEF Rest
  <2>3. Rest(base) = <<>> \/ \A f \in TenantOptional : Rest(base)[1] # f[1]
    BY DEF TenantFree, normalizeRouteForTenantCheck, TrimPath, Rest
  <2> QED BY <1>3, <1>6, <2>2, <2>3 DEF Effectual
<1> QED BY <1>4, <1>5, <1>6

\* What stands before a prefix stands before the whole.
LEMMA PrefixAfter ==
    ASSUME NEW s \in Seq(Part), NEW t \in Seq(Part), NEW u \in Seq(Part), IsPrefix(s, t)
    PROVE  IsPrefix(u \o s, u \o t)
<1>1. Len(s) <= Len(t) /\ \A i \in 1..Len(s) : s[i] = t[i]
  BY PartPrefix
<1> DEFINE v == u \o s
           w == u \o t
<1>2. /\ v \in Seq(Part) /\ Len(v) = Len(u) + Len(s)
      /\ \A i \in 1..Len(u) : v[i] = u[i]
      /\ \A i \in 1..Len(s) : v[Len(u) + i] = s[i]
  BY Joined
<1>3. /\ w \in Seq(Part) /\ Len(w) = Len(u) + Len(t)
      /\ \A i \in 1..Len(u) : w[i] = u[i]
      /\ \A i \in 1..Len(t) : w[Len(u) + i] = t[i]
  BY Joined
<1> HIDE DEF v, w
<1>4. Len(u) \in Nat /\ Len(s) \in Nat /\ Len(t) \in Nat
  OBVIOUS
<1>5. ASSUME NEW i \in 1..Len(v) PROVE v[i] = w[i]
  <2>1. CASE i <= Len(u)
    BY <1>2, <1>3, <1>4, <2>1
  <2>2. CASE i > Len(u)
    <3>1. PICK k \in 1..Len(s) : i = Len(u) + k
      <4>1. i - Len(u) \in 1..Len(s) /\ i = Len(u) + (i - Len(u))
        BY <1>2, <1>4, <2>2
      <4> QED BY <4>1
    <3>2. k \in 1..Len(t)
      BY <1>1, <1>4, <3>1
    <3> QED BY <1>1, <1>2, <1>3, <3>1, <3>2
  <2> QED BY <1>2, <1>4, <2>1, <2>2
<1>6. Len(v) <= Len(w)
  BY <1>1, <1>2, <1>3, <1>4
<1>7. IsPrefix(v, w)
  BY <1>2, <1>3, <1>5, <1>6, PartPrefix
<1> QED BY <1>7 DEF v, w

LEMMA ScopedStep ==
    ASSUME PlainConfiguration, TenantFreeBases
    PROVE  Inv /\ ScopedCarriesTenant /\ [Next]_vars => ScopedCarriesTenant'
<1> SUFFICES ASSUME Inv, ScopedCarriesTenant, [Next]_vars PROVE ScopedCarriesTenant'
  OBVIOUS
<1>1. CASE call' = None
  BY <1>1 DEF ScopedCarriesTenant, RawSent, Sent
<1>2. CASE call' = call /\ client' = client
  BY <1>2 DEF ScopedCarriesTenant, RawSent, Sent, PlainRoute, BasePath
<1>3. CASE ServiceStep
  <2>1. client'.kind = "client"
    BY <1>3 DEF ServiceStep, Ready
  <2> QED BY <2>1 DEF ScopedCarriesTenant
<1>4. CASE RawStep
  <2>1. client' = client
    BY <1>4 DEF RawStep
  <2> DEFINE B == Effectual(client.base)
  <2>2. SUFFICES ASSUME client.kind = "raw", TrimSpace(client.tenant) = NoText,
                        PlainRoute(call'.route), call'.outcome = "sent"
                 PROVE  \E prefix \in TenantOptional, before \in {<<>>, B} :
                            IsPrefix(client.mount \o before \o prefix, call'.url)
    BY <2>1 DEF ScopedCarriesTenant, RawSent, Sent, PlainRoute, BasePath, Effectual
  <2>3. PICK r \in RawRoutes, how \in Spellings, q \in BOOLEAN : Ready("raw") /\ RawDo(r, how, q)
    BY <1>4, <2>2 DEF RawStep, Ready
  <2> DEFINE p == [parts |-> Spell(r, how), query |-> q]
  <2>4. call'.route = r /\ IsTenantOptionalPath(p) /\ call'.url = Request(p)
    BY <2>2, <2>3 DEF RawDo, RawCall, requireTenantForScopedPath
  <2>5. RawOK(r)
    BY <2>2, <2>4, RawRoutesOK
  <2>6. client # None /\ ClientOK
    BY <2>3 DEF Ready, Inv
  <2>7. PICK b \in {<<>>, <<"v1">>, client.base} : Spell(r, how) = b \o r
    BY <2>5, <2>6, SpelledWith
  <2>8. client.base \in ConfiguredBases /\ TenantFree(client.base)
    BY <2>6 DEF ClientOK, TenantFreeBases
  <2>9. b \in Seq(Part) /\ TenantFree(b)
    <3>1. client.base \in Seq(Part)
      BY <2>8, BasesAreSeqs
    <3>2. <<>> \in Seq(Part) /\ <<"v1">> \in Seq(Part)
      <4>1. "v1" \in Part
        BY DEF Part, Words
      <4> QED BY <4>1
    <3> QED BY <2>7, <2>8, <3>1, <3>2, NothingBefore
  <2>10. IsTenantOptionalPath([parts |-> b \o r, query |-> q])
    BY <2>4, <2>7
  <2>11. PICK prefix \in TenantOptional : IsPrefix(prefix, r)
    BY <2>5, <2>9, <2>10, TenantCheck
  <2>12. prefix \in Seq(Part) /\ r \in Seq(Part) /\ client.mount \in Seq(Part) /\ B \in Seq(Part)
    BY <2>5, <2>6, <2>8, PrefixesOK, Mounts, BaseParts DEF RawOK
  <2>13. r[1] # B[1]
    BY <2>5, <2>8, <2>11, OptionalApart
  <2>14. buildURL(client.base, p) = B \o r \/ buildURL(client.base, p) = r
    BY <2>5, <2>6, <2>13, RawURL
  <2>15. call'.url = client.mount \o buildURL(client.base, p)
    BY <2>4 DEF Request
  <2> HIDE DEF B, p
  <2>16. CASE buildURL(client.base, p) = r
    <3>1. IsPrefix(client.mount \o prefix, client.mount \o r)
      BY <2>11, <2>12, PrefixAfter
    <3>2. client.mount \o <<>> \o prefix = client.mount \o prefix
      BY <2>12
    <3>3. IsPrefix(client.mount \o <<>> \o prefix, call'.url)
      BY <2>15, <2>16, <3>1, <3>2
    <3> QED BY <3>3
  <2>17. CASE buildURL(client.base, p) = B \o r
    <3> DEFINE u == client.mount \o B
    <3>0. \A x, y, z \in Seq(Part) : x \o y \in Seq(Part) /\ x \o (y \o z) = x \o y \o z
      OBVIOUS
    <3>1. u \in Seq(Part) /\ u \o r = client.mount \o (B \o r)
      BY <2>12, <3>0
    <3>2. IsPrefix(u \o prefix, u \o r)
      BY <2>11, <2>12, <3>1, PrefixAfter
    <3>3. IsPrefix(u \o prefix, call'.url)
      BY <2>15, <2>17, <3>1, <3>2
    <3> QED BY <3>3
  <2> QED BY <2>14, <2>16, <2>17
<1> QED BY <1>1, <1>2, <1>3, <1>4, Kinds

\* A raw client without a tenant gets no request for a URL that belongs to one past
\* requireTenantForScopedPath with a plain route, whether that is written with the version,
\* with the base path or with neither, when the configuration is a plain one and no base
\* path begins like a route that needs no tenant.  Nothing is said of a path with dot
\* segments: the check sees it before path.Join cleans it.
THEOREM ScopedRoutesCarryTenant ==
    ASSUME PlainConfiguration, TenantFreeBases
    PROVE  Spec => []ScopedCarriesTenant
<1>1. Init => ScopedCarriesTenant
  BY DEF Init, ScopedCarriesTenant, RawSent, Sent
<1> QED BY <1>1, ScopedStep, InvHolds, PTL DEF Spec

--------------------------------------------------------------------------------
(* Routes with ids                                                            *)

\* Parts that may stand in a URL and mean themselves there.
Fit == Part \ (Unusable \cup {Blank, Odd})

\* The backend reads a path part by part.
Read(t) == [i \in DOMAIN t |-> PathUnescape(t[i])]

LEMMA ReadParts ==
    ASSUME NEW t \in Seq(Part)
    PROVE  /\ Read(t) \in Seq(Part) /\ Len(Read(t)) = Len(t)
           /\ \A i \in 1..Len(t) : Read(t)[i] = PathUnescape(t[i])
<1>1. \A x \in Part : PathUnescape(x) \in Part
  BY DEF PathUnescape, Part
<1>2. DOMAIN t = 1..Len(t) /\ Len(t) \in Nat /\ \A i \in 1..Len(t) : t[i] \in Part
  OBVIOUS
<1>3. Read(t) = [i \in 1..Len(t) |-> PathUnescape(t[i])]
  BY <1>2 DEF Read
<1>4. \A i \in 1..Len(t) : PathUnescape(t[i]) \in Part
  BY <1>1, <1>2
<1> QED BY <1>2, <1>3, <1>4

LEMMA ReadJoined ==
    ASSUME NEW s \in Seq(Part), NEW t \in Seq(Part)
    PROVE  Read(s \o t) = Read(s) \o Read(t)
<1> DEFINE u == s \o t
           v == Read(s) \o Read(t)
<1>1. /\ u \in Seq(Part) /\ Len(u) = Len(s) + Len(t)
      /\ \A i \in 1..Len(s) : u[i] = s[i]
      /\ \A i \in 1..Len(t) : u[Len(s) + i] = t[i]
  BY Joined
<1>2. /\ Read(s) \in Seq(Part) /\ Len(Read(s)) = Len(s)
      /\ \A i \in 1..Len(s) : Read(s)[i] = PathUnescape(s[i])
  BY ReadParts
<1>3. /\ Read(t) \in Seq(Part) /\ Len(Read(t)) = Len(t)
      /\ \A i \in 1..Len(t) : Read(t)[i] = PathUnescape(t[i])
  BY ReadParts
<1>4. /\ v \in Seq(Part) /\ Len(v) = Len(s) + Len(t)
      /\ \A i \in 1..Len(s) : v[i] = Read(s)[i]
      /\ \A i \in 1..Len(t) : v[Len(s) + i] = Read(t)[i]
  <2>1. PICK a \in Seq(Part), b \in Seq(Part) : a = Read(s) /\ b = Read(t)
    BY <1>2, <1>3
  <2>2. /\ a \o b \in Seq(Part) /\ Len(a \o b) = Len(a) + Len(b)
        /\ \A i \in 1..Len(a) : (a \o b)[i] = a[i]
        /\ \A i \in 1..Len(b) : (a \o b)[Len(a) + i] = b[i]
    BY Joined
  <2> QED BY <1>2, <1>3, <2>1, <2>2
<1>5. /\ Read(u) \in Seq(Part) /\ Len(Read(u)) = Len(u)
      /\ \A i \in 1..Len(u) : Read(u)[i] = PathUnescape(u[i])
  BY <1>1, ReadParts
<1>6. Len(s) \in Nat /\ Len(t) \in Nat
  OBVIOUS
<1> HIDE DEF u, v
<1>7. ASSUME NEW i \in 1..Len(u) PROVE Read(u)[i] = v[i]
  <2>1. CASE i <= Len(s)
    <3>1. i \in 1..Len(s)
      BY <1>1, <1>6, <2>1
    <3> QED BY <1>1, <1>2, <1>4, <1>5, <3>1
  <2>2. CASE ~(i <= Len(s))
    <3>0. i - Len(s) \in 1..Len(t)
      BY <1>1, <1>6, <2>2
    <3>1. PICK k \in 1..Len(t) : i - Len(s) = k
      BY <3>0
    <3>2. i = Len(s) + k
      BY <1>6, <3>1
    <3> QED BY <1>1, <1>3, <1>4, <1>5, <3>2
  <2> QED BY <2>1, <2>2
<1>8. Read(u) = v
  BY <1>1, <1>4, <1>5, <1>7
<1> QED BY <1>8 DEF u, v

\* The equation of FlattenSeq, up to a length.
FlatBy(s, n, f) == [i \in 1..n |-> IF i = 1 THEN s[i] ELSE f[i - 1] \o s[i]]

LEMMA FlatExists ==
    ASSUME NEW s, NEW n \in Nat
    PROVE  \E f : f = FlatBy(s, n, f)
<1> DEFINE T == {k \in Nat : ~\E f : f = FlatBy(s, k, f)}
<1> SUFFICES ASSUME T # {} PROVE FALSE
  OBVIOUS
<1>1. PICK k \in T : \A l \in T : k <= l
  BY LeastNat
<1>2. k \in Nat /\ ~\E f : f = FlatBy(s, k, f)
  OBVIOUS
<1>3. k # 0
  <2>1. SUFFICES ASSUME k = 0 PROVE FALSE
    OBVIOUS
  <2> DEFINE f == [i \in 1..0 |-> i]
  <2>2. f = FlatBy(s, 0, f)
    BY DEF FlatBy
  <2> QED BY <1>2, <2>1, <2>2
<1>4. PICK l \in Nat : k = l + 1
  <2>1. k - 1 \in Nat /\ k = (k - 1) + 1
    BY <1>2, <1>3
  <2> QED BY <2>1
<1>5. PICK f : f = FlatBy(s, l, f)
  <2>1. l \notin T
    BY <1>1, <1>4
  <2> QED BY <2>1
<1> DEFINE g == [i \in 1..k |-> IF i <= l THEN f[i]
                                ELSE IF i = 1 THEN s[i] ELSE f[i - 1] \o s[i]]
<1>6. \A i \in 1..l : f[i] = IF i = 1 THEN s[i] ELSE f[i - 1] \o s[i]
  BY <1>5 DEF FlatBy
<1>7. ASSUME NEW i \in 1..k PROVE g[i] = IF i = 1 THEN s[i] ELSE g[i - 1] \o s[i]
  <2>1. CASE i = 1
    <3>1. CASE i <= l
      BY <1>4, <1>6, <2>1, <3>1
    <3>2. CASE ~(i <= l)
      BY <2>1, <3>2
    <3> QED BY <3>1, <3>2
  <2>2. CASE i # 1
    <3>1. i - 1 \in 1..l /\ i - 1 \in 1..k
      BY <1>4, <2>2
    <3>2. g[i - 1] = f[i - 1]
      BY <3>1
    <3>3. g[i] = f[i - 1] \o s[i]
      <4>1. CASE i <= l
        <5>1. i \in 1..l
          BY <1>4, <4>1
        <5>2. g[i] = f[i]
          BY <4>1
        <5> QED BY <1>6, <2>2, <5>1, <5>2
      <4>2. CASE ~(i <= l)
        BY <2>2, <4>2
      <4> QED BY <4>1, <4>2
    <3> QED BY <2>2, <3>2, <3>3
  <2> QED BY <2>1, <2>2
<1>8. g = FlatBy(s, k, g)
  <2>1. DOMAIN g = 1..k /\ g = [i \in 1..k |-> g[i]]
    OBVIOUS
  <2> HIDE DEF g
  <2> QED BY <1>7, <2>1 DEF FlatBy
<1> QED BY <1>2, <1>8

LEMMA FlattenBy ==
    ASSUME NEW s, NEW n \in Nat, n > 0, Len(s) = n
    PROVE  \E f : FlattenSeq(s) = f[n] /\ f[1] = s[1]
                  /\ \A i \in 2..n : f[i] = f[i - 1] \o s[i]
<1> DEFINE f == CHOOSE g : g = FlatBy(s, n, g)
<1>1. f = FlatBy(s, n, f)
  BY FlatExists
<1>2. FlattenSeq(s) = f[n]
  BY DEF FlattenSeq, FlatBy
<1> HIDE DEF f
<1>3. ASSUME NEW i \in 1..n PROVE f[i] = IF i = 1 THEN s[i] ELSE f[i - 1] \o s[i]
  <2>1. FlatBy(s, n, f)[i] = IF i = 1 THEN s[i] ELSE f[i - 1] \o s[i]
    BY Zenon DEF FlatBy
  <2> QED BY <1>1, <2>1, Zenon
<1>4. 1 \in 1..n /\ \A i \in 2..n : i \in 1..n /\ i # 1
  OBVIOUS
<1>5. f[1] = s[1] /\ \A i \in 2..n : f[i] = f[i - 1] \o s[i]
  BY <1>3, <1>4, Zenon
<1> QED BY <1>2, <1>5

LEMMA FitParts == \A t \in Seq(Fit) : t \in Seq(Part)
<1> TAKE t \in Seq(Fit)
<1>1. Len(t) \in Nat /\ t = [i \in 1..Len(t) |-> t[i]] /\ \A i \in 1..Len(t) : t[i] \in Fit
  OBVIOUS
<1>2. \A i \in 1..Len(t) : t[i] \in Part
  BY <1>1 DEF Fit
<1> QED BY <1>1, <1>2

\* What FlattenSeq makes of sequences that are not empty, and that it may be read before
\* or after.
LEMMA Flattened ==
    ASSUME NEW n \in Nat, n > 0, NEW s, Len(s) = n, NEW t, Len(t) = n,
           \A i \in 1..n : s[i] \in Seq(Fit) /\ Len(s[i]) > 0 /\ t[i] = Read(s[i])
    PROVE  LET F == FlattenSeq(s) IN
           /\ F \in Seq(Fit) /\ Len(F) >= n /\ F[1] = s[1][1]
           /\ n = 1 => F = s[1]
           /\ n > 1 /\ Len(s[1]) = 1 => F[2] = s[2][1]
           /\ FlattenSeq(t) = Read(F)
<1>1. PICK f : FlattenSeq(s) = f[n] /\ f[1] = s[1]
               /\ \A i \in 2..n : f[i] = f[i - 1] \o s[i]
  BY FlattenBy
<1>2. PICK g : FlattenSeq(t) = g[n] /\ g[1] = t[1]
               /\ \A i \in 2..n : g[i] = g[i - 1] \o t[i]
  BY FlattenBy
<1> DEFINE P(i) == /\ f[i] \in Seq(Fit) /\ Len(f[i]) >= i /\ f[i][1] = s[1][1]
                   /\ i = 1 => f[i] = s[1]
                   /\ i > 1 /\ Len(s[1]) = 1 => f[i][2] = s[2][1]
                   /\ g[i] = Read(f[i])
<1>3. P(1)
  BY <1>1, <1>2
<1>4. ASSUME NEW i \in 1..n, i > 1, P(i - 1) PROVE P(i)
  <2>1. PICK a \in Seq(Fit) : a = f[i - 1]
    BY <1>4
  <2>2. PICK b \in Seq(Fit) : b = s[i] /\ Len(b) > 0
    OBVIOUS
  <2>3. i \in 2..n /\ i - 1 \in Nat /\ i - 1 >= 1
    BY <1>4
  <2>4. f[i] = a \o b /\ g[i] = g[i - 1] \o t[i]
    BY <1>1, <1>2, <2>1, <2>2, <2>3
  <2>5. /\ a \o b \in Seq(Fit) /\ Len(a \o b) = Len(a) + Len(b)
        /\ \A k \in 1..Len(a) : (a \o b)[k] = a[k]
        /\ \A k \in 1..Len(b) : (a \o b)[Len(a) + k] = b[k]
    BY Joined
  <2>6. Len(a) \in Nat /\ Len(b) \in Nat /\ Len(a) >= i - 1 /\ a[1] = s[1][1]
    BY <1>4, <2>1
  <2>7. Len(a \o b) >= i /\ (a \o b)[1] = s[1][1]
    BY <2>2, <2>3, <2>5, <2>6
  <2>8. ASSUME Len(s[1]) = 1 PROVE (a \o b)[2] = s[2][1]
    <3>1. CASE i = 2
      <4>1. a = s[1]
        BY <1>4, <2>1, <3>1
      <4>2. (a \o b)[2] = b[1]
        BY <2>2, <2>5, <2>6, <2>8, <4>1
      <4> QED BY <2>2, <3>1, <4>2
    <3>2. CASE i > 2
      <4>1. a[2] = s[2][1] /\ 2 \in 1..Len(a)
        BY <1>4, <2>1, <2>3, <2>6, <2>8, <3>2
      <4> QED BY <2>5, <4>1
    <3>3. i = 2 \/ i > 2
      BY <2>3
    <3> QED BY <3>1, <3>2, <3>3
  <2>9. g[i] = Read(a \o b)
    <3>1. a \in Seq(Part) /\ b \in Seq(Part)
      BY FitParts
    <3>2. Read(a \o b) = Read(a) \o Read(b)
      BY <3>1, ReadJoined
    <3>3. g[i - 1] = Read(a)
      BY <1>4, <2>1
    <3>4. t[i] = Read(b)
      BY <2>2
    <3> QED BY <2>4, <3>2, <3>3, <3>4
  <2>10. i # 1
    BY <2>3
  <2>11. f[i] \in Seq(Fit) /\ Len(f[i]) >= i /\ f[i][1] = s[1][1] /\ g[i] = Read(f[i])
    BY <2>4, <2>5, <2>7, <2>9
  <2>12. Len(s[1]) = 1 => f[i][2] = s[2][1]
    BY <2>4, <2>8
  <2> QED BY <2>10, <2>11, <2>12
<1>5. P(n)
  <2> DEFINE T == {i \in 1..n : ~P(i)}
  <2> HIDE DEF P
  <2>1. SUFFICES ASSUME n \in T PROVE FALSE
    OBVIOUS
  <2>2. T \in SUBSET Nat /\ T # {}
    BY <2>1
  <2>3. PICK i \in T : \A j \in T : i <= j
    BY <2>2, LeastNat
  <2>4. i \in 1..n /\ ~P(i)
    BY <2>3
  <2>5. i # 1
    BY <1>3, <2>4
  <2>6. i > 1 /\ i - 1 \in 1..n /\ ~(i <= i - 1)
    BY <2>4, <2>5
  <2>7. P(i - 1)
    BY <2>3, <2>6
  <2> QED BY <1>4, <2>4, <2>6, <2>7
<1> QED BY <1>1, <1>2, <1>5

\* Ids as a caller gives them.
Given == Part \ {OddEscaped}

LEMMA IdParts == \A v \in IdTexts : v \in Seq(Given) /\ v # <<>>
<1> TAKE v \in IdTexts
<1>1. v \in Seq(STRING \ {OddEscaped}) /\ v # <<>>
  BY ClientAssumption
<1>2. Len(v) \in Nat /\ v = [i \in 1..Len(v) |-> v[i]]
      /\ \A i \in 1..Len(v) : v[i] \in STRING \ {OddEscaped}
  BY <1>1
<1>3. \A i \in 1..Len(v) : v[i] \in Given
  BY <1>2 DEF Given, Part
<1> QED BY <1>1, <1>2, <1>3

\* Escaping makes a usable part fit, and the backend undoes it.
LEMMA Escapes ==
    \A x \in Given : TrimSpace(x) \notin Unusable =>
        PathEscape(x) \in Fit /\ PathUnescape(PathEscape(x)) = x
<1> SUFFICES ASSUME NEW x \in Given, TrimSpace(x) \notin Unusable
             PROVE  PathEscape(x) \in Fit /\ PathUnescape(PathEscape(x)) = x
  OBVIOUS
<1>1. x \in Part /\ x # OddEscaped /\ x # Blank /\ x \notin Unusable
  BY DEF Given, TrimSpace, Unusable
<1>2. OddEscaped \in Part /\ OddEscaped \notin Unusable \cup {Blank, Odd}
  BY DEF Part, Unusable, NoText, Blank, Odd, OddEscaped
<1>3. PathEscape(x) = IF x = Odd THEN OddEscaped ELSE x
  BY DEF PathEscape
<1>4. PathUnescape(OddEscaped) = Odd /\ PathUnescape(x) = x
  BY <1>1 DEF PathUnescape
<1>5. CASE x = Odd
  BY <1>2, <1>3, <1>4, <1>5 DEF Fit
<1>6. CASE x # Odd
  BY <1>1, <1>3, <1>4, <1>6 DEF Fit
<1> QED BY <1>5, <1>6

LEMMA OneRead ==
    ASSUME NEW x
    PROVE  Read(<<x>>) = <<PathUnescape(x)>>
  BY DEF Read

LEMMA SegmentFits ==
    ASSUME NEW v \in IdTexts, Segment(v) # Invalid
    PROVE  Segment(v) \in Seq(Fit) /\ Len(Segment(v)) > 0 /\ <<v[1]>> = Read(Segment(v))
<1>1. v \in Seq(Given) /\ v # <<>>
  BY IdParts
<1>2. TrimSpace(v[1]) \notin Unusable /\ Segment(v) = <<PathEscape(v[1])>>
  BY DEF Segment
<1>3. v[1] \in Given
  BY <1>1
<1>4. PICK y \in Fit : y = PathEscape(v[1]) /\ PathUnescape(y) = v[1]
  BY <1>2, <1>3, Escapes
<1>5. <<y>> \in Seq(Fit) /\ Len(<<y>>) > 0
  OBVIOUS
<1>6. Read(<<y>>) = <<v[1]>>
  BY <1>4, OneRead
<1> QED BY <1>2, <1>4, <1>5, <1>6

LEMMA Reversed == ASSUME NEW S, NEW t \in Seq(S) PROVE Reverse(t) \in Seq(S)
<1>1. Len(t) \in Nat /\ \A i \in 1..Len(t) : (Len(t) - i) + 1 \in 1..Len(t)
  OBVIOUS
<1>2. \A i \in 1..Len(t) : t[(Len(t) - i) + 1] \in S
  BY <1>1
<1> QED BY <1>1, <1>2 DEF Reverse

LEMMA SlashFits ==
    ASSUME NEW v \in IdTexts, SlashPath(v) # Invalid
    PROVE  SlashPath(v) \in Seq(Fit) /\ Len(SlashPath(v)) > 0 /\ TrimSlashes(v) = Read(SlashPath(v))
<1> DEFINE w == TrimSlashes(v)
<1>1. w \in Seq(Given)
  <2>1. v \in Seq(Given)
    BY IdParts
  <2>2. PICK a \in Seq(Given) : a = TrimRightSlashes(v)
    BY <2>1, TrimRight
  <2>3. PICK b \in Seq(Given) : b = Reverse(a)
    BY Reversed
  <2>4. PICK c \in Seq(Given) : c = TrimRightSlashes(b)
    BY TrimRight
  <2>5. Reverse(c) \in Seq(Given)
    BY Reversed
  <2> QED BY <2>2, <2>3, <2>4, <2>5 DEF TrimSlashes
<1> HIDE DEF w
<1>2. (\A i \in DOMAIN w : TrimSpace(w[i]) \notin Unusable)
      /\ SlashPath(v) = [i \in DOMAIN w |-> PathEscape(w[i])]
  BY DEF SlashPath, w
<1>3. DOMAIN w = 1..Len(w) /\ Len(w) \in Nat /\ \A i \in 1..Len(w) : w[i] \in Given
  BY <1>1
<1>4. \A i \in 1..Len(w) : PathEscape(w[i]) \in Fit /\ PathUnescape(PathEscape(w[i])) = w[i]
  BY <1>2, <1>3, Escapes
<1> DEFINE A == [i \in 1..Len(w) |-> PathEscape(w[i])]
<1>5. SlashPath(v) = A
  BY <1>2, <1>3
<1>6. A \in Seq(Fit) /\ Len(A) = Len(w) /\ DOMAIN A = 1..Len(w)
      /\ \A i \in 1..Len(w) : A[i] = PathEscape(w[i])
  BY <1>3, <1>4
<1> HIDE DEF A
<1>7. Len(A) > 0
  BY <1>5, <1>6 DEF Invalid
<1>8. Read(A) = [i \in 1..Len(w) |-> w[i]]
  BY <1>4, <1>6 DEF Read
<1>9. w = [i \in 1..Len(w) |-> w[i]]
  BY <1>1
<1> QED BY <1>5, <1>6, <1>7, <1>8, <1>9 DEF w

LEMMA RawFits ==
    ASSUME NEW v \in IdTexts, Len(v) = 1, v[1] \notin Unusable \cup {Blank, Odd}
    PROVE  v \in Seq(Fit) /\ Len(v) > 0 /\ <<v[1]>> = Read(v)
<1>1. v \in Seq(Given)
  BY IdParts
<1>2. PICK x \in Given : x = v[1] /\ v = <<x>>
  BY <1>1
<1>3. x \in Fit /\ x # OddEscaped
  BY <1>2 DEF Given, Fit
<1>4. <<x>> \in Seq(Fit) /\ Len(<<x>>) > 0
  BY <1>3
<1>5. Read(<<x>>) = <<x>>
  BY <1>3, OneRead DEF PathUnescape
<1> QED BY <1>2, <1>4, <1>5

LEMMA WordFits ==
    ASSUME NEW w \in Words
    PROVE  <<w>> \in Seq(Fit) /\ Len(<<w>>) = 1 /\ <<w>> = Read(<<w>>) /\ <<w>>[1] = w
<1>1. w \in Fit /\ w # OddEscaped
  BY PlainWords DEF Fit, Part
<1>2. Read(<<w>>) = <<w>>
  BY <1>1, OneRead DEF PathUnescape
<1> QED BY <1>1, <1>2

\* The two sides of a route, part by part.
LEMMA PartsFit ==
    ASSUME NEW op \in Ops, op.method # "none", NEW ids \in [Params(op) -> IdTexts],
           ~Refuses(op, ids, {}),
           \A p \in Params(op) \cap RawParams :
               Len(ids[p]) = 1 /\ ids[p][1] \notin Unusable \cup {Blank, Odd},
           NEW w \in Words \cup AllParams, w \in ToSet(op.route)
    PROVE  LET a == IF w \in DOMAIN ids THEN PathParam(w, ids[w]) ELSE <<w>>
               m == IF w \in SlashParams THEN TrimSlashes(ids[w])
                    ELSE IF w \in Params(op) THEN <<ids[w][1]>>
                    ELSE <<w>>
           IN  a \in Seq(Fit) /\ Len(a) > 0 /\ m = Read(a) /\ (w \in Words => a = <<w>>)
<1>1. DOMAIN ids = Params(op) /\ (w \in Params(op) <=> w \in AllParams)
  BY DEF Params
<1>2. CASE w \in Words
  <2>1. w \notin AllParams
    BY <1>2, PlainWords
  <2>2. w \notin DOMAIN ids /\ w \notin SlashParams /\ w \notin Params(op)
    BY <1>1, <2>1 DEF AllParams
  <2>3. <<w>> \in Seq(Fit) /\ Len(<<w>>) = 1 /\ <<w>> = Read(<<w>>)
    BY <1>2, WordFits
  <2>4. Len(<<w>>) > 0
    OBVIOUS
  <2> QED BY <2>2, <2>3, <2>4
<1>3. CASE w \notin Words
  <2>1. w \in AllParams /\ w \in Params(op) /\ w \in DOMAIN ids
    BY <1>1, <1>3
  <2>2. PICK v \in IdTexts : v = ids[w]
    BY <2>1
  <2>3. PathParam(w, v) # Invalid
    BY <2>1, <2>2 DEF Refuses
  <2>4. CASE w \in SegmentParams
    <3>1. w \notin SlashParams
      BY <2>4 DEF SegmentParams, SlashParams
    <3>2. PathParam(w, v) = Segment(v)
      BY <2>4 DEF PathParam
    <3>3. Segment(v) \in Seq(Fit) /\ Len(Segment(v)) > 0 /\ <<v[1]>> = Read(Segment(v))
      BY <2>3, <3>2, SegmentFits
    <3> QED BY <1>3, <2>1, <2>2, <3>1, <3>2, <3>3
  <2>5. CASE w \in SlashParams
    <3>1. w \notin SegmentParams
      BY <2>5 DEF SegmentParams, SlashParams
    <3>2. PathParam(w, v) = SlashPath(v)
      BY <2>5, <3>1 DEF PathParam
    <3>3. SlashPath(v) \in Seq(Fit) /\ Len(SlashPath(v)) > 0 /\ TrimSlashes(v) = Read(SlashPath(v))
      BY <2>3, <3>2, SlashFits
    <3> QED BY <1>3, <2>1, <2>2, <2>5, <3>2, <3>3
  <2>6. CASE w \in RawParams
    <3>1. w \notin SlashParams /\ w \notin SegmentParams
      BY <2>6 DEF SegmentParams, SlashParams, RawParams
    <3>2. PathParam(w, v) = v
      BY <3>1 DEF PathParam
    <3>3. v \in Seq(Fit) /\ Len(v) > 0 /\ <<v[1]>> = Read(v)
      BY <2>1, <2>2, <2>6, RawFits
    <3> QED BY <1>3, <2>1, <2>2, <3>1, <3>2, <3>3
  <2> QED BY <2>1, <2>4, <2>5, <2>6 DEF AllParams
<1> QED BY <1>2, <1>3

\* The filled route fits into a URL, begins like the route, and is read as it is meant.
LEMMA FilledRoute ==
    ASSUME NEW op \in Ops, op.method # "none", NEW ids \in [Params(op) -> IdTexts],
           ~Refuses(op, ids, {}),
           \A p \in Params(op) \cap RawParams :
               Len(ids[p]) = 1 /\ ids[p][1] \notin Unusable \cup {Blank, Odd}
    PROVE  LET F == Fill(op.route, ids) IN
           /\ F \in Seq(Fit) /\ Len(F) >= Len(op.route) /\ F[1] = op.route[1]
           /\ Len(op.route) = 1 => Len(F) = 1
           /\ op.route[1] = "auth" => F[2] = "token"
           /\ Meant(op, ids) = Read(F)
<1> DEFINE R == op.route
           s == [i \in DOMAIN R |-> IF R[i] \in DOMAIN ids THEN PathParam(R[i], ids[R[i]])
                                    ELSE <<R[i]>>]
           t == [i \in DOMAIN R |-> IF R[i] \in SlashParams THEN TrimSlashes(ids[R[i]])
                                    ELSE IF R[i] \in Params(op) THEN <<ids[R[i]][1]>>
                                    ELSE <<R[i]>>]
           n == Len(R)
<1>1. /\ R \in Seq(Words \cup AllParams) /\ n > 0 /\ R[1] \in Heads
      /\ R[1] = "auth" => R = <<"auth", "token", "exchange">>
  BY RouteWords
<1>2. n \in Nat /\ DOMAIN R = 1..n /\ \A i \in 1..n : R[i] \in Words \cup AllParams
  BY <1>1
<1>3. \A i \in 1..n : R[i] \in ToSet(R)
  BY <1>2 DEF ToSet
<1>4. Fill(R, ids) = FlattenSeq(s) /\ Meant(op, ids) = FlattenSeq(t)
  BY DEF Fill, Meant
<1>5. Len(s) = n /\ Len(t) = n
  BY <1>2
<1>6. ASSUME NEW i \in 1..n
      PROVE  s[i] \in Seq(Fit) /\ Len(s[i]) > 0 /\ t[i] = Read(s[i])
             /\ (R[i] \in Words => s[i] = <<R[i]>>)
  <2>1. PICK w \in Words \cup AllParams : w = R[i] /\ w \in ToSet(R)
    BY <1>2, <1>3
  <2>2. s[i] = IF w \in DOMAIN ids THEN PathParam(w, ids[w]) ELSE <<w>>
    BY <1>2, <2>1
  <2>3. t[i] = IF w \in SlashParams THEN TrimSlashes(ids[w])
               ELSE IF w \in Params(op) THEN <<ids[w][1]>> ELSE <<w>>
    BY <1>2, <2>1
  <2> DEFINE a == IF w \in DOMAIN ids THEN PathParam(w, ids[w]) ELSE <<w>>
             m == IF w \in SlashParams THEN TrimSlashes(ids[w])
                  ELSE IF w \in Params(op) THEN <<ids[w][1]>> ELSE <<w>>
  <2>4. a \in Seq(Fit) /\ Len(a) > 0 /\ m = Read(a) /\ (w \in Words => a = <<w>>)
    BY <2>1, PartsFit
  <2>5. s[i] = a /\ t[i] = m
    BY <2>2, <2>3
  <2> HIDE DEF a, m, s, t
  <2> QED BY <2>1, <2>4, <2>5
<1> HIDE DEF s, t
<1> DEFINE F == FlattenSeq(s)
<1>7. /\ F \in Seq(Fit) /\ Len(F) >= n /\ F[1] = s[1][1]
      /\ n = 1 => F = s[1]
      /\ n > 1 /\ Len(s[1]) = 1 => F[2] = s[2][1]
      /\ FlattenSeq(t) = Read(F)
  <2> HIDE DEF n
  <2>1. \A i \in 1..n : s[i] \in Seq(Fit) /\ Len(s[i]) > 0 /\ t[i] = Read(s[i])
    BY <1>6
  <2>2. n \in Nat /\ n > 0
    BY <1>1, <1>2
  <2> QED BY <1>5, <2>1, <2>2, Flattened
<1> HIDE DEF F
<1>8. R[1] \in Words /\ 1 \in 1..n
  BY <1>1, <1>2, HeadWords
<1>9. s[1] = <<R[1]>> /\ Len(s[1]) = 1 /\ s[1][1] = R[1]
  <2>1. s[1] = <<R[1]>>
    BY <1>6, <1>8
  <2>2. Len(<<R[1]>>) = 1 /\ <<R[1]>>[1] = R[1]
    OBVIOUS
  <2> QED BY <2>1, <2>2
<1>10. ASSUME R[1] = "auth" PROVE F[2] = "token"
  <2>1. R = <<"auth", "token", "exchange">>
    BY <1>1, <1>10
  <2>2. n = 3 /\ R[2] = "token"
    BY <2>1
  <2>3. s[2] = <<"token">>
    BY <1>6, <2>2 DEF Words
  <2>4. <<"token">>[1] = "token"
    OBVIOUS
  <2> QED BY <1>7, <1>9, <2>2, <2>3, <2>4
<1>11. n = 1 => Len(F) = 1
  BY <1>7, <1>9
<1> QED BY <1>4, <1>7, <1>9, <1>10, <1>11 DEF F

LEMMA RequestedWhole ==
    ASSUME NEW url \in Seq(Part), \A i \in 1..Len(url) : url[i] # Odd
    PROVE  Requested(url) = url
<1>1. {i \in 1..Len(url) : url[i] = Odd} = {}
  OBVIOUS
<1>2. SelectInSeq(url, LAMBDA p : p = Odd) = 0
  BY <1>1 DEF SelectInSeq
<1> QED BY <1>2 DEF Requested

\* Neither part of a URL has a part that ends it, and the backend reads the base path
\* as it is.
LEMMA BaseIsRead ==
    ASSUME PlainConfiguration, NEW base \in ConfiguredBases
    PROVE  Read(Effectual(base)) = Effectual(base)
<1> DEFINE B == Effectual(base)
<1>1. B \in Seq(Part) /\ \A i \in 1..Len(B) : B[i] \notin {Odd, OddEscaped}
  BY BaseParts
<1> HIDE DEF B
<1>2. \A i \in 1..Len(B) : PathUnescape(B[i]) = B[i]
  BY <1>1 DEF PathUnescape
<1>3. Read(B) \in Seq(Part) /\ Len(Read(B)) = Len(B)
      /\ \A i \in 1..Len(B) : Read(B)[i] = PathUnescape(B[i])
  BY <1>1, ReadParts
<1>4. Read(B) = B
  BY <1>1, <1>2, <1>3
<1> QED BY <1>4 DEF B

LEMMA JoinedPlain ==
    ASSUME NEW s \in Seq(Part), NEW t \in Seq(Part),
           \A i \in 1..Len(s) : s[i] # Odd, \A i \in 1..Len(t) : t[i] # Odd
    PROVE  s \o t \in Seq(Part) /\ \A i \in 1..Len(s \o t) : (s \o t)[i] # Odd
<1> DEFINE u == s \o t
<1>1. /\ u \in Seq(Part) /\ Len(u) = Len(s) + Len(t)
      /\ \A i \in 1..Len(s) : u[i] = s[i]
      /\ \A i \in 1..Len(t) : u[Len(s) + i] = t[i]
  BY Joined
<1>2. Len(s) \in Nat /\ Len(t) \in Nat
  OBVIOUS
<1> HIDE DEF u
<1>3. ASSUME NEW i \in 1..Len(u) PROVE u[i] # Odd
  <2>1. CASE i <= Len(s)
    <3>1. i \in 1..Len(s)
      BY <1>1, <1>2, <2>1
    <3> QED BY <1>1, <3>1
  <2>2. CASE ~(i <= Len(s))
    <3>0. i - Len(s) \in 1..Len(t)
      BY <1>1, <1>2, <2>2
    <3>1. PICK k \in 1..Len(t) : i - Len(s) = k
      BY <3>0
    <3>2. i = Len(s) + k
      BY <1>2, <3>1
    <3> QED BY <1>1, <3>2
  <2> QED BY <2>1, <2>2
<1> QED BY <1>1, <1>3 DEF u

LEMMA TailOK ==
    ASSUME NEW t \in Seq(Fit), Len(t) > 0
    PROVE  Tail(t) \in Seq(Fit) /\ Read(Tail(t)) = Tail(Read(t))
<1>1. PICK n \in Nat : n = Len(t)
  OBVIOUS
<1>2. t \in Seq(Part) /\ Tail(t) \in Seq(Fit)
  BY FitParts
<1>3. Tail(t) \in Seq(Part)
  BY <1>2, FitParts
<1>4. Read(t) \in Seq(Part) /\ Len(Read(t)) = Len(t)
      /\ \A i \in 1..Len(t) : Read(t)[i] = PathUnescape(t[i])
  BY <1>2, ReadParts
<1> DEFINE u == Tail(t)
           v == Tail(Read(t))
           w == Read(u)
<1>5. u \in Seq(Part) /\ Len(u) = n - 1 /\ \A i \in 1..(n - 1) : u[i] = t[i + 1] /\ i + 1 \in 1..n
  BY <1>1, <1>3
<1>6. PICK r \in Seq(Part) : r = Read(t) /\ Len(r) = n
  BY <1>1, <1>4
<1>7. v \in Seq(Part) /\ Len(v) = n - 1 /\ \A i \in 1..(n - 1) : v[i] = r[i + 1]
  BY <1>1, <1>6
<1>8. w \in Seq(Part) /\ Len(w) = Len(u) /\ \A i \in 1..Len(u) : w[i] = PathUnescape(u[i])
  BY <1>3, ReadParts
<1> HIDE DEF u, v, w
<1>9. \A i \in 1..(n - 1) : w[i] = v[i]
  BY <1>1, <1>4, <1>5, <1>6, <1>7, <1>8
<1>10. w = v
  BY <1>5, <1>7, <1>8, <1>9
<1> QED BY <1>2, <1>10 DEF u, v, w

\* Every part of a sequence that fits is plain, usable and not a blank.
LEMMA FitOK ==
    ASSUME NEW t \in Seq(Fit)
    PROVE  /\ t \in Seq(Part)
           /\ \A i \in 1..Len(t) : t[i] \notin Unusable /\ t[i] # Blank /\ t[i] # Odd
<1>1. \A i \in 1..Len(t) : t[i] \in Fit
  OBVIOUS
<1> QED BY <1>1, FitParts DEF Fit

\* A root route, by its first part.
LEMMA RootFirst ==
    ASSUME NEW t \in Seq(Part), NEW q, NEW w, t # <<>>, t[1] = w, <<w>> \in Roots, w \in Part,
           Len(t) > 1 \/ ~q
    PROVE  isRootRoute([parts |-> t, query |-> q])
<1> DEFINE s == <<w>>
           p == [parts |-> t, query |-> q]
<1>1. IsPrefix(s, t)
  BY OnePrefix
<1>2. Len(s) = 1
  OBVIOUS
<1>3. Len(t) > 1 => t # s
  <2>1. ~(1 > 1)
    OBVIOUS
  <2> QED BY <1>2, <2>1, Zenon
<1>4. p.parts = t /\ p.query = q
  OBVIOUS
<1> HIDE DEF s, p
<1>5. Under(p, s)
  BY <1>1, <1>3, <1>4 DEF Under, IsStrictPrefix
<1>6. s \in Roots
  BY DEF s
<1> QED BY <1>5, <1>6, RootByParts DEF p

LEMMA NotRoot ==
    ASSUME NEW t \in Seq(Part), NEW q, t # <<>>, t[1] \in {"v1", "blockchain"}
    PROVE  ~isRootRoute([parts |-> t, query |-> q])
<1>1. ASSUME NEW prefix \in Roots PROVE ~Under([parts |-> t, query |-> q], prefix)
  <2>1. prefix \in Seq(Part) /\ Len(prefix) > 0 /\ prefix[1] \notin {"v1", "blockchain"}
    BY RootsOK
  <2> QED BY <2>1, NotUnder
<1> QED BY <1>1, RootByParts

LEMMA TokenRoot ==
    ASSUME NEW t \in Seq(Part), Len(t) > 2, t[1] = "auth", t[2] = "token", NEW q
    PROVE  /\ isRootRoute([parts |-> t, query |-> q])
           /\ IsPrefix(<<"auth", "token">>, t)
<1> DEFINE s == <<"auth", "token">>
           p == [parts |-> t, query |-> q]
<1>1. s \in Seq(Part) /\ Len(s) = 2 /\ s[1] = "auth" /\ s[2] = "token"
  <2>1. "auth" \in Part /\ "token" \in Part
    BY DEF Part, Words
  <2> QED BY <2>1, Pairs
<1>2. s \in Roots
  BY DEF Roots
<1>3. p.parts = t
  OBVIOUS
<1> HIDE DEF s, p
<1>4. \A i \in 1..Len(s) : s[i] = t[i]
  <2>1. \A i \in 1..2 : i = 1 \/ i = 2
    OBVIOUS
  <2> QED BY <1>1, <2>1
<1>5. IsPrefix(s, t)
  BY <1>1, <1>4, PartPrefix
<1>6. t # s
  <2>1. ~(2 > 2)
    OBVIOUS
  <2> QED BY <1>1, <2>1, Zenon
<1>7. Under(p, s)
  BY <1>3, <1>5, <1>6 DEF Under, IsStrictPrefix
<1>8. isRootRoute(p)
  BY <1>2, <1>7, RootByParts DEF p
<1> QED BY <1>5, <1>8 DEF s, p

LEMMA NoToken ==
    ASSUME NEW t \in Seq(Part), t # <<>>, t[1] # "auth"
    PROVE  ~IsPrefix(<<"auth", "token">>, t)
<1> DEFINE s == <<"auth", "token">>
<1>1. s \in Seq(Part) /\ Len(s) = 2 /\ s[1] = "auth"
  <2>1. "auth" \in Part /\ "token" \in Part
    BY DEF Part, Words
  <2> QED BY <2>1, Pairs
<1> HIDE DEF s
<1>2. 1 \in 1..Len(s)
  BY <1>1
<1>3. ~IsPrefix(s, t)
  BY <1>1, <1>2, PartPrefix
<1> QED BY <1>3 DEF s

LEMMA OwnURL ==
    ASSUME PlainConfiguration, NEW base \in ConfiguredBases, NEW op \in Ops, op.method # "none",
           NEW F \in Seq(Fit), Len(F) >= Len(op.route), F[1] = op.route[1],
           op.route[1] = "auth" => F[2] = "token", NEW q \in op.query
    PROVE  LET X == buildURL(base, [parts |-> F, query |-> q]) IN
           /\ X \in Seq(Part) /\ \A i \in 1..Len(X) : X[i] # Odd
           /\ Read(X) = canonicalBackendRoute(Effectual(base), Read(F))
<1> DEFINE B == Effectual(base)
           R == op.route
           p == [parts |-> F, query |-> q]
           X == buildURL(base, p)
           M == Read(F)
           w == F[1]
<1>1. F \in Seq(Part) /\ \A i \in 1..Len(F) : F[i] \notin Unusable /\ F[i] # Blank /\ F[i] # Odd
  BY FitOK
<1>2. /\ Len(R) > 0 /\ w \in Heads /\ (w = "v1" => Len(R) > 1)
      /\ (w = "auth" => Len(R) = 3)
      /\ Len(R) > 1 \/ (w \in {"health", "ready", "version", "metrics"} /\ q = FALSE)
  <2>1. /\ Len(R) > 0 /\ w \in Heads /\ (w = "v1" => Len(R) > 1)
        /\ (w = "auth" => R = <<"auth", "token", "exchange">>)
        /\ Len(R) > 1 \/ (w \in {"health", "ready", "version", "metrics"} /\ op.query = NoQuery)
    BY RouteWords
  <2>2. op.query = NoQuery => q = FALSE
    BY DEF NoQuery
  <2>3. R = <<"auth", "token", "exchange">> => Len(R) = 3
    OBVIOUS
  <2> QED BY <2>1, <2>2, <2>3
<1>3. Len(F) \in Nat /\ Len(R) \in Nat /\ Len(F) > 0 /\ F # <<>>
  <2>1. Len(R) \in Nat
    BY RouteWords
  <2> QED BY <1>1, <1>2, <2>1
<1>4. B \in Seq(Part) /\ Len(B) > 0 /\ \A i \in 1..Len(B) : B[i] # Odd
  BY BaseParts
<1>5. (B[1] = "v1" => B = <<"v1">>) /\ (w # "v1" => B[1] # w)
  <2>1. /\ B[1] = "v1" => B = <<"v1">>
        /\ B[1] # "v1" => B[1] # R[1]
    BY BaseApart
  <2> QED BY <2>1
<1>6. Read(B) = B
  BY BaseIsRead
<1>7. M \in Seq(Part) /\ Len(M) = Len(F) /\ \A i \in 1..Len(F) : M[i] = PathUnescape(F[i])
  BY <1>1, ReadParts
<1>8. M[1] = w /\ M # <<>>
  <2>1. w # OddEscaped
    BY <1>2, HeadWords, PlainWords
  <2>2. 1 \in 1..Len(F)
    BY <1>3
  <2>3. M[1] = w
    BY <1>7, <2>1, <2>2 DEF PathUnescape
  <2> QED BY <1>3, <1>7, <2>3
<1>9. TrimPath(p) = p
  <2>1. Len(F) \in 1..Len(F)
    BY <1>3
  <2>2. F[Len(F)] # Blank
    BY <1>1, <2>1
  <2> QED BY <1>1, <2>2, Untrimmed
<1>10. IsPrefix(<<"v1">>, F) <=> w = "v1"
  <2>1. "v1" \in Part
    BY DEF Part, Words
  <2> QED BY <1>1, <1>3, <2>1, OnePrefix
<1>11. p.parts = F /\ p.query = q
  OBVIOUS
<1>12. ASSUME B[1] # w PROVE ~Under(p, B) /\ ~IsPrefix(B, M)
  <2>1. ~Under(p, B)
    BY <1>1, <1>3, <1>4, <1>12, NotUnder
  <2>2. 1 \in 1..Len(B)
    BY <1>4
  <2>3. IsPrefix(B, M) => B[1] = M[1]
    BY <1>4, <1>7, <2>2, PartPrefix
  <2> QED BY <1>8, <1>12, <2>1, <2>3
<1>13. ASSUME X = F, canonicalBackendRoute(B, M) = M
       PROVE  X \in Seq(Part) /\ (\A i \in 1..Len(X) : X[i] # Odd)
              /\ Read(X) = canonicalBackendRoute(B, M)
  BY <1>1, <1>13
<1>14. ASSUME NEW t \in Seq(Fit), X = Clean(B \o t), canonicalBackendRoute(B, M) = B \o Read(t)
       PROVE  X \in Seq(Part) /\ (\A i \in 1..Len(X) : X[i] # Odd)
              /\ Read(X) = canonicalBackendRoute(B, M)
  <2>1. t \in Seq(Part) /\ \A i \in 1..Len(t) : t[i] \notin Unusable /\ t[i] # Odd
    BY FitOK
  <2>2. X = B \o t
    BY <1>14, <2>1, CleanJoined
  <2>3. B \o t \in Seq(Part) /\ \A i \in 1..Len(B \o t) : (B \o t)[i] # Odd
    BY <1>4, <2>1, JoinedPlain
  <2>4. Read(B \o t) = Read(B) \o Read(t)
    BY <1>4, <2>1, ReadJoined
  <2> QED BY <1>6, <1>14, <2>2, <2>3, <2>4
<1> HIDE DEF B, M, p, X, R
<1>15. CASE w = "v1" /\ B[1] = "v1"
  <2>1. B = <<"v1">> /\ Len(F) > 1
    BY <1>2, <1>3, <1>5, <1>15 DEF R
  <2>2. Len(<<"v1">>) = 1
    OBVIOUS
  <2>3. F # B
    <3>1. ~(1 > 1)
      OBVIOUS
    <3> QED BY <2>1, <2>2, <3>1, Zenon
  <2>4. Under(p, B)
    BY <1>10, <1>11, <1>15, <2>1, <2>3 DEF Under, IsStrictPrefix
  <2>5. X = F
    BY <1>9, <1>11, <2>4, BuiltAsIs DEF X, B
  <2>6. IsPrefix(B, M)
    <3>1. "v1" \in Part
      BY DEF Part, Words
    <3> QED BY <1>7, <1>8, <1>15, <2>1, <3>1, OnePrefix
  <2>7. canonicalBackendRoute(B, M) = M
    BY <2>6 DEF canonicalBackendRoute
  <2> QED BY <1>13, <2>5, <2>7 DEF X, B, M, p
<1>16. CASE w = "v1" /\ B[1] # "v1"
  <2>1. ~Under(p, B) /\ ~IsPrefix(B, M)
    BY <1>12, <1>16
  <2>2. ~isRootRoute(p)
    BY <1>1, <1>3, <1>16, NotRoot DEF p
  <2>3. Len(F) > 1
    BY <1>2, <1>3, <1>16 DEF R
  <2>4. X = Clean(B \o Tail(F))
    BY <1>9, <1>10, <1>11, <1>16, <2>1, <2>2, <2>3, BuiltAfterBase DEF X, B
  <2>5. Tail(F) \in Seq(Fit) /\ Read(Tail(F)) = Tail(M)
    BY <1>3, TailOK DEF M
  <2>6. WithoutVersion(M) = Tail(M)
    BY <1>7, <1>8, <1>16, VersionOf
  <2>7. "v1" \notin ContractRoots /\ ~IsPrefix(<<"auth", "token">>, M)
    BY <1>7, <1>8, <1>16, NoToken DEF ContractRoots
  <2>8. canonicalBackendRoute(B, M) = B \o Tail(M)
    BY <1>8, <1>16, <2>1, <2>6, <2>7 DEF canonicalBackendRoute
  <2> QED BY <1>14, <2>4, <2>5, <2>8 DEF X, B, M, p
<1>17. CASE w = "blockchain"
  <2>1. ~Under(p, B) /\ ~IsPrefix(B, M)
    BY <1>5, <1>12, <1>17
  <2>2. ~isRootRoute(p)
    BY <1>1, <1>3, <1>17, NotRoot DEF p
  <2>4. X = Clean(B \o F)
    BY <1>9, <1>10, <1>11, <1>17, <2>1, <2>2, BuiltAfterBase DEF X, B
  <2>6. WithoutVersion(M) = M
    BY <1>7, <1>8, <1>17, VersionOf
  <2>7. "blockchain" \notin ContractRoots /\ ~IsPrefix(<<"auth", "token">>, M)
    BY <1>7, <1>8, <1>17, NoToken DEF ContractRoots
  <2>8. canonicalBackendRoute(B, M) = B \o M
    BY <1>8, <1>17, <2>1, <2>6, <2>7 DEF canonicalBackendRoute
  <2> QED BY <1>14, <2>4, <2>8 DEF X, B, M, p
<1>18. CASE w = "auth"
  <2>1. Len(F) > 2 /\ F[2] = "token"
    <3>1. Len(op.route) = 3 /\ F[2] = "token"
      BY <1>2, <1>18 DEF R
    <3>2. \A n \in Nat : n >= 3 => n > 2
      OBVIOUS
    <3> QED BY <1>3, <3>1, <3>2, Zenon
  <2>2. isRootRoute(p)
    BY <1>1, <1>18, <2>1, TokenRoot DEF p
  <2>3. X = F
    BY <1>9, <1>11, <2>2, BuiltAsIs DEF X
  <2>4. Len(M) > 2 /\ M[2] = "token" /\ M[1] = "auth"
    <3>1. 2 \in 1..Len(F)
      BY <1>3, <2>1
    <3>2. PathUnescape("token") = "token"
      BY DEF PathUnescape, OddEscaped
    <3> QED BY <1>7, <1>8, <1>18, <2>1, <3>1, <3>2
  <2>5. IsPrefix(<<"auth", "token">>, M)
    BY <1>7, <2>4, TokenRoot
  <2>6. canonicalBackendRoute(B, M) = M
    BY <2>5 DEF canonicalBackendRoute
  <2> QED BY <1>13, <2>3, <2>6 DEF X, B, M, p
<1>19. CASE w \in {"pam", "scim", ".well-known", "health", "ready", "version", "metrics"}
  <2>1. w \in ContractRoots /\ <<w>> \in Roots /\ w \in Part
    BY <1>19 DEF ContractRoots, Roots, Part, Words
  <2>2. Len(F) > 1 \/ ~q
    BY <1>2, <1>3 DEF R
  <2>3. isRootRoute(p)
    BY <1>1, <1>3, <2>1, <2>2, RootFirst DEF p
  <2>4. X = F
    BY <1>9, <1>11, <2>3, BuiltAsIs DEF X
  <2>5. canonicalBackendRoute(B, M) = M
    BY <1>8, <2>1 DEF canonicalBackendRoute
  <2> QED BY <1>13, <2>4, <2>5 DEF X, B, M, p
<1> QED BY <1>2, <1>15, <1>16, <1>17, <1>18, <1>19 DEF Heads

LEMMA OwnRequest ==
    ASSUME PlainConfiguration, ClientOK, client # None,
           NEW op \in Ops, op.method # "none", NEW ids \in [Params(op) -> IdTexts],
           ~Refuses(op, ids, {}), NEW q \in op.query,
           \A p \in Params(op) \cap RawParams :
               Len(ids[p]) = 1 /\ ids[p][1] \notin Unusable \cup {Blank, Odd}
    PROVE  Read(Requested(Request([parts |-> Fill(op.route, ids), query |-> q])))
             = client.mount \o canonicalBackendRoute(Effectual(client.base), Meant(op, ids))
<1>1. PICK F : F = Fill(op.route, ids)
  OBVIOUS
<1>2. /\ F \in Seq(Fit) /\ Len(F) >= Len(op.route) /\ F[1] = op.route[1]
      /\ op.route[1] = "auth" => F[2] = "token"
      /\ Meant(op, ids) = Read(F)
  BY <1>1, FilledRoute
<1>3. client.base \in ConfiguredBases
  BY DEF ClientOK
<1>4. PICK X : X = buildURL(client.base, [parts |-> F, query |-> q])
  OBVIOUS
<1>5. /\ X \in Seq(Part) /\ \A i \in 1..Len(X) : X[i] # Odd
      /\ Read(X) = canonicalBackendRoute(Effectual(client.base), Read(F))
  BY <1>2, <1>3, <1>4, OwnURL
<1>6. PICK m : m = client.mount
  OBVIOUS
<1>7. m \in Seq(Part) /\ \A i \in 1..Len(m) : m[i] \notin {Odd, OddEscaped}
  BY <1>6, Mounts
<1>8. Read(m) = m
  <2>1. Read(m) \in Seq(Part) /\ Len(Read(m)) = Len(m)
        /\ \A i \in 1..Len(m) : Read(m)[i] = PathUnescape(m[i])
    BY <1>7, ReadParts
  <2>2. \A i \in 1..Len(m) : PathUnescape(m[i]) = m[i]
    BY <1>7 DEF PathUnescape
  <2> QED BY <1>7, <2>1, <2>2
<1>9. m \o X \in Seq(Part) /\ \A i \in 1..Len(m \o X) : (m \o X)[i] # Odd
  BY <1>5, <1>7, JoinedPlain
<1>10. Requested(m \o X) = m \o X
  BY <1>9, RequestedWhole
<1>11. Read(m \o X) = Read(m) \o Read(X)
  BY <1>5, <1>7, ReadJoined
<1>12. Request([parts |-> F, query |-> q]) = m \o X
  BY <1>4, <1>6 DEF Request
<1> QED BY <1>1, <1>2, <1>5, <1>6, <1>8, <1>10, <1>11, <1>12

LEMMA OwnRouteStep ==
    ASSUME PlainConfiguration
    PROVE  Inv /\ OwnRoute /\ [Next]_vars => OwnRoute'
<1> SUFFICES ASSUME Inv, OwnRoute, [Next]_vars PROVE OwnRoute'
  OBVIOUS
<1>1. CASE call' = None
  BY <1>1 DEF OwnRoute, ServiceSent, Sent
<1>2. CASE call' = call /\ client' = client
  <2>1. (ServiceSent' <=> ServiceSent) /\ (UsableIds' <=> UsableIds) /\ BasePath' = BasePath
    BY <1>2 DEF ServiceSent, Sent, UsableIds, BasePath
  <2> QED BY <1>2, <2>1 DEF OwnRoute
<1>3. CASE RawStep
  <2>1. call'.op = None
    BY <1>3 DEF RawStep, RawDo, ClientDoRaw, RawCall
  <2> QED BY <2>1 DEF OwnRoute, ServiceSent
<1>4. CASE ServiceStep
  <2>1. PICK op \in Ops : ServiceRefuses(op) \/ ServiceUnsupported(op) \/ ServiceSends(op)
    BY <1>4 DEF ServiceStep
  <2>2. \A ids, q, outcome : ServiceCall(op, ids, q, outcome) => call'.outcome = outcome
    BY DEF ServiceCall
  <2>3. SUFFICES ASSUME call'.outcome = "sent", UsableIds' PROVE OwnRoute'
    BY DEF OwnRoute, ServiceSent, Sent
  <2>4. ServiceSends(op)
    <3>1. ServiceRefuses(op) => call'.outcome = "refused"
      BY <2>2, Zenon DEF ServiceRefuses
    <3>2. ServiceUnsupported(op) => call'.outcome = "unsupported"
      BY <2>2, Zenon DEF ServiceUnsupported
    <3> QED BY <2>1, <2>3, <3>1, <3>2
  <2>5. op.method # "none"
    BY <2>4 DEF ServiceSends
  <2>6. PICK ids \in [Params(op) -> IdTexts], q \in op.query :
            ~Refuses(op, ids, {}) /\ ServiceCall(op, ids, q, "sent")
    BY <2>4 DEF ServiceSends
  <2>7. call'.op = op /\ call'.ids = ids
        /\ call'.url = Request([parts |-> Fill(op.route, ids), query |-> q])
    BY <2>6 DEF ServiceCall
  <2>8. \A p \in Params(op) \cap RawParams :
            Len(ids[p]) = 1 /\ ids[p][1] \notin Unusable \cup {Blank, Odd}
    BY <2>3, <2>7 DEF UsableIds
  <2>9. client' = client /\ client # None /\ ClientOK
    BY <1>4 DEF ServiceStep, Ready, Inv
  <2>10. Read(Requested(call'.url))
           = client.mount \o canonicalBackendRoute(Effectual(client.base), Meant(op, ids))
    BY <2>5, <2>6, <2>7, <2>8, <2>9, OwnRequest
  <2>11. BasePath' = Effectual(client.base)
    BY <2>9 DEF BasePath, Effectual
  <2>12. Read(Requested(call'.url))
           = client'.mount \o canonicalBackendRoute(BasePath', Meant(call'.op, call'.ids))
    BY <2>7, <2>9, <2>10, <2>11
  <2> QED BY <2>12 DEF OwnRoute, Read
<1> QED BY <1>1, <1>2, <1>3, <1>4, Kinds

\* Every operation of every service asks the backend for its own route with the ids the
\* caller gave, for ids of any length, when the configuration is a plain one.
THEOREM RoutesAreOwn ==
    ASSUME PlainConfiguration
    PROVE  Spec => []OwnRoute
<1>1. Init => OwnRoute
  BY DEF Init, OwnRoute, ServiceSent, Sent
<1> QED BY <1>1, OwnRouteStep, InvHolds, PTL DEF Spec

================================================================================
