-------------------------------- MODULE Services -------------------------------
(***************************************************************************)
(* The operations of the service clients, one definition per part of a     *)
(* service.  An operation checks its required arguments, puts ids into a   *)
(* route and makes one transport call; the ones whose route the backend    *)
(* does not offer only check their arguments and return an error.          *)
(*                                                                         *)
(* In a route $id and $engine are ids that pass through pathutil.Segment,  *)
(* $path passes through pathutil.SlashPath, and <id>, <kind> are formatted *)
(* into the path as they are.                                              *)
(***************************************************************************)
EXTENDS Routes

SegmentParams == {"$id", "$engine"}
SlashParams == {"$path"}
RawParams == {"<id>", "<kind>"}
AllParams == SegmentParams \cup SlashParams \cup RawParams

\* need: the arguments that must not be empty.  query: whether the call has a
\* query string.  The numbers and bodies that calls send are left out.
Op(service, name, method, route, need, query) ==
    [service |-> service, name |-> name, method |-> method, route |-> route,
     need |-> need, query |-> query]

NoQuery == {FALSE}
AQuery == {TRUE}
MayQuery == BOOLEAN

Sends(service, name, method, route, need) == Op(service, name, method, route, need, NoQuery)
Queries(service, name, method, route, need) == Op(service, name, method, route, need, AQuery)
Lists(service, name, route, need) == Op(service, name, "GET", route, need, MayQuery)

\* Returns "not supported by the current backend OpenAPI contract".
Absent(service, name, need) == Op(service, name, "none", <<>>, need, NoQuery)

--------------------------------------------------------------------------------
(* Agents                                                                     *)

agentIdentities == {
    Sends("agent", "Register", "POST", <<"v1", "agents">>,
          {"tenant_id", "name", "agent_type", "owner_id"}),
    Sends("agent", "Get", "GET", <<"v1", "agents", "$id">>, {"$id"}),
    Sends("agent", "Update", "PATCH", <<"v1", "agents", "$id">>, {"$id"}),
    Queries("agent", "Decommission", "DELETE", <<"v1", "agents", "$id">>, {"$id", "reason"}),
    Lists("agent", "List", <<"v1", "agents">>, {}),
    Absent("agent", "GetCard", {"agent_id"}),
    Sends("agent", "Delegate", "POST", <<"v1", "delegation", "delegate">>,
          {"from_agent_id", "to_agent_id", "capabilities"}),
    Absent("agent", "GetDelegationChain", {"delegation_id"}) }

agentBehaviour == {
    Absent("agent", "GetBaseline", {"agent_id"}),
    Sends("agent", "RecalibrateBaseline", "POST",
          <<"v1", "agents", "$id", "recalibrate-baseline">>, {"$id"}),
    Lists("agent", "GetDriftEvents", <<"v1", "agents", "$id", "drift-history">>, {"$id"}),
    Absent("agent", "GetSnapshot", {"agent_id"}),
    Sends("agent", "KillSwitch", "POST", <<"v1", "agents", "kill-all">>,
          {"tenant_id", "reason", "actor"}),
    Sends("agent", "Inventory", "GET", <<"v1", "agents", "inventory">>, {}) }

\* Mutant: an operation is built before the list of pending ones is changed.
agentToolsEarly == {
    Sends("agent", "Suspend", "POST", <<"v1", "agents", "$id", "suspend">>, {"$id", "reason"}) }

agentTools == {
    Sends("agent", "RegisterMCPServer", "POST", <<"v1", "mcp", "servers">>, {"name", "endpoint"}),
    Lists("agent", "ListMCPServers", <<"v1", "mcp", "servers">>, {}),
    Sends("agent", "AuthorizeMCPTool", "POST", <<"v1", "mcp", "authorize">>,
          {"agent_id", "mcp_server", "tool_name"}),
    Absent("agent", "Suspend", {"agent_id", "reason"}),
    Absent("agent", "Reactivate", {"agent_id"}),
    Sends("agent", "DeregisterMCPServer", "DELETE", <<"v1", "mcp", "servers", "$id">>, {"$id"}),
    Sends("agent", "GetMCPServerTools", "GET", <<"v1", "mcp", "servers", "$id", "tools">>, {"$id"}),
    Sends("agent", "CallMCPTool", "POST", <<"v1", "mcp", "call">>, {"server_id", "tool"}) }

--------------------------------------------------------------------------------
(* Governance, policies and privileged access                                 *)

\* DecideCertification requires the campaign id and leaves it out of the route.
governanceCampaigns == {
    Sends("governance", "CreateCampaign", "POST", <<"v1", "governance", "certifications">>,
          {"name", "type"}),
    Sends("governance", "GetCampaign", "GET", <<"v1", "governance", "certifications", "$id">>,
          {"$id"}),
    Lists("governance", "ListCampaigns", <<"v1", "governance", "certifications">>, {}),
    Absent("governance", "GetCertificationItems", {"campaign_id"}),
    Sends("governance", "DecideCertification", "POST",
          <<"v1", "governance", "certifications", "items", "$id", "decide">>,
          {"campaign_id", "$id", "decision"}) }

governanceAccess == {
    Sends("governance", "CreateAccessRequest", "POST", <<"v1", "governance", "access-requests">>,
          {"resource_type", "resource_id", "access_level", "justification"}),
    Absent("governance", "GetAccessRequest", {"request_id"}),
    Lists("governance", "ListAccessRequests", <<"v1", "governance", "access-requests">>, {}),
    Sends("governance", "ApproveAccessRequest", "POST",
          <<"v1", "governance", "access-requests", "$id", "approve">>, {"$id", "decision"}),
    Sends("governance", "CheckSoDViolations", "POST",
          <<"v1", "governance", "entitlements", "sod", "check">>, {"principal_id", "roles"}),
    Absent("governance", "GetPostureScore", {"principal_id"}),
    Absent("governance", "ListEntitlements", {}),
    Absent("governance", "ListAccessBundles", {}),
    Absent("governance", "SetResourceOwner", {"resource_id", "owner_id"}),
    Absent("governance", "GetResourceOwner", {"resource_id"}) }

policyBundles == {
    Sends("policy", "Create", "POST", <<"v1", "policies", "bundles">>, {"name", "rules"}),
    Sends("policy", "Get", "GET", <<"v1", "policies", "bundles", "$id">>, {"$id"}),
    Absent("policy", "Update", {"policy_id"}),
    Absent("policy", "Delete", {"policy_id"}),
    Lists("policy", "List", <<"v1", "policies", "bundles">>, {}),
    Sends("policy", "GetBundleInfo", "GET", <<"v1", "policies", "bundles">>, {}),
    Absent("policy", "RollbackBundle", {"version"}),
    Absent("policy", "CreateNamedLocation", {"name"}),
    Absent("policy", "ListNamedLocations", {}),
    Absent("policy", "DeleteNamedLocation", {"location_id"}) }

\* EnableSimulation and DisableSimulation end in Update.
policyDecisions == {
    Absent("policy", "RequestBreakGlass", {"requester", "approver1", "approver2", "reason"}),
    Absent("policy", "RevokeBreakGlass", {"session_id"}),
    Absent("policy", "ReBAcCheck", {"user", "relation", "object"}),
    Absent("policy", "ReBAcWrite", {"user", "relation", "object"}),
    Absent("policy", "ReBAcDelete", {"user", "relation", "object"}),
    Absent("policy", "EnableSimulation", {"policy_id"}),
    Absent("policy", "DisableSimulation", {"policy_id"}) }

pamSessions == {
    Sends("pam", "RequestElevation", "POST", <<"pam", "elevate">>,
          {"principal_id", "target_resource", "access_level", "justification"}),
    Sends("pam", "RevokeElevation", "POST", <<"pam", "elevate", "$id", "revoke">>, {"$id"}),
    Sends("pam", "GetSession", "GET", <<"pam", "elevations", "$id">>, {"$id"}),
    Lists("pam", "ListSessions", <<"pam", "elevations">>, {}) }

\* DenyElevation sends its decision to the route of ApproveElevation.
pamDecisions == {
    Absent("pam", "GetEphemeralCredential", {"session_id", "resource_type", "resource_id"}),
    Absent("pam", "GetSessionRecording", {"session_id"}),
    Absent("pam", "GetAnalytics", {"principal_id"}),
    Sends("pam", "ApproveElevation", "POST", <<"pam", "elevate", "$id", "approve">>,
          {"$id", "approver_id"}),
    Sends("pam", "DenyElevation", "POST", <<"pam", "elevate", "$id", "approve">>,
          {"$id", "approver_id"}) }

--------------------------------------------------------------------------------
(* Users, tenants, tokens and credentials                                     *)

scimUsers == {
    Sends("scim", "CreateUser", "POST", <<"scim", "v2", "Users">>, {"userName"}),
    Sends("scim", "GetUser", "GET", <<"scim", "v2", "Users", "<id>">>, {"<id>"}),
    Sends("scim", "UpdateUser", "PUT", <<"scim", "v2", "Users", "<id>">>, {"<id>"}),
    Sends("scim", "PatchUser", "PATCH", <<"scim", "v2", "Users", "<id>">>, {"<id>"}),
    Sends("scim", "DeleteUser", "DELETE", <<"scim", "v2", "Users", "<id>">>, {"<id>"}),
    Lists("scim", "ListUsers", <<"scim", "v2", "Users">>, {}) }

scimGroups == {
    Sends("scim", "CreateGroup", "POST", <<"scim", "v2", "Groups">>, {"displayName"}),
    Sends("scim", "GetGroup", "GET", <<"scim", "v2", "Groups", "<id>">>, {"<id>"}),
    Sends("scim", "UpdateGroup", "PUT", <<"scim", "v2", "Groups", "<id>">>, {"<id>"}),
    Sends("scim", "PatchGroup", "PATCH", <<"scim", "v2", "Groups", "<id>">>, {"<id>"}),
    Sends("scim", "DeleteGroup", "DELETE", <<"scim", "v2", "Groups", "<id>">>, {"<id>"}),
    Lists("scim", "ListGroups", <<"scim", "v2", "Groups">>, {}),
    Sends("scim", "GetServiceProviderConfig", "GET", <<"scim", "v2", "ServiceProviderConfig">>, {}),
    Sends("scim", "GetResourceTypes", "GET", <<"scim", "v2", "ResourceTypes">>, {}) }

tenantOps == {
    Sends("tenant", "Create", "POST", <<"v1", "tenants">>, {"name", "region"}),
    Sends("tenant", "Get", "GET", <<"v1", "tenants", "$id">>, {"$id"}),
    Sends("tenant", "Update", "PUT", <<"v1", "tenants", "$id">>, {"$id"}),
    Sends("tenant", "Delete", "DELETE", <<"v1", "tenants", "$id">>, {"$id"}),
    Lists("tenant", "List", <<"v1", "tenants">>, {}),
    Absent("tenant", "ExportData", {"tenant_id"}),
    Absent("tenant", "GetExportStatus", {"tenant_id", "export_id"}),
    Absent("tenant", "UpdateConfiguration", {"tenant_id"}),
    Absent("tenant", "UpdateBranding", {"tenant_id"}) }

tokenOps == {
    Sends("token", "Introspect", "POST", <<"v1", "auth", "introspect">>, {"token"}),
    Absent("token", "Revoke", {"token"}),
    Sends("token", "Exchange", "POST", <<"auth", "token", "exchange">>,
          {"subject_token", "subject_token_type"}),
    Sends("token", "Refresh", "POST", <<"v1", "auth", "tokens", "refresh">>, {"refresh_token"}),
    Absent("token", "ClientCredentials", {"client_id", "client_secret"}),
    Sends("token", "JWKS", "GET", <<".well-known", "jwks.json">>, {}),
    Sends("token", "OIDCDiscovery", "GET", <<".well-known", "openid-configuration">>, {}),
    Absent("token", "Mint", {"subject_id", "subject_type"}) }

credentialOps == {
    Sends("credential", "Anchor", "POST", <<"v1", "credentials", "anchor">>,
          {"tenant_id", "subject_id", "credential_id", "public_key"}),
    Queries("credential", "Status", "GET", <<"v1", "credentials", "status">>, {"anchor_id"}),
    Sends("credential", "Revoke", "POST", <<"v1", "credentials", "revoke">>,
          {"anchor_id", "reason", "actor"}),
    Sends("credential", "Verify", "POST", <<"v1", "credentials", "verify">>,
          {"anchor_id", "merkle_proof"}),
    Queries("credential", "List", "GET", <<"v1", "credentials">>, {"subject_id"}) }

auditOps == {
    Lists("audit", "Search", <<"v1", "audit-logs">>, {}),
    Sends("audit", "GetEvent", "GET", <<"v1", "audit-logs", "$id">>, {"$id"}),
    Absent("audit", "CreateSIEMConfig", {"target_type", "endpoint", "format"}),
    Absent("audit", "ListSIEMConfigs", {}),
    Absent("audit", "DeleteSIEMConfig", {"config_id"}) }

\* Delete is DeleteWithReason with a reason of its own.
secretsOps == {
    Sends("secrets", "ListMounts", "GET", <<"v1", "secrets", "sys", "mounts">>, {}),
    Sends("secrets", "Mount", "POST", <<"v1", "secrets", "sys", "mounts">>, {}),
    Sends("secrets", "Write", "PUT", <<"v1", "secrets", "$engine", "data", "$path">>, {}),
    Lists("secrets", "Read", <<"v1", "secrets", "$engine", "data", "$path">>, {}),
    Queries("secrets", "Delete", "DELETE", <<"v1", "secrets", "$engine", "data", "$path">>, {}),
    Queries("secrets", "DeleteWithReason", "DELETE",
            <<"v1", "secrets", "$engine", "data", "$path">>, {"reason"}),
    Sends("secrets", "Encrypt", "POST", <<"v1", "secrets", "$engine", "encrypt">>, {}),
    Sends("secrets", "Decrypt", "POST", <<"v1", "secrets", "$engine", "decrypt">>, {}),
    Sends("secrets", "CreateLease", "POST", <<"v1", "secrets", "$engine", "lease", "$path">>, {}),
    Sends("secrets", "RenewLease", "PUT", <<"v1", "secrets", "sys", "leases", "renew">>, {}),
    Sends("secrets", "RevokeLease", "PUT", <<"v1", "secrets", "sys", "leases", "revoke">>, {}) }

--------------------------------------------------------------------------------
(* Identifiers, devices, machines and the ledger: ids are not checked         *)

didOps == {
    Sends("did", "Create", "POST", <<"v1", "dids", "create">>, {}),
    Sends("did", "Resolve", "GET", <<"v1", "dids", "<id>">>, {}),
    Queries("did", "List", "GET", <<"v1", "dids">>, {}),
    Sends("did", "Revoke", "DELETE", <<"v1", "dids", "<id>">>, {}),
    Sends("did", "RotateKey", "POST", <<"v1", "dids", "<id>", "rotate">>, {}),
    Sends("did", "GetRotations", "GET", <<"v1", "dids", "<id>", "rotations">>, {}),
    Sends("did", "IssueConsent", "POST", <<"v1", "consent", "receipts">>, {}),
    Sends("did", "GetConsent", "GET", <<"v1", "consent", "receipts", "<id>">>, {}),
    Sends("did", "ListConsents", "GET", <<"v1", "consent", "receipts">>, {}),
    Sends("did", "WithdrawConsent", "POST", <<"v1", "consent", "receipts", "<id>", "withdraw">>, {}),
    Sends("did", "GetDIDCommIdentity", "GET", <<"v1", "didcomm", "identity">>, {}),
    Sends("did", "SendDIDCommMessage", "POST", <<"v1", "didcomm", "inbox">>, {}) }

OfDevice(name, last) ==
    Sends("device", name, "GET", <<"v1", "devices", "<id>", last>>, {})

\* Mutant: the trend is asked for where the posture is.
deviceOpsCopied == {OfDevice("GetPosture", "posture"), OfDevice("GetTrend", "posture")}

deviceOps == {
    Lists("device", "List", <<"v1", "devices">>, {}),
    Sends("device", "Get", "GET", <<"v1", "devices", "<id>">>, {}),
    Sends("device", "Revoke", "POST", <<"v1", "devices", "<id>", "revoke">>, {}),
    OfDevice("GetPosture", "posture"), OfDevice("GetHistory", "history"),
    OfDevice("GetTrend", "trend"), OfDevice("GetTrust", "trust"), OfDevice("Verify", "verify"),
    Sends("device", "ComplianceSummary", "GET", <<"v1", "compliance", "summary">>, {}),
    Sends("device", "NonCompliant", "GET", <<"v1", "compliance", "non-compliant">>, {}) }

nhimgmtOps == {
    Sends("nhimgmt", "Create", "POST", <<"v1", "nhi", "identities">>, {}),
    Sends("nhimgmt", "Get", "GET", <<"v1", "nhi", "identities", "<id>">>, {}),
    Lists("nhimgmt", "List", <<"v1", "nhi", "identities">>, {}),
    Sends("nhimgmt", "Update", "PATCH", <<"v1", "nhi", "identities", "<id>">>, {}),
    Sends("nhimgmt", "Delete", "DELETE", <<"v1", "nhi", "identities", "<id>">>, {}),
    Sends("nhimgmt", "Rotate", "POST", <<"v1", "nhi", "identities", "<id>", "rotate">>, {}),
    Sends("nhimgmt", "RecordConnection", "POST", <<"v1", "nhi", "connections">>, {}),
    Sends("nhimgmt", "GetConnections", "GET", <<"v1", "nhi", "connections", "<id>">>, {}),
    Sends("nhimgmt", "GetGraph", "GET", <<"v1", "nhi", "graph">>, {}),
    Sends("nhimgmt", "Evaluate", "POST", <<"v1", "nhi", "evaluate">>, {}) }

notificationOps == {
    Sends("notification", "Send", "POST", <<"v1", "notifications", "send">>, {}),
    Sends("notification", "Get", "GET", <<"v1", "notifications", "<id>">>, {}),
    Queries("notification", "List", "GET", <<"v1", "notifications">>, {}),
    Sends("notification", "RegisterToken", "POST", <<"v1", "push-tokens">>, {}),
    Sends("notification", "ListTokens", "GET", <<"v1", "push-tokens", "users", "<id>">>, {}),
    Sends("notification", "RevokeToken", "DELETE", <<"v1", "push-tokens", "<kind>", "<id>">>, {}) }

OfMachine(name, route) == Sends("machine", name, "POST", route, {})

machineOps == {
    OfMachine("EnrollGitHub", <<"v1", "machine", "github", "enroll">>),
    OfMachine("MintGitHubToken", <<"v1", "machine", "github", "tokens", "mint">>),
    OfMachine("EnrollKubernetes", <<"v1", "machine", "k8s", "enroll">>),
    OfMachine("MintKubernetesToken", <<"v1", "machine", "k8s", "tokens", "mint">>) }

OfCredential(name, last) ==
    Sends("blockchain", name, "POST", <<"blockchain", "credentials", last>>, {})
QueryCredential(name, last) ==
    Queries("blockchain", name, "GET", <<"blockchain", "credentials", last>>, {})

blockchainCredentials == {
    OfCredential("AnchorCredential", "anchor"),
    OfCredential("RevokeCredential", "revoke"),
    OfCredential("BatchRevoke", "batch-revoke"),
    QueryCredential("GetCredentialStatus", "status"),
    QueryCredential("GetCredentialHash", "hash"),
    QueryCredential("GetRevocationStatus", "revocation-status"),
    QueryCredential("GetRevocations", "revocations"),
    OfCredential("SuspendCredential", "suspend"),
    OfCredential("UnsuspendCredential", "unsuspend"),
    OfCredential("BatchSuspend", "batch-suspend"),
    QueryCredential("GetSuspensionStatus", "suspension-status"),
    QueryCredential("GetSuspensions", "suspensions"),
    Sends("blockchain", "Status", "GET", <<"blockchain", "status">>, {}),
    Sends("blockchain", "Metadata", "GET", <<"blockchain", "metadata">>, {}),
    Sends("blockchain", "GetIssuerInfo", "GET", <<"blockchain", "issuers", "<id>">>, {}) }

OfLedger(name, method, route) == Sends("blockchain", name, method, route, {})

blockchainDIDs == {
    OfLedger("RegisterDID", "POST", <<"blockchain", "dids", "register">>),
    OfLedger("RegisterDIDMeta", "POST", <<"blockchain", "dids", "register-meta">>),
    OfLedger("ResolveDID", "GET", <<"blockchain", "dids", "<id>">>),
    OfLedger("UpdateDID", "PUT", <<"blockchain", "dids", "<id>">>),
    OfLedger("DeactivateDID", "DELETE", <<"blockchain", "dids", "<id>">>),
    OfLedger("ReactivateDID", "POST", <<"blockchain", "dids", "<id>", "reactivate">>),
    OfLedger("GetDIDStatus", "GET", <<"blockchain", "dids", "<id>", "status">>) }

blockchainTrust == {
    OfLedger("RegisterIssuer", "POST", <<"blockchain", "trust", "issuers">>),
    OfLedger("UpdateIssuer", "PUT", <<"blockchain", "trust", "issuers", "<id>">>),
    OfLedger("RevokeIssuer", "DELETE", <<"blockchain", "trust", "issuers", "<id>">>),
    OfLedger("GetIssuer", "GET", <<"blockchain", "trust", "issuers", "<id>">>),
    Queries("blockchain", "IsIssuerTrusted", "GET",
            <<"blockchain", "trust", "issuers", "<id>", "trusted">>, {}),
    OfLedger("RegisterVerifier", "POST", <<"blockchain", "trust", "verifiers">>),
    OfLedger("GetVerifier", "GET", <<"blockchain", "trust", "verifiers", "<id>">>),
    OfLedger("RegisterSchema", "POST", <<"blockchain", "trust", "schemas">>),
    OfLedger("GetSchema", "GET", <<"blockchain", "trust", "schemas", "<id>">>),
    Queries("blockchain", "EvaluateTrust", "GET", <<"blockchain", "trust", "evaluate">>, {}),
    OfLedger("GetTrustStats", "GET", <<"blockchain", "trust", "stats">>) }

--------------------------------------------------------------------------------
(* Decisions, webhooks, health and the current user                           *)

\* More than 100 requests in a batch are an error like none at all.
decisionOps == {
    Sends("decision", "Evaluate", "POST", <<"v1", "decision", "auth">>, {"subject_id", "context"}),
    Absent("decision", "BatchEvaluate", {"requests"}),
    Absent("decision", "Simulate", {"request", "subject_id"}) }

webhookOps == {
    Absent("webhook", "Subscribe", {"target_url", "events", "shared_secret"}),
    Absent("webhook", "Unsubscribe", {"subscription_id"}),
    Absent("webhook", "Get", {"subscription_id"}),
    Absent("webhook", "List", {}),
    Absent("webhook", "ListDeliveries", {"subscription_id"}),
    Absent("webhook", "ListDeadLetters", {}),
    Absent("webhook", "RetryDeadLetter", {"entry_id"}) }

healthOps == {
    Sends("health", "Health", "GET", <<"health">>, {}),
    Sends("health", "Ready", "GET", <<"ready">>, {}),
    Sends("health", "Version", "GET", <<"version">>, {}),
    Sends("health", "Metrics", "GET", <<"metrics">>, {}) }

userOps == { Sends("user", "Me", "GET", <<"v1", "users", "me">>, {}) }

--------------------------------------------------------------------------------

\* The services NewClient builds over its transport.
Ops == UNION {agentIdentities, agentBehaviour, agentTools, governanceCampaigns,
    governanceAccess, policyBundles, policyDecisions, pamSessions, pamDecisions, scimUsers,
    scimGroups, tenantOps, tokenOps, credentialOps, auditOps, secretsOps, didOps, deviceOps,
    nhimgmtOps, notificationOps, machineOps, blockchainCredentials, blockchainDIDs,
    blockchainTrust, decisionOps, webhookOps, healthOps, userOps}

\* The list the SDK publishes of operations the backend does not offer yet.
PendingBackendContractOperations == [
    agent |-> {"GetCard", "GetDelegationChain", "GetBaseline", "GetSnapshot", "Suspend",
               "Reactivate"},
    audit |-> {"CreateSIEMConfig", "ListSIEMConfigs", "DeleteSIEMConfig"},
    decision |-> {"BatchEvaluate", "Simulate"},
    governance |-> {"GetCertificationItems", "GetAccessRequest", "GetPostureScore",
                    "ListEntitlements", "ListAccessBundles", "SetResourceOwner",
                    "GetResourceOwner"},
    pam |-> {"GetEphemeralCredential", "GetSessionRecording", "GetAnalytics"},
    policy |-> {"Update", "Delete", "RollbackBundle", "CreateNamedLocation",
                "ListNamedLocations", "DeleteNamedLocation", "RequestBreakGlass",
                "RevokeBreakGlass", "ReBAcCheck", "ReBAcWrite", "ReBAcDelete"},
    tenant |-> {"ExportData", "GetExportStatus", "UpdateConfiguration", "UpdateBranding"},
    token |-> {"Revoke", "ClientCredentials", "Mint"},
    webhook |-> {"Subscribe", "Unsubscribe", "Get", "List", "ListDeliveries",
                 "ListDeadLetters", "RetryDeadLetter"}]

Pending(op) ==
    /\ op.service \in DOMAIN PendingBackendContractOperations
    /\ op.name \in PendingBackendContractOperations[op.service]

--------------------------------------------------------------------------------
(* What an operation does with its arguments                                  *)

Params(op) == ToSet(op.route) \cap AllParams

\* A parameter of the route as it stands in the path; Invalid is an error.
PathParam(p, v) ==
    IF p \in SegmentParams THEN Segment(v)
    ELSE IF p \in SlashParams THEN SlashPath(v)
    ELSE v

\* Sprintf: the route with its parameters filled in.
Fill(route, ids) ==
    FlattenSeq([i \in DOMAIN route |->
        IF route[i] \in DOMAIN ids THEN PathParam(route[i], ids[route[i]]) ELSE <<route[i]>>])

================================================================================
