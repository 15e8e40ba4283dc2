-------------------------------- MODULE ApiClient ------------------------------
(***************************************************************************)
(* The two clients of src/zinetic: Client, whose services make the calls   *)
(* of Services, and RawClient, to which the application gives paths.  An   *)
(* application sets options in any order, builds a client and makes one    *)
(* call; the call ends with an error before anything is sent, or with the  *)
(* request that the transport sends (module Transport has what happens to  *)
(* it afterwards).                                                         *)
(***************************************************************************)
EXTENDS Services

CONSTANTS
    BaseURLs,    \* values of WithBaseURL: [scheme, loopback, path]
    BasePaths,   \* texts given to WithBasePath and WithAPIBasePath
    Tenants,     \* texts given to WithTenantID
    IdTexts,     \* texts given as ids
    RawTexts,    \* texts given to DoRaw and to a raw client, besides the routes of the API
    None

ASSUME ClientAssumption ==
    /\ BasePaths \subseteq Seq(STRING) \ {<<>>}
    /\ IdTexts \subseteq Seq(STRING \ {OddEscaped}) \ {<<>>}
    /\ RawTexts \subseteq Seq(STRING)
    /\ \A u \in BaseURLs : u.path \in Seq(STRING)
    /\ None \notin Ops \cup BaseURLs

VARIABLES
    options,     \* the Config the options are applied to
    client,      \* the client that was built, or None
    call         \* the last call, or None

vars == <<options, client, call>>

DefaultConfig == [baseURL |-> None, apiBase |-> <<NoText, "api", "v1">>, basePath |-> Empty,
                  tenant |-> NoText]

Init ==
    /\ options = DefaultConfig
    /\ client = None
    /\ call = None

--------------------------------------------------------------------------------
(* Options and construction                                                   *)

Option(config) ==
    /\ client = None
    /\ options' = config
    /\ UNCHANGED <<client, call>>

WithBaseURL(u) == Option([options EXCEPT !.baseURL = u])
WithAPIBasePath(b) == Option([options EXCEPT !.apiBase = b])
WithBasePath(b) == Option([options EXCEPT !.basePath = b, !.apiBase = b])
WithTenantID(t) == Option([options EXCEPT !.tenant = t])

\* https, or http to the machine itself.
allowedBaseURL(u) == u.scheme = "https" \/ (u.scheme = "http" /\ u.loopback)

ValidateRaw == options.baseURL # None /\ allowedBaseURL(options.baseURL)

Validate == ValidateRaw /\ options.tenant # NoText

effectiveAPIBasePath ==
    IF options.apiBase # Empty THEN options.apiBase
    ELSE IF options.basePath # Empty THEN options.basePath
    ELSE DefaultConfig.apiBase

\* The transport's normalizeConfig is part of building a client.  The options
\* are not looked at again.
New(kind) ==
    LET base == cleanBasePath(effectiveAPIBasePath) IN
    /\ client = None
    /\ client' = [kind |-> kind, base |-> base, tenant |-> options.tenant,
                  mount |-> normalizeBase(options.baseURL.path, base)]
    /\ options' = DefaultConfig
    /\ UNCHANGED call

NewClient == Validate /\ New("client")
NewRawClient == ValidateRaw /\ New("raw")

Configure ==
    \/ \E u \in BaseURLs : WithBaseURL(u)
    \/ \E b \in BasePaths : WithAPIBasePath(b)
    \/ \E b \in BasePaths : WithBasePath(b)
    \/ \E t \in Tenants : WithTenantID(t)

--------------------------------------------------------------------------------
(* Calls                                                                      *)

\* What every call starts from.
Ready(kind) == client # None /\ client.kind = kind /\ call = None

Request(p) == client.mount \o buildURL(client.base, p)

\* An argument is missing, or an id does not fit into the path.
Refuses(op, ids, missing) ==
    \/ missing # {}
    \/ \E p \in op.need \cap Params(op) : ids[p] = Empty
    \/ \E p \in Params(op) : PathParam(p, ids[p]) = Invalid

ServiceCall(op, ids, q, outcome) ==
    /\ call' = [op |-> op, ids |-> ids, outcome |-> outcome,
                url |-> IF outcome # "sent" THEN <<>>
                        ELSE Request([parts |-> Fill(op.route, ids), query |-> q])]
    /\ UNCHANGED <<options, client>>

ServiceRefuses(op) ==
    \E ids \in [Params(op) -> IdTexts],
       missing \in {{}} \cup {{f} : f \in op.need \ Params(op)} :
        /\ Refuses(op, ids, missing)
        /\ ServiceCall(op, ids, FALSE, "refused")

ServiceUnsupported(op) ==
    /\ op.method = "none"
    /\ ServiceCall(op, <<>>, FALSE, "unsupported")

ServiceSends(op) ==
    \E ids \in [Params(op) -> IdTexts], q \in op.query :
        /\ op.method # "none"
        /\ ~Refuses(op, ids, {})
        /\ ServiceCall(op, ids, q, "sent")

\* What an application may ask a raw client for: the routes of the API and any other
\* text.  It is given as it is, after the version, or after the base path of the client.
RawRoutes ==
    RawTexts \cup {[i \in DOMAIN r |-> IF r[i] \in AllParams THEN "x" ELSE r[i]]
                   : r \in {WithoutVersion(op.route) : op \in Ops}}
Spellings == {"bare", "versioned", "based"}

Spell(route, how) ==
    LET parts == CASE how = "versioned" -> <<"v1">> \o route
                   [] how = "based" -> client.base \o route
                   [] how = "bare" -> route
    IN  IF parts = <<>> THEN Empty ELSE parts

RawCall(route, p, how, accepted) ==
    /\ call' = [op |-> None, route |-> route, query |-> p.query, spelling |-> how,
                outcome |-> IF accepted THEN "sent" ELSE "refused",
                url |-> IF accepted THEN Request(p) ELSE <<>>]
    /\ UNCHANGED <<options, client>>

\* Mutant: a tenant of white space counts as one.
requireTenantForScopedPathUntrimmed(p) == client.tenant # NoText \/ IsTenantOptionalPath(p)

requireTenantForScopedPath(p) ==
    TrimSpace(client.tenant) # NoText \/ IsTenantOptionalPath(p)

\* Do, DoRaw and DoStream of RawClient.
RawDo(route, how, q) ==
    LET p == [parts |-> Spell(route, how), query |-> q] IN
    RawCall(route, p, how, requireTenantForScopedPath(p))

\* DoRaw of Client, which has a tenant.
ClientDoRaw(route, how, q) ==
    LET p == [parts |-> Spell(route, how), query |-> q] IN
    RawCall(route, p, how, TRUE)

Return ==
    /\ call # None
    /\ call' = None
    /\ UNCHANGED <<options, client>>

Next ==
    \/ Configure \/ NewClient \/ NewRawClient
    \/ /\ Ready("client")
       /\ \/ \E op \in Ops : ServiceRefuses(op) \/ ServiceUnsupported(op) \/ ServiceSends(op)
          \/ \E r \in RawRoutes, how \in Spellings, q \in BOOLEAN : ClientDoRaw(r, how, q)
    \/ /\ Ready("raw")
       /\ \E r \in RawRoutes, how \in Spellings, q \in BOOLEAN : RawDo(r, how, q)
    \/ Return

Spec == Init /\ [][Next]_vars

--------------------------------------------------------------------------------
(* Configurations the code does not check and the routes depend on            *)

\* A base path of plain parts that is "/", "/v1", or does not begin like a route: one
\* that does, such as "/agents", is taken for the beginning of the route itself.
PlainBase(base) ==
    /\ \A i \in DOMAIN base : base[i] \notin Unusable \cup {Odd, OddEscaped}
    /\ \/ base \in {<<>>, <<"v1">>}
       \/ \A op \in Ops : /\ ~IsPrefix(<<base[1]>>, op.route)
                          /\ ~IsPrefix(<<base[1]>>, WithoutVersion(op.route))

OccursAt(i, base, path) ==
    /\ i + Len(base) - 1 <= Len(path)
    /\ \A k \in 1..Len(base) : path[i + k - 1] = base[k]

\* normalizeBase takes one base path off the end of the base URL.
Twice(base, path) ==
    \E i, j \in DOMAIN path :
        i + Len(base) <= j /\ OccursAt(i, base, path) /\ OccursAt(j, base, path)

ConfiguredBases == {cleanBasePath(b) : b \in BasePaths \cup {DefaultConfig.apiBase}}

PlainConfiguration ==
    /\ \A b \in ConfiguredBases : PlainBase(b)
    /\ \A u \in BaseURLs : \A i \in DOMAIN u.path : u.path[i] \notin {Odd, OddEscaped}
    /\ \A u \in BaseURLs, b \in ConfiguredBases : b = <<>> \/ ~Twice(b, u.path)

\* A base path that the tenant check does not take for a route without a tenant: what
\* is left of it after "/api/v1" and "/v1" does not begin like one.
TenantFree(base) ==
    LET rest == normalizeRouteForTenantCheck([parts |-> base, query |-> TRUE]).parts
    IN  rest = <<>> \/ \A prefix \in TenantOptional : rest[1] # prefix[1]

TenantFreeBases == \A b \in ConfiguredBases : TenantFree(b)

--------------------------------------------------------------------------------
(* Properties                                                                 *)

BasePath == IF client.base = <<>> THEN defaultAPIBasePath ELSE client.base

Sent == call # None /\ call.outcome = "sent"
ServiceSent == Sent /\ call.op # None
RawSent == Sent /\ call.op = None

\* The ids that no code checks are usable ones.
UsableIds ==
    \A p \in Params(call.op) \cap RawParams :
        Len(call.ids[p]) = 1 /\ call.ids[p][1] \notin Unusable \cup {Blank, Odd}

\* What the backend should find in the path: the route of the operation with the
\* ids the caller gave, each in its place.
Meant(op, ids) ==
    FlattenSeq([i \in DOMAIN op.route |->
        IF op.route[i] \in SlashParams THEN TrimSlashes(ids[op.route[i]])
        ELSE IF op.route[i] \in Params(op) THEN <<ids[op.route[i]][1]>>
        ELSE <<op.route[i]>>])

\* An operation of a service asks the backend for its own route, as
\* canonicalBackendRoute of the contract test has it, with every id the caller gave
\* found unchanged in its place, whatever base URL and base path the client has.
\* pathutil must have turned away or escaped every id for which that fails; the
\* services that do not use pathutil are held to it for ids that need neither.
OwnRoute ==
    ServiceSent /\ UsableIds =>
        LET got == Requested(call.url)
        IN  [i \in DOMAIN got |-> PathUnescape(got[i])]
              = client.mount \o canonicalBackendRoute(BasePath, Meant(call.op, call.ids))

\* A route without a version of its own in front, which cleaning leaves as it is: no dot
\* segments, no empty parts and no white space.
PlainRoute(route) ==
    /\ route # <<>> /\ route[1] \notin {"v1", "api"}
    /\ \A i \in DOMAIN route : route[i] \notin Unusable \cup {Blank}

\* However the base URL and the base path are written, the base path stands in the URL
\* once: the part before it does not end in it, and the three ways to write a plain route
\* that is not a root route lead to one URL, which has it before the route (normalizeBase,
\* buildURL; as TestDoRequest_NormalizesAPIBasePath has it).  A base path of "/" is left
\* out of the first part: the transport then uses the default one, and does not look for
\* it in the base URL.  Left out of the second are a raw path that is only the base path
\* or "/v1" and a query (the comparisons of buildURL include the query), routes that begin
\* like the base path, and what PlainRoute leaves out: path.Join lets "/x/../../.."
\* take the base path away.
BasePathOnce ==
    Sent =>
        /\ client.base # <<>> => ~IsSuffix(client.base, client.mount)
        /\ RawSent /\ PlainRoute(call.route) /\ call.route[1] # BasePath[1]
             /\ ~isRootRoute([parts |-> call.route, query |-> FALSE]) =>
               call.url = client.mount \o BasePath \o call.route

Literals == UNION {ToSet(op.route) : op \in Ops}

\* The parts a route wants are those of the URL.  A backend takes a word of the API
\* for a parameter only when no route has the word itself.
Fits(url, want) ==
    /\ Len(url) >= Len(want)
    /\ Len(url) > Len(want) => want[Len(want)] \in SlashParams
    /\ \A i \in DOMAIN want :
           IF want[i] \in AllParams THEN url[i] \notin Literals ELSE want[i] = url[i]

\* Operations that share a route on purpose.
Aliases == {{<<"policy", "List">>, <<"policy", "GetBundleInfo">>},
            {<<"pam", "ApproveElevation">>, <<"pam", "DenyElevation">>},
            {<<"secrets", "Delete">>, <<"secrets", "DeleteWithReason">>}}

\* No request of one operation can be taken for a request of another: the method
\* and the URL that are sent fit the route of no other operation of the SDK, as
\* long as no id is one of the words of the API (agent.Get("inventory") does ask
\* for the inventory).
Unambiguous ==
    ServiceSent /\ UsableIds
    /\ (\A p \in Params(call.op) : ToSet(call.ids[p]) \cap Literals = {}) =>
        \A op \in Ops \ {call.op} :
            op.method = call.op.method
            /\ Fits(call.url, client.mount \o canonicalBackendRoute(BasePath, op.route)) =>
                {<<op.service, op.name>>, <<call.op.service, call.op.name>>} \in Aliases

\* PendingBackendContractOperations names the operations that never reach the
\* backend: no listed operation sends anything, and every operation that answers
\* "not supported" is listed, but for the two that end in policy.Update.
PendingIsExact ==
    call # None /\ call.op # None =>
        /\ call.outcome = "sent" => ~Pending(call.op)
        /\ call.outcome = "unsupported" =>
               \/ Pending(call.op)
               \/ /\ call.op.service = "policy"
                  /\ call.op.name \in {"EnableSimulation", "DisableSimulation"}

\* What a raw client without a tenant sends for a plain route is a URL that needs none,
\* whether the route is written with the version, with the base path or with neither, and
\* whatever base path is set.  requireTenantForScopedPath looks at the path before buildURL
\* rewrites it, which is why this is not said of all paths: path.Join cleans
\* "/tenants/../agents", which the check takes for a route below "/tenants", to "/agents".
ScopedCarriesTenant ==
    RawSent /\ PlainRoute(call.route) /\ TrimSpace(client.tenant) = NoText /\ client.kind = "raw" =>
        \E prefix \in TenantOptional, before \in {<<>>, BasePath} :
            IsPrefix(client.mount \o before \o prefix, call.url)

================================================================================
