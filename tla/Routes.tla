--------------------------------- MODULE Routes --------------------------------
(***************************************************************************)
(* How the SDK turns a path and the ids in it into the URL of a request    *)
(* (src/internal/pathutil, buildURL of src/internal/transport, the route   *)
(* check of src/zinetic/raw_client.go).  Text is split at "/" into a       *)
(* sequence of parts: "a/b" is <<"a", "b">> and "" is <<NoText>>.  A        *)
(* path is [parts, query]: its parts after the leading slash, and whether   *)
(* a query string follows.  The parts that matter are told apart, the       *)
(* others are plain words.                                                 *)
(***************************************************************************)
EXTENDS Naturals, Sequences, SequencesExt

NoText == "_empty"  \* between two slashes, or before or after one
Blank == "_blank"   \* white space
Odd == "a?b"        \* a part with a character that is reserved in a URL
OddEscaped == "a%3Fb"
Empty == <<NoText>>
Invalid == <<>>     \* an error of Segment or SlashPath

TrimSpace(p) == IF p = Blank THEN NoText ELSE p
PathEscape(p) == IF p = Odd THEN OddEscaped ELSE p

\* What the backend finds in a part of the URL it is asked for.
PathUnescape(p) == IF p = OddEscaped THEN Odd ELSE p

Unusable == {NoText, ".", ".."}

--------------------------------------------------------------------------------
(* pathutil: ids that become part of a path                                   *)

\* Mutant: only the empty id is turned away.
SegmentAnyText(v) ==
    IF v \in {Empty, <<Blank>>} THEN Invalid ELSE [i \in DOMAIN v |-> PathEscape(v[i])]

\* One part, trimmed and escaped.
Segment(v) ==
    IF Len(v) # 1 \/ TrimSpace(v[1]) \in Unusable THEN Invalid ELSE <<PathEscape(v[1])>>

TrimRightSlashes(v) ==
    LET full == {i \in DOMAIN v : v[i] # NoText}
    IN  IF full = {} THEN <<>> ELSE SubSeq(v, 1, Max(full))

TrimSlashes(v) == Reverse(TrimRightSlashes(Reverse(TrimRightSlashes(v))))

\* One part or more: slashes around them are dropped, each part is escaped.
SlashPath(v) ==
    LET parts == TrimSlashes(v)
    IN  IF \E i \in DOMAIN parts : TrimSpace(parts[i]) \in Unusable THEN Invalid
        ELSE [i \in DOMAIN parts |-> PathEscape(parts[i])]

--------------------------------------------------------------------------------
(* The base of a URL: normalizeConfig                                         *)

defaultAPIBasePath == <<"api", "v1">>

\* The base path as parts; "/" becomes the empty path.
cleanBasePath(v) ==
    IF v \in {Empty, <<Blank>>} THEN defaultAPIBasePath
    ELSE TrimRightSlashes(IF v[1] = NoText THEN Tail(v) ELSE v)

\* Mutant: a base URL that ends in the base path is left as it is.
normalizeBaseKeeps(urlPath, base) == TrimRightSlashes(urlPath)

\* The path of BaseURL without the base path it may end in.
normalizeBase(urlPath, base) ==
    LET path == TrimRightSlashes(urlPath)
    IN  IF IsSuffix(base, path)
        THEN TrimRightSlashes(SubSeq(path, 1, Len(path) - Len(base)))
        ELSE path

--------------------------------------------------------------------------------
(* buildURL                                                                   *)

\* The text of path p equals prefix, or begins with prefix and a slash.
Under(p, prefix) ==
    \/ p.parts = prefix /\ ~p.query
    \/ IsStrictPrefix(prefix, p.parts)

isRootRoute(p) ==
    \E prefix \in {<<"health">>, <<"ready">>, <<"version">>, <<"metrics">>, <<"docs">>,
                   <<".well-known">>, <<"scim">>, <<"oid4vci">>, <<"oauth">>,
                   <<"auth", "token">>, <<"cli", "device">>, <<"dpop">>, <<"pam">>} :
        Under(p, prefix)

\* path.Clean of a rooted path.
Clean(parts) ==
    LET done[i \in 0..Len(parts)] ==
            IF i = 0 THEN <<>>
            ELSE IF parts[i] = ".." THEN SubSeq(done[i - 1], 1, Len(done[i - 1]) - 1)
            ELSE IF parts[i] \in Unusable THEN done[i - 1]
            ELSE Append(done[i - 1], parts[i])
    IN  done[Len(parts)]

\* strings.TrimSpace of the whole path.
TrimPath(p) ==
    IF ~p.query /\ p.parts # <<>> /\ Last(p.parts) = Blank
    THEN [p EXCEPT !.parts = Append(Front(@), NoText)] ELSE p

WithoutVersion(parts) == IF IsPrefix(<<"v1">>, parts) THEN Tail(parts) ELSE parts

\* The path of the URL after the one of BaseURL.  Absolute URLs are refused
\* before this point.  "/v1" is taken off when a slash follows or it ends the
\* text, which "/v1?..." does not.
buildURL(base, path) ==
    LET p == TrimPath(path)
        b == IF base = <<>> THEN defaultAPIBasePath ELSE base
        versioned == IsPrefix(<<"v1">>, p.parts) /\ (p.query => Len(p.parts) > 1)
    IN  IF Under(p, b) \/ isRootRoute(p) THEN p.parts
        ELSE Clean(b \o (IF versioned THEN Tail(p.parts) ELSE p.parts))

\* The route the backend is asked for: what stands before the first "?".
Requested(url) ==
    LET cut == SelectInSeq(url, LAMBDA p : p = Odd)
    IN  IF cut = 0 THEN url ELSE Append(SubSeq(url, 1, cut - 1), "a")

--------------------------------------------------------------------------------
(* The tenant check of the raw client                                         *)

\* Without "/api/v1" and then "/v1"; the configured base path is not looked at.
normalizeRouteForTenantCheck(path) ==
    LET p == TrimPath(path)
        parts == IF IsPrefix(defaultAPIBasePath, p.parts)
                 THEN SubSeq(p.parts, 3, Len(p.parts)) ELSE p.parts
    IN  [p EXCEPT !.parts = WithoutVersion(parts)]

TenantOptional == {<<"health">>, <<"ready">>, <<"version">>, <<"metrics">>, <<"docs">>,
    <<".well-known">>, <<"auth">>, <<"oauth">>, <<"cli", "device">>, <<"dpop">>,
    <<"me", "tenants">>, <<"tenants">>, <<"users", "me">>, <<"scim">>, <<"oid4vci">>,
    <<"pam">>}

IsTenantOptionalPath(p) ==
    LET route == normalizeRouteForTenantCheck(p)
    IN  \/ route.parts \in {<<>>, Empty} /\ ~route.query
        \/ \E prefix \in TenantOptional : Under(route, prefix)

--------------------------------------------------------------------------------
(* Reference: canonicalBackendRoute of src/internal/contract, the test that   *)
(* compares the routes in the source with the OpenAPI file of the backend.    *)
(* It knows one base path; here it is a parameter.                            *)

ContractRoots == {"health", "ready", "version", "metrics", "docs", ".well-known", "scim",
                  "oid4vci", "oauth", "pam"}

canonicalBackendRoute(base, parts) ==
    IF IsPrefix(base, parts) \/ parts[1] \in ContractRoots
       \/ IsPrefix(<<"auth", "token">>, parts)
    THEN parts
    ELSE base \o WithoutVersion(parts)

================================================================================
