-------------------------------- MODULE MCSession ------------------------------
(***************************************************************************)
(* The values of the constants of ApiClient and EnvDetect, and one         *)
(* specification of these and of RenewalTiming.  The client, the           *)
(* attestation of a provider and the timers of a renewal loop share no     *)
(* state, so that a behaviour of all is an interleaving of a behaviour of   *)
(* each, and it is enough to follow them one at a time.                    *)
(***************************************************************************)
EXTENDS ApiClient, EnvDetect, RenewalTiming

At(scheme, loopback, path) == [scheme |-> scheme, loopback |-> loopback, path |-> path]

\* A plain host, one with the base path and a slash at the end, one behind a
\* prefix, the local machine, and one that is refused.
MCBaseURLs == {At("https", FALSE, <<>>), At("https", FALSE, <<"api", "v1", NoText>>),
               At("https", FALSE, <<"edge", "gateway", "v1">>), At("http", TRUE, <<>>),
               At("http", FALSE, <<>>)}

\* "", "/", "/v1" and "gateway/v1/".
MCBasePaths == {Empty, <<NoText, NoText>>, <<NoText, "v1">>, <<"gateway", "v1", NoText>>}

MCTenants == {Blank, "t"}

\* A word, a word of the API, nothing, white space, dots, a reserved character, two
\* parts, parts between slashes and a way out of the route.
MCIdTexts == {<<"x">>, <<"inventory">>, Empty, <<Blank>>, <<".">>, <<"..">>, <<Odd>>,
              <<"x", "y">>, <<NoText, "x", Odd, NoText>>, <<"x", "..">>}

\* Paths with dots, an empty part, white space, a query and a version of their own, and
\* a route the SDK does not know.
MCRawTexts == {<<"tenants", "..", "agents">>, <<"tenants", Blank>>, <<NoText, "agents">>,
               <<"agents", Odd>>, <<"v1", "tenants">>, <<"x", "..", "..", "..">>,
               <<"reports", "x">>}

\* What the theorems about the routes take for granted.
ASSUME PlainConfiguration /\ TenantFreeBases

\* A machine without any of the variables, and those on which at most MaxGiven of
\* them are given.
MaxGiven == 2
Bare == [configured |-> "unknown", github |-> "unset", githubToken |-> FALSE, gitlab |-> FALSE,
         gitlabToken |-> "unset", webFile |-> "unset", fullURI |-> "unset",
         relativeURI |-> "unset", runtime |-> FALSE, awsMeta |-> "none",
         gcpMeta |-> "none", reliable |-> FALSE, session |-> FALSE]
Variables == DOMAIN Bare \ {"awsMeta", "gcpMeta", "reliable", "session"}
MCHosts == {h \in Host : Cardinality({v \in Variables : h[v] # Bare[v]}) <= MaxGiven}

SessionInit == Init /\ DetectInit /\ TimingInit

SessionNext ==
    \/ DetectInit /\ TimingInit /\ Next /\ UNCHANGED <<detectVars, timingVars>>
    \/ Init /\ TimingInit /\ DetectNext /\ UNCHANGED <<vars, timingVars>>
    \/ Init /\ DetectInit /\ TimingNext /\ UNCHANGED <<vars, detectVars>>

SessionSpec == SessionInit /\ [][SessionNext]_<<vars, detectVars, timingVars>>

================================================================================
