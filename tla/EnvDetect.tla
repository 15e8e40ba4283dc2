------------------------------- MODULE EnvDetect -------------------------------
(***************************************************************************)
(* How the NHI provider finds out where it runs and gets the token that    *)
(* proves it (src/nhi/envdetect.go, src/nhi/aws_sigv4.go, and the parts of  *)
(* Provider.Start and doExchange that use them).  The process keeps its     *)
(* environment variables; the token files change, every call over the       *)
(* network may fail, and the context of the detection may end at any time.  *)
(* What becomes of the request is in NhiProvider.                           *)
(***************************************************************************)
EXTENDS Naturals, FiniteSets

CONSTANTS
    Hosts,      \* where a provider may run, and the environment it is given
    NoHost, NoRequest

VARIABLES
    host,       \* the variables and services the process finds, or NoHost
    files,      \* the contents of the two token files
    penv,       \* p.env
    step,       \* where Start or a renewal is
    timeLeft,   \* the context of the detection has time left
    imds,       \* what the instance metadata service has answered so far
    request,    \* who the last exchange said it is, or NoRequest
    cutShort    \* history: the caller's context or ProbeTimeout ended the detection

detectVars == <<host, files, penv, step, timeLeft, imds, request, cutShort>>

Environments == {"unknown", "github-actions", "gitlab-ci", "kubernetes", "aws", "gcp", "local"}

\* A variable is unset, white space, text its reader cannot use, or usable text.
Texts == {"unset", "blank", "bad", "set"}
Contents == {"absent", "empty", "blank", "full"}
\* What is at an address: nothing, or a service that answers 200 or another status.
Answers == {"none", "other", "200"}
Host == [configured : Environments,      \* ProviderConfig.Environment
         github : Texts,                 \* ACTIONS_ID_TOKEN_REQUEST_URL
         githubToken : BOOLEAN,          \* ACTIONS_ID_TOKEN_REQUEST_TOKEN
         gitlab : BOOLEAN,               \* GITLAB_CI, CI_SERVER_URL, CI_PROJECT_PATH
         gitlabToken : Texts \ {"bad"},  \* ZINETIC_OIDC_TOKEN ... CI_JOB_JWT
         webFile : Texts,                \* AWS_WEB_IDENTITY_TOKEN_FILE
         fullURI : Texts,                \* AWS_CONTAINER_CREDENTIALS_FULL_URI
         relativeURI : Texts,            \* AWS_CONTAINER_CREDENTIALS_RELATIVE_URI
         runtime : BOOLEAN,              \* ECS_CONTAINER_METADATA_URI*, AWS_EXECUTION_ENV
         awsMeta : Answers,              \* at awsIMDSTokenURL
         gcpMeta : Answers,              \* at gcpMetadataURL
         reliable : BOOLEAN,             \* both answer, or refuse, at once
         session : BOOLEAN]              \* ZINETIC_ACCESS_TOKEN

ASSUME HostsAssumption == Hosts \subseteq Host /\ NoHost \notin Host

Given(text) == text # "unset"                  \* os.Getenv(...) # ""
Trimmed(text) == text \notin {"unset", "blank"}  \* and after TrimSpace

\* The body of a 200 of the instance metadata service: io.LimitReader cuts a long
\* one without an error, and nothing asks whether there is one.
Bodies == {"empty", "cut", "full"}
Collected == [session : Bodies \cup {"none"}, document : Bodies \cup {"none"},
              signature : Bodies \cup {"none"}]
NoAnswers == [session |-> "none", document |-> "none", signature |-> "none"]

Steps == {"idle", "probeAWS", "probeGCP", "fetch", "document", "signature"}

DetectInit ==
    /\ host = NoHost
    /\ files = [account |-> "absent", web |-> "absent"]
    /\ penv = "unknown" /\ step = "idle" /\ timeLeft = TRUE
    /\ imds = NoAnswers /\ request = NoRequest /\ cutShort = FALSE

NewProvider ==
    /\ host = NoHost
    /\ host' \in Hosts
    /\ files' \in [account : Contents, web : Contents]
    /\ UNCHANGED <<penv, step, timeLeft, imds, request, cutShort>>

\* A token file is written, emptied or removed.
FileChanges ==
    /\ host # NoHost
    /\ \E c \in Contents : files' \in {[files EXCEPT !.account = c], [files EXCEPT !.web = c]}
    /\ UNCHANGED <<host, penv, step, timeLeft, imds, request, cutShort>>

--------------------------------------------------------------------------------
(* DetectEnvironment                                                          *)

isGitHubActions == Given(host.github) /\ host.githubToken
isGitLabCI == host.gitlab
isExplicitAWS == Given(host.webFile) \/ Given(host.fullURI) \/ Given(host.relativeURI)
                 \/ host.runtime
isKubernetes == files.account # "absent"

\* Mutant: AWS comes before the CI systems.
LocalAWSFirst == IF isExplicitAWS THEN "aws"
                 ELSE IF isGitHubActions THEN "github-actions"
                 ELSE IF isGitLabCI THEN "gitlab-ci"
                 ELSE IF isKubernetes THEN "kubernetes"
                 ELSE "unknown"

\* What the variables and the file tell, before anything is asked.
Local == IF isGitHubActions THEN "github-actions"
         ELSE IF isGitLabCI THEN "gitlab-ci"
         ELSE IF isExplicitAWS THEN "aws"
         ELSE IF isKubernetes THEN "kubernetes"
         ELSE "unknown"

Detected(env) ==
    /\ penv' = env
    /\ step' = "fetch"

\* Start, and a renewal, which finds the environment known: it is kept, given, or
\* told by the variables; or probes are made, under a context that may have ended.
Start ==
    /\ host # NoHost /\ step = "idle"
    /\ request' = NoRequest /\ imds' = NoAnswers
    /\ \/ /\ \/ penv # "unknown" /\ Detected(penv)
             \/ penv = "unknown" /\ host.configured # "unknown" /\ Detected(host.configured)
             \/ penv = "unknown" /\ host.configured = "unknown" /\ Local # "unknown"
                /\ Detected(Local)
          /\ UNCHANGED <<timeLeft, cutShort>>
       \/ /\ penv = "unknown" /\ host.configured = "unknown" /\ Local = "unknown"
          /\ step' = "probeAWS" /\ UNCHANGED penv
          /\ timeLeft' \in BOOLEAN /\ cutShort' = ~timeLeft'
    /\ UNCHANGED <<host, files>>

\* The context that Start derives from the caller's and ProbeTimeout ends.
ContextEnds ==
    /\ step \in {"probeAWS", "probeGCP"} /\ timeLeft
    /\ timeLeft' = FALSE /\ cutShort' = TRUE
    /\ UNCHANGED <<host, files, penv, step, imds, request>>

\* Mutant: the probe cancels the context it was given.
isAWSCancels ==
    /\ step = "probeAWS"
    /\ IF timeLeft /\ host.awsMeta = "200" THEN Detected("aws")
       ELSE step' = "probeGCP" /\ UNCHANGED penv
    /\ timeLeft' = FALSE
    /\ UNCHANGED <<host, files, imds, request, cutShort>>

\* A probe succeeds with a 200 in time.  One of a service that does not answer at
\* once fails, and may use up the time of the next one: ProbeTimeout bounds the
\* detection as a whole, and is by default as long as one probe may take.
isAWS ==
    /\ step = "probeAWS"
    /\ \/ timeLeft /\ host.awsMeta = "200" /\ Detected("aws") /\ UNCHANGED timeLeft
       \/ ~(timeLeft /\ host.awsMeta = "200") /\ step' = "probeGCP" /\ UNCHANGED <<penv, timeLeft>>
       \/ ~host.reliable /\ step' = "probeGCP" /\ timeLeft' \in {timeLeft, FALSE}
          /\ UNCHANGED penv
    /\ UNCHANGED <<host, files, imds, request, cutShort>>

isGCP ==
    /\ step = "probeGCP"
    /\ \/ timeLeft /\ host.gcpMeta = "200" /\ Detected("gcp")
       \/ ~(timeLeft /\ host.gcpMeta = "200" /\ host.reliable) /\ Detected("local")
    /\ UNCHANGED <<host, files, timeLeft, imds, request, cutShort>>

--------------------------------------------------------------------------------
(* FetchAttestationToken and the request that carries the token               *)

tokenTypeForEnv(env) ==
    CASE env \in {"github-actions", "gitlab-ci", "gcp"} -> "oidc"
      [] env = "aws" -> IF Trimmed(host.webFile) THEN "oidc"
                        ELSE IF Trimmed(host.fullURI) \/ Trimmed(host.relativeURI) THEN "aws_sts"
                        ELSE "instance_identity"
      [] env = "local" -> "local_session"
      [] OTHER -> "jwt"

\* The body of the exchange: the environment, the kind of the token, and where the
\* token is from.
Claims(source, text) ==
    /\ request' = [environment |-> penv, type |-> tokenTypeForEnv(penv), source |-> source,
                   text |-> text]
    /\ step' = "idle"

Gives(source) == Claims(source, "full")

\* An error of Start or of the renewal; the environment stays.
Fails == step' = "idle" /\ UNCHANGED request

fetchGitHubActionsToken == \/ host.github = "set" /\ host.githubToken /\ Gives("github")
                           \/ Fails
fetchGitLabCIToken == IF host.gitlabToken = "set" THEN Gives("gitlab") ELSE Fails

\* White space passes as a token.
fetchKubernetesToken ==
    IF files.account \in {"blank", "full"} THEN Claims("account", files.account) ELSE Fails

\* An empty body is refused, a long one is cut.
fetchGCPIdentityToken == \/ host.gcpMeta # "none" /\ (Gives("gcp") \/ Claims("gcp", "half"))
                         \/ Fails
fetchLocalToken == IF host.session THEN Gives("session") ELSE Fails

\* A path that is not absolute is "bad".
fetchAWSWebIdentityToken ==
    IF host.webFile = "set" /\ files.web = "full" THEN Gives("web") ELSE Fails

hasECSCredentialsEndpoint == Trimmed(host.fullURI) \/ Trimmed(host.relativeURI)

\* A full URI that cannot be used is not replaced by the relative one.
ecsCredentialsURL ==
    IF Trimmed(host.fullURI) THEN host.fullURI = "set" ELSE host.relativeURI = "set"

\* The credentials come over the network and may lack a key.
fetchECSIdentityEnvelope == \/ ecsCredentialsURL /\ Gives("sts")
                            \/ Fails

\* The session token of the metadata service; the document and its signature follow.
imdsSession == \/ /\ host.awsMeta # "none"
                  /\ imds' \in {[imds EXCEPT !.session = b] : b \in Bodies}
                  /\ step' = "document" /\ UNCHANGED request
               \/ Fails /\ UNCHANGED imds

\* Mutant: the container comes before the web identity.
fetchAWSIdentityDocumentSwapped ==
    IF hasECSCredentialsEndpoint THEN fetchECSIdentityEnvelope /\ UNCHANGED imds
    ELSE IF Trimmed(host.webFile) THEN fetchAWSWebIdentityToken /\ UNCHANGED imds
    ELSE imdsSession

fetchAWSIdentityDocument ==
    IF Trimmed(host.webFile) THEN fetchAWSWebIdentityToken /\ UNCHANGED imds
    ELSE IF hasECSCredentialsEndpoint THEN fetchECSIdentityEnvelope /\ UNCHANGED imds
    ELSE imdsSession

FetchAttestationToken ==
    /\ step = "fetch"
    /\ \/ penv = "github-actions" /\ fetchGitHubActionsToken /\ UNCHANGED imds
       \/ penv = "gitlab-ci" /\ fetchGitLabCIToken /\ UNCHANGED imds
       \/ penv = "kubernetes" /\ fetchKubernetesToken /\ UNCHANGED imds
       \/ penv = "aws" /\ fetchAWSIdentityDocument
       \/ penv = "gcp" /\ fetchGCPIdentityToken /\ UNCHANGED imds
       \/ penv = "local" /\ fetchLocalToken /\ UNCHANGED imds
    /\ UNCHANGED <<host, files, penv, timeLeft, cutShort>>

fetchDocument ==
    /\ step = "document"
    /\ \/ /\ imds' \in {[imds EXCEPT !.document = b] : b \in Bodies}
          /\ step' = "signature" /\ UNCHANGED request
       \/ Fails /\ UNCHANGED imds
    /\ UNCHANGED <<host, files, penv, timeLeft, cutShort>>

\* The envelope of the document and its signature, as they are.
Envelope(i) ==
    Claims("imds", IF i.document = "full" /\ i.signature = "full" THEN "full" ELSE "half")

\* Mutant: the status of the last answer is not looked at.
fetchSignatureUnchecked ==
    /\ step = "signature"
    /\ imds' \in {imds} \cup {[imds EXCEPT !.signature = b] : b \in Bodies}
    /\ Envelope(imds')
    /\ UNCHANGED <<host, files, penv, timeLeft, cutShort>>

fetchSignature ==
    /\ step = "signature"
    /\ \/ /\ imds' \in {[imds EXCEPT !.signature = b] : b \in Bodies}
          /\ Envelope(imds')
       \/ Fails /\ UNCHANGED imds
    /\ UNCHANGED <<host, files, penv, timeLeft, cutShort>>

DetectNext ==
    \/ NewProvider \/ FileChanges \/ Start \/ ContextEnds \/ isAWS \/ isGCP
    \/ FetchAttestationToken \/ fetchDocument \/ fetchSignature

DetectSpec == DetectInit /\ [][DetectNext]_detectVars

--------------------------------------------------------------------------------
(* Properties                                                                 *)

Claim == [environment : Environments, type : {"oidc", "jwt", "aws_sts", "instance_identity",
                                              "local_session"},
          source : {"github", "gitlab", "account", "web", "sts", "imds", "gcp", "session"},
          text : Contents \cup {"half"}]

\* Every variable has a value of its type, and an exchange that has begun knows its
\* environment (the default case of FetchAttestationToken is never reached).
DetectTypeOK ==
    /\ host \in Hosts \cup {NoHost}
    /\ files \in [account : Contents, web : Contents]
    /\ penv \in Environments /\ step \in Steps
    /\ timeLeft \in BOOLEAN /\ cutShort \in BOOLEAN
    /\ imds \in Collected
    /\ request \in Claim \cup {NoRequest}
    /\ step \in {"fetch", "document", "signature"} => penv # "unknown"

\* What a request says of the process: its environment, the kind of its token and
\* the source of the token.
Agreed == {<<"github-actions", "oidc", "github">>, <<"gitlab-ci", "oidc", "gitlab">>,
           <<"kubernetes", "jwt", "account">>, <<"aws", "oidc", "web">>,
           <<"aws", "aws_sts", "sts">>, <<"aws", "instance_identity", "imds">>,
           <<"gcp", "oidc", "gcp">>, <<"local", "local_session", "session">>}

\* The environment, the kind and the token of a request agree: tokenTypeForEnv reads
\* the variables again that chose the token, and a renewal may do so long after the
\* environment was detected.
RequestAgrees ==
    request # NoRequest =>
        <<request.environment, request.type, request.source>> \in Agreed

\* No request is made with an empty token, whatever happened to the files since the
\* environment was detected, nor before all three requests to the instance metadata
\* service were answered with 200.  What those answers held is not checked by the
\* code: an envelope may go out with an empty or a cut document or signature.
TokenWasGiven ==
    request # NoRequest =>
        /\ request.text \notin {"absent", "empty"}
        /\ request.source = "imds" => "none" \notin {imds.session, imds.document, imds.signature}

\* A provider that was not told where it is presents the identity of the machine it
\* runs on only when the process was given none of its own, by a CI system, a web
\* identity or container credentials: DetectEnvironment and fetchAWSIdentityDocument
\* ask for those first, and a CI runner may well be a machine of a cloud.
MachineIsLast ==
    (request # NoRequest /\ host.configured = "unknown" /\ request.source \in {"imds", "gcp"}) =>
        /\ ~isGitHubActions /\ ~isGitLabCI
        /\ ~Trimmed(host.webFile) /\ ~hasECSCredentialsEndpoint

\* A provider on a cloud whose metadata service answers is taken for a local one only
\* when the context of Start or a short ProbeTimeout ended the detection: the probe of
\* the other cloud leaves the time to its own.  (When that happens, or a service that
\* is slow makes a probe fail, p.env stays local for every later Start.)
ReliableCloudFound ==
    (host # NoHost /\ host.reliable /\ host.configured = "unknown" /\ penv = "local") =>
        cutShort \/ (host.awsMeta # "200" /\ host.gcpMeta # "200")

================================================================================
