---------------------------- MODULE EnvDetectProofs ----------------------------
(***************************************************************************)
(* Proofs about EnvDetect for every set of hosts.  What a request says of   *)
(* the process is decided in several steps, with the environment fixed in   *)
(* an earlier Start; the invariant says what each step still knows of the   *)
(* choices before it.                                                      *)
(***************************************************************************)
EXTENDS EnvDetect, TLAPS

\* Between two exchanges nothing is under way; during one no request is pending.
Quiet ==
    /\ host = NoHost => step = "idle" /\ penv = "unknown" /\ request = NoRequest
    /\ step # "idle" => request = NoRequest

\* Only a provider that was told nothing probes, after it has looked for variables;
\* a probe of a service that answers leaves the time it was given.
Probing ==
    /\ step \in {"probeAWS", "probeGCP"} =>
         /\ penv = "unknown" /\ host.configured = "unknown"
         /\ ~isGitHubActions /\ ~isGitLabCI /\ ~isExplicitAWS
    /\ (step = "probeAWS" /\ ~cutShort) => timeLeft
    /\ (step = "probeGCP" /\ host.reliable /\ ~cutShort) => timeLeft /\ host.awsMeta # "200"

\* The metadata service is asked only when no variable names another source of an
\* identity, and its answers are collected in order.
Asking ==
    /\ step \in {"document", "signature"} =>
         penv = "aws" /\ ~Trimmed(host.webFile) /\ ~hasECSCredentialsEndpoint
    /\ step \in {"document", "signature"} => imds.session # "none"
    /\ step = "signature" => imds.document # "none"

\* What the detection has ruled out when it names a cloud.
CloudLast ==
    (host # NoHost /\ host.configured = "unknown") =>
        /\ penv \in {"aws", "gcp"} => ~isGitHubActions /\ ~isGitLabCI
        /\ penv = "gcp" => ~isExplicitAWS

Held == CloudLast /\ ReliableCloudFound

DetectInv ==
    /\ DetectTypeOK /\ Quiet /\ Probing /\ Asking /\ Held
    /\ RequestAgrees /\ TokenWasGiven /\ MachineIsLast

--------------------------------------------------------------------------------
\* The host a provider has was one of the given ones.
LEMMA HostIsHost == ASSUME DetectTypeOK, host # NoHost PROVE host \in Hosts /\ host \in Host
  BY HostsAssumption DEF DetectTypeOK

\* What the process was given is read from its variables.
LEMMA VariablesSame ==
    ASSUME UNCHANGED host
    PROVE  /\ isGitHubActions' = isGitHubActions /\ isGitLabCI' = isGitLabCI
           /\ isExplicitAWS' = isExplicitAWS
           /\ Trimmed(host.webFile)' = Trimmed(host.webFile)
           /\ hasECSCredentialsEndpoint' = hasECSCredentialsEndpoint
  BY DEF isGitHubActions, isGitLabCI, isExplicitAWS, Given, Trimmed, hasECSCredentialsEndpoint

LEMMA InitInv == DetectInit => DetectInv
<1> SUFFICES ASSUME DetectInit PROVE DetectInv
  OBVIOUS
<1>1. /\ host = NoHost /\ penv = "unknown" /\ step = "idle" /\ request = NoRequest
      /\ files = [account |-> "absent", web |-> "absent"] /\ imds = NoAnswers
  BY DEF DetectInit
<1>2. timeLeft \in BOOLEAN /\ cutShort \in BOOLEAN
  BY Zenon DEF DetectInit
<1>3. DetectTypeOK
  BY <1>1, <1>2 DEF DetectTypeOK, Contents, Environments, Steps, NoAnswers, Collected, Bodies
<1> QED
  BY <1>1, <1>3 DEF DetectInv, Quiet, Probing, Asking, Held, CloudLast, RequestAgrees,
     TokenWasGiven, MachineIsLast, ReliableCloudFound

LEMMA NewProviderInv == ASSUME DetectInv, NewProvider PROVE DetectInv'
<1>1. host' \in Hosts /\ files' \in [account : Contents, web : Contents]
  BY DEF NewProvider
<1>2. penv = "unknown" /\ step = "idle" /\ request = NoRequest
  BY DEF DetectInv, Quiet, NewProvider
<1>3. UNCHANGED <<penv, step, timeLeft, imds, request, cutShort>>
  BY DEF NewProvider
<1>4. DetectTypeOK'
  BY <1>1, <1>2, <1>3 DEF DetectInv, DetectTypeOK
<1> QED
  BY <1>2, <1>3, <1>4 DEF DetectInv, Quiet, Probing, Asking, Held, CloudLast, RequestAgrees,
     TokenWasGiven, MachineIsLast, ReliableCloudFound

LEMMA FileChangesInv == ASSUME DetectInv, FileChanges PROVE DetectInv'
<1>1. UNCHANGED <<host, penv, step, timeLeft, imds, request, cutShort>>
  BY DEF FileChanges
<1>2. files' \in [account : Contents, web : Contents]
  BY DEF FileChanges, DetectInv, DetectTypeOK
<1>3. DetectTypeOK'
  BY <1>1, <1>2 DEF DetectInv, DetectTypeOK
<1> QED
  BY <1>1, <1>3, VariablesSame DEF DetectInv, Quiet, Probing, Asking, Held, CloudLast,
     RequestAgrees, TokenWasGiven, MachineIsLast, ReliableCloudFound

\* What Local says is an environment; a cloud comes after the CI systems, and nothing
\* that only a probe can find is among them.
LEMMA LocalValue ==
    /\ Local \in Environments /\ Local \notin {"gcp", "local"}
    /\ Local \in {"aws", "unknown"} => ~isGitHubActions /\ ~isGitLabCI
    /\ Local = "unknown" => ~isExplicitAWS
  BY DEF Local, Environments

LEMMA StartInv == ASSUME DetectInv, Start PROVE DetectInv'
<1>1. /\ host # NoHost /\ step = "idle" /\ UNCHANGED <<host, files>>
      /\ request' = NoRequest /\ imds' = NoAnswers
  BY DEF Start
<1>2. host \in Hosts /\ host \in Host
  BY <1>1, HostIsHost DEF DetectInv
<1>3. \/ /\ \/ penv' = penv /\ penv # "unknown" /\ step' = "fetch"
            \/ penv' = host.configured /\ host.configured # "unknown" /\ step' = "fetch"
            \/ penv' = Local /\ Local # "unknown" /\ step' = "fetch"
         /\ UNCHANGED <<timeLeft, cutShort>>
      \/ /\ penv' = penv /\ penv = "unknown" /\ host.configured = "unknown"
         /\ step' = "probeAWS" /\ Local = "unknown"
         /\ timeLeft' \in BOOLEAN /\ cutShort' = ~timeLeft'
  BY DEF Start, Detected
<1>4. cutShort' \in BOOLEAN /\ timeLeft' \in BOOLEAN
  BY <1>3, Zenon DEF DetectInv, DetectTypeOK
<1>5. DetectTypeOK'
  BY <1>1, <1>2, <1>3, <1>4, LocalValue
     DEF DetectInv, DetectTypeOK, Host, Steps, NoAnswers, Collected
<1>6. Held'
  BY <1>1, <1>2, <1>3, LocalValue, VariablesSame DEF DetectInv, Held, CloudLast,
     ReliableCloudFound
<1>7. Probing'
  <2>1. CASE step' = "fetch"
    BY <2>1 DEF Probing
  <2>2. CASE step' = "probeAWS"
    <3>1. /\ penv' = "unknown" /\ host.configured = "unknown"
          /\ ~isGitHubActions /\ ~isGitLabCI /\ ~isExplicitAWS
      BY <1>3, <2>2, LocalValue
    <3>2. ~cutShort' => timeLeft'
      BY <1>3, <2>2, Zenon
    <3> QED BY <1>1, <2>2, <3>1, <3>2, VariablesSame DEF Probing
  <2> QED BY <1>3, <2>1, <2>2
<1> QED
  BY <1>1, <1>3, <1>5, <1>6, <1>7 DEF DetectInv, Quiet, Asking, RequestAgrees, TokenWasGiven,
     MachineIsLast

LEMMA ContextEndsInv == ASSUME DetectInv, ContextEnds PROVE DetectInv'
<1>1. /\ step \in {"probeAWS", "probeGCP"} /\ timeLeft' = FALSE /\ cutShort' = TRUE
      /\ UNCHANGED <<host, files, penv, step, imds, request>>
  BY DEF ContextEnds
<1>2. DetectTypeOK'
  BY <1>1 DEF DetectInv, DetectTypeOK
<1> QED
  BY <1>1, <1>2, VariablesSame DEF DetectInv, Quiet, Probing, Asking, Held, CloudLast,
     RequestAgrees, TokenWasGiven, MachineIsLast, ReliableCloudFound

LEMMA isAWSInv == ASSUME DetectInv, isAWS PROVE DetectInv'
<1>1. /\ step = "probeAWS" /\ UNCHANGED <<host, files, imds, request, cutShort>>
      /\ penv = "unknown" /\ host.configured = "unknown" /\ (~cutShort => timeLeft)
      /\ ~isGitHubActions /\ ~isGitLabCI /\ ~isExplicitAWS
      /\ host # NoHost /\ request = NoRequest
  BY DEF isAWS, DetectInv, Probing, Quiet
<1>2. \/ penv' = "aws" /\ step' = "fetch" /\ timeLeft' = timeLeft
      \/ /\ ~(timeLeft /\ host.awsMeta = "200")
         /\ penv' = penv /\ step' = "probeGCP" /\ timeLeft' = timeLeft
      \/ ~host.reliable /\ penv' = penv /\ step' = "probeGCP" /\ timeLeft' \in BOOLEAN
  BY DEF isAWS, Detected, DetectInv, DetectTypeOK
<1>3. DetectTypeOK'
  BY <1>1, <1>2 DEF DetectInv, DetectTypeOK, Environments, Steps
<1>4. Probing' /\ Held'
  BY <1>1, <1>2, VariablesSame DEF Probing, Held, CloudLast, ReliableCloudFound
<1> QED
  BY <1>1, <1>2, <1>3, <1>4 DEF DetectInv, Quiet, Asking, RequestAgrees, TokenWasGiven,
     MachineIsLast

LEMMA isGCPInv == ASSUME DetectInv, isGCP PROVE DetectInv'
<1>1. /\ step = "probeGCP" /\ UNCHANGED <<host, files, timeLeft, imds, request, cutShort>>
      /\ host # NoHost /\ request = NoRequest
      /\ ~isGitHubActions /\ ~isGitLabCI /\ ~isExplicitAWS
      /\ host.reliable /\ ~cutShort => timeLeft /\ host.awsMeta # "200"
  BY DEF isGCP, DetectInv, Probing, Quiet
<1>2. /\ step' = "fetch"
      /\ \/ penv' = "gcp"
         \/ ~(timeLeft /\ host.gcpMeta = "200" /\ host.reliable) /\ penv' = "local"
  BY DEF isGCP, Detected
<1>3. DetectTypeOK'
  BY <1>1, <1>2 DEF DetectInv, DetectTypeOK, Environments, Steps
<1>4. Held'
  BY <1>1, <1>2, VariablesSame DEF Held, CloudLast, ReliableCloudFound
<1> QED
  BY <1>1, <1>2, <1>3, <1>4 DEF DetectInv, Quiet, Probing, Asking, RequestAgrees,
     TokenWasGiven, MachineIsLast

--------------------------------------------------------------------------------
\* The end of an exchange: an error, or a request whose parts agree.

LEMMA FailsInv ==
    ASSUME DetectInv, step # "idle", Fails,
           UNCHANGED <<host, files, penv, timeLeft, imds, cutShort>>
    PROVE  DetectInv'
<1>1. step' = "idle" /\ request' = request
  BY DEF Fails
<1>2. DetectTypeOK'
  BY <1>1 DEF DetectInv, DetectTypeOK, Steps
<1>3. Held'
  BY VariablesSame DEF DetectInv, Held, CloudLast, ReliableCloudFound
<1>4. host # NoHost /\ request = NoRequest
  BY DEF DetectInv, Quiet
<1> QED
  BY <1>1, <1>2, <1>3, <1>4 DEF DetectInv, Quiet, Probing, Asking, RequestAgrees, TokenWasGiven,
     MachineIsLast

\* The kind of a token outside AWS follows from the environment alone.
LEMMA TokenTypes ==
    /\ penv \in {"github-actions", "gitlab-ci", "gcp"} => tokenTypeForEnv(penv) = "oidc"
    /\ penv = "kubernetes" => tokenTypeForEnv(penv) = "jwt"
    /\ penv = "local" => tokenTypeForEnv(penv) = "local_session"
  BY DEF tokenTypeForEnv

LEMMA TokenTypesAWS ==
    ASSUME penv = "aws"
    PROVE  tokenTypeForEnv(penv) = IF Trimmed(host.webFile) THEN "oidc"
                                   ELSE IF hasECSCredentialsEndpoint THEN "aws_sts"
                                   ELSE "instance_identity"
  BY DEF tokenTypeForEnv, hasECSCredentialsEndpoint

LEMMA ClaimsInv ==
    ASSUME DetectInv, step # "idle", UNCHANGED <<host, files, penv, timeLeft, cutShort>>,
           NEW source, NEW text \in {"blank", "full", "half"}, Claims(source, text),
           <<penv, tokenTypeForEnv(penv), source>> \in Agreed,
           imds' \in Collected,
           source = "imds" => "none" \notin {imds'.session, imds'.document, imds'.signature}
    PROVE  DetectInv'
<1>1. /\ step' = "idle"
      /\ request' = [environment |-> penv, type |-> tokenTypeForEnv(penv), source |-> source,
                     text |-> text]
  BY DEF Claims
<1>2. /\ request'.environment = penv /\ request'.type = tokenTypeForEnv(penv)
      /\ request'.source = source /\ request'.text = text
  BY <1>1
<1>3. request' \in Claim
  <2>1. /\ penv \in Environments
        /\ tokenTypeForEnv(penv) \in {"oidc", "jwt", "aws_sts", "instance_identity",
                                      "local_session"}
        /\ source \in {"github", "gitlab", "account", "web", "sts", "imds", "gcp", "session"}
    BY DEF Agreed, Environments
  <2>2. text \in Contents \cup {"half"}
    BY DEF Contents
  <2> QED BY <1>1, <2>1, <2>2 DEF Claim
<1>4. DetectTypeOK'
  BY <1>1, <1>3 DEF DetectInv, DetectTypeOK, Steps
<1>5. RequestAgrees' /\ TokenWasGiven'
  BY <1>2 DEF RequestAgrees, TokenWasGiven
<1>6. Held'
  BY VariablesSame DEF DetectInv, Held, CloudLast, ReliableCloudFound
<1>7. host # NoHost
  BY DEF DetectInv, Quiet
<1>8. MachineIsLast'
  <2> SUFFICES ASSUME source \in {"imds", "gcp"}, host.configured = "unknown"
               PROVE  /\ ~isGitHubActions /\ ~isGitLabCI
                      /\ ~Trimmed(host.webFile) /\ ~hasECSCredentialsEndpoint
    BY <1>2, VariablesSame DEF MachineIsLast
  <2>1. CASE source = "imds"
    <3>1. penv = "aws" /\ tokenTypeForEnv(penv) = "instance_identity"
      BY <2>1 DEF Agreed
    <3>2. ~isGitHubActions /\ ~isGitLabCI
      BY <1>7, <3>1 DEF DetectInv, Held, CloudLast
    <3> QED BY <3>1, <3>2, TokenTypesAWS
  <2>2. CASE source = "gcp"
    <3>1. penv = "gcp"
      BY <2>2 DEF Agreed
    <3>2. ~isGitHubActions /\ ~isGitLabCI /\ ~isExplicitAWS
      BY <1>7, <3>1 DEF DetectInv, Held, CloudLast
    <3> QED BY <3>2 DEF isExplicitAWS, Given, Trimmed, hasECSCredentialsEndpoint
  <2> QED BY <2>1, <2>2
<1> QED
  BY <1>1, <1>4, <1>5, <1>6, <1>7, <1>8 DEF DetectInv, Quiet, Probing, Asking

\* The session token of the metadata service starts a longer fetch.
LEMMA imdsSessionInv ==
    ASSUME DetectInv, step = "fetch", UNCHANGED <<host, files, penv, timeLeft, cutShort>>,
           penv = "aws",
           ~Trimmed(host.webFile), ~hasECSCredentialsEndpoint, imdsSession
    PROVE  DetectInv'
<1>1. CASE /\ imds' \in {[imds EXCEPT !.session = b] : b \in Bodies}
           /\ step' = "document" /\ UNCHANGED request
  <2>0. /\ imds' \in Collected
        /\ imds'.session # "none"
    BY <1>1 DEF DetectInv, DetectTypeOK, Collected, Bodies
  <2>1. DetectTypeOK'
    BY <1>1, <2>0 DEF DetectInv, DetectTypeOK, Steps
  <2>2. Held'
    BY VariablesSame DEF DetectInv, Held, CloudLast, ReliableCloudFound
  <2>3. host # NoHost /\ request = NoRequest
    BY DEF DetectInv, Quiet
  <2>4. Asking'
    BY <1>1, <2>0, VariablesSame DEF Asking
  <2> QED
    BY <1>1, <2>1, <2>2, <2>3, <2>4 DEF DetectInv, Quiet, Probing, RequestAgrees, TokenWasGiven,
       MachineIsLast
<1>2. CASE Fails /\ UNCHANGED imds
  BY <1>2, FailsInv
<1> QED BY <1>1, <1>2 DEF imdsSession

LEMMA FetchAWSInv ==
    ASSUME DetectInv, step = "fetch", UNCHANGED <<host, files, penv, timeLeft, cutShort>>,
           penv = "aws",
           fetchAWSIdentityDocument
    PROVE  DetectInv'
<1>0. imds \in Collected
  BY DEF DetectInv, DetectTypeOK
<1>1. CASE Trimmed(host.webFile)
  <2>1. fetchAWSWebIdentityToken /\ UNCHANGED imds
    BY <1>1 DEF fetchAWSIdentityDocument
  <2>2. <<penv, tokenTypeForEnv(penv), "web">> \in Agreed
    BY <1>1, TokenTypesAWS DEF Agreed
  <2>3. Claims("web", "full") \/ Fails
    BY <2>1 DEF fetchAWSWebIdentityToken, Gives
  <2> QED BY <1>0, <2>1, <2>2, <2>3, FailsInv, ClaimsInv
<1>2. CASE ~Trimmed(host.webFile) /\ hasECSCredentialsEndpoint
  <2>1. fetchECSIdentityEnvelope /\ UNCHANGED imds
    BY <1>2 DEF fetchAWSIdentityDocument
  <2>2. <<penv, tokenTypeForEnv(penv), "sts">> \in Agreed
    BY <1>2, TokenTypesAWS DEF Agreed
  <2>3. Claims("sts", "full") \/ Fails
    BY <2>1 DEF fetchECSIdentityEnvelope, Gives
  <2> QED BY <1>0, <2>1, <2>2, <2>3, FailsInv, ClaimsInv
<1>3. CASE ~Trimmed(host.webFile) /\ ~hasECSCredentialsEndpoint
  BY <1>3, imdsSessionInv DEF fetchAWSIdentityDocument
<1> QED BY <1>1, <1>2, <1>3

LEMMA FetchInv == ASSUME DetectInv, FetchAttestationToken PROVE DetectInv'
<1>1. step = "fetch" /\ UNCHANGED <<host, files, penv, timeLeft, cutShort>>
  BY DEF FetchAttestationToken
<1>2. imds \in Collected
  BY DEF DetectInv, DetectTypeOK
<1>3. CASE penv = "github-actions" /\ fetchGitHubActionsToken /\ UNCHANGED imds
  <2>1. <<penv, tokenTypeForEnv(penv), "github">> \in Agreed
    BY <1>3, TokenTypes DEF Agreed
  <2>2. Claims("github", "full") \/ Fails
    BY <1>3 DEF fetchGitHubActionsToken, Gives
  <2> QED BY <1>1, <1>2, <1>3, <2>1, <2>2, FailsInv, ClaimsInv
<1>4. CASE penv = "gitlab-ci" /\ fetchGitLabCIToken /\ UNCHANGED imds
  <2>1. <<penv, tokenTypeForEnv(penv), "gitlab">> \in Agreed
    BY <1>4, TokenTypes DEF Agreed
  <2>2. Claims("gitlab", "full") \/ Fails
    BY <1>4 DEF fetchGitLabCIToken, Gives
  <2> QED BY <1>1, <1>2, <1>4, <2>1, <2>2, FailsInv, ClaimsInv
<1>5. CASE penv = "kubernetes" /\ fetchKubernetesToken /\ UNCHANGED imds
  <2>1. <<penv, tokenTypeForEnv(penv), "account">> \in Agreed
    BY <1>5, TokenTypes DEF Agreed
  <2>2. (files.account \in {"blank", "full"} /\ Claims("account", files.account)) \/ Fails
    BY <1>5 DEF fetchKubernetesToken
  <2> QED BY <1>1, <1>2, <1>5, <2>1, <2>2, FailsInv, ClaimsInv
<1>6. CASE penv = "aws" /\ fetchAWSIdentityDocument
  BY <1>1, <1>6, FetchAWSInv
<1>7. CASE penv = "gcp" /\ fetchGCPIdentityToken /\ UNCHANGED imds
  <2>1. <<penv, tokenTypeForEnv(penv), "gcp">> \in Agreed
    BY <1>7, TokenTypes DEF Agreed
  <2>2. Claims("gcp", "full") \/ Claims("gcp", "half") \/ Fails
    BY <1>7 DEF fetchGCPIdentityToken, Gives
  <2> QED BY <1>1, <1>2, <1>7, <2>1, <2>2, FailsInv, ClaimsInv
<1>8. CASE penv = "local" /\ fetchLocalToken /\ UNCHANGED imds
  <2>1. <<penv, tokenTypeForEnv(penv), "session">> \in Agreed
    BY <1>8, TokenTypes DEF Agreed
  <2>2. Claims("session", "full") \/ Fails
    BY <1>8 DEF fetchLocalToken, Gives
  <2> QED BY <1>1, <1>2, <1>8, <2>1, <2>2, FailsInv, ClaimsInv
<1> QED BY <1>3, <1>4, <1>5, <1>6, <1>7, <1>8 DEF FetchAttestationToken

LEMMA fetchDocumentInv == ASSUME DetectInv, fetchDocument PROVE DetectInv'
<1>1. step = "document" /\ UNCHANGED <<host, files, penv, timeLeft, cutShort>>
  BY DEF fetchDocument
<1>2. CASE /\ imds' \in {[imds EXCEPT !.document = b] : b \in Bodies}
           /\ step' = "signature" /\ UNCHANGED request
  <2>1. /\ imds.session # "none" /\ penv = "aws"
        /\ ~Trimmed(host.webFile) /\ ~hasECSCredentialsEndpoint
    BY <1>1 DEF DetectInv, Asking
  <2>2. /\ imds' \in Collected
        /\ imds'.session # "none" /\ imds'.document # "none"
    BY <1>2, <2>1 DEF DetectInv, DetectTypeOK, Collected, Bodies
  <2>3. DetectTypeOK'
    BY <1>1, <1>2, <2>1, <2>2 DEF DetectInv, DetectTypeOK, Steps
  <2>4. Held'
    BY <1>1, VariablesSame DEF DetectInv, Held, CloudLast, ReliableCloudFound
  <2>5. Asking'
    BY <1>1, <1>2, <2>1, <2>2, VariablesSame DEF Asking
  <2>6. host # NoHost /\ request = NoRequest
    BY <1>1 DEF DetectInv, Quiet
  <2> QED
    BY <1>1, <1>2, <2>3, <2>4, <2>5, <2>6
       DEF DetectInv, Quiet, Probing, RequestAgrees, TokenWasGiven, MachineIsLast
<1>3. CASE Fails /\ UNCHANGED imds
  BY <1>1, <1>3, FailsInv
<1> QED BY <1>2, <1>3 DEF fetchDocument

LEMMA fetchSignatureInv == ASSUME DetectInv, fetchSignature PROVE DetectInv'
<1>1. step = "signature" /\ UNCHANGED <<host, files, penv, timeLeft, cutShort>>
  BY DEF fetchSignature
<1>2. CASE /\ imds' \in {[imds EXCEPT !.signature = b] : b \in Bodies}
           /\ Envelope(imds')
  <2>1. /\ imds.session # "none" /\ imds.document # "none" /\ penv = "aws"
        /\ ~Trimmed(host.webFile) /\ ~hasECSCredentialsEndpoint
    BY <1>1 DEF DetectInv, Asking
  <2>2. /\ imds' \in Collected
        /\ "none" \notin {imds'.session, imds'.document, imds'.signature}
    BY <1>2, <2>1 DEF DetectInv, DetectTypeOK, Collected, Bodies
  <2>3. <<penv, tokenTypeForEnv(penv), "imds">> \in Agreed
    BY <2>1, TokenTypesAWS DEF Agreed
  <2>4. Claims("imds", "full") \/ Claims("imds", "half")
    BY <1>2 DEF Envelope
  <2> QED BY <1>1, <2>2, <2>3, <2>4, ClaimsInv
<1>3. CASE Fails /\ UNCHANGED imds
  BY <1>1, <1>3, FailsInv
<1> QED BY <1>2, <1>3 DEF fetchSignature

--------------------------------------------------------------------------------
LEMMA StepInv == DetectInv /\ [DetectNext]_detectVars => DetectInv'
<1> SUFFICES ASSUME DetectInv, [DetectNext]_detectVars PROVE DetectInv'
  OBVIOUS
<1>1. CASE DetectNext
  BY <1>1, NewProviderInv, FileChangesInv, StartInv, ContextEndsInv, isAWSInv, isGCPInv, FetchInv,
     fetchDocumentInv, fetchSignatureInv DEF DetectNext
<1>2. CASE UNCHANGED detectVars
  BY <1>2, VariablesSame DEF detectVars, DetectInv, DetectTypeOK, Quiet, Probing, Asking, Held,
     CloudLast, RequestAgrees, TokenWasGiven, MachineIsLast, ReliableCloudFound
<1> QED BY <1>1, <1>2

\* The invariant holds in every behaviour, whatever hosts there are and however the
\* token files change.
THEOREM InvHolds == DetectSpec => []DetectInv
  BY InitInv, StepInv, PTL DEF DetectSpec

\* Types, and: no exchange begins before its environment is known.
THEOREM TypeCorrect == DetectSpec => []DetectTypeOK
<1>1. DetectInv => DetectTypeOK
  BY DEF DetectInv
<1> QED BY <1>1, InvHolds, PTL

\* The environment, the token kind and the token of a request always agree.
THEOREM RequestsAgree == DetectSpec => []RequestAgrees
<1>1. DetectInv => RequestAgrees
  BY DEF DetectInv
<1> QED BY <1>1, InvHolds, PTL

\* No request has an empty token, and none is made before every part of an instance
\* identity was answered.
THEOREM TokensWereGiven == DetectSpec => []TokenWasGiven
<1>1. DetectInv => TokenWasGiven
  BY DEF DetectInv
<1> QED BY <1>1, InvHolds, PTL

\* The identity of the machine is presented only by a process that was given none of
\* its own.
THEOREM MachinesAreLast == DetectSpec => []MachineIsLast
<1>1. DetectInv => MachineIsLast
  BY DEF DetectInv
<1> QED BY <1>1, InvHolds, PTL

\* A cloud whose metadata service answers is found, unless the context of Start or
\* ProbeTimeout ends the detection.
THEOREM CloudsAreFound == DetectSpec => []ReliableCloudFound
<1>1. DetectInv => ReliableCloudFound
  BY DEF DetectInv, Held
<1> QED BY <1>1, InvHolds, PTL

================================================================================
