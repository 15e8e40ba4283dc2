------------------------------ MODULE TsProvider -------------------------------
(***************************************************************************)
(* The TypeScript provider (src/typescript/src/index.ts).  JavaScript runs *)
(* one function at a time, so a step is what runs between two awaits that  *)
(* really yield.  A chain is a call of start() and the renewals that its   *)
(* timer leads to.  Times are abstract: a timer, a back-off or an answer   *)
(* may come at any moment.  Nonces are not state: the retry signs with the *)
(* challenge's nonce in the section that received it.                      *)
(***************************************************************************)
EXTENDS Naturals, FiniteSets

CONSTANTS
    Chains,       \* chains alive at a time (reused when ended)
    Configs,      \* the configurations the constructor is called with
    Packages,     \* what the backend may answer
    MaxAttempts,  \* attempts of one renewWithBackoff (10 in the code)
    None

Package == [enc : {"own", "other", "plain"}, sig : {"good", "bad", "missing"}, empty : BOOLEAN]
Config  == [local : BOOLEAN, allowPlain : BOOLEAN, policyKey : BOOLEAN, requireSig : BOOLEAN,
            hardware : {"auto", "required", "off"}, agent : BOOLEAN]

ASSUME TsAssumption ==
    /\ Configs \subseteq Config /\ Packages \subseteq Package
    /\ MaxAttempts \in Nat \ {0}
    /\ None \notin Chains \cup Packages

VARIABLES
    cfg,         \* this.cfg
    stopped,     \* this.stopped
    credential,  \* this.credential
    renewTimer,  \* this.renewTimer: the chain whose timer was armed last
    x,           \* the chains
    healthy      \* environment: backend, attestation and hardware agent work

vars == <<cfg, stopped, credential, renewTimer, x, healthy>>

NoChain == [pc |-> "idle", renewing |-> FALSE, attempt |-> 0, hw |-> FALSE, pkg |-> None]

Good == [enc |-> "own", sig |-> "good", empty |-> FALSE]

\* The constructor throws on requirePolicySignature without a key.
Accepts(f) == f.requireSig => f.policyKey

Init ==
    /\ cfg \in {f \in Configs : Accepts(f)}
    /\ stopped = TRUE /\ credential = None /\ renewTimer = None
    /\ x = [c \in Chains |-> NoChain]
    /\ healthy \in BOOLEAN

At(c, pc) == x[c].pc = pc

--------------------------------------------------------------------------------
(* start and stop                                                             *)

Start(c) ==
    /\ At(c, "idle")
    /\ stopped' = FALSE
    /\ x' = [x EXCEPT ![c] = [NoChain EXCEPT !.pc = "keygen"]]
    /\ UNCHANGED <<cfg, credential, renewTimer, healthy>>

\* The DPoP key is there, and exchange() asks for the attestation token.
KeyGenerated(c) ==
    /\ At(c, "keygen")
    /\ x' = [x EXCEPT ![c].pc = "attest"]
    /\ UNCHANGED <<cfg, stopped, credential, renewTimer, healthy>>

\* Only the timer armed last is cleared.
Stop ==
    /\ stopped' = TRUE
    /\ credential' = None
    /\ renewTimer' = None
    /\ x' = [c \in Chains |-> IF c = renewTimer /\ At(c, "timer") THEN NoChain ELSE x[c]]
    /\ UNCHANGED <<cfg, healthy>>

--------------------------------------------------------------------------------
(* exchange                                                                   *)

\* What a rejected exchange leads to: start() rejects, a renewal backs off.
Failed(c) == IF x[c].renewing THEN [x[c] EXCEPT !.pc = "backoff", !.hw = FALSE, !.pkg = None]
                              ELSE NoChain

Fail(c) ==
    /\ x' = [x EXCEPT ![c] = Failed(c)]
    /\ UNCHANGED <<cfg, stopped, credential, renewTimer, healthy>>

Attested(c) ==
    /\ At(c, "attest")
    /\ x' = [x EXCEPT ![c].pc = "hardware"]
    /\ UNCHANGED <<cfg, stopped, credential, renewTimer, healthy>>

AttestFails(c) == At(c, "attest") /\ ~healthy /\ Fail(c)

\* Mutant: an agent that fails is passed over in every mode.
HardwareSkippedAlways(agentAnswers) == ~agentAnswers

\* hardwarePayload: without evidence from the agent, or without an agent.
HardwareSkipped(agentAnswers) ==
    \/ cfg.hardware = "off"
    \/ cfg.hardware = "auto" /\ (~cfg.agent \/ ~agentAnswers)

HardwareAdded(agentAnswers) == cfg.hardware # "off" /\ cfg.agent /\ agentAnswers

\* The request is signed and sent, with or without hardware evidence ...
Send(c) ==
    /\ At(c, "hardware")
    /\ \E agentAnswers \in BOOLEAN :
         /\ healthy => agentAnswers
         /\ \E hw \in BOOLEAN :
              /\ IF hw THEN HardwareAdded(agentAnswers) ELSE HardwareSkipped(agentAnswers)
              /\ x' = [x EXCEPT ![c].pc = "request", ![c].hw = hw]
    /\ UNCHANGED <<cfg, stopped, credential, renewTimer, healthy>>

\* ... unless hardware is required and cannot be had.
HardwareFails(c) ==
    /\ At(c, "hardware") /\ cfg.hardware = "required"
    /\ ~cfg.agent \/ ~healthy
    /\ Fail(c)

\* A 401 with a nonce: the same body is sent once more.
Challenged(c) ==
    /\ At(c, "request")
    /\ x' = [x EXCEPT ![c].pc = "retry"]
    /\ UNCHANGED <<cfg, stopped, credential, renewTimer, healthy>>

Answered(c) ==
    /\ x[c].pc \in {"request", "retry"}
    /\ \E p \in Packages :
         /\ healthy => p = Good
         /\ x' = [x EXCEPT ![c].pc = "body", ![c].pkg = p]
    /\ UNCHANGED <<cfg, stopped, credential, renewTimer, healthy>>

\* Another status, a second challenge, or no connection.
Refused(c) == x[c].pc \in {"request", "retry"} /\ ~healthy /\ Fail(c)

\* Mutant: the abort timer is never set.
NotAborted(c) == FALSE

\* The abort timer of exchangeFetch fires before the answer.
Aborted(c) == x[c].pc \in {"request", "retry"} /\ ~healthy /\ Fail(c)

\* decryptCredentials, or plaintext where it is allowed; never nothing at all.
Readable(p) ==
    /\ p.enc = "own" \/ (p.enc = "plain" /\ (cfg.allowPlain \/ cfg.local))
    /\ ~p.empty

\* Mutant: a signature is only checked when it is required.
SignedIfRequired(p) == cfg.requireSig => p.sig = "good"

\* verifyPolicySignature: a known key is used, required or not.
SignatureOK(p) == cfg.policyKey => p.sig = "good"

Vetted(p) == Readable(p) /\ SignatureOK(p)

Emptied == IF credential = None THEN None ELSE [credential EXCEPT !.emptied = TRUE]

\* The package is good: the old credential is emptied, and the new one returned.
Decoded(c) ==
    /\ At(c, "body") /\ Vetted(x[c].pkg)
    /\ credential' = Emptied
    /\ x' = [x EXCEPT ![c].pc = "return"]
    /\ UNCHANGED <<cfg, stopped, renewTimer, healthy>>

\* Mutant: the old credential is emptied before the package is vetted.
RejectedLate(c) ==
    /\ At(c, "body")
    /\ ~Vetted(x[c].pkg) \/ ~healthy
    /\ credential' = Emptied
    /\ x' = [x EXCEPT ![c] = Failed(c)]
    /\ UNCHANGED <<cfg, stopped, renewTimer, healthy>>

\* The body breaks off, or the package is not acceptable.
Rejected(c) ==
    /\ At(c, "body")
    /\ ~Vetted(x[c].pkg) \/ ~healthy
    /\ Fail(c)

\* The reads no timer bounds: of the attestation service, of the hardware agent,
\* and, since the abort timer is cleared at the headers, of the text of an error
\* and of the body.
Untimed(c) ==
    \/ At(c, "attest") /\ ~cfg.local
    \/ At(c, "hardware") /\ cfg.hardware # "off" /\ cfg.agent
    \/ x[c].pc \in {"request", "retry", "body"}

\* Such a read never settles, and neither does the promise that awaits it; what
\* its chain had gathered is of no further use.
Stalls(c) ==
    /\ Untimed(c) /\ ~healthy
    /\ x' = [x EXCEPT ![c] = [NoChain EXCEPT !.pc = "stalled"]]
    /\ UNCHANGED <<cfg, stopped, credential, renewTimer, healthy>>

--------------------------------------------------------------------------------
(* After the exchange, and the renewals                                       *)

Installed(c) == [pkg |-> x[c].pkg, hw |-> x[c].hw, emptied |-> FALSE]

\* Mutant: a renewal does not schedule the next one.
InstallOnce(c) ==
    /\ At(c, "return")
    /\ credential' = Installed(c)
    /\ IF stopped \/ x[c].renewing
         THEN x' = [x EXCEPT ![c] = NoChain] /\ UNCHANGED renewTimer
         ELSE x' = [x EXCEPT ![c] = [NoChain EXCEPT !.pc = "timer"]] /\ renewTimer' = c
    /\ UNCHANGED <<cfg, stopped, healthy>>

\* The awaiting start or renewWithBackoff stores the credential, whether it was
\* stopped meanwhile or not, and schedules a renewal unless it was.
Install(c) ==
    /\ At(c, "return")
    /\ credential' = Installed(c)
    /\ IF stopped
         THEN x' = [x EXCEPT ![c] = NoChain] /\ UNCHANGED renewTimer
         ELSE x' = [x EXCEPT ![c] = [NoChain EXCEPT !.pc = "timer"]] /\ renewTimer' = c
    /\ UNCHANGED <<cfg, stopped, healthy>>

\* Mutant: the loop has no condition (its count is capped to keep it finite).
AttemptForever(c, n) ==
    /\ x' = [x EXCEPT ![c] = [NoChain EXCEPT !.pc = "attest", !.renewing = TRUE,
                              !.attempt = IF n > MaxAttempts THEN MaxAttempts ELSE n]]
    /\ UNCHANGED <<cfg, stopped, credential, renewTimer, healthy>>

\* The head of the loop of renewWithBackoff, with attempt number n.
Attempt(c, n) ==
    /\ x' = [x EXCEPT ![c] = IF stopped \/ n > MaxAttempts THEN NoChain
                             ELSE [NoChain EXCEPT !.pc = "attest", !.renewing = TRUE, !.attempt = n]]
    /\ UNCHANGED <<cfg, stopped, credential, renewTimer, healthy>>

TimerFires(c) == At(c, "timer") /\ Attempt(c, 1)

BackoffEnds(c) == At(c, "backoff") /\ Attempt(c, x[c].attempt + 1)

Outage ==
    /\ healthy' = ~healthy
    /\ UNCHANGED <<cfg, stopped, credential, renewTimer, x>>

--------------------------------------------------------------------------------
\* What ends by itself: a key is generated, a timer fires, a promise continues; a
\* fetch without a timeout settles unless it stalls.
Settle(c) ==
    \/ KeyGenerated(c) \/ Attested(c) \/ AttestFails(c) \/ Send(c) \/ HardwareFails(c)
    \/ Decoded(c) \/ Rejected(c) \/ Install(c) \/ TimerFires(c) \/ BackoffEnds(c)

\* The exchange request: the backend answers when healthy, else the abort timer
\* fires before the headers, or what follows them stalls.
RequestEnds(c) == (healthy /\ Answered(c)) \/ Aborted(c)

Next ==
    \/ \E c \in Chains :
         \/ Start(c) \/ KeyGenerated(c) \/ Attested(c) \/ AttestFails(c) \/ Send(c)
         \/ HardwareFails(c) \/ Stalls(c) \/ Challenged(c) \/ Answered(c) \/ Refused(c) \/ Aborted(c)
         \/ Decoded(c) \/ Rejected(c) \/ Install(c) \/ TimerFires(c) \/ BackoffEnds(c)
    \/ Stop \/ Outage

Fairness == \A c \in Chains : WF_vars(Settle(c)) /\ WF_vars(RequestEnds(c))

Spec == Init /\ [][Next]_vars
FairSpec == Spec /\ Fairness

--------------------------------------------------------------------------------
(* Properties.                                                                *)

Starting(c)   == ~x[c].renewing /\ x[c].pc \notin {"idle", "timer"}
Exchanging(c) == x[c].pc \in {"attest", "hardware", "request", "retry", "body", "return"}

\* Every variable holds a value of its type, and no renewal makes more attempts
\* than the loop of renewWithBackoff allows.
TypeOK ==
    /\ cfg \in Config /\ stopped \in BOOLEAN /\ healthy \in BOOLEAN
    /\ credential \in {None} \cup [pkg : Package, hw : BOOLEAN, emptied : BOOLEAN]
    /\ renewTimer \in Chains \cup {None}
    /\ x \in [Chains -> [pc : {"idle", "keygen", "attest", "hardware", "request", "retry",
                               "body", "return", "timer", "backoff", "stalled"},
                         renewing : BOOLEAN, attempt : 0..MaxAttempts, hw : BOOLEAN,
                         pkg : Package \cup {None}]]

\* What the application can read was encrypted for the exchange that asked for it
\* (or may be plaintext), is not empty, and is signed when a policy key is known,
\* whichever of several overlapping exchanges stored it.
StoredIsVetted ==
    credential # None =>
        /\ \/ credential.pkg.enc = "own"
           \/ credential.pkg.enc = "plain" /\ (cfg.allowPlain \/ cfg.local)
        /\ ~credential.pkg.empty
        /\ cfg.policyKey => credential.pkg.sig = "good"

\* With hardwareMode "required", a stored credential was obtained by a request
\* that carried the agent's attestation, renewals included.
HardwareBinding ==
    credential # None /\ cfg.hardware = "required" => credential.hw

\* exchange() empties the old credential before its caller stores the new one.
\* That gap closes: an exchange that fails never costs the application the
\* credential it has.
EmptiedIsTransient ==
    credential # None /\ credential.emptied => \E c \in Chains : At(c, "return")

\* A chain whose timer stop() cannot clear, because a later one replaced it in
\* renewTimer, or that was exchanging or backing off, ends all the same: a
\* provider that stays stopped ends up with no timer, and with no exchange but
\* one that waits for a read that never settles.
Quiesces == <>[]stopped => <>[](\A c \in Chains : x[c].pc \in {"idle", "stalled"})

\* start() settles, whoever stops or starts meanwhile, unless one of its reads
\* without a timeout never does: a backend that does not answer the exchange
\* request does not keep it waiting.  Where one of those reads stalls the code
\* has no remedy: start() stays pending.
StartReturns == \A c \in Chains : Starting(c) ~> ~Starting(c) \/ At(c, "stalled")

\* A renewal that has an attempt left when the backend recovers succeeds and
\* schedules the next one.
RenewsAfterShortOutage ==
    \A c \in Chains :
        [](At(c, "backoff") /\ x[c].attempt < MaxAttempts /\ []healthy /\ []~stopped
             => <>At(c, "timer"))
================================================================================
