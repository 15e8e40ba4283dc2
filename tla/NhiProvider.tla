------------------------------ MODULE NhiProvider ------------------------------
(***************************************************************************)
(* The NHI credential provider (src/nhi): Provider.Start and Provider.Stop *)
(* called by any number of goroutines, the background renewal goroutine,   *)
(* the credential exchange both of them run (hardware key, attestation     *)
(* token, DPoP nonce challenge, decoding of the package), the in-memory    *)
(* store, and the backend, which is modelled as the environment.           *)
(*                                                                         *)
(* Time is abstract: a sleep may end at any moment and a stored credential *)
(* may expire at any moment.  Tokens, keys and packages are identities.    *)
(***************************************************************************)
EXTENDS Naturals, FiniteSets

CONSTANTS
    Callers,      \* goroutines of the application that call Start and Stop
    Loops,        \* identities of renewal goroutines (reused once dead)
    Chans,        \* identities of `done` channels (reused once unreferenced)
    Keys,         \* identities of ephemeral response-encryption keys
    PkgIds,       \* identities of the encrypted packages the backend issues
    HwKeys,       \* identities of keys a hardware module generates
    Nonces,       \* DPoP nonces of the backend
    MaxAttempts,  \* maxRenewalAttempts
    MaxCirculating, \* bound: issued packages that can be delivered again
    Configs,      \* the ProviderConfig values given to NewProvider
    Qualities,    \* what can be right and wrong with a package
    Healths,      \* whether backend, network and platform can be at fault
    None

ASSUME ActorsAssumption ==
    /\ Callers \cap Loops = {}
    /\ None \notin Callers \cup Loops \cup Chans \cup Keys \cup PkgIds
                     \cup HwKeys \cup Nonces

ASSUME BoundsAssumption ==
    /\ MaxAttempts \in Nat \ {0}
    /\ MaxCirculating \in Nat
    /\ Healths \subseteq BOOLEAN

VARIABLES
    cfg,       \* p.cfg, as NewProvider left it
    mu,        \* p.mu: the caller that holds it, or None
    started,   \* p.started
    env,       \* p.env
    pc,        \* where each caller is in Start or Stop
    store,     \* p.store.cred
    running,   \* r.running
    cancelOf,  \* the loop whose context r.cancel cancels
    doneCh,    \* r.done
    waitCh,    \* the local `done` of a caller inside renewal.Stop
    closed,    \* the channels that are closed
    loop,      \* the renewal goroutines
    x,         \* doExchange, as run by each caller and by each loop
    hw,        \* p.hardware: the cached key, or None
    nonce,     \* p.prover.serverNonce
    panicked,  \* a closed channel was closed again
    srvNonce,  \* environment: the nonce the backend accepts now
    issued,    \* environment: packages that can still be delivered
    healthy,   \* environment: nothing outside the program fails
    hwSent,    \* history: hardware keys that exchange requests carried
    installed  \* history: identities of the packages that were stored

lifecycle == <<mu, started, env, pc>>
renewal   == <<running, cancelOf, doneCh, waitCh, closed, loop, panicked>>
backend   == <<srvNonce, issued, healthy>>
vars == <<cfg, lifecycle, store, renewal, x, hw, nonce, backend, hwSent, installed>>

Actors == Callers \cup Loops
Envs == {"local", "cloud"}
Modes == {"auto", "required", "off"}

Config == [plaintextOK : BOOLEAN, policyKey : BOOLEAN, reqSig : BOOLEAN,
           mode : Modes, hwPresent : BOOLEAN, env : Envs \cup {"unknown"}]
Quality == [sig : {"valid", "bad", "missing"}, full : BOOLEAN, dated : BOOLEAN]
\* key and id are None in a plaintext package.
Package == [id : PkgIds \cup {None}, key : Keys \cup {None}, q : Quality]
Response == [status : {"200"}, nonce : Nonces \cup {None}, pkg : Package]
    \cup [status : {"401", "5xx"}, nonce : Nonces \cup {None}, pkg : {None}]
Credential == [pkg : Package, live : BOOLEAN]

ASSUME DataAssumption == /\ Configs \subseteq Config /\ Qualities \subseteq Quality
                         /\ None \notin Package \cup Response \cup Credential

ExchangeSteps == {"none", "hardware", "attest", "send", "wait", "resend", "rewait",
                  "ok", "failed"}
Exchange == [pc : ExchangeSteps, hw : HwKeys \cup {None}, key : Keys \cup {None},
             nonce : Nonces \cup {None}, challenge : Nonces \cup {None},
             resp : Response \cup {None}]
NoExchange == [pc |-> "none", hw |-> None, key |-> None, nonce |-> None,
               challenge |-> None, resp |-> None]

CallSteps == {"idle", "startLock", "exchange", "spawn",
              "stopLock", "stopWait", "stopClear"}
LoopSteps == {"dead", "spawned", "sleep", "renew", "exchange", "backoff"}
LoopState == [pc : LoopSteps, cancelled : BOOLEAN, ch : Chans \cup {None},
              attempt : 0 .. MaxAttempts]
DeadLoop == [pc |-> "dead", cancelled |-> FALSE, ch |-> None, attempt |-> 0]

\* Goroutine g exists; actor a is inside doExchange.
Alive(g) == loop[g].pc # "dead"
Exchanging(a) == x[a].pc # "none"

\* What NewProvider accepts: a required signature needs a key to check it with.
NewProvider(c) == c.reqSig => c.policyKey

Init ==
    /\ cfg \in {c \in Configs : NewProvider(c)}
    /\ mu = None /\ started = FALSE /\ env = "unknown"
    /\ pc = [c \in Callers |-> "idle"]
    /\ store = None
    /\ running = FALSE /\ cancelOf = None /\ closed = {} /\ panicked = FALSE
    /\ doneCh \in Chans
    /\ waitCh = [c \in Callers |-> None]
    /\ loop = [g \in Loops |-> DeadLoop]
    /\ x = [a \in Actors |-> NoExchange]
    /\ hw = None /\ nonce = None
    /\ srvNonce \in Nonces /\ issued = {} /\ healthy \in Healths
    /\ hwSent = {} /\ installed = {}

--------------------------------------------------------------------------------
(* The store: Set and Clear are atomic under store.mu.                        *)

StoreSet(pkg) ==
    /\ store' = [pkg |-> pkg, live |-> pkg.q.dated]
    /\ installed' = installed \cup ({pkg.id} \ {None})

StoreClear == store' = None /\ UNCHANGED installed

\* GetCredential succeeds: store.Get found a credential that is not expired.
Serving == store # None /\ store.live

\* Time passes ExpiresAt (Credential.Expired).
Expire ==
    /\ store # None /\ store.live
    /\ store' = [store EXCEPT !.live = FALSE]
    /\ UNCHANGED <<cfg, lifecycle, renewal, x, hw, nonce, backend, hwSent, installed>>

--------------------------------------------------------------------------------
(* doExchange, run by actor a: a caller inside Start, or a renewal loop.      *)

\* The exchange may fail for a reason outside the program: a fault or timeout,
\* or the loop's context was cancelled.
Disturbed(a) == ~healthy \/ (a \in Loops /\ loop[a].cancelled)

ExchangeFails(a) == x' = [x EXCEPT ![a].pc = "failed", ![a].resp = None]

WithHardware(a, k) == x' = [x EXCEPT ![a].pc = "attest", ![a].hw = k]

\* Without a usable hardware key, only mode "required" gives up.
WithoutHardware(a) ==
    IF cfg.mode = "required" THEN ExchangeFails(a) ELSE WithHardware(a, None)

\* Mutant: the generated key is not cached.
PrepareHardwareUncached(a) ==
    /\ x[a].pc = "hardware"
    /\ \/ (cfg.mode = "off" \/ ~cfg.hwPresent) /\ WithoutHardware(a)
       \/ cfg.mode # "off" /\ cfg.hwPresent /\ \E k \in HwKeys : WithHardware(a, k)
    /\ UNCHANGED <<cfg, lifecycle, store, renewal, hw, nonce, backend, hwSent, installed>>

\* prepareHardware.  The second disjunct of the last case also stands for
\* GenerateKey or Attest failing: the generated key is then forgotten.
PrepareHardware(a) ==
    /\ x[a].pc = "hardware"
    /\ \/ cfg.mode = "off" /\ WithHardware(a, None) /\ UNCHANGED hw
       \/ cfg.mode # "off" /\ ~cfg.hwPresent /\ WithoutHardware(a) /\ UNCHANGED hw
       \/ /\ cfg.mode # "off" /\ cfg.hwPresent
          /\ \/ Disturbed(a) /\ WithoutHardware(a) /\ UNCHANGED hw
             \/ hw # None /\ WithHardware(a, hw) /\ UNCHANGED hw
             \/ hw = None /\ \E k \in HwKeys : WithHardware(a, k) /\ hw' = k
    /\ UNCHANGED <<cfg, lifecycle, store, renewal, nonce, backend, hwSent, installed>>

\* Mutant: a response key that was used before may be used again.
FreshKeysReused == Keys

\* newEncryptionKey: a key no other exchange and no package in circulation uses.
FreshKeys == Keys \ ({p.key : p \in issued} \cup {x[a].key : a \in Actors})

\* FetchAttestationToken, then the ephemeral encryption key and the payload.
Attest(a) ==
    /\ x[a].pc = "attest"
    /\ \/ Disturbed(a) /\ ExchangeFails(a)
       \/ \E k \in FreshKeys : x' = [x EXCEPT ![a].pc = "send", ![a].key = k]
    /\ UNCHANGED <<cfg, lifecycle, store, renewal, hw, nonce, backend, hwSent, installed>>

\* CreateProof reads the server nonce, then client.Do sends the request.
Send(a) ==
    /\ x[a].pc = "send"
    /\ x' = [x EXCEPT ![a].pc = "wait", ![a].nonce = nonce]
    /\ hwSent' = hwSent \cup {x[a].hw}
    /\ UNCHANGED <<cfg, lifecycle, store, renewal, hw, nonce, backend, installed>>

\* Mutant: a package without a signature is not checked.
DecodesUnsigned(a, pkg) ==
    /\ IF pkg.key # None THEN pkg.key = x[a].key
                         ELSE cfg.plaintextOK \/ env = "local"
    /\ pkg.q.full
    /\ cfg.policyKey => pkg.q.sig # "bad"

\* decodeCredentialPackage, with Decrypt and verifyPolicySignature.
Decodes(a, pkg) ==
    /\ IF pkg.key # None THEN pkg.key = x[a].key
                         ELSE cfg.plaintextOK \/ env = "local"
    /\ pkg.q.full
    /\ cfg.policyKey => pkg.q.sig = "valid"

\* The status check and the decoding that both requests end with.
Finish(a, r) ==
    IF r.status = "200" /\ Decodes(a, r.pkg)
    THEN x' = [x EXCEPT ![a].pc = "ok"]
    ELSE ExchangeFails(a)

\* Mutant: the nonce of a 401 is not recorded before the retry.
ReceiveForgets(a) ==
    /\ x[a].pc = "wait" /\ x[a].resp # None
    /\ LET r == x[a].resp IN
       IF r.nonce # None /\ r.status = "401"
       THEN x' = [x EXCEPT ![a].pc = "resend", ![a].challenge = r.nonce, ![a].resp = None]
       ELSE Finish(a, r)
    /\ UNCHANGED <<cfg, lifecycle, store, renewal, hw, nonce, backend, hwSent, installed>>

\* The answer to the first request: a nonce header is always recorded, and a
\* 401 that carries one is answered by retryWithNonce.
Receive(a) ==
    /\ x[a].pc = "wait" /\ x[a].resp # None
    /\ LET r == x[a].resp IN
       /\ nonce' = IF r.nonce # None THEN r.nonce ELSE nonce
       /\ IF r.nonce # None /\ r.status = "401"
          THEN x' = [x EXCEPT ![a].pc = "resend", ![a].challenge = r.nonce,
                              ![a].resp = None]
          ELSE Finish(a, r)
    /\ UNCHANGED <<cfg, lifecycle, store, renewal, hw, backend, hwSent, installed>>

\* retryWithNonce: the same payload under a new proof ...
Resend(a) ==
    /\ x[a].pc = "resend"
    /\ x' = [x EXCEPT ![a].pc = "rewait", ![a].nonce = nonce]
    /\ UNCHANGED <<cfg, lifecycle, store, renewal, hw, nonce, backend, hwSent, installed>>

\* ... whose answer is final: no nonce is recorded and no second retry made.
ReceiveRetry(a) ==
    /\ x[a].pc = "rewait" /\ x[a].resp # None
    /\ Finish(a, x[a].resp)
    /\ UNCHANGED <<cfg, lifecycle, store, renewal, hw, nonce, backend, hwSent, installed>>

\* client.Do or the reading of the body fails: network, timeout, cancellation.
RequestFails(a) ==
    /\ x[a].pc \in {"wait", "rewait"}
    /\ Disturbed(a)
    /\ ExchangeFails(a)
    /\ UNCHANGED <<cfg, lifecycle, store, renewal, hw, nonce, backend, hwSent, installed>>

ExchangeStep(a) ==
    \/ PrepareHardware(a) \/ Attest(a) \/ Send(a) \/ Receive(a)
    \/ Resend(a) \/ ReceiveRetry(a)

--------------------------------------------------------------------------------
(* The backend and the network (external).  A healthy backend challenges a    *)
(* request whose proof lacks its nonce and answers any other with a good      *)
(* package; one at fault may answer anything, or a package a second time.     *)

Pending(a) == x[a].pc \in {"wait", "rewait"} /\ x[a].resp = None

Answer(a, r) ==
    /\ x' = [x EXCEPT ![a].resp = r]
    /\ UNCHANGED <<cfg, lifecycle, store, renewal, hw, nonce, srvNonce, healthy, hwSent>>

NonceHeaders == {None, srvNonce}
GoodQuality == [sig |-> "valid", full |-> TRUE, dated |-> TRUE]

Challenge(a) ==
    /\ Pending(a)
    /\ ~healthy \/ x[a].nonce # srvNonce
    /\ Answer(a, [status |-> "401", nonce |-> srvNonce, pkg |-> None])
    /\ UNCHANGED <<issued, installed>>

Refuse(a) ==
    /\ Pending(a) /\ ~healthy
    /\ \E n \in NonceHeaders : Answer(a, [status |-> "5xx", nonce |-> n, pkg |-> None])
    /\ UNCHANGED <<issued, installed>>

\* A new package under the key of the request.  Those that can be delivered
\* again are a bounded choice among it and the older ones.
Issue(a) ==
    /\ Pending(a)
    /\ ~healthy \/ x[a].nonce = srvNonce
    /\ \E q \in (IF healthy THEN {GoodQuality} ELSE Qualities), n \in NonceHeaders,
          id \in PkgIds \ {p.id : p \in issued} :
         LET p == [id |-> id, key |-> x[a].key, q |-> q] IN
         /\ issued' \in {k \in SUBSET (issued \cup {p}) : Cardinality(k) <= MaxCirculating}
         /\ installed' = (installed \ {id}) \cap {k.id : k \in issued'}
         /\ Answer(a, [status |-> "200", nonce |-> n, pkg |-> p])

IssuePlaintext(a) ==
    /\ Pending(a) /\ ~healthy
    /\ \E q \in Qualities :
         Answer(a, [status |-> "200", nonce |-> None,
                    pkg |-> [id |-> None, key |-> None, q |-> q]])
    /\ UNCHANGED <<issued, installed>>

DeliverAgain(a) ==
    /\ Pending(a) /\ ~healthy
    /\ \E p \in issued : Answer(a, [status |-> "200", nonce |-> None, pkg |-> p])
    /\ UNCHANGED <<issued, installed>>

Serve(a) ==
    Challenge(a) \/ Refuse(a) \/ Issue(a) \/ IssuePlaintext(a) \/ DeliverAgain(a)

RotateNonce ==
    /\ ~healthy
    /\ srvNonce' \in Nonces \ {srvNonce}
    /\ UNCHANGED <<cfg, lifecycle, store, renewal, x, hw, nonce, issued, healthy,
                   hwSent, installed>>

HealthChanges ==
    /\ healthy' \in Healths \ {healthy}
    /\ UNCHANGED <<cfg, lifecycle, store, renewal, x, hw, nonce, srvNonce, issued,
                   hwSent, installed>>

--------------------------------------------------------------------------------
(* renewal.loop and renewal.renew, run by goroutine g.                        *)

LoopStays == UNCHANGED <<running, cancelOf, doneCh, waitCh, closed, panicked>>

\* The goroutine starts: `defer close(r.done)` evaluates r.done now.
LoopEnter(g) ==
    /\ loop[g].pc = "spawned"
    /\ loop' = [loop EXCEPT ![g].pc = "sleep", ![g].ch = doneCh]
    /\ LoopStays
    /\ UNCHANGED <<cfg, lifecycle, store, x, hw, nonce, backend, hwSent, installed>>

\* The timer fires.  A select with both cases ready takes either of them.
SleepElapsed(g) ==
    /\ loop[g].pc = "sleep"
    /\ loop' = [loop EXCEPT ![g].pc = "renew", ![g].attempt = 0]
    /\ LoopStays
    /\ UNCHANGED <<cfg, lifecycle, store, x, hw, nonce, backend, hwSent, installed>>

\* The context is done: the loop returns and its deferred close runs.
SleepCancelled(g) ==
    /\ loop[g].pc = "sleep" /\ loop[g].cancelled
    /\ panicked' = (panicked \/ loop[g].ch \in closed)
    /\ closed' = closed \cup {loop[g].ch}
    /\ loop' = [loop EXCEPT ![g] = DeadLoop]
    /\ UNCHANGED <<running, cancelOf, doneCh, waitCh>>
    /\ UNCHANGED <<cfg, lifecycle, store, x, hw, nonce, backend, hwSent, installed>>

\* Mutant: when renew gives up, the loop ends.
RenewReturnsForGood(g) ==
    /\ loop[g].pc = "renew"
    /\ loop[g].cancelled \/ loop[g].attempt >= MaxAttempts
    /\ loop' = [loop EXCEPT ![g].pc = IF loop[g].cancelled THEN "sleep" ELSE "dead"]
    /\ LoopStays
    /\ UNCHANGED <<cfg, lifecycle, store, x, hw, nonce, backend, hwSent, installed>>

\* renew gives up for this round: its caller, loop, sleeps again.
RenewReturns(g) ==
    /\ loop[g].pc = "renew"
    /\ loop[g].cancelled \/ loop[g].attempt >= MaxAttempts
    /\ loop' = [loop EXCEPT ![g].pc = "sleep"]
    /\ LoopStays
    /\ UNCHANGED <<cfg, lifecycle, store, x, hw, nonce, backend, hwSent, installed>>

RenewAttempt(g) ==
    /\ loop[g].pc = "renew"
    /\ ~loop[g].cancelled /\ loop[g].attempt < MaxAttempts
    /\ loop' = [loop EXCEPT ![g].pc = "exchange"]
    /\ x' = [x EXCEPT ![g].pc = "hardware"]
    /\ LoopStays
    /\ UNCHANGED <<cfg, lifecycle, store, hw, nonce, backend, hwSent, installed>>

\* The credential is stored even when the context was cancelled meanwhile.
RenewSucceeded(g) ==
    /\ loop[g].pc = "exchange" /\ x[g].pc = "ok"
    /\ StoreSet(x[g].resp.pkg)
    /\ loop' = [loop EXCEPT ![g].pc = "sleep"]
    /\ x' = [x EXCEPT ![g] = NoExchange]
    /\ LoopStays
    /\ UNCHANGED <<cfg, lifecycle, hw, nonce, backend, hwSent>>

RenewFailed(g) ==
    /\ loop[g].pc = "exchange" /\ x[g].pc = "failed"
    /\ loop' = [loop EXCEPT ![g].pc = "backoff", ![g].attempt = @ + 1]
    /\ x' = [x EXCEPT ![g] = NoExchange]
    /\ LoopStays
    /\ UNCHANGED <<cfg, lifecycle, store, hw, nonce, backend, hwSent, installed>>

BackoffElapsed(g) ==
    /\ loop[g].pc = "backoff"
    /\ loop' = [loop EXCEPT ![g].pc = "renew"]
    /\ LoopStays
    /\ UNCHANGED <<cfg, lifecycle, store, x, hw, nonce, backend, hwSent, installed>>

BackoffCancelled(g) ==
    /\ loop[g].pc = "backoff" /\ loop[g].cancelled
    /\ loop' = [loop EXCEPT ![g].pc = "sleep"]
    /\ LoopStays
    /\ UNCHANGED <<cfg, lifecycle, store, x, hw, nonce, backend, hwSent, installed>>

--------------------------------------------------------------------------------
(* Provider.Start and Provider.Stop, called by goroutine c.                   *)

StartCall(c) ==
    /\ pc[c] = "idle"
    /\ pc' = [pc EXCEPT ![c] = "startLock"]
    /\ UNCHANGED <<mu, started, env>>
    /\ UNCHANGED <<cfg, store, renewal, x, hw, nonce, backend, hwSent, installed>>

StopCall(c) ==
    /\ pc[c] = "idle"
    /\ pc' = [pc EXCEPT ![c] = "stopLock"]
    /\ UNCHANGED <<mu, started, env>>
    /\ UNCHANGED <<cfg, store, renewal, x, hw, nonce, backend, hwSent, installed>>

\* Start of a started provider locks p.mu, returns nil and unlocks.
StartAgain(c) ==
    /\ pc[c] = "startLock" /\ mu = None /\ started
    /\ pc' = [pc EXCEPT ![c] = "idle"]
    /\ UNCHANGED <<mu, started, env>>
    /\ UNCHANGED <<cfg, store, renewal, x, hw, nonce, backend, hwSent, installed>>

\* The environment Start settles on: it is detected once and kept, also when
\* the exchange that follows fails.  DetectEnvironment is external here.
Detected == CASE env # "unknown" -> {env}
              [] env = "unknown" /\ cfg.env # "unknown" -> {cfg.env}
              [] OTHER -> Envs

\* Mutant: Start does not look at p.started.
StartLockedAgain(c) ==
    /\ pc[c] = "startLock" /\ mu = None
    /\ mu' = c
    /\ env' \in Detected
    /\ pc' = [pc EXCEPT ![c] = "exchange"]
    /\ x' = [x EXCEPT ![c].pc = "hardware"]
    /\ UNCHANGED <<cfg, started, store, renewal, hw, nonce, backend, hwSent, installed>>

StartLocked(c) ==
    /\ pc[c] = "startLock" /\ mu = None /\ ~started
    /\ mu' = c
    /\ env' \in Detected
    /\ pc' = [pc EXCEPT ![c] = "exchange"]
    /\ x' = [x EXCEPT ![c].pc = "hardware"]
    /\ UNCHANGED <<cfg, started, store, renewal, hw, nonce, backend, hwSent, installed>>

StartFailed(c) ==
    /\ pc[c] = "exchange" /\ x[c].pc = "failed"
    /\ mu' = None
    /\ pc' = [pc EXCEPT ![c] = "idle"]
    /\ x' = [x EXCEPT ![c] = NoExchange]
    /\ UNCHANGED <<cfg, started, env, store, renewal, hw, nonce, backend, hwSent, installed>>

\* The store is filled before the loop exists and before started is set.
StartStored(c) ==
    /\ pc[c] = "exchange" /\ x[c].pc = "ok"
    /\ StoreSet(x[c].resp.pkg)
    /\ pc' = [pc EXCEPT ![c] = "spawn"]
    /\ x' = [x EXCEPT ![c] = NoExchange]
    /\ UNCHANGED <<cfg, mu, started, env, renewal, hw, nonce, backend, hwSent>>

\* renewal.Start: a new context and goroutine unless one is running.
RenewalStart ==
    IF running
    THEN UNCHANGED renewal
    ELSE /\ \E g \in Loops :
              /\ ~Alive(g)
              /\ loop' = [loop EXCEPT ![g] = [DeadLoop EXCEPT !.pc = "spawned"]]
              /\ cancelOf' = g
         /\ running' = TRUE
         /\ UNCHANGED <<doneCh, waitCh, closed, panicked>>

StartSpawned(c) ==
    /\ pc[c] = "spawn"
    /\ RenewalStart
    /\ started' = TRUE /\ mu' = None
    /\ pc' = [pc EXCEPT ![c] = "idle"]
    /\ UNCHANGED <<cfg, env, store, x, hw, nonce, backend, hwSent, installed>>

StopAgain(c) ==
    /\ pc[c] = "stopLock" /\ mu = None /\ ~started
    /\ pc' = [pc EXCEPT ![c] = "idle"]
    /\ UNCHANGED <<mu, started, env>>
    /\ UNCHANGED <<cfg, store, renewal, x, hw, nonce, backend, hwSent, installed>>

\* Mutant: Stop cancels the loop and does not wait for it.
StopLockedNoWait(c) ==
    /\ pc[c] = "stopLock" /\ mu = None /\ started
    /\ mu' = c
    /\ pc' = [pc EXCEPT ![c] = "stopClear"]
    /\ loop' = [loop EXCEPT ![cancelOf].cancelled = TRUE]
    /\ running' = FALSE
    /\ UNCHANGED <<started, env, cancelOf, doneCh, waitCh, closed, panicked>>
    /\ UNCHANGED <<cfg, store, x, hw, nonce, backend, hwSent, installed>>

\* Mutant: Stop waits for a loop that it did not cancel.
StopLockedNoCancel(c) ==
    /\ pc[c] = "stopLock" /\ mu = None /\ started
    /\ mu' = c
    /\ pc' = [pc EXCEPT ![c] = "stopWait"]
    /\ running' = FALSE
    /\ waitCh' = [waitCh EXCEPT ![c] = doneCh]
    /\ UNCHANGED <<started, env, cancelOf, doneCh, closed, loop, panicked>>
    /\ UNCHANGED <<cfg, store, x, hw, nonce, backend, hwSent, installed>>

\* renewal.Stop up to its wait: cancel the context, remember the channel.  A
\* renewal that is not running is not waited for.
StopLocked(c) ==
    /\ pc[c] = "stopLock" /\ mu = None /\ started
    /\ mu' = c
    /\ IF running
       THEN /\ pc' = [pc EXCEPT ![c] = "stopWait"]
            /\ loop' = [loop EXCEPT ![cancelOf].cancelled = TRUE]
            /\ running' = FALSE
            /\ waitCh' = [waitCh EXCEPT ![c] = doneCh]
       ELSE /\ pc' = [pc EXCEPT ![c] = "stopClear"]
            /\ UNCHANGED <<loop, running, waitCh>>
    /\ UNCHANGED <<started, env, cancelOf, doneCh, closed, panicked>>
    /\ UNCHANGED <<cfg, store, x, hw, nonce, backend, hwSent, installed>>

\* Mutant: the `done` channel is not replaced.
StopWaitedSameChannel(c) ==
    /\ pc[c] = "stopWait" /\ waitCh[c] \in closed
    /\ waitCh' = [waitCh EXCEPT ![c] = None]
    /\ pc' = [pc EXCEPT ![c] = "stopClear"]
    /\ UNCHANGED <<mu, started, env, running, cancelOf, doneCh, closed, loop, panicked>>
    /\ UNCHANGED <<cfg, store, x, hw, nonce, backend, hwSent, installed>>

\* Mutant: the `done` channel is replaced before it was closed.
StopWaitedNot(c) ==
    /\ pc[c] = "stopWait"
    /\ \E ch \in Chans : doneCh' = ch /\ closed' = closed \ {ch}
    /\ waitCh' = [waitCh EXCEPT ![c] = None]
    /\ pc' = [pc EXCEPT ![c] = "stopClear"]
    /\ UNCHANGED <<mu, started, env, running, cancelOf, loop, panicked>>
    /\ UNCHANGED <<cfg, store, x, hw, nonce, backend, hwSent, installed>>

\* `<-done` returns and r.done becomes a new, open channel.
StopWaited(c) ==
    /\ pc[c] = "stopWait" /\ waitCh[c] \in closed
    /\ \E ch \in Chans \ ({loop[g].ch : g \in Loops} \cup {waitCh[d] : d \in Callers \ {c}}) :
         doneCh' = ch /\ closed' = closed \ {ch}
    /\ waitCh' = [waitCh EXCEPT ![c] = None]
    /\ pc' = [pc EXCEPT ![c] = "stopClear"]
    /\ UNCHANGED <<mu, started, env, running, cancelOf, loop, panicked>>
    /\ UNCHANGED <<cfg, store, x, hw, nonce, backend, hwSent, installed>>

StopCleared(c) ==
    /\ pc[c] = "stopClear"
    /\ StoreClear
    /\ started' = FALSE /\ mu' = None
    /\ pc' = [pc EXCEPT ![c] = "idle"]
    /\ UNCHANGED <<cfg, env, renewal, x, hw, nonce, backend, hwSent>>

--------------------------------------------------------------------------------
LoopStep(g) ==
    \/ LoopEnter(g) \/ SleepElapsed(g) \/ RenewReturns(g) \/ RenewAttempt(g)
    \/ RenewSucceeded(g) \/ RenewFailed(g) \/ BackoffElapsed(g) \/ BackoffCancelled(g)

CallStep(c) ==
    \/ StartFailed(c) \/ StartStored(c) \/ StartSpawned(c)
    \/ StopWaited(c) \/ StopCleared(c)

LockStep(c) == StartAgain(c) \/ StartLocked(c) \/ StopAgain(c) \/ StopLocked(c)

Next ==
    \/ \E c \in Callers : StartCall(c) \/ StopCall(c) \/ LockStep(c) \/ CallStep(c)
    \/ \E g \in Loops : LoopStep(g) \/ SleepCancelled(g)
    \/ \E a \in Actors : ExchangeStep(a) \/ Serve(a) \/ RequestFails(a)
    \/ RotateNonce \/ HealthChanges \/ Expire

\* Goroutines run, timers fire and every request ends: the context of an
\* exchange always carries a deadline.  sync.Mutex starves nobody, and a select
\* over a done context and a timer does not take the timer for ever.
Fairness ==
    /\ \A c \in Callers : WF_vars(CallStep(c)) /\ SF_vars(LockStep(c))
    /\ \A g \in Loops : WF_vars(LoopStep(g)) /\ SF_vars(SleepCancelled(g))
    /\ \A a \in Actors : /\ WF_vars(ExchangeStep(a))
                         /\ WF_vars(Serve(a) \/ RequestFails(a))

Spec == Init /\ [][Next]_vars
FairSpec == Spec /\ Fairness

--------------------------------------------------------------------------------
(* Properties.                                                                *)

\* Every variable holds a value of its Go type.
TypeOK ==
    /\ cfg \in Config
    /\ mu \in Callers \cup {None}
    /\ started \in BOOLEAN /\ running \in BOOLEAN /\ panicked \in BOOLEAN
    /\ env \in Envs \cup {"unknown"}
    /\ pc \in [Callers -> CallSteps]
    /\ store \in Credential \cup {None}
    /\ cancelOf \in Loops \cup {None}
    /\ doneCh \in Chans
    /\ waitCh \in [Callers -> Chans \cup {None}]
    /\ closed \subseteq Chans \cup {None}
    /\ loop \in [Loops -> LoopState]
    /\ x \in [Actors -> Exchange]
    /\ hw \in HwKeys \cup {None}
    /\ nonce \in Nonces \cup {None}
    /\ srvNonce \in Nonces
    /\ issued \subseteq Package
    /\ healthy \in BOOLEAN
    /\ hwSent \subseteq HwKeys \cup {None}
    /\ installed \subseteq PkgIds

\* Once Stop has returned, and until the next Start, the store is empty, the
\* renewal goroutine has ended and no exchange is under way, however the Stop
\* raced the renewal (Provider.Stop waits for the loop before it clears).
QuietAfterStop ==
    mu = None /\ ~started =>
        /\ store = None
        /\ \A g \in Loops : ~Alive(g)
        /\ \A a \in Actors : ~Exchanging(a)

\* Restarting never leaves two renewal goroutines behind (renewal.Start/Stop).
OneLoop == \A g, h \in Loops : Alive(g) /\ Alive(h) => g = h

\* No loop closes a `done` channel that an earlier loop closed: no panic.
DoneClosedOnce == ~panicked

\* Start's exchange and the renewal's exchange never overlap, so the prover's
\* nonce and the hardware key are used by one exchange at a time.
OneExchange == \A a, b \in Actors : Exchanging(a) /\ Exchanging(b) => a = b

\* What GetCredential can hand out passed the checks the configuration asks
\* for: encrypted to this provider unless plaintext is allowed, signed when a
\* signature is required, not empty (decodeCredentialPackage).
StoredIsVetted ==
    store # None =>
        /\ store.pkg.key = None => cfg.plaintextOK \/ env = "local"
        /\ cfg.reqSig => store.pkg.q.sig = "valid"
        /\ store.pkg.q.full

\* An encrypted package that was stored once is not accepted again when it is
\* delivered again: every exchange has a response key of its own.
NoPackageTwice ==
    \A a \in Actors : x[a].pc = "ok" => x[a].resp.pkg.id \notin installed

\* The one retry of an exchange carries the nonce of the challenge it answers.
RetryAnswersChallenge ==
    \A a \in Actors : x[a].pc = "rewait" => x[a].nonce = x[a].challenge

\* In mode "required" no request goes out without a hardware key, and all
\* requests of a provider carry the same one (prepareHardware caches it).
HardwareBinding ==
    /\ cfg.mode = "required" => None \notin hwSent
    /\ \A k, l \in hwSent \ {None} : k = l

\* Every call of Start and Stop returns, however it races with the others and
\* with the renewal loop.
CallsReturn == \A c \in Callers : pc[c] # "idle" ~> pc[c] = "idle"

\* After an outage, however many renewals failed, a provider that is not
\* stopped serves a credential again without being restarted (renew gives up
\* after maxRenewalAttempts, loop does not).
RecoversFromOutage ==
    <>[]healthy => [](started => <>(Serving \/ ~started \/ mu # None))
================================================================================
