-------------------------------- MODULE Transport ------------------------------
(***************************************************************************)
(* The HTTP transport every service client of the SDK goes through         *)
(* (src/internal/transport): goroutines make calls, each with retries and  *)
(* back-off, one DPoP nonce retry per attempt, and a token refresh on 401  *)
(* under tokenMu, which all goroutines share with the DPoP prover.  The    *)
(* backend (a resource server and a token endpoint) is the environment.    *)
(*                                                                         *)
(* doWithRetry/doHTTP, doRawWithRetry/doHTTP and doStreamWithRetry/doStream *)
(* have the same control flow and are modelled once.  Time is abstract.    *)
(***************************************************************************)
EXTENDS Naturals, FiniteSets

CONSTANTS
    Goroutines,   \* goroutines that make calls on one transport
    Ids,          \* identities of calls with an effect (reused when forgotten)
    Keys,         \* Idempotency-Key values
    Tokens,       \* access tokens
    RTokens,      \* refresh tokens
    Nonces,       \* DPoP nonces of the backend
    MaxRetries,   \* Config.MaxRetries
    MaxLate,      \* bound: abandoned requests still under way
    HasDPoP,      \* Config.DPoPPrivateKey is set
    HasEndpoint,  \* Config.TokenEndpoint is set
    ClientCreds,  \* Config.ClientID and ClientSecret are set
    TokenFirst,   \* the backend checks the token before the nonce
    Calms,        \* values `calm` can take
    SafeCalls,    \* whether goroutines also make GET and HEAD calls
    None

ASSUME TransportAssumption ==
    /\ MaxRetries \in Nat /\ MaxLate \in Nat
    /\ {HasDPoP, HasEndpoint, ClientCreds, TokenFirst, SafeCalls} \subseteq BOOLEAN
    /\ Calms \subseteq BOOLEAN
    /\ None \notin Goroutines \cup Ids \cup Keys \cup Tokens \cup RTokens \cup Nonces
    /\ None \notin [tok : Tokens, rt : RTokens \cup {None}]

VARIABLES
    x,          \* the call each goroutine is making
    token,      \* t.currentToken
    refresh,    \* t.currentRefresh
    writer,     \* the goroutine that holds tokenMu for writing, or None
    nonce,      \* t.dpop.serverNonce
    validToks,  \* environment: access tokens the backend accepts
    srvRefresh, \* environment: the refresh token the backend accepts
    srvNonce,   \* environment: the nonce the backend accepts
    seen,       \* environment: idempotency keys the backend has applied
    late,       \* environment: requests whose sender gave up waiting
    calm,       \* environment: no faults, expiries, rotations or bad tokens
    lost,       \* history: an answer of the token endpoint was lost
    outcome,    \* history: what was reported of each call
    effects     \* history: how often each call was applied

tokens  == <<token, refresh, writer>>
backend == <<validToks, srvRefresh, srvNonce, seen, late, calm>>
history == <<lost, outcome, effects>>
vars == <<x, tokens, nonce, backend, history>>

Steps == {"idle", "token", "send", "sent", "backoff", "lock", "refresh", "ok", "failed"}
\* "503" stands for 502, 503 and 504, "4xx" for every other error.  The status
\* is the one ParseAPIError finds: the body's http_status, when it has one.
\* "unread401" is a 401 whose body could not be read.
Errors == {"local", "net", "503", "429", "4xx", "401", "unread401", "read", "context"}
Response == [status : {"200", "401", "429", "503", "4xx"}, nonce : Nonces \cup {None}]
Grant == [tok : Tokens, rt : RTokens \cup {None}]
Call == [pc : Steps, id : Ids \cup {None}, key : Keys \cup {None}, wire : Keys \cup {None},
         attempt : 0 .. MaxRetries, allow : BOOLEAN, tok : Tokens \cup {None},
         nonce : Nonces \cup {None}, rt : RTokens \cup {None},
         resp : Response \cup {None}, grant : Grant \cup {None},
         denied : BOOLEAN, err : Errors \cup {None}]
NoCall == [pc |-> "idle", id |-> None, key |-> None, wire |-> None, attempt |-> 0,
           allow |-> TRUE, tok |-> None, nonce |-> None, rt |-> None, resp |-> None,
           grant |-> None, denied |-> FALSE, err |-> None]
Request == [id : Ids \cup {None}, wire : Keys \cup {None}, tok : Tokens \cup {None},
            nonce : Nonces \cup {None}]

Init ==
    /\ x = [r \in Goroutines |-> NoCall]
    /\ token \in Tokens \cup {None} /\ refresh \in RTokens \cup {None}
    /\ writer = None /\ nonce = None
    /\ validToks \in SUBSET Tokens /\ srvRefresh \in RTokens /\ srvNonce \in Nonces
    /\ refresh # None => refresh = srvRefresh
    /\ seen = {} /\ late = {} /\ calm \in Calms
    /\ lost = FALSE
    /\ outcome = [i \in Ids |-> "none"] /\ effects = [i \in Ids |-> 0]

--------------------------------------------------------------------------------
(* doWithRetry                                                                *)

InUse(f) == {x[r][f] : r \in Goroutines}

\* A call starts: headersWithStableIdempotency makes the key that every attempt
\* carries.  GET and HEAD have none.
Begin(r) ==
    /\ x[r].pc = "idle"
    /\ \/ /\ SafeCalls
          /\ x' = [x EXCEPT ![r].pc = "token"]
          /\ UNCHANGED <<seen, outcome, effects>>
       \/ \E i \in Ids \ (InUse("id") \cup {q.id : q \in late}),
             k \in Keys \ (InUse("key") \cup InUse("wire") \cup {q.wire : q \in late}) :
            /\ x' = [x EXCEPT ![r].pc = "token", ![r].id = i, ![r].key = k]
            /\ seen' = seen \ {k}
            /\ outcome' = [outcome EXCEPT ![i] = "pending"]
            /\ effects' = [effects EXCEPT ![i] = 0]
    /\ UNCHANGED <<tokens, nonce, validToks, srvRefresh, srvNonce, late, calm, lost>>

\* APIError.IsRetryable.
IsRetryable(e) == e \in {"net", "503", "429"}

\* The errors doWithRetry does retry: a 429 arrives as a *RateLimitError, which
\* the type assertion to *APIError turns away.
Retried(e) == IsRetryable(e) /\ e # "429"

\* An attempt failed: retry after a back-off, or report the error.
AttemptFails(r, e) ==
    LET retry == Retried(e) /\ x[r].attempt < MaxRetries
        refused == e = "401" /\ x[r].resp.nonce = None IN
    /\ x' = [x EXCEPT ![r] = [@ EXCEPT
                      !.pc = IF retry THEN "backoff" ELSE "failed",
                      !.err = IF retry THEN None ELSE e, !.denied = refused,
                      !.wire = None, !.tok = None, !.nonce = None,
                      !.rt = None, !.resp = None, !.grant = None]]
    /\ outcome' = IF retry \/ x[r].id = None THEN outcome
                  ELSE [outcome EXCEPT ![x[r].id] = "error"]

BackoffElapsed(r) ==
    /\ x[r].pc = "backoff"
    /\ x' = [x EXCEPT ![r].pc = "token", ![r].attempt = @ + 1, ![r].allow = TRUE]
    /\ UNCHANGED <<tokens, nonce, backend, history>>

BackoffCancelled(r) ==
    /\ x[r].pc = "backoff" /\ ~calm
    /\ x' = [x EXCEPT ![r].pc = "failed", ![r].err = "context"]
    /\ outcome' = IF x[r].id = None THEN outcome ELSE [outcome EXCEPT ![x[r].id] = "error"]
    /\ UNCHANGED <<tokens, nonce, backend, lost, effects>>

Return(r) ==
    /\ x[r].pc \in {"ok", "failed"}
    /\ x' = [x EXCEPT ![r] = NoCall]
    /\ UNCHANGED <<tokens, nonce, backend, history>>

--------------------------------------------------------------------------------
(* doHTTP and newRequest                                                      *)

\* newRequest reads the token once, under tokenMu ...
ReadToken(r) ==
    /\ x[r].pc = "token" /\ writer = None
    /\ x' = [x EXCEPT ![r].pc = "send", ![r].tok = token]
    /\ UNCHANGED <<tokens, nonce, backend, history>>

\* Mutant: the key newRequest makes for one request is not overridden.
WireKeysPerRequest(r) ==
    IF x[r].key = None THEN {None}
    ELSE Keys \ (seen \cup InUse("wire") \cup {q.wire : q \in late})

\* ... the key it makes for this request is overridden by the call's ...
WireKeys(r) == {x[r].key}

\* ... and the DPoP proof takes the prover's nonce; then the request is sent.
Send(r) ==
    /\ x[r].pc = "send"
    /\ \E k \in WireKeys(r) :
         x' = [x EXCEPT ![r].pc = "sent", ![r].nonce = nonce, ![r].wire = k]
    /\ UNCHANGED <<tokens, nonce, backend, history>>

\* The URL, the body or the proof cannot be made: an error that is not retried.
PrepareFails(r) ==
    /\ x[r].pc \in {"token", "send"} /\ ~calm
    /\ AttemptFails(r, "local")
    /\ UNCHANGED <<tokens, nonce, backend, lost, effects>>

Answered(r) == x[r].pc = "sent" /\ x[r].resp # None

\* Mutant: the nonce of an answer is not kept.
RecordNonceNever(r) == nonce' = nonce

\* A DPoP-Nonce header of an answer that was read is kept.
RecordNonce(r) ==
    nonce' = IF HasDPoP /\ x[r].resp.nonce # None THEN x[r].resp.nonce ELSE nonce

\* Mutant: a gateway error is taken for a success.
ReceiveOkUnchecked(r) ==
    /\ Answered(r) /\ x[r].resp.status \in {"200", "503"}
    /\ RecordNonce(r)
    /\ x' = [x EXCEPT ![r].pc = "ok", ![r].resp = None, ![r].wire = None,
                      ![r].tok = None, ![r].nonce = None]
    /\ outcome' = IF x[r].id = None THEN outcome ELSE [outcome EXCEPT ![x[r].id] = "ok"]
    /\ UNCHANGED <<tokens, backend, lost, effects>>

ReceiveOk(r) ==
    /\ Answered(r) /\ x[r].resp.status = "200"
    /\ RecordNonce(r)
    /\ x' = [x EXCEPT ![r].pc = "ok", ![r].resp = None, ![r].wire = None,
                      ![r].tok = None, ![r].nonce = None]
    /\ outcome' = IF x[r].id = None THEN outcome ELSE [outcome EXCEPT ![x[r].id] = "ok"]
    /\ UNCHANGED <<tokens, backend, lost, effects>>

\* doRequest cannot decode the body of a success: an error that is not retried.
DecodeFails(r) ==
    /\ Answered(r) /\ x[r].resp.status = "200" /\ ~calm
    /\ RecordNonce(r)
    /\ AttemptFails(r, "read")
    /\ UNCHANGED <<tokens, backend, lost, effects>>

\* shouldRetryNonce: a 401 that carries a nonce.
Challenged(r) == x[r].resp.status = "401" /\ x[r].resp.nonce # None

NonceRetry(r) ==
    /\ Answered(r) /\ Challenged(r) /\ x[r].allow /\ HasDPoP
    /\ RecordNonce(r)
    /\ x' = [x EXCEPT ![r].pc = "token", ![r].allow = FALSE, ![r].resp = None,
                      ![r].wire = None, ![r].tok = None, ![r].nonce = None]
    /\ UNCHANGED <<tokens, backend, history>>

CanRefreshToken == HasEndpoint /\ (refresh # None \/ ClientCreds)

\* canRefreshToken takes tokenMu for reading.
NeedRefresh(r) ==
    /\ Answered(r) /\ x[r].resp.status = "401" /\ ~Challenged(r)
    /\ writer = None /\ CanRefreshToken
    /\ x' = [x EXCEPT ![r].pc = "lock", ![r].resp = None, ![r].wire = None,
                      ![r].tok = None, ![r].nonce = None]
    /\ UNCHANGED <<tokens, nonce, backend, history>>

ReceiveError(r) ==
    /\ Answered(r) /\ x[r].resp.status # "200"
    /\ x[r].resp.status = "401" =>
         /\ HasEndpoint => writer = None
         /\ IF Challenged(r) THEN ~(x[r].allow /\ HasDPoP) ELSE ~CanRefreshToken
    /\ RecordNonce(r)
    /\ AttemptFails(r, x[r].resp.status)
    /\ UNCHANGED <<tokens, backend, lost, effects>>

\* The error of an answer that cannot be read, or is too large, has the status
\* of the answer.  A 429 is here a plain APIError, which is retried.
UnreadError(s) ==
    CASE s \in {"429", "503"} -> "503"
      [] s = "401"            -> "unread401"
      [] OTHER                -> "read"

\* The body of an answer cannot be read: neither its challenge nor its 401 is
\* acted on.  doHTTP loses its nonce; doStream has kept it, and does not read
\* the body of a success.
ReadFails(r) ==
    /\ Answered(r) /\ ~calm
    /\ UNCHANGED nonce \/ (x[r].resp.status # "200" /\ RecordNonce(r))
    /\ AttemptFails(r, UnreadError(x[r].resp.status))
    /\ UNCHANGED <<tokens, backend, lost, effects>>

\* httpClient.Do fails: the request or the answer is lost, or the request is
\* only late and the backend gets it after the sender gave up.
RequestFails(r) ==
    /\ x[r].pc = "sent" /\ ~calm
    /\ AttemptFails(r, "net")
    /\ \/ UNCHANGED late
       \/ /\ x[r].resp = None /\ Cardinality(late) < MaxLate
          /\ late' = late \cup {[id |-> x[r].id, wire |-> x[r].wire, tok |-> x[r].tok,
                                 nonce |-> x[r].nonce]}
    /\ UNCHANGED <<tokens, nonce, validToks, srvRefresh, srvNonce, seen, calm, lost, effects>>

--------------------------------------------------------------------------------
(* attemptTokenRefresh: tokenMu is held from the first line to the last.      *)

\* Mutant: the refresh does not hold tokenMu.
RefreshLockNone(r) ==
    /\ x[r].pc = "lock"
    /\ x' = [x EXCEPT ![r].pc = "refresh", ![r].rt = refresh]
    /\ UNCHANGED <<tokens, nonce, backend, history>>

RefreshLock(r) ==
    /\ x[r].pc = "lock" /\ writer = None
    /\ writer' = r
    /\ x' = [x EXCEPT ![r].pc = "refresh", ![r].rt = refresh]
    /\ UNCHANGED <<token, refresh, nonce, backend, history>>

RefreshDone(r) ==
    /\ x[r].pc = "refresh" /\ x[r].grant # None
    /\ token' = x[r].grant.tok
    /\ refresh' = IF x[r].grant.rt # None THEN x[r].grant.rt ELSE refresh
    /\ writer' = None
    /\ x' = [x EXCEPT ![r].pc = "token", ![r].allow = FALSE, ![r].rt = None, ![r].grant = None]
    /\ UNCHANGED <<nonce, backend, history>>

\* Mutant: the error path keeps tokenMu.
RefreshFailedLocked(r) ==
    /\ x[r].pc = "refresh" /\ x[r].grant = None
    /\ ~calm \/ x[r].rt # srvRefresh
    /\ x' = [x EXCEPT ![r].pc = "failed", ![r].err = "401", ![r].rt = None, ![r].denied = TRUE]
    /\ outcome' = IF x[r].id = None THEN outcome ELSE [outcome EXCEPT ![x[r].id] = "error"]
    /\ UNCHANGED <<tokens, nonce, backend, lost, effects>>

\* The endpoint refuses the grant or cannot be reached: the 401 is reported.
RefreshFailed(r) ==
    /\ x[r].pc = "refresh" /\ x[r].grant = None
    /\ ~calm \/ x[r].rt \notin {srvRefresh, None}
    /\ writer' = None
    /\ x' = [x EXCEPT ![r].pc = "failed", ![r].err = "401", ![r].rt = None, ![r].denied = TRUE]
    /\ outcome' = IF x[r].id = None THEN outcome ELSE [outcome EXCEPT ![x[r].id] = "error"]
    /\ UNCHANGED <<token, refresh, nonce, backend, lost, effects>>

\* The answer with the grant is lost: the client keeps its old refresh token.
RefreshLost(r) ==
    /\ x[r].pc = "refresh" /\ x[r].grant # None /\ ~calm
    /\ writer' = None
    /\ lost' = TRUE
    /\ x' = [x EXCEPT ![r].pc = "failed", ![r].err = "401", ![r].rt = None,
                      ![r].grant = None, ![r].denied = TRUE]
    /\ outcome' = IF x[r].id = None THEN outcome ELSE [outcome EXCEPT ![x[r].id] = "error"]
    /\ UNCHANGED <<token, refresh, nonce, backend, effects>>

\* The application replaces a token (Client.SetAccessToken, SetRefreshToken).
SetAccessToken ==
    /\ writer = None /\ token' \in (IF calm THEN validToks ELSE Tokens) \ {token}
    /\ UNCHANGED <<x, refresh, writer, nonce, backend, history>>

SetRefreshToken ==
    /\ writer = None /\ refresh # srvRefresh /\ refresh' = srvRefresh
    /\ UNCHANGED <<x, token, writer, nonce, backend, history>>

--------------------------------------------------------------------------------
(* The backend (external).  It applies a request once per idempotency key.    *)

Unanswered(r) == x[r].pc = "sent" /\ x[r].resp = None
NonceOk(q) == HasDPoP => q.nonce = srvNonce
TokenOk(q) == q.tok \in validToks

Apply(q) ==
    IF q.wire = None \/ q.wire \in seen THEN UNCHANGED <<seen, effects>>
    ELSE /\ seen' = seen \cup {q.wire}
         /\ effects' = [effects EXCEPT ![q.id] = IF @ < 2 THEN @ + 1 ELSE 2]

Reply(r, s, n) == x' = [x EXCEPT ![r].resp = [status |-> s, nonce |-> n]]

Refuse(r) ==
    /\ Unanswered(r)
    /\ \/ /\ ~NonceOk(x[r]) /\ (TokenFirst => TokenOk(x[r]))
          /\ Reply(r, "401", srvNonce)
       \/ /\ ~TokenOk(x[r]) /\ (~TokenFirst => NonceOk(x[r]))
          /\ Reply(r, "401", None)
       \/ ~calm /\ \E s \in {"429", "503", "4xx"} : Reply(r, s, None)
    /\ UNCHANGED <<tokens, nonce, backend, history>>

Accept(r) ==
    /\ Unanswered(r) /\ NonceOk(x[r]) /\ TokenOk(x[r])
    /\ Apply(x[r])
    /\ \E n \in {None, srvNonce} :
         Reply(r, "200", n) \/ (~calm /\ Reply(r, "503", n))
    /\ UNCHANGED <<tokens, nonce, validToks, srvRefresh, srvNonce, late, calm, lost, outcome>>

LateArrival ==
    \E q \in late :
        /\ late' = late \ {q}
        /\ \/ NonceOk(q) /\ TokenOk(q) /\ Apply(q)
           \/ UNCHANGED <<seen, effects>>
        /\ UNCHANGED <<x, tokens, nonce, validToks, srvRefresh, srvNonce, calm, lost, outcome>>

\* The token endpoint accepts the current refresh token, once, or the client's
\* credentials; it may or may not rotate the refresh token.
GrantToken(r) ==
    /\ x[r].pc = "refresh" /\ x[r].grant = None
    /\ x[r].rt \in {srvRefresh, None}
    /\ \E t \in Tokens, n \in (RTokens \ {srvRefresh}) \cup {None} :
         /\ x' = [x EXCEPT ![r].grant = [tok |-> t, rt |-> n]]
         /\ validToks' = validToks \cup {t}
         /\ srvRefresh' = IF n = None THEN srvRefresh ELSE n
    /\ UNCHANGED <<tokens, nonce, srvNonce, seen, late, calm, history>>

ExpireToken ==
    /\ ~calm /\ \E t \in validToks : validToks' = validToks \ {t}
    /\ UNCHANGED <<x, tokens, nonce, srvRefresh, srvNonce, seen, late, calm, history>>

RotateNonce ==
    /\ ~calm /\ srvNonce' \in Nonces \ {srvNonce}
    /\ UNCHANGED <<x, tokens, nonce, validToks, srvRefresh, seen, late, calm, history>>

CalmChanges ==
    /\ calm' \in Calms \ {calm}
    /\ UNCHANGED <<x, tokens, nonce, validToks, srvRefresh, srvNonce, seen, late, history>>

--------------------------------------------------------------------------------
CallStep(r) ==
    \/ Send(r) \/ PrepareFails(r) \/ ReceiveOk(r) \/ DecodeFails(r) \/ NonceRetry(r) \/ ReadFails(r)
    \/ BackoffElapsed(r) \/ BackoffCancelled(r) \/ Return(r)
    \/ RefreshDone(r) \/ RefreshFailed(r) \/ RefreshLost(r)

\* The steps that take tokenMu.
LockStep(r) == ReadToken(r) \/ NeedRefresh(r) \/ ReceiveError(r) \/ RefreshLock(r)

ServerStep(r) == Refuse(r) \/ Accept(r) \/ RequestFails(r) \/ GrantToken(r)

Next ==
    \/ \E r \in Goroutines : Begin(r) \/ CallStep(r) \/ LockStep(r) \/ ServerStep(r)
    \/ SetAccessToken \/ SetRefreshToken
    \/ LateArrival \/ ExpireToken \/ RotateNonce \/ CalmChanges

\* Goroutines run, back-offs end and requests are answered or time out; a
\* sync.RWMutex starves nobody.
Fairness == \A r \in Goroutines :
    WF_vars(CallStep(r)) /\ SF_vars(LockStep(r)) /\ WF_vars(ServerStep(r))

Spec == Init /\ [][Next]_vars
FairSpec == Spec /\ Fairness

--------------------------------------------------------------------------------
(* Properties.                                                                *)

\* Every variable holds a value of its Go type.
TypeOK ==
    /\ x \in [Goroutines -> Call]
    /\ token \in Tokens \cup {None} /\ refresh \in RTokens \cup {None}
    /\ writer \in Goroutines \cup {None} /\ nonce \in Nonces \cup {None}
    /\ validToks \subseteq Tokens /\ srvRefresh \in RTokens /\ srvNonce \in Nonces
    /\ seen \subseteq Keys /\ late \subseteq Request /\ calm \in BOOLEAN
    /\ lost \in BOOLEAN
    /\ outcome \in [Ids -> {"none", "pending", "ok", "error"}]
    /\ effects \in [Ids -> 0 .. 2]

\* A call is applied at most once however it is retried: on errors, on nonce
\* challenges, after a refresh, and when an abandoned request arrives late
\* (headersWithStableIdempotency keeps one key for all of them).
AtMostOnce == \A i \in Ids : effects[i] <= 1

\* The transport implements OnceCall: at most one effect, and success only
\* after it.
Once == INSTANCE OnceCall
ImplementsOnceCall == Once!Spec

\* Unless an answer of the token endpoint was lost, the transport never
\* presents a refresh token that was already rotated away, although every
\* goroutine that meets a 401 refreshes (tokenMu is held across the refresh).
NoStaleRefresh ==
    ~lost => \A r \in Goroutines :
        x[r].pc = "refresh" /\ x[r].grant = None => x[r].rt \in {srvRefresh, None}

\* The errors whose HTTPStatus is 401, which IsAuthError accepts.
Unauthorized(e) == e \in {"401", "unread401"}

\* With a nonce that does not change and a backend that checks it first, an error
\* with status 401 means that the token was refused and could not be refreshed,
\* or that the body of a 401 could not be read.  A nonce challenge that was read
\* is never reported, although a call answers only one; one whose body could not
\* be read is, for readLimitedResponse fails before shouldRetryNonce is asked.
AuthFailureIsReal ==
    \A r \in Goroutines :
        x[r].pc = "failed" /\ Unauthorized(x[r].err) =>
            x[r].denied \/ x[r].err = "unread401"

\* Once the backend is calm, every call returns and tokenMu is not left locked.
CallsReturn ==
    <>[]calm => \A r \in Goroutines : x[r].pc # "idle" ~> x[r].pc = "idle"

\* An error that IsRetryable is reported only after the last retry.
RetryableIsRetried ==
    \A r \in Goroutines : x[r].pc = "failed" /\ IsRetryable(x[r].err) =>
        x[r].attempt = MaxRetries
================================================================================
