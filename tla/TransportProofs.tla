------------------------------ MODULE TransportProofs --------------------------
(***************************************************************************)
(* Theorems about Transport, for any number of goroutines, calls, tokens   *)
(* and nonces: its types, that no refresh token is presented that was      *)
(* rotated away, that it implements OnceCall, and that a 401 it reports is *)
(* never a nonce challenge.                                                *)
(***************************************************************************)
EXTENDS Transport, TLAPS

--------------------------------------------------------------------------------
(* Types                                                                      *)

\* An attempt is counted only when another one is allowed.
CallsInv ==
    /\ x \in [Goroutines -> Call]
    /\ \A r \in Goroutines : x[r].pc = "backoff" => x[r].attempt < MaxRetries

\* What the goroutines and the backend share.
SharedOK ==
    /\ token \in Tokens \cup {None} /\ refresh \in RTokens \cup {None}
    /\ writer \in Goroutines \cup {None} /\ nonce \in Nonces \cup {None}
    /\ validToks \subseteq Tokens /\ srvRefresh \in RTokens /\ srvNonce \in Nonces
    /\ seen \subseteq Keys /\ late \subseteq Request
    /\ outcome \in [Ids -> {"none", "pending", "ok", "error"}]
    /\ effects \in [Ids -> 0 .. 2]

TypeInv == CallsInv /\ SharedOK

FlagsOK == calm \in BOOLEAN /\ lost \in BOOLEAN

\* A step of a goroutine changes its own call.
LEMMA OneCall ==
    ASSUME CallsInv, NEW r \in Goroutines, NEW c \in Call,
           c.pc = "backoff" => c.attempt < MaxRetries,
           x' = [x EXCEPT ![r] = c]
    PROVE  CallsInv'
BY DEF CallsInv

\* A call that an attempt has ended.
LEMMA FailedCall ==
    ASSUME NEW d \in Call, NEW p \in Steps, NEW e \in Errors \cup {None}, NEW b \in BOOLEAN
    PROVE  [d EXCEPT !.pc = p, !.err = e, !.denied = b, !.wire = None, !.tok = None,
                     !.nonce = None, !.rt = None, !.resp = None, !.grant = None] \in Call
BY DEF Call

LEMMA AttemptFailsTypes ==
    ASSUME TypeInv, NEW r \in Goroutines, NEW e \in Errors, AttemptFails(r, e)
    PROVE  CallsInv' /\ outcome' \in [Ids -> {"none", "pending", "ok", "error"}]
<1> DEFINE retry == Retried(e) /\ x[r].attempt < MaxRetries
           refused == e = "401" /\ x[r].resp.nonce = None
           c == [x[r] EXCEPT !.pc = IF retry THEN "backoff" ELSE "failed",
                      !.err = IF retry THEN None ELSE e, !.denied = refused,
                      !.wire = None, !.tok = None, !.nonce = None,
                      !.rt = None, !.resp = None, !.grant = None]
<1>1. x' = [x EXCEPT ![r] = c]
  BY Zenon DEF AttemptFails
<1>2. refused \in BOOLEAN
  BY Zenon
<1> HIDE DEF refused
<1>3. c \in Call
  <2>1. x[r] \in Call
    BY DEF TypeInv, CallsInv
  <2>2. (IF retry THEN "backoff" ELSE "failed") \in Steps
    BY DEF Steps
  <2>3. (IF retry THEN None ELSE e) \in Errors \cup {None}
    BY Zenon
  <2> QED
    BY <1>2, <2>1, <2>2, <2>3, FailedCall, Zenon
<1>4. c.pc = "backoff" => c.attempt < MaxRetries
  BY DEF TypeInv, CallsInv, Call
<1>5. outcome' \in [Ids -> {"none", "pending", "ok", "error"}]
  BY DEF AttemptFails, TypeInv, SharedOK
<1> HIDE DEF c
<1> QED
  BY <1>1, <1>3, <1>4, <1>5, OneCall DEF TypeInv

LEMMA NonceKept ==
    ASSUME TypeInv, NEW r \in Goroutines, Answered(r), RecordNonce(r)
    PROVE  nonce' \in Nonces \cup {None}
BY DEF Answered, RecordNonce, TypeInv, CallsInv, SharedOK, Call, Response

\* The steps that end an attempt with an error.
LEMMA FailureTypes ==
    ASSUME TypeInv, NEW r \in Goroutines,
           PrepareFails(r) \/ DecodeFails(r) \/ ReceiveError(r) \/ ReadFails(r) \/ RequestFails(r)
    PROVE  TypeInv'
<1>1. PICK e \in Errors : AttemptFails(r, e)
  BY DEF PrepareFails, DecodeFails, ReceiveError, ReadFails, UnreadError, RequestFails, Answered,
         Errors, TypeInv, CallsInv, Call, Response
<1>2. CallsInv' /\ outcome' \in [Ids -> {"none", "pending", "ok", "error"}]
  BY <1>1, AttemptFailsTypes
<1>3. nonce' \in Nonces \cup {None}
  BY NonceKept DEF PrepareFails, DecodeFails, ReceiveError, ReadFails, RequestFails,
         TypeInv, SharedOK
<1>4. late' \subseteq Request
  BY DEF PrepareFails, DecodeFails, ReceiveError, ReadFails, RequestFails, TypeInv,
         SharedOK, CallsInv, Call, Request, backend
<1>5. UNCHANGED <<tokens, validToks, srvRefresh, srvNonce, seen, calm, lost, effects>>
  BY DEF PrepareFails, DecodeFails, ReceiveError, ReadFails, RequestFails, backend
<1> QED
  BY <1>2, <1>3, <1>4, <1>5 DEF TypeInv, SharedOK, tokens

LEMMA BackoffElapsedTypes ==
    ASSUME TypeInv, NEW r \in Goroutines, BackoffElapsed(r) PROVE TypeInv'
BY TransportAssumption DEF BackoffElapsed, TypeInv, CallsInv, SharedOK, Call,
   Response, Grant, Steps, tokens, backend, history

LEMMA ReturnTypes ==
    ASSUME TypeInv, NEW r \in Goroutines, Return(r) PROVE TypeInv'
BY TransportAssumption DEF Return, NoCall, TypeInv, CallsInv, SharedOK, Call,
   Response, Grant, Steps, tokens, backend, history

LEMMA ReceiveOkTypes ==
    ASSUME TypeInv, NEW r \in Goroutines, ReceiveOk(r) PROVE TypeInv'
BY TransportAssumption DEF ReceiveOk, Answered, RecordNonce, TypeInv, CallsInv, SharedOK, Call,
   Response, Grant, Steps, tokens, backend, history

LEMMA NonceRetryTypes ==
    ASSUME TypeInv, NEW r \in Goroutines, NonceRetry(r) PROVE TypeInv'
BY TransportAssumption DEF NonceRetry, Answered, RecordNonce, TypeInv, CallsInv, SharedOK, Call,
   Response, Grant, Steps, tokens, backend, history

LEMMA NeedRefreshTypes ==
    ASSUME TypeInv, NEW r \in Goroutines, NeedRefresh(r) PROVE TypeInv'
BY TransportAssumption DEF NeedRefresh, Answered, TypeInv, CallsInv, SharedOK, Call,
   Response, Grant, Steps, tokens, backend, history

LEMMA RefreshDoneTypes ==
    ASSUME TypeInv, NEW r \in Goroutines, RefreshDone(r) PROVE TypeInv'
BY TransportAssumption DEF RefreshDone, TypeInv, CallsInv, SharedOK, Call,
   Response, Grant, Steps, tokens, backend, history

LEMMA RefreshLostTypes ==
    ASSUME TypeInv, NEW r \in Goroutines, RefreshLost(r) PROVE TypeInv'
BY TransportAssumption DEF RefreshLost, Errors, TypeInv, CallsInv, SharedOK, Call,
   Response, Grant, Steps, tokens, backend, history

LEMMA RefuseTypes ==
    ASSUME TypeInv, NEW r \in Goroutines, Refuse(r) PROVE TypeInv'
BY TransportAssumption DEF Refuse, Reply, TypeInv, CallsInv, SharedOK, Call,
   Response, Grant, Steps, tokens, backend, history

LEMMA ApplyTypes ==
    ASSUME SharedOK, NEW q, q.wire \in Keys \cup {None}, Apply(q)
    PROVE  seen' \subseteq Keys /\ effects' \in [Ids -> 0 .. 2]
BY DEF SharedOK, Apply

LEMMA AcceptTypes ==
    ASSUME TypeInv, NEW r \in Goroutines, Accept(r) PROVE TypeInv'
<1>1. PICK s \in {"200", "503"}, n \in Nonces \cup {None} :
        x' = [x EXCEPT ![r].resp = [status |-> s, nonce |-> n]]
  BY DEF Accept, Reply, TypeInv, SharedOK
<1> DEFINE c == [x[r] EXCEPT !.resp = [status |-> s, nonce |-> n]]
<1>2. x[r] \in Call /\ x[r].pc = "sent"
  BY DEF Accept, Unanswered, TypeInv, CallsInv
<1>3. c \in Call /\ c.pc # "backoff"
  BY <1>2 DEF Call, Response
<1>4. x' = [x EXCEPT ![r] = c]
  BY <1>1
<1> HIDE DEF c
<1>5. CallsInv'
  BY <1>3, <1>4, OneCall DEF TypeInv
<1>6. seen' \subseteq Keys /\ effects' \in [Ids -> 0 .. 2]
  BY <1>2, ApplyTypes DEF Accept, TypeInv, Call
<1>7. SharedOK'
  BY <1>6 DEF Accept, TypeInv, SharedOK, tokens
<1> QED
  BY <1>5, <1>7 DEF TypeInv

LEMMA BackoffCancelledTypes ==
    ASSUME TypeInv, NEW r \in Goroutines, BackoffCancelled(r) PROVE TypeInv'
<1> DEFINE c == [x[r] EXCEPT !.pc = "failed", !.err = "context"]
<1>0. x[r] \in Call /\ token \in Tokens \cup {None} /\ refresh \in RTokens \cup {None}
      /\ nonce \in Nonces \cup {None}
  BY DEF TypeInv, CallsInv, SharedOK
<1>1. c \in Call
  BY <1>0, Zenon DEF Call, Steps, Errors
<1>5. c.pc # "backoff"
  BY <1>0 DEF Call
<1>2. x' = [x EXCEPT ![r] = c]
  BY DEF BackoffCancelled, TypeInv, CallsInv
<1> HIDE DEF c
<1>3. CallsInv'
  BY <1>1, <1>5, <1>2, OneCall DEF TypeInv
<1>4. SharedOK'
  BY DEF BackoffCancelled, TypeInv, SharedOK, tokens, backend, history
<1> QED
  BY <1>3, <1>4 DEF TypeInv

LEMMA ReadTokenTypes ==
    ASSUME TypeInv, NEW r \in Goroutines, ReadToken(r) PROVE TypeInv'
<1> DEFINE c == [x[r] EXCEPT !.pc = "send", !.tok = token]
<1>0. x[r] \in Call /\ token \in Tokens \cup {None} /\ refresh \in RTokens \cup {None}
      /\ nonce \in Nonces \cup {None}
  BY DEF TypeInv, CallsInv, SharedOK
<1>1. c \in Call
  BY <1>0, Zenon DEF Call, Steps, Errors
<1>5. c.pc # "backoff"
  BY <1>0 DEF Call
<1>2. x' = [x EXCEPT ![r] = c]
  BY DEF ReadToken, TypeInv, CallsInv
<1> HIDE DEF c
<1>3. CallsInv'
  BY <1>1, <1>5, <1>2, OneCall DEF TypeInv
<1>4. SharedOK'
  BY DEF ReadToken, TypeInv, SharedOK, tokens, backend, history
<1> QED
  BY <1>3, <1>4 DEF TypeInv

LEMMA SendTypes ==
    ASSUME TypeInv, NEW r \in Goroutines, Send(r) PROVE TypeInv'
<1> DEFINE c == [x[r] EXCEPT !.pc = "sent", !.nonce = nonce, !.wire = x[r].key]
<1>0. x[r] \in Call /\ token \in Tokens \cup {None} /\ refresh \in RTokens \cup {None}
      /\ nonce \in Nonces \cup {None}
  BY DEF TypeInv, CallsInv, SharedOK
<1>1. c \in Call
  BY <1>0, Zenon DEF Call, Steps, Errors
<1>5. c.pc # "backoff"
  BY <1>0 DEF Call
<1>2. x' = [x EXCEPT ![r] = c]
  BY DEF Send, WireKeys, TypeInv, CallsInv
<1> HIDE DEF c
<1>3. CallsInv'
  BY <1>1, <1>5, <1>2, OneCall DEF TypeInv
<1>4. SharedOK'
  BY DEF Send, TypeInv, SharedOK, tokens, backend, history
<1> QED
  BY <1>3, <1>4 DEF TypeInv

LEMMA RefreshLockTypes ==
    ASSUME TypeInv, NEW r \in Goroutines, RefreshLock(r) PROVE TypeInv'
<1> DEFINE c == [x[r] EXCEPT !.pc = "refresh", !.rt = refresh]
<1>0. x[r] \in Call /\ token \in Tokens \cup {None} /\ refresh \in RTokens \cup {None}
      /\ nonce \in Nonces \cup {None}
  BY DEF TypeInv, CallsInv, SharedOK
<1>1. c \in Call
  BY <1>0, Zenon DEF Call, Steps, Errors
<1>5. c.pc # "backoff"
  BY <1>0 DEF Call
<1>2. x' = [x EXCEPT ![r] = c]
  BY DEF RefreshLock, TypeInv, CallsInv
<1> HIDE DEF c
<1>3. CallsInv'
  BY <1>1, <1>5, <1>2, OneCall DEF TypeInv
<1>4. SharedOK'
  BY DEF RefreshLock, TypeInv, SharedOK, tokens, backend, history
<1> QED
  BY <1>3, <1>4 DEF TypeInv

LEMMA RefreshFailedTypes ==
    ASSUME TypeInv, NEW r \in Goroutines, RefreshFailed(r) PROVE TypeInv'
<1> DEFINE c == [x[r] EXCEPT !.pc = "failed", !.err = "401", !.rt = None, !.denied = TRUE]
<1>0. x[r] \in Call /\ token \in Tokens \cup {None} /\ refresh \in RTokens \cup {None}
      /\ nonce \in Nonces \cup {None}
  BY DEF TypeInv, CallsInv, SharedOK
<1>1. c \in Call
  BY <1>0, Zenon DEF Call, Steps, Errors
<1>5. c.pc # "backoff"
  BY <1>0 DEF Call
<1>2. x' = [x EXCEPT ![r] = c]
  BY DEF RefreshFailed, TypeInv, CallsInv
<1> HIDE DEF c
<1>3. CallsInv'
  BY <1>1, <1>5, <1>2, OneCall DEF TypeInv
<1>4. SharedOK'
  BY DEF RefreshFailed, TypeInv, SharedOK, tokens, backend, history
<1> QED
  BY <1>3, <1>4 DEF TypeInv

LEMMA BeginTypes ==
    ASSUME TypeInv, NEW r \in Goroutines, Begin(r) PROVE TypeInv'
<1>0. x[r] \in Call
  BY DEF TypeInv, CallsInv
<1>1. CASE x' = [x EXCEPT ![r].pc = "token"] /\ UNCHANGED <<seen, outcome, effects>>
  <2> DEFINE c == [x[r] EXCEPT !.pc = "token"]
  <2>1. c \in Call
    BY <1>0, Zenon DEF Call, Steps
  <2>9. c.pc # "backoff"
    BY <1>0 DEF Call
  <2>2. x' = [x EXCEPT ![r] = c]
    BY <1>1
  <2> HIDE DEF c
  <2>3. CallsInv'
    BY <2>1, <2>9, <2>2, OneCall DEF TypeInv
  <2>4. SharedOK'
    BY <1>1 DEF Begin, TypeInv, SharedOK, tokens
  <2> QED
    BY <2>3, <2>4 DEF TypeInv
<1>2. ASSUME NEW i \in Ids, NEW k \in Keys,
             x' = [x EXCEPT ![r].pc = "token", ![r].id = i, ![r].key = k],
             seen' = seen \ {k},
             outcome' = [outcome EXCEPT ![i] = "pending"],
             effects' = [effects EXCEPT ![i] = 0]
      PROVE  TypeInv'
  <2> DEFINE c == [x[r] EXCEPT !.pc = "token", !.id = i, !.key = k]
  <2>1. c \in Call
    BY <1>0, Zenon DEF Call, Steps
  <2>9. c.pc # "backoff"
    BY <1>0 DEF Call
  <2>2. x' = [x EXCEPT ![r] = c]
    BY <1>2
  <2> HIDE DEF c
  <2>3. CallsInv'
    BY <2>1, <2>9, <2>2, OneCall DEF TypeInv
  <2>4. outcome' \in [Ids -> {"none", "pending", "ok", "error"}]
    BY <1>2 DEF TypeInv, SharedOK
  <2>5. effects' \in [Ids -> 0 .. 2]
    BY <1>2 DEF TypeInv, SharedOK
  <2>6. UNCHANGED <<tokens, nonce, validToks, srvRefresh, srvNonce, late>>
    BY DEF Begin
  <2>7. SharedOK'
    BY <1>2, <2>4, <2>5, <2>6 DEF TypeInv, SharedOK, tokens
  <2> QED
    BY <2>3, <2>7 DEF TypeInv
<1> QED
  BY <1>1, <1>2, Zenon DEF Begin

LEMMA GrantTokenTypes ==
    ASSUME TypeInv, NEW r \in Goroutines, GrantToken(r) PROVE TypeInv'
<1>1. PICK t \in Tokens, n \in RTokens \cup {None} :
        /\ x' = [x EXCEPT ![r].grant = [tok |-> t, rt |-> n]]
        /\ validToks' = validToks \cup {t}
        /\ srvRefresh' = IF n = None THEN srvRefresh ELSE n
  BY DEF GrantToken
<1> DEFINE c == [x[r] EXCEPT !.grant = [tok |-> t, rt |-> n]]
<1>2. c \in Call /\ c.pc = "refresh"
  BY DEF GrantToken, TypeInv, CallsInv, Call, Grant
<1>3. x' = [x EXCEPT ![r] = c]
  BY <1>1
<1> HIDE DEF c
<1>4. CallsInv'
  BY <1>2, <1>3, OneCall DEF TypeInv
<1>5. SharedOK'
  BY <1>1 DEF GrantToken, TypeInv, SharedOK, tokens, history
<1> QED
  BY <1>4, <1>5 DEF TypeInv

LEMMA EnvironmentTypes ==
    ASSUME TypeInv,
           SetAccessToken \/ SetRefreshToken \/ LateArrival \/ ExpireToken \/ RotateNonce
           \/ CalmChanges
    PROVE  TypeInv'
<1> USE DEF TypeInv
<1>1. UNCHANGED x
  BY DEF SetAccessToken, SetRefreshToken, LateArrival, ExpireToken, RotateNonce, CalmChanges
<1>2. CallsInv'
  BY <1>1 DEF CallsInv
<1>3. CASE LateArrival
  <2>1. PICK q \in late : late' = late \ {q} /\ (Apply(q) \/ UNCHANGED <<seen, effects>>)
    BY <1>3 DEF LateArrival
  <2>2. q.wire \in Keys \cup {None}
    BY DEF SharedOK, Request
  <2>3. seen' \subseteq Keys /\ effects' \in [Ids -> 0 .. 2]
    BY <2>1, <2>2, ApplyTypes DEF SharedOK
  <2>4. UNCHANGED <<tokens, nonce, validToks, srvRefresh, srvNonce, outcome>>
    BY <1>3 DEF LateArrival
  <2> QED
    BY <1>2, <2>1, <2>3, <2>4 DEF SharedOK, tokens
<1>4. CASE SetAccessToken
  <2>1. token' \in Tokens
    BY <1>4 DEF SetAccessToken, SharedOK
  <2> QED
    BY <1>2, <1>4, <2>1 DEF SetAccessToken, SharedOK, backend, history
<1>5. CASE SetRefreshToken
  BY <1>2, <1>5 DEF SetRefreshToken, SharedOK, backend, history
<1>6. CASE ExpireToken
  BY <1>2, <1>6 DEF ExpireToken, SharedOK, tokens, history
<1>7. CASE RotateNonce
  BY <1>2, <1>7 DEF RotateNonce, SharedOK, tokens, history
<1>8. CASE CalmChanges
  BY <1>2, <1>8 DEF CalmChanges, SharedOK, tokens, history
<1> QED
  BY <1>3, <1>4, <1>5, <1>6, <1>7, <1>8

LEMMA InitTypes == Init => TypeInv
<1> SUFFICES ASSUME Init PROVE TypeInv
  OBVIOUS
<1>1. NoCall \in Call /\ NoCall.pc # "backoff"
  BY TransportAssumption DEF NoCall, Call, Steps
<1>2. CallsInv
  BY <1>1 DEF Init, CallsInv
<1>3. SharedOK
  BY DEF Init, SharedOK
<1> QED
  BY <1>2, <1>3 DEF TypeInv

LEMMA NextTypes == TypeInv /\ [Next]_vars => TypeInv'
<1> SUFFICES ASSUME TypeInv, [Next]_vars PROVE TypeInv'
  OBVIOUS
<1>1. ASSUME NEW r \in Goroutines,
             Begin(r) \/ CallStep(r) \/ LockStep(r) \/ ServerStep(r)
      PROVE  TypeInv'
  BY <1>1, FailureTypes, BackoffElapsedTypes, ReturnTypes, ReceiveOkTypes, NonceRetryTypes,
     NeedRefreshTypes, RefreshDoneTypes, RefreshLostTypes, RefuseTypes, AcceptTypes,
     BackoffCancelledTypes, ReadTokenTypes, SendTypes, RefreshLockTypes, RefreshFailedTypes,
     BeginTypes, GrantTokenTypes
     DEF CallStep, LockStep, ServerStep
<1>2. CASE UNCHANGED vars
  BY <1>2 DEF vars, tokens, backend, history, TypeInv, CallsInv, SharedOK
<1> QED
  BY <1>1, <1>2, EnvironmentTypes DEF Next

LEMMA FlagsNext == FlagsOK /\ [Next]_vars => FlagsOK'
<1> SUFFICES ASSUME FlagsOK, [Next]_vars PROVE FlagsOK'
  OBVIOUS
<1> USE DEF tokens, backend, history
<1>1. ASSUME NEW r \in Goroutines,
             Begin(r) \/ Send(r) \/ PrepareFails(r) \/ ReceiveOk(r) \/ DecodeFails(r) \/ NonceRetry(r)
      PROVE  UNCHANGED <<calm, lost>>
  BY <1>1 DEF Begin, Send, PrepareFails, ReceiveOk, DecodeFails, NonceRetry
<1>2. ASSUME NEW r \in Goroutines,
             ReadFails(r) \/ BackoffElapsed(r) \/ BackoffCancelled(r) \/ Return(r) \/ RefreshDone(r)
      PROVE  UNCHANGED <<calm, lost>>
  BY <1>2 DEF ReadFails, BackoffElapsed, BackoffCancelled, Return, RefreshDone
<1>3. ASSUME NEW r \in Goroutines,
             RefreshFailed(r) \/ ReadToken(r) \/ NeedRefresh(r) \/ ReceiveError(r) \/ RefreshLock(r)
      PROVE  UNCHANGED <<calm, lost>>
  BY <1>3 DEF RefreshFailed, ReadToken, NeedRefresh, ReceiveError, RefreshLock
<1>4. ASSUME NEW r \in Goroutines, Refuse(r) \/ Accept(r) \/ RequestFails(r) \/ GrantToken(r)
      PROVE  UNCHANGED <<calm, lost>>
  BY <1>4 DEF Refuse, Accept, RequestFails, GrantToken
<1>5. ASSUME NEW r \in Goroutines, RefreshLost(r) PROVE calm' = calm /\ lost' = TRUE
  BY <1>5 DEF RefreshLost
<1>6. CalmChanges => calm' \in Calms /\ lost' = lost
  BY DEF CalmChanges
<1>7. SetAccessToken \/ SetRefreshToken \/ LateArrival \/ ExpireToken \/ RotateNonce =>
        UNCHANGED <<calm, lost>>
  BY DEF SetAccessToken, SetRefreshToken, LateArrival, ExpireToken, RotateNonce
<1>8. UNCHANGED vars => UNCHANGED <<calm, lost>>
  BY DEF vars
<1>9. calm' \in Calms \cup {calm} /\ lost' \in {TRUE, lost}
  BY <1>1, <1>2, <1>3, <1>4, <1>5, <1>6, <1>7, <1>8 DEF Next, CallStep, LockStep, ServerStep
<1> QED
  BY <1>9, TransportAssumption, Zenon DEF FlagsOK

\* The state of the transport keeps its types: in particular no call makes more
\* attempts than MaxRetries allows (doWithRetry).
THEOREM TypeCorrect == Spec => []TypeOK
<1>1. Init => FlagsOK
  BY TransportAssumption, Zenon DEF Init, FlagsOK
<1>2. TypeInv /\ FlagsOK => TypeOK
  BY Zenon DEF TypeInv, CallsInv, SharedOK, FlagsOK, TypeOK
<1> QED
  BY <1>1, <1>2, InitTypes, NextTypes, FlagsNext, PTL DEF Spec

--------------------------------------------------------------------------------
(* Refresh tokens                                                             *)

\* The goroutine that refreshes is the one that holds tokenMu.
LockInv == \A r \in Goroutines : x[r].pc = "refresh" <=> writer = r

\* Only a refresh under way has been granted anything.
GrantInv == \A r \in Goroutines : x[r].pc # "refresh" => x[r].grant = None

\* What the client holds is what the backend accepts, whenever nobody is about to
\* replace it.
TokensInv == writer = None => refresh \in {srvRefresh, None}

\* A goroutine that refreshes presents what the client holds; once it is granted
\* another refresh token, that is the one the backend accepts.
RefreshesInv ==
    \A r \in Goroutines : x[r].pc = "refresh" =>
        /\ x[r].grant = None => x[r].rt = refresh
        /\ x[r].grant = None \/ x[r].grant.rt = None => refresh \in {srvRefresh, None}
        /\ x[r].grant # None /\ x[r].grant.rt # None => x[r].grant.rt = srvRefresh

RefreshInv == TypeInv /\ LockInv /\ GrantInv /\ (lost \/ (TokensInv /\ RefreshesInv))

\* Most steps have nothing to do with refreshing.
LEMMA OtherSteps ==
    ASSUME RefreshInv, TypeInv', UNCHANGED <<refresh, writer, srvRefresh, lost>>,
           NEW r \in Goroutines, \A g \in Goroutines : g # r => x'[g] = x[g],
           x[r].pc # "refresh", x'[r].pc # "refresh", x'[r].grant \in {x[r].grant, None}
    PROVE  RefreshInv'
BY DEF RefreshInv, LockInv, GrantInv, TokensInv, RefreshesInv

LEMMA FailureRefresh ==
    ASSUME RefreshInv, TypeInv', NEW r \in Goroutines,
           PrepareFails(r) \/ DecodeFails(r) \/ ReceiveError(r) \/ ReadFails(r) \/ RequestFails(r)
    PROVE  RefreshInv'
<1>1. PICK e : AttemptFails(r, e)
  BY DEF PrepareFails, DecodeFails, ReceiveError, ReadFails, RequestFails
<1>2. x[r].pc \in {"token", "send", "sent"}
  BY DEF PrepareFails, DecodeFails, ReceiveError, ReadFails, RequestFails, Answered
<1>3. UNCHANGED <<refresh, writer, srvRefresh, lost>>
  BY DEF PrepareFails, DecodeFails, ReceiveError, ReadFails, RequestFails, tokens, backend
<1>4. x \in [Goroutines -> Call]
  BY DEF RefreshInv, TypeInv, CallsInv
<1>5. \A g \in Goroutines : g # r => x'[g] = x[g]
  BY <1>1, <1>4 DEF AttemptFails
<1>6. x'[r].pc \in {"backoff", "failed"} /\ x'[r].grant = None
  BY <1>1, <1>4 DEF AttemptFails, Call
<1> QED
  BY <1>2, <1>3, <1>5, <1>6, OtherSteps

LEMMA CallRefresh ==
    ASSUME RefreshInv, TypeInv', NEW r \in Goroutines,
           \/ Begin(r) \/ BackoffElapsed(r) \/ BackoffCancelled(r) \/ Return(r) \/ ReadToken(r)
           \/ Send(r) \/ ReceiveOk(r) \/ NonceRetry(r) \/ NeedRefresh(r) \/ Refuse(r) \/ Accept(r)
    PROVE  RefreshInv'
<1> DEFINE same == UNCHANGED <<refresh, writer, srvRefresh, lost>>
           others == \A g \in Goroutines : g # r => x'[g] = x[g]
           quiet == /\ x[r].pc # "refresh" /\ x'[r].pc # "refresh"
                    /\ x'[r].grant \in {x[r].grant, None}
<1>0. x \in [Goroutines -> Call]
  BY DEF RefreshInv, TypeInv, CallsInv
<1>1. CASE Begin(r) \/ BackoffElapsed(r) \/ BackoffCancelled(r) \/ Return(r)
  <2>1. same
    BY <1>1 DEF Begin, BackoffElapsed, BackoffCancelled, Return, tokens, backend, history
  <2>2. others /\ quiet
    <3>1. CASE Begin(r)
      <4>1. x[r].pc = "idle"
        BY <3>1 DEF Begin
      <4>2. CASE x' = [x EXCEPT ![r].pc = "token"]
        BY <1>0, <4>1, <4>2 DEF Call
      <4>3. ASSUME NEW i, NEW k,
                   x' = [x EXCEPT ![r].pc = "token", ![r].id = i, ![r].key = k]
            PROVE  others /\ quiet
        <5>1. x' = [x EXCEPT ![r] = [x[r] EXCEPT !.pc = "token", !.id = i, !.key = k]]
          BY <4>3
        <5> QED
          BY <1>0, <4>1, <5>1 DEF Call
      <4> QED
        BY <3>1, <4>2, <4>3, Zenon DEF Begin
    <3>2. CASE BackoffElapsed(r) \/ BackoffCancelled(r)
      BY <1>0, <3>2 DEF BackoffElapsed, BackoffCancelled, Call
    <3>3. CASE Return(r)
      BY <1>0, <3>3 DEF Return, NoCall, Call
    <3> QED
      BY <1>1, <3>1, <3>2, <3>3
  <2> QED
    BY <2>1, <2>2, OtherSteps
<1>2. CASE ReadToken(r) \/ Send(r) \/ ReceiveOk(r) \/ NonceRetry(r) \/ NeedRefresh(r)
  <2>1. same
    BY <1>2 DEF ReadToken, Send, ReceiveOk, NonceRetry, NeedRefresh, tokens, backend, history
  <2>2. others /\ quiet
    <3>1. CASE ReadToken(r)
      BY <1>0, <3>1 DEF ReadToken, Call
    <3>2. CASE Send(r)
      <4>1. PICK k : x' = [x EXCEPT ![r].pc = "sent", ![r].nonce = nonce, ![r].wire = k]
        BY <3>2 DEF Send
      <4>2. x' = [x EXCEPT ![r] = [x[r] EXCEPT !.pc = "sent", !.nonce = nonce, !.wire = k]]
        BY <4>1
      <4>3. x[r].pc = "send"
        BY <3>2 DEF Send
      <4> QED
        BY <1>0, <4>2, <4>3 DEF Call
    <3>3. CASE ReceiveOk(r)
      BY <1>0, <3>3 DEF ReceiveOk, Answered, Call
    <3>4. CASE NonceRetry(r) \/ NeedRefresh(r)
      BY <1>0, <3>4 DEF NonceRetry, NeedRefresh, Answered, Call
    <3> QED
      BY <1>2, <3>1, <3>2, <3>3, <3>4
  <2> QED
    BY <2>1, <2>2, OtherSteps
<1>3. CASE Refuse(r) \/ Accept(r)
  <2>1. same
    BY <1>3 DEF Refuse, Accept, tokens, backend, history
  <2>2. others /\ quiet
    BY <1>0, <1>3 DEF Refuse, Accept, Unanswered, Reply, Call
  <2> QED
    BY <2>1, <2>2, OtherSteps
<1> QED
  BY <1>1, <1>2, <1>3

LEMMA HolderRefresh ==
    ASSUME RefreshInv, TypeInv', NEW r \in Goroutines,
           RefreshLock(r) \/ GrantToken(r) \/ RefreshDone(r) \/ RefreshFailed(r) \/ RefreshLost(r)
    PROVE  RefreshInv'
<1>0. x \in [Goroutines -> Call] /\ r # None
  BY TransportAssumption DEF RefreshInv, TypeInv, CallsInv
<1> USE <1>0 DEF RefreshInv, LockInv, GrantInv, TokensInv, RefreshesInv
<1>1. CASE RefreshLock(r)
  <2>1. writer = None /\ writer' = r /\ UNCHANGED <<refresh, srvRefresh, lost>>
    BY <1>1 DEF RefreshLock, backend, history
  <2>2. x'[r] = [x[r] EXCEPT !.pc = "refresh", !.rt = refresh]
        /\ \A g \in Goroutines : g # r => x'[g] = x[g]
    BY <1>1 DEF RefreshLock
  <2>3. x'[r].pc = "refresh" /\ x'[r].rt = refresh /\ x'[r].grant = x[r].grant
    BY <2>2 DEF Call
  <2>4. x[r].grant = None
    BY <1>1 DEF RefreshLock, GrantInv
  <2>5. \A g \in Goroutines : g # r => x[g].pc # "refresh"
    BY <2>1, TransportAssumption DEF LockInv
  <2> QED
    BY <2>1, <2>2, <2>3, <2>4, <2>5
<1>2. CASE GrantToken(r)
  <2>1. PICK t \in Tokens, n \in (RTokens \ {srvRefresh}) \cup {None} :
          /\ x' = [x EXCEPT ![r].grant = [tok |-> t, rt |-> n]]
          /\ srvRefresh' = IF n = None THEN srvRefresh ELSE n
    BY <1>2 DEF GrantToken
  <2>2. x[r].pc = "refresh" /\ x[r].grant = None /\ UNCHANGED <<refresh, writer, lost>>
    BY <1>2 DEF GrantToken, tokens, history
  <2>3. \A g \in Goroutines : g # r => x'[g] = x[g]
    BY <2>1
  <2>4. x'[r].pc = "refresh" /\ x'[r].grant = [tok |-> t, rt |-> n]
    BY <2>1, <2>2 DEF Call
  <2>5. [tok |-> t, rt |-> n] # None /\ [tok |-> t, rt |-> n].rt = n
    BY TransportAssumption
  <2>6. \A g \in Goroutines : g # r => x[g].pc # "refresh"
    BY <2>2 DEF LockInv
  <2> QED
    BY <2>1, <2>2, <2>3, <2>4, <2>5, <2>6
<1>3. CASE RefreshDone(r)
  BY <1>3 DEF RefreshDone, backend, history, Call
<1>4. CASE RefreshFailed(r)
  <2>1. writer' = None /\ UNCHANGED <<refresh, srvRefresh, lost>>
    BY <1>4 DEF RefreshFailed, backend
  <2>2. x[r].pc = "refresh" /\ x[r].grant = None
    BY <1>4 DEF RefreshFailed
  <2>3. x'[r].pc = "failed" /\ x'[r].grant = x[r].grant
        /\ \A g \in Goroutines : g # r => x'[g] = x[g]
    BY <1>4 DEF RefreshFailed, Call
  <2>4. \A g \in Goroutines : x'[g].pc # "refresh"
    BY <2>2, <2>3 DEF LockInv
  <2> QED
    BY <2>1, <2>2, <2>3, <2>4, TransportAssumption
<1>5. CASE RefreshLost(r)
  BY <1>5 DEF RefreshLost, backend, Call
<1> QED
  BY <1>1, <1>2, <1>3, <1>4, <1>5

LEMMA EnvironmentRefresh ==
    ASSUME RefreshInv, TypeInv',
           SetAccessToken \/ SetRefreshToken \/ LateArrival \/ ExpireToken \/ RotateNonce
           \/ CalmChanges \/ UNCHANGED vars
    PROVE  RefreshInv'
<1>1. UNCHANGED <<x, writer, srvRefresh, lost>>
  BY DEF SetAccessToken, SetRefreshToken, LateArrival, ExpireToken, RotateNonce, CalmChanges,
         vars, tokens, backend, history
<1>2. refresh' = refresh \/ (writer = None /\ refresh' = srvRefresh)
  BY DEF SetAccessToken, SetRefreshToken, LateArrival, ExpireToken, RotateNonce, CalmChanges,
         vars, tokens
<1>3. writer = None => \A g \in Goroutines : x[g].pc # "refresh"
  BY TransportAssumption DEF RefreshInv, LockInv
<1> QED
  BY <1>1, <1>2, <1>3 DEF RefreshInv, LockInv, GrantInv, TokensInv, RefreshesInv

LEMMA NextRefresh == RefreshInv /\ [Next]_vars => RefreshInv'
<1> SUFFICES ASSUME RefreshInv, [Next]_vars PROVE RefreshInv'
  OBVIOUS
<1>1. TypeInv'
  BY NextTypes DEF RefreshInv
<1>2. ASSUME NEW r \in Goroutines, Begin(r) \/ CallStep(r) \/ LockStep(r) \/ ServerStep(r)
      PROVE  RefreshInv'
  BY <1>1, <1>2, FailureRefresh, CallRefresh, HolderRefresh DEF CallStep, LockStep, ServerStep
<1> QED
  BY <1>1, <1>2, EnvironmentRefresh DEF Next

\* The transport never presents a refresh token that was rotated away, however many
\* goroutines meet a 401 at once, unless an answer of the token endpoint was lost:
\* attemptTokenRefresh reads, presents and replaces the token under tokenMu.
THEOREM RefreshIsCurrent == Spec => []NoStaleRefresh
<1>1. Init => RefreshInv
  <2> SUFFICES ASSUME Init PROVE RefreshInv
    OBVIOUS
  <2>1. TypeInv
    BY InitTypes
  <2>2. \A r \in Goroutines : x[r].pc = "idle" /\ x[r].grant = None /\ writer # r
    BY TransportAssumption DEF Init, NoCall
  <2>3. refresh \in {srvRefresh, None}
    BY DEF Init
  <2> QED
    BY <2>1, <2>2, <2>3 DEF RefreshInv, LockInv, GrantInv, TokensInv, RefreshesInv
<1>2. RefreshInv => NoStaleRefresh
  BY DEF RefreshInv, RefreshesInv, NoStaleRefresh
<1> QED
  BY <1>1, <1>2, NextRefresh, PTL DEF Spec

--------------------------------------------------------------------------------
(* Calls are applied once                                                     *)

\* Between calls a record is empty, and an attempt has a key on the wire and an
\* answer only between its request and the reading of its answer.
RecordInv ==
    \A r \in Goroutines :
        /\ x[r].pc = "idle" => x[r] = NoCall
        /\ x[r].pc = "sent" => x[r].wire = x[r].key
        /\ x[r].pc # "sent" => x[r].wire = None /\ x[r].resp = None
        /\ x[r].id \in Ids => \A g \in Goroutines : x[g].id = x[r].id => g = r

\* Call i uses the idempotency key k, in a goroutine or in a late request.
Bound(i, k) ==
    \/ \E r \in Goroutines : x[r].id = i /\ x[r].key = k
    \/ \E q \in late : q.id = i /\ q.wire = k

\* A call has one key for all its requests, and a key serves one call.
KeysInv ==
    \A i, j \in Ids \cup {None}, k, l \in Keys \cup {None} : Bound(i, k) =>
        /\ i = None <=> k = None
        /\ Bound(j, l) => (i = j <=> k = l)

\* The backend applied a call that still has requests exactly when it has seen
\* the call's key.
EffectsInv ==
    /\ \A i \in Ids : effects[i] \in {0, 1}
    /\ \A i \in Ids, k \in Keys : Bound(i, k) => (effects[i] = 1 <=> k \in seen)

\* What is reported of a call follows where its goroutine is; a success is
\* reported or read only of a call that was applied.
OutcomeInv ==
    /\ \A r \in Goroutines : x[r].id \in Ids =>
         outcome[x[r].id] = CASE x[r].pc = "ok" -> "ok"
                              [] x[r].pc = "failed" -> "error"
                              [] OTHER -> "pending"
    /\ \A i \in Ids :
         /\ outcome[i] = "pending" => \E r \in Goroutines : x[r].id = i
         /\ outcome[i] = "ok" => effects[i] = 1
    /\ \A q \in late : q.id \in Ids => outcome[q.id] # "none"
    /\ \A r \in Goroutines :
         x[r].id \in Ids /\ x[r].resp # None /\ x[r].resp.status = "200" =>
             effects[x[r].id] = 1

OnceInv == TypeInv /\ RecordInv /\ KeysInv /\ EffectsInv /\ OutcomeInv

\* A step of the transport as OnceCall sees it.
OnceStep == [Once!Next]_<<outcome, effects>>

LEMMA InitOnce == Init => OnceInv /\ Once!Init
<1> SUFFICES ASSUME Init PROVE OnceInv /\ Once!Init
  OBVIOUS
<1>1. TypeInv
  BY InitTypes
<1>2. \A r \in Goroutines : x[r] = NoCall
  BY DEF Init
<1>3. RecordInv
  <2>1. NoCall.pc = "idle" /\ NoCall.id = None /\ NoCall.wire = None /\ NoCall.resp = None
    BY DEF NoCall
  <2> QED
    BY <1>2, <2>1, TransportAssumption DEF RecordInv
<1>4. \A i, k : Bound(i, k) => i = None /\ k = None
  BY <1>2 DEF Init, Bound, NoCall
<1>5. KeysInv
  BY <1>4 DEF KeysInv
<1>6. EffectsInv
  BY <1>4, TransportAssumption DEF Init, EffectsInv
<1>7. OutcomeInv
  BY <1>2, TransportAssumption DEF Init, OutcomeInv, NoCall
<1>8. Once!Init
  BY DEF Init, Once!Init
<1> QED
  BY <1>1, <1>3, <1>5, <1>6, <1>7, <1>8 DEF OnceInv

\* The uses of keys after a step of goroutine r that starts no call and sends
\* nothing but its own key.
LEMMA UsesKept ==
    ASSUME NEW r \in Goroutines,
           \A g \in Goroutines : x'[g].id = x[g].id /\ x'[g].key = x[g].key,
           \A q \in late' : q \in late \/ (q.id = x[r].id /\ q.wire = x[r].key)
    PROVE  \A i, k : Bound(i, k)' => Bound(i, k)
BY DEF Bound

\* What a step of goroutine r within its call may do: it keeps the call and its
\* key, reads no success the backend did not send, and reports at most one outcome.
Within(r) ==
    /\ \A g \in Goroutines : g # r => x'[g] = x[g]
    /\ x'[r].id = x[r].id /\ x'[r].key = x[r].key
    /\ x'[r].pc = "sent" => x'[r].wire = x[r].key
    /\ x'[r].pc # "sent" => x'[r].wire = None /\ x'[r].resp = None
    /\ x'[r].resp \in {None, x[r].resp} \/ x'[r].resp.status # "200"
    /\ x[r].pc \notin {"ok", "failed"} /\ x'[r].pc # "idle"
    /\ x'[r].pc = "ok" => x[r].resp # None /\ x[r].resp.status = "200"
    /\ outcome' = IF x'[r].pc \notin {"ok", "failed"} \/ x[r].id = None THEN outcome
                  ELSE [outcome EXCEPT ![x[r].id] = IF x'[r].pc = "ok" THEN "ok" ELSE "error"]
    /\ \A q \in late' : q \in late \/ (q.id = x[r].id /\ q.wire = x[r].key)
    /\ UNCHANGED <<seen, effects>>

LEMMA WithinOnce ==
    ASSUME OnceInv, TypeInv', NEW r \in Goroutines, Within(r)
    PROVE  OnceInv' /\ OnceStep
<1> USE DEF OnceInv
<1>1. x[r].id \in Ids \cup {None} /\ None \notin Ids
  BY TransportAssumption DEF TypeInv, CallsInv, Call
<1>2. \A i, k : Bound(i, k)' => Bound(i, k)
  BY UsesKept DEF Within
<1>3. RecordInv'
  BY DEF Within, RecordInv
<1>4. KeysInv'
  BY <1>2 DEF KeysInv
<1>5. EffectsInv'
  BY <1>2 DEF Within, EffectsInv
<1>6. x[r].id \in Ids => outcome[x[r].id] = "pending"
  BY DEF Within, OutcomeInv
<1>7. \A i \in Ids : i # x[r].id => outcome'[i] = outcome[i]
  BY DEF Within, TypeInv, SharedOK
<1>8. x[r].id \in Ids =>
        outcome'[x[r].id] = CASE x'[r].pc = "ok" -> "ok"
                              [] x'[r].pc = "failed" -> "error"
                              [] OTHER -> "pending"
  BY <1>1, <1>6 DEF Within, TypeInv, SharedOK
<1>9. OutcomeInv'
  <2>1. \A g \in Goroutines : g # r /\ x[g].id \in Ids => x[g].id # x[r].id
    BY DEF RecordInv
  <2>2. \A g \in Goroutines : x'[g].id \in Ids =>
         outcome'[x'[g].id] = CASE x'[g].pc = "ok" -> "ok"
                              [] x'[g].pc = "failed" -> "error"
                              [] OTHER -> "pending"
    BY <1>7, <1>8, <2>1 DEF Within, OutcomeInv
  <2>3. \A i \in Ids : outcome'[i] = "pending" => \E g \in Goroutines : x'[g].id = i
    BY <1>7 DEF Within, OutcomeInv
  <2>4. \A i \in Ids : outcome'[i] = "ok" => effects'[i] = 1
    BY <1>6, <1>7, <1>8 DEF Within, OutcomeInv
  <2>5. \A q \in late' : q.id \in Ids => outcome'[q.id] # "none"
    BY <1>7, <1>8 DEF Within, OutcomeInv
  <2>6. \A g \in Goroutines :
         x'[g].id \in Ids /\ x'[g].resp # None /\ x'[g].resp.status = "200" =>
             effects'[x'[g].id] = 1
    BY DEF Within, OutcomeInv
  <2> QED
    BY <2>2, <2>3, <2>4, <2>5, <2>6 DEF OutcomeInv
<1>10. OnceStep
  <2>1. CASE outcome' = outcome
    BY <2>1 DEF Within, OnceStep
  <2>2. CASE outcome' # outcome
    <3>1. x[r].id \in Ids /\ UNCHANGED effects
      BY <1>1, <2>2 DEF Within
    <3>2. CASE x'[r].pc = "ok"
      <4>1. effects[x[r].id] = 1
        BY <3>1, <3>2 DEF Within, OutcomeInv
      <4>2. Once!Succeed(x[r].id)
        BY <1>6, <2>2, <3>1, <3>2, <4>1 DEF Within, Once!Succeed
      <4> QED
        BY <3>1, <4>2 DEF OnceStep, Once!Next
    <3>3. CASE x'[r].pc # "ok"
      <4>1. Once!Fail(x[r].id)
        BY <1>6, <2>2, <3>1, <3>3 DEF Within, Once!Fail
      <4> QED
        BY <3>1, <4>1 DEF OnceStep, Once!Next
    <3> QED
      BY <3>2, <3>3
  <2> QED
    BY <2>1, <2>2
<1> QED
  BY <1>3, <1>4, <1>5, <1>9, <1>10

\* An attempt that fails.
LEMMA FailureOnce ==
    ASSUME OnceInv, TypeInv', NEW r \in Goroutines,
           PrepareFails(r) \/ DecodeFails(r) \/ ReceiveError(r) \/ ReadFails(r) \/ RequestFails(r)
    PROVE  OnceInv' /\ OnceStep
<1>1. PICK e : AttemptFails(r, e)
  BY DEF PrepareFails, DecodeFails, ReceiveError, ReadFails, RequestFails
<1>2. x[r].pc \in {"token", "send", "sent"} /\ UNCHANGED <<seen, effects>>
  BY DEF PrepareFails, DecodeFails, ReceiveError, ReadFails, RequestFails, Answered, backend
<1>3. x \in [Goroutines -> Call]
  BY DEF OnceInv, TypeInv, CallsInv
<1>4. \A q \in late' : q \in late \/ (q.id = x[r].id /\ q.wire = x[r].key)
  <2>1. x[r].pc = "sent" => x[r].wire = x[r].key
    BY DEF OnceInv, RecordInv
  <2> QED
    BY <2>1 DEF PrepareFails, DecodeFails, ReceiveError, ReadFails, RequestFails, backend
<1>5. \A g \in Goroutines : g # r => x'[g] = x[g]
  BY <1>1, <1>3 DEF AttemptFails
<1> DEFINE retry == Retried(e) /\ x[r].attempt < MaxRetries
<1>6. /\ x'[r].pc = IF retry THEN "backoff" ELSE "failed"
      /\ x'[r].id = x[r].id /\ x'[r].key = x[r].key
      /\ x'[r].wire = None /\ x'[r].resp = None
  BY <1>1, <1>3 DEF AttemptFails, Call
<1>7. outcome' = IF retry \/ x[r].id = None THEN outcome
                 ELSE [outcome EXCEPT ![x[r].id] = "error"]
  BY <1>1, Zenon DEF AttemptFails
<1> HIDE DEF retry
<1>8. Within(r)
  BY <1>2, <1>4, <1>5, <1>6, <1>7 DEF Within
<1> QED
  BY <1>8, WithinOnce

\* The steps of a call that report nothing.
LEMMA QuietOnce ==
    ASSUME OnceInv, TypeInv', NEW r \in Goroutines,
           \/ BackoffElapsed(r) \/ ReadToken(r) \/ Send(r) \/ NonceRetry(r) \/ NeedRefresh(r)
           \/ RefreshLock(r) \/ RefreshDone(r) \/ GrantToken(r) \/ Refuse(r)
    PROVE  OnceInv' /\ OnceStep
<1>1. x \in [Goroutines -> Call] /\ x[r] \in Call
  BY DEF OnceInv, TypeInv, CallsInv
<1>2. UNCHANGED <<seen, effects, outcome, late>>
  BY DEF BackoffElapsed, ReadToken, Send, NonceRetry, NeedRefresh, RefreshLock, RefreshDone,
         GrantToken, Refuse, backend, history
<1>3. /\ x[r].pc = "sent" => x[r].wire = x[r].key
      /\ x[r].pc # "sent" => x[r].wire = None /\ x[r].resp = None
  BY DEF OnceInv, RecordInv
<1> DEFINE Mid == {"token", "send", "sent", "backoff", "lock", "refresh"}
           Goal == /\ \A g \in Goroutines : g # r => x'[g] = x[g]
                   /\ x'[r].id = x[r].id /\ x'[r].key = x[r].key
                   /\ x'[r].pc = "sent" => x'[r].wire = x[r].key
                   /\ x'[r].pc # "sent" => x'[r].wire = None /\ x'[r].resp = None
                   /\ x'[r].resp \in {None, x[r].resp} \/ x'[r].resp.status # "200"
                   /\ x[r].pc \in Mid /\ x'[r].pc \in Mid
<1>4. Goal
  <2>1. CASE BackoffElapsed(r)
    BY <1>1, <1>3, <2>1 DEF BackoffElapsed, Call
  <2>2. CASE ReadToken(r)
    BY <1>1, <1>3, <2>2 DEF ReadToken, Call
  <2>3. CASE Send(r)
    <3>1. x' = [x EXCEPT ![r] = [x[r] EXCEPT !.pc = "sent", !.nonce = nonce, !.wire = x[r].key]]
      BY <2>3 DEF Send, WireKeys
    <3>2. x[r].pc = "send"
      BY <2>3 DEF Send
    <3> QED
      BY <1>1, <1>3, <3>1, <3>2 DEF Call
  <2>4. CASE NonceRetry(r) \/ NeedRefresh(r)
    BY <1>1, <1>3, <2>4 DEF NonceRetry, NeedRefresh, Answered, Call
  <2>5. CASE RefreshLock(r) \/ RefreshDone(r)
    BY <1>1, <1>3, <2>5 DEF RefreshLock, RefreshDone, Call
  <2>6. CASE GrantToken(r)
    <3>1. PICK c : x' = [x EXCEPT ![r] = [x[r] EXCEPT !.grant = c]]
      BY <2>6 DEF GrantToken
    <3>2. x[r].pc = "refresh"
      BY <2>6 DEF GrantToken
    <3> QED
      BY <1>1, <1>3, <3>1, <3>2 DEF Call
  <2>7. CASE Refuse(r)
    <3>1. PICK s \in {"401", "429", "503", "4xx"} : \E n :
            x' = [x EXCEPT ![r] = [x[r] EXCEPT !.resp = [status |-> s, nonce |-> n]]]
      BY <2>7 DEF Refuse, Reply
    <3>2. PICK n : x' = [x EXCEPT ![r] = [x[r] EXCEPT !.resp = [status |-> s, nonce |-> n]]]
      BY <3>1
    <3>3. x[r].pc = "sent"
      BY <2>7 DEF Refuse, Unanswered
    <3> QED
      BY <1>1, <1>3, <3>2, <3>3 DEF Call
  <2> QED
    BY <2>1, <2>2, <2>3, <2>4, <2>5, <2>6, <2>7
<1>5. Within(r)
  BY <1>2, <1>4 DEF Within
<1> QED
  BY <1>5, WithinOnce

\* The steps that report the outcome of a call.
LEMMA ReportOnce ==
    ASSUME OnceInv, TypeInv', NEW r \in Goroutines,
           ReceiveOk(r) \/ BackoffCancelled(r) \/ RefreshFailed(r) \/ RefreshLost(r)
    PROVE  OnceInv' /\ OnceStep
<1>1. x \in [Goroutines -> Call] /\ x[r] \in Call
  BY DEF OnceInv, TypeInv, CallsInv
<1>2. UNCHANGED <<seen, effects, late>>
  BY DEF ReceiveOk, BackoffCancelled, RefreshFailed, RefreshLost, backend
<1>3. x[r].pc # "sent" => x[r].wire = None /\ x[r].resp = None
  BY DEF OnceInv, RecordInv
<1>4. /\ \A g \in Goroutines : g # r => x'[g] = x[g]
      /\ x'[r].id = x[r].id /\ x'[r].key = x[r].key
      /\ x'[r].wire = None /\ x'[r].resp = None
      /\ x'[r].pc = IF ReceiveOk(r) THEN "ok" ELSE "failed"
      /\ x[r].pc \in {"sent", "backoff", "refresh"}
  <2>1. CASE ReceiveOk(r)
    BY <1>1, <2>1 DEF ReceiveOk, Answered, Call
  <2>2. CASE BackoffCancelled(r)
    BY <1>1, <1>3, <2>2 DEF BackoffCancelled, ReceiveOk, Answered, Call
  <2>3. CASE RefreshFailed(r)
    BY <1>1, <1>3, <2>3 DEF RefreshFailed, ReceiveOk, Answered, Call
  <2>4. CASE RefreshLost(r)
    BY <1>1, <1>3, <2>4 DEF RefreshLost, ReceiveOk, Answered, Call
  <2> QED
    BY <2>1, <2>2, <2>3, <2>4
<1>5. outcome' = IF x[r].id = None THEN outcome
                 ELSE [outcome EXCEPT ![x[r].id] = IF ReceiveOk(r) THEN "ok" ELSE "error"]
  <2>1. CASE ReceiveOk(r)
    BY <2>1 DEF ReceiveOk
  <2>2. CASE ~ReceiveOk(r)
    BY <2>2 DEF BackoffCancelled, RefreshFailed, RefreshLost
  <2> QED
    BY <2>1, <2>2
<1>6. ReceiveOk(r) => x[r].resp # None /\ x[r].resp.status = "200"
  BY DEF ReceiveOk, Answered
<1>7. Within(r)
  BY <1>2, <1>4, <1>5, <1>6 DEF Within
<1> QED
  BY <1>7, WithinOnce

\* A new call has an identity and a key that nothing uses.
LEMMA BeginOnce ==
    ASSUME OnceInv, TypeInv', NEW r \in Goroutines, Begin(r)
    PROVE  OnceInv' /\ OnceStep
<1> USE DEF OnceInv
<1>1. x \in [Goroutines -> Call] /\ x[r] \in Call /\ None \notin Ids
  BY TransportAssumption DEF TypeInv, CallsInv
<1>2. /\ x[r].pc = "idle" /\ x[r].id = None /\ x[r].key = None /\ x[r].wire = None
      /\ x[r].resp = None
  <2>1. x[r].pc = "idle" /\ x[r] = NoCall
    BY DEF Begin, RecordInv
  <2> QED
    BY <2>1 DEF NoCall
<1>3. UNCHANGED late
  BY DEF Begin
<1>4. CASE x' = [x EXCEPT ![r].pc = "token"] /\ UNCHANGED <<seen, outcome, effects>>
  <2>1. /\ \A g \in Goroutines : g # r => x'[g] = x[g]
        /\ x'[r].pc = "token" /\ x'[r].id = None /\ x'[r].key = None /\ x'[r].wire = None
        /\ x'[r].resp = None
    BY <1>1, <1>2, <1>4 DEF Call
  <2>2. Within(r)
    BY <1>2, <1>3, <1>4, <2>1 DEF Within
  <2> QED
    BY <2>2, WithinOnce
<1>5. ASSUME NEW i \in Ids \ (InUse("id") \cup {q.id : q \in late}),
             NEW k \in Keys \ (InUse("key") \cup InUse("wire") \cup {q.wire : q \in late}),
             x' = [x EXCEPT ![r].pc = "token", ![r].id = i, ![r].key = k],
             seen' = seen \ {k},
             outcome' = [outcome EXCEPT ![i] = "pending"],
             effects' = [effects EXCEPT ![i] = 0]
      PROVE  OnceInv' /\ OnceStep
  <2>1. x' = [x EXCEPT ![r] = [x[r] EXCEPT !.pc = "token", !.id = i, !.key = k]]
    BY <1>5
  <2>2. /\ \A g \in Goroutines : g # r => x'[g] = x[g]
        /\ x'[r].pc = "token" /\ x'[r].id = i /\ x'[r].key = k /\ x'[r].wire = None
        /\ x'[r].resp = None
    BY <1>1, <1>2, <2>1 DEF Call
  <2>3. /\ \A g \in Goroutines : x[g].id # i /\ x[g].key # k
        /\ \A q \in late : q.id # i /\ q.wire # k
    BY DEF InUse
  <2>4. /\ \A j, l : Bound(j, l)' => Bound(j, l) \/ (j = i /\ l = k)
        /\ \A j, l : Bound(j, l) => j # i /\ l # k
    BY <1>3, <2>2, <2>3 DEF Bound
  <2>5. i # None /\ k # None
    BY TransportAssumption
  <2>6. /\ outcome'[i] = "pending" /\ effects'[i] = 0
        /\ \A j \in Ids : j # i => outcome'[j] = outcome[j] /\ effects'[j] = effects[j]
    BY <1>5 DEF TypeInv, SharedOK
  <2>7. RecordInv'
    BY <2>2, <2>3 DEF RecordInv
  <2>8. KeysInv'
    BY <2>4, <2>5 DEF KeysInv
  <2>9. EffectsInv'
    <3>1. \A j \in Ids : effects'[j] \in {0, 1}
      BY <2>6 DEF EffectsInv
    <3>2. \A j \in Ids, l \in Keys : Bound(j, l)' => (effects'[j] = 1 <=> l \in seen')
      BY <1>5, <2>4, <2>6 DEF EffectsInv
    <3> QED
      BY <3>1, <3>2 DEF EffectsInv
  <2>10. OutcomeInv'
    <3>1. \A g \in Goroutines : x'[g].id \in Ids =>
           outcome'[x'[g].id] = CASE x'[g].pc = "ok" -> "ok"
                                [] x'[g].pc = "failed" -> "error"
                                [] OTHER -> "pending"
      BY <2>2, <2>3, <2>6 DEF OutcomeInv
    <3>2. \A j \in Ids : outcome'[j] = "pending" => \E g \in Goroutines : x'[g].id = j
      BY <1>2, <2>2, <2>6, <1>1 DEF OutcomeInv
    <3>3. \A j \in Ids : outcome'[j] = "ok" => effects'[j] = 1
      BY <2>6 DEF OutcomeInv
    <3>4. \A q \in late' : q.id \in Ids => outcome'[q.id] # "none"
      BY <1>3, <2>6 DEF OutcomeInv
    <3>5. \A g \in Goroutines :
           x'[g].id \in Ids /\ x'[g].resp # None /\ x'[g].resp.status = "200" =>
               effects'[x'[g].id] = 1
      BY <2>2, <2>3, <2>6 DEF OutcomeInv
    <3> QED
      BY <3>1, <3>2, <3>3, <3>4, <3>5 DEF OutcomeInv
  <2>11. outcome[i] # "pending"
    BY <2>3 DEF OutcomeInv
  <2>12. Once!Call(i)
    BY <1>5, <2>11 DEF Once!Call
  <2> QED
    BY <2>7, <2>8, <2>9, <2>10, <2>12 DEF OnceStep, Once!Next
<1> QED
  BY <1>4, <1>5, Zenon DEF Begin

LEMMA ReturnOnce ==
    ASSUME OnceInv, TypeInv', NEW r \in Goroutines, Return(r)
    PROVE  OnceInv' /\ OnceStep
<1> USE DEF OnceInv
<1>1. x \in [Goroutines -> Call] /\ None \notin Ids
  BY TransportAssumption DEF TypeInv, CallsInv
<1>2. /\ x'[r] = NoCall /\ \A g \in Goroutines : g # r => x'[g] = x[g]
      /\ UNCHANGED <<late, seen, outcome, effects>> /\ x[r].pc \in {"ok", "failed"}
  BY <1>1 DEF Return, backend, history
<1>3. /\ NoCall.pc = "idle" /\ NoCall.id = None /\ NoCall.key = None /\ NoCall.wire = None
      /\ NoCall.resp = None
  BY DEF NoCall
<1>4. \A i, k : Bound(i, k)' => Bound(i, k) \/ (i = None /\ k = None)
  BY <1>2, <1>3 DEF Bound
<1>5. RecordInv'
  BY <1>1, <1>2, <1>3 DEF RecordInv
<1>6. KeysInv'
  BY <1>4 DEF KeysInv
<1>7. EffectsInv'
  BY <1>1, <1>2, <1>4 DEF EffectsInv
<1>8. OutcomeInv'
  BY <1>1, <1>2, <1>3 DEF OutcomeInv
<1> QED
  BY <1>2, <1>5, <1>6, <1>7, <1>8 DEF OnceStep

\* The backend applies a request: a key it has not seen belongs to a call that
\* has had no effect and was not reported as a success.
LEMMA ApplyOnce ==
    ASSUME OnceInv, NEW q, q.id \in Ids \cup {None}, q.wire \in Keys \cup {None},
           Bound(q.id, q.wire), q.id \in Ids => outcome[q.id] # "none",
           Apply(q), UNCHANGED outcome, \A i, k : Bound(i, k)' => Bound(i, k)
    PROVE  /\ EffectsInv' /\ KeysInv' /\ OnceStep
           /\ q.id \in Ids => effects'[q.id] = 1
           /\ \A i \in Ids : effects[i] = 1 => effects'[i] = 1
<1> USE DEF OnceInv
<1>1. q.id = None <=> q.wire = None
  BY DEF KeysInv
<1>2. KeysInv'
  BY DEF KeysInv
<1>3. CASE q.wire = None \/ q.wire \in seen
  <2>1. UNCHANGED <<seen, effects>>
    BY <1>3 DEF Apply
  <2>2. EffectsInv'
    BY <2>1 DEF EffectsInv
  <2>3. q.id \in Ids => effects'[q.id] = 1
    BY <1>1, <1>3, <2>1, TransportAssumption DEF EffectsInv
  <2> QED
    BY <1>2, <2>1, <2>2, <2>3 DEF OnceStep
<1>4. CASE q.wire # None /\ q.wire \notin seen
  <2>1. q.id \in Ids /\ q.wire \in Keys
    BY <1>1, <1>4
  <2>2. effects[q.id] = 0 /\ effects \in [Ids -> 0 .. 2]
    BY <1>4, <2>1 DEF EffectsInv, TypeInv, SharedOK
  <2>3. seen' = seen \cup {q.wire} /\ effects' = [effects EXCEPT ![q.id] = 1]
    BY <1>4, <2>1, <2>2 DEF Apply
  <2>4. effects'[q.id] = 1 /\ \A i \in Ids : i # q.id => effects'[i] = effects[i]
    BY <2>1, <2>2, <2>3
  <2>5. EffectsInv'
    <3>1. \A i \in Ids : effects'[i] \in {0, 1}
      BY <2>4 DEF EffectsInv
    <3>2. ASSUME NEW i \in Ids, NEW k \in Keys, Bound(i, k)'
          PROVE  effects'[i] = 1 <=> k \in seen'
      <4>1. i = q.id <=> k = q.wire
        BY <2>1, <3>2 DEF KeysInv
      <4> QED
        BY <2>3, <2>4, <3>2, <4>1 DEF EffectsInv
    <3> QED
      BY <3>1, <3>2 DEF EffectsInv
  <2>6. outcome[q.id] \in {"pending", "error"}
    BY <2>1, <2>2 DEF OutcomeInv, TypeInv, SharedOK
  <2>7. Once!Apply(q.id)
    BY <2>2, <2>3, <2>6 DEF Once!Apply
  <2> QED
    BY <1>2, <2>1, <2>4, <2>5, <2>7 DEF OnceStep, Once!Next
<1> QED
  BY <1>3, <1>4

LEMMA AcceptOnce ==
    ASSUME OnceInv, TypeInv', NEW r \in Goroutines, Accept(r)
    PROVE  OnceInv' /\ OnceStep
<1> USE DEF OnceInv
<1>1. x \in [Goroutines -> Call] /\ x[r] \in Call
  BY DEF TypeInv, CallsInv
<1>2. PICK s \in {"200", "503"}, n \in {None, srvNonce} :
        x' = [x EXCEPT ![r] = [x[r] EXCEPT !.resp = [status |-> s, nonce |-> n]]]
  BY DEF Accept, Reply
<1>3. /\ x[r].pc = "sent" /\ Apply(x[r]) /\ UNCHANGED <<outcome, late>>
  BY DEF Accept, Unanswered
<1>4. /\ \A g \in Goroutines : g # r => x'[g] = x[g]
      /\ x'[r].pc = "sent" /\ x'[r].id = x[r].id /\ x'[r].key = x[r].key
      /\ x'[r].wire = x[r].wire
  BY <1>1, <1>2, <1>3 DEF Call
<1>5. \A i, k : Bound(i, k)' => Bound(i, k)
  BY <1>3, <1>4, UsesKept
<1>6. /\ x[r].id \in Ids \cup {None} /\ x[r].wire \in Keys \cup {None}
      /\ x[r].wire = x[r].key /\ Bound(x[r].id, x[r].wire)
  BY <1>1, <1>3 DEF Call, RecordInv, Bound
<1>7. x[r].id \in Ids => outcome[x[r].id] = "pending"
  BY <1>3 DEF OutcomeInv
<1> DEFINE d == x[r]
<1>8. /\ EffectsInv' /\ KeysInv' /\ OnceStep
      /\ x[r].id \in Ids => effects'[x[r].id] = 1
      /\ \A i \in Ids : effects[i] = 1 => effects'[i] = 1
  <2>1. /\ d.id \in Ids \cup {None} /\ d.wire \in Keys \cup {None} /\ Bound(d.id, d.wire)
        /\ Apply(d) /\ (d.id \in Ids => outcome[d.id] # "none")
    BY <1>3, <1>6, <1>7
  <2>2. d = x[r]
    OBVIOUS
  <2> HIDE DEF d
  <2> QED
    BY <1>3, <1>5, <2>1, <2>2, ApplyOnce
<1>9. RecordInv'
  BY <1>3, <1>4, <1>6 DEF RecordInv
<1>10. OutcomeInv'
  <2>1. \A g \in Goroutines : x'[g].id = x[g].id /\ x'[g].pc = x[g].pc
    BY <1>3, <1>4
  <2>2. \A g \in Goroutines :
           x'[g].id \in Ids /\ x'[g].resp # None /\ x'[g].resp.status = "200" =>
               effects'[x'[g].id] = 1
    BY <1>4, <1>8 DEF OutcomeInv
  <2>3. \A i \in Ids : outcome'[i] = "ok" => effects'[i] = 1
    BY <1>3, <1>8 DEF OutcomeInv
  <2> QED
    BY <1>3, <2>1, <2>2, <2>3 DEF OutcomeInv
<1> QED
  BY <1>8, <1>9, <1>10

LEMMA LateOnce ==
    ASSUME OnceInv, TypeInv', LateArrival
    PROVE  OnceInv' /\ OnceStep
<1> USE DEF OnceInv
<1>1. PICK q \in late : /\ late' = late \ {q} /\ UNCHANGED <<x, outcome>>
                        /\ Apply(q) \/ UNCHANGED <<seen, effects>>
  BY DEF LateArrival
<1>2. \A i, k : Bound(i, k)' => Bound(i, k)
  BY <1>1 DEF Bound
<1>3. /\ q.id \in Ids \cup {None} /\ q.wire \in Keys \cup {None} /\ Bound(q.id, q.wire)
      /\ q.id \in Ids => outcome[q.id] # "none"
  BY DEF TypeInv, SharedOK, Request, Bound, OutcomeInv
<1>4. /\ EffectsInv' /\ KeysInv' /\ OnceStep
      /\ \A i \in Ids : effects[i] = 1 => effects'[i] = 1
  <2>1. CASE Apply(q)
    BY <1>1, <1>2, <1>3, <2>1, ApplyOnce
  <2>2. CASE UNCHANGED <<seen, effects>>
    BY <1>1, <1>2, <2>2 DEF EffectsInv, KeysInv, OnceStep
  <2> QED
    BY <1>1, <2>1, <2>2
<1>5. RecordInv'
  BY <1>1 DEF RecordInv
<1>6. OutcomeInv'
  BY <1>1, <1>4 DEF OutcomeInv
<1> QED
  BY <1>4, <1>5, <1>6

LEMMA EnvironmentOnce ==
    ASSUME OnceInv, TypeInv',
           SetAccessToken \/ SetRefreshToken \/ ExpireToken \/ RotateNonce \/ CalmChanges
           \/ UNCHANGED vars
    PROVE  OnceInv' /\ OnceStep
<1>1. UNCHANGED <<x, seen, late, outcome, effects>>
  BY DEF SetAccessToken, SetRefreshToken, ExpireToken, RotateNonce, CalmChanges, vars, tokens,
         backend, history
<1> QED
  BY <1>1 DEF OnceInv, RecordInv, KeysInv, Bound, EffectsInv, OutcomeInv, OnceStep

LEMMA NextOnce == OnceInv /\ [Next]_vars => OnceInv' /\ OnceStep
<1> SUFFICES ASSUME OnceInv, [Next]_vars PROVE OnceInv' /\ OnceStep
  OBVIOUS
<1>1. TypeInv'
  BY NextTypes DEF OnceInv
<1>2. ASSUME NEW r \in Goroutines, Begin(r) \/ CallStep(r) \/ LockStep(r) \/ ServerStep(r)
      PROVE  OnceInv' /\ OnceStep
  BY <1>1, <1>2, FailureOnce, QuietOnce, ReportOnce, BeginOnce, ReturnOnce, AcceptOnce
  DEF CallStep, LockStep, ServerStep
<1> QED
  BY <1>1, <1>2, EnvironmentOnce, LateOnce DEF Next

LEMMA AlwaysOnce == Spec => []OnceInv
BY InitOnce, NextOnce, PTL DEF Spec

\* However a call is retried, challenged, refreshed or delayed, the backend applies
\* it at most once: headersWithStableIdempotency gives all its requests one key.
THEOREM AppliedAtMostOnce == Spec => []AtMostOnce
<1>1. OnceInv => AtMostOnce
  BY DEF OnceInv, EffectsInv, AtMostOnce
<1> QED
  BY <1>1, AlwaysOnce, PTL

\* The transport implements OnceCall: a call is applied at most once, and reported
\* as a success only after that.
THEOREM TransportImplementsOnceCall == Spec => ImplementsOnceCall
<1>1. OnceStep <=> [Once!Next]_<<outcome, effects>>
  BY DEF OnceStep
<1> QED
  BY <1>1, InitOnce, NextOnce, PTL DEF Spec, ImplementsOnceCall, Once!Spec
--------------------------------------------------------------------------------
(* Authentication failures                                                    *)

\* While the backend keeps its nonce, it is the only one anybody has seen.
NonceInv ==
    /\ nonce \in {None, srvNonce}
    /\ \A r \in Goroutines :
         /\ x[r].nonce \in {None, srvNonce}
         /\ x[r].resp # None => x[r].resp.nonce \in {None, srvNonce}

\* The prover knows the nonce before a call is without its one retry: from the
\* challenge itself, or because the backend accepted the nonce of a request
\* before it refused the token.
ChallengeInv ==
    \A r \in Goroutines :
        /\ HasDPoP /\ (~x[r].allow \/ x[r].pc \in {"lock", "refresh"} \/ x[r].nonce # None) =>
             nonce # None
        /\ HasDPoP /\ x[r].pc = "sent" =>
             /\ ~x[r].allow => x[r].nonce # None
             /\ x[r].resp # None /\ x[r].resp.status = "401" /\ x[r].resp.nonce = None =>
                  x[r].nonce # None
        /\ x[r].resp # None /\ x[r].resp.status = "401" /\ x[r].resp.nonce # None =>
             HasDPoP /\ x[r].allow

AuthInv == NonceInv /\ ChallengeInv /\ AuthFailureIsReal

\* The nonce is kept or becomes the backend's; no other call changes.
NonceStep(r) ==
    /\ \A g \in Goroutines : g # r => x'[g] = x[g]
    /\ nonce' \in {nonce, srvNonce} /\ UNCHANGED srvNonce

\* Steps after which the goroutine awaits no answer.
LEMMA UnsentAuth ==
    ASSUME AuthInv, OnceInv, OnceInv', NEW r \in Goroutines, NonceStep(r),
           x'[r].pc # "sent", x'[r].nonce \in {None, x[r].nonce},
           HasDPoP /\ (~x'[r].allow \/ x'[r].pc \in {"lock", "refresh"}) => nonce' # None,
           x'[r].pc = "failed" /\ x'[r].err = "401" => x'[r].denied
    PROVE  AuthInv'
<1>1. srvNonce # None
  BY TransportAssumption DEF OnceInv, TypeInv, SharedOK
<1>2. nonce # None => nonce' # None
  BY <1>1 DEF NonceStep
<1>3. x'[r].resp = None
  BY DEF OnceInv, RecordInv
<1>4. NonceInv'
  BY <1>3 DEF AuthInv, NonceInv, NonceStep
<1>5. ChallengeInv'
  BY <1>2, <1>3 DEF AuthInv, ChallengeInv, NonceStep
<1>6. AuthFailureIsReal'
  BY DEF AuthInv, AuthFailureIsReal, Unauthorized, NonceStep
<1> QED
  BY <1>4, <1>5, <1>6 DEF AuthInv

\* The nonce of an answer is the backend's.
LEMMA AnswerNonce ==
    ASSUME AuthInv, NEW r \in Goroutines, Answered(r), RecordNonce(r)
    PROVE  nonce' \in {nonce, srvNonce}
BY DEF AuthInv, NonceInv, Answered, RecordNonce

\* An attempt fails with a 401 only when no nonce came with it: a challenge that is
\* not answered would be the second one of its attempt.
LEMMA FailureAuth ==
    ASSUME AuthInv, OnceInv, OnceInv', NEW r \in Goroutines,
           PrepareFails(r) \/ DecodeFails(r) \/ ReceiveError(r) \/ ReadFails(r) \/ RequestFails(r)
    PROVE  AuthInv'
<1>1. PICK e : AttemptFails(r, e) /\ (e = "401" => x[r].resp.nonce = None)
  <2>1. CASE PrepareFails(r) \/ DecodeFails(r) \/ RequestFails(r)
    BY <2>1 DEF PrepareFails, DecodeFails, RequestFails
  <2>2. CASE ReadFails(r)
    BY <2>2 DEF ReadFails, UnreadError
  <2>3. CASE ReceiveError(r)
    <3>1. AttemptFails(r, x[r].resp.status) /\ x[r].resp # None
      BY <2>3 DEF ReceiveError, Answered
    <3>2. x[r].resp.status = "401" => x[r].resp.nonce = None
      BY <2>3, <3>1 DEF ReceiveError, Challenged, AuthInv, ChallengeInv
    <3> QED
      BY <3>1, <3>2
  <2> QED
    BY <2>1, <2>2, <2>3
<1>2. x \in [Goroutines -> Call]
  BY DEF OnceInv, TypeInv, CallsInv
<1>3. NonceStep(r)
  <2>1. nonce' \in {nonce, srvNonce}
    BY AnswerNonce DEF PrepareFails, DecodeFails, ReceiveError, ReadFails, RequestFails
  <2>2. UNCHANGED srvNonce
    BY DEF PrepareFails, DecodeFails, ReceiveError, ReadFails, RequestFails, backend
  <2>3. \A g \in Goroutines : g # r => x'[g] = x[g]
    BY <1>1, <1>2 DEF AttemptFails
  <2> QED
    BY <2>1, <2>2, <2>3 DEF NonceStep
<1> DEFINE retry == Retried(e) /\ x[r].attempt < MaxRetries
           refused == e = "401" /\ x[r].resp.nonce = None
<1>4. /\ x'[r].pc = IF retry THEN "backoff" ELSE "failed"
      /\ x'[r].err = IF retry THEN None ELSE e
      /\ x'[r].nonce = None /\ x'[r].allow = x[r].allow
  BY <1>1, <1>2 DEF AttemptFails, Call
<1>5. x'[r].denied = refused
  BY <1>1, <1>2 DEF AttemptFails, Call
<1>6. x'[r].pc = "failed" /\ x'[r].err = "401" => x'[r].denied
  BY <1>1, <1>4, <1>5
<1>7. HasDPoP /\ ~x[r].allow => nonce' # None
  <2>1. srvNonce # None
    BY TransportAssumption DEF OnceInv, TypeInv, SharedOK
  <2> QED
    BY <1>3, <2>1 DEF AuthInv, ChallengeInv, NonceStep
<1> QED
  BY <1>3, <1>4, <1>6, <1>7, UnsentAuth

\* The steps within a call, up to the next request.
LEMMA CallAuth ==
    ASSUME AuthInv, OnceInv, OnceInv', NEW r \in Goroutines,
           \/ Begin(r) \/ BackoffElapsed(r) \/ BackoffCancelled(r) \/ Return(r) \/ ReadToken(r)
           \/ ReceiveOk(r) \/ NonceRetry(r) \/ NeedRefresh(r)
    PROVE  AuthInv'
<1>1. x \in [Goroutines -> Call] /\ x[r] \in Call /\ srvNonce # None
  BY TransportAssumption DEF OnceInv, TypeInv, CallsInv, SharedOK
<1>2. HasDPoP /\ (~x[r].allow \/ x[r].nonce # None) => nonce # None
  BY DEF AuthInv, ChallengeInv
<1>3. CASE Begin(r)
  <2>1. x[r].pc = "idle" /\ x[r] = NoCall
    BY <1>3 DEF Begin, OnceInv, RecordInv
  <2>2. x[r].allow = TRUE /\ x[r].nonce = None
    BY <2>1 DEF NoCall
  <2>3. /\ \A g \in Goroutines : g # r => x'[g] = x[g]
        /\ x'[r].pc = "token" /\ x'[r].nonce = None /\ x'[r].allow = TRUE
    <3>1. CASE x' = [x EXCEPT ![r].pc = "token"]
      BY <1>1, <2>2, <3>1 DEF Call
    <3>2. ASSUME NEW i, NEW k,
                 x' = [x EXCEPT ![r].pc = "token", ![r].id = i, ![r].key = k]
          PROVE  /\ \A g \in Goroutines : g # r => x'[g] = x[g]
                 /\ x'[r].pc = "token" /\ x'[r].nonce = None /\ x'[r].allow = TRUE
      <4>1. x' = [x EXCEPT ![r] = [x[r] EXCEPT !.pc = "token", !.id = i, !.key = k]]
        BY <3>2
      <4> QED
        BY <1>1, <2>2, <4>1 DEF Call
    <3> QED
      BY <1>3, <3>1, <3>2, Zenon DEF Begin
  <2>4. UNCHANGED <<nonce, srvNonce>>
    BY <1>3 DEF Begin
  <2> QED
    BY <2>3, <2>4, UnsentAuth DEF NonceStep
<1>4. CASE BackoffElapsed(r) \/ BackoffCancelled(r) \/ Return(r) \/ ReadToken(r)
  <2>1. UNCHANGED <<nonce, srvNonce>>
    BY <1>4 DEF BackoffElapsed, BackoffCancelled, Return, ReadToken, backend
  <2>2. /\ \A g \in Goroutines : g # r => x'[g] = x[g]
        /\ x'[r].pc \notin {"sent", "lock", "refresh"}
        /\ x'[r].nonce \in {None, x[r].nonce}
        /\ ~(x'[r].pc = "failed" /\ x'[r].err = "401")
    BY <1>1, <1>4 DEF BackoffElapsed, BackoffCancelled, Return, ReadToken, Call, NoCall
  <2>3. ~x'[r].allow => ~x[r].allow
    <3>1. CASE BackoffElapsed(r)
      BY <1>1, <3>1 DEF BackoffElapsed, Call
    <3>2. CASE BackoffCancelled(r) \/ ReadToken(r)
      BY <1>1, <3>2 DEF BackoffCancelled, ReadToken, Call
    <3>3. CASE Return(r)
      BY <1>1, <3>3 DEF Return, NoCall
    <3> QED
      BY <1>4, <3>1, <3>2, <3>3
  <2> QED
    BY <1>2, <2>1, <2>2, <2>3, UnsentAuth DEF NonceStep
<1>5. CASE ReceiveOk(r)
  <2>1. nonce' \in {nonce, srvNonce} /\ UNCHANGED srvNonce
    BY <1>5, AnswerNonce DEF ReceiveOk, backend
  <2>2. /\ \A g \in Goroutines : g # r => x'[g] = x[g]
        /\ x'[r].pc = "ok" /\ x'[r].nonce = None
    BY <1>1, <1>5 DEF ReceiveOk, Call
  <2>3. x'[r].allow = x[r].allow
    BY <1>1, <1>5 DEF ReceiveOk, Call
  <2> QED
    BY <1>1, <1>2, <2>1, <2>2, <2>3, UnsentAuth DEF NonceStep
<1>6. CASE NonceRetry(r)
  <2>1. nonce' = x[r].resp.nonce /\ nonce' # None /\ UNCHANGED srvNonce
    BY <1>6 DEF NonceRetry, Challenged, RecordNonce, backend
  <2>2. nonce' \in {nonce, srvNonce}
    BY <1>6, AnswerNonce DEF NonceRetry
  <2>3. /\ \A g \in Goroutines : g # r => x'[g] = x[g]
        /\ x'[r].pc = "token" /\ x'[r].nonce = None
    BY <1>1, <1>6 DEF NonceRetry, Call
  <2> QED
    BY <2>1, <2>2, <2>3, UnsentAuth DEF NonceStep
<1>7. CASE NeedRefresh(r)
  <2>1. HasDPoP => nonce # None
    BY <1>2, <1>7 DEF NeedRefresh, Answered, Challenged, AuthInv, ChallengeInv
  <2>2. UNCHANGED <<nonce, srvNonce>>
    BY <1>7 DEF NeedRefresh, backend
  <2>3. /\ \A g \in Goroutines : g # r => x'[g] = x[g]
        /\ x'[r].pc = "lock" /\ x'[r].nonce = None
    BY <1>1, <1>7 DEF NeedRefresh, Call
  <2> QED
    BY <2>1, <2>2, <2>3, UnsentAuth DEF NonceStep
<1> QED
  BY <1>3, <1>4, <1>5, <1>6, <1>7

LEMMA RefreshAuth ==
    ASSUME AuthInv, OnceInv, OnceInv', NEW r \in Goroutines,
           RefreshLock(r) \/ GrantToken(r) \/ RefreshDone(r) \/ RefreshFailed(r) \/ RefreshLost(r)
    PROVE  AuthInv'
<1>1. x \in [Goroutines -> Call] /\ x[r] \in Call
  BY DEF OnceInv, TypeInv, CallsInv
<1>2. HasDPoP => nonce # None
  BY DEF AuthInv, ChallengeInv, RefreshLock, GrantToken, RefreshDone, RefreshFailed, RefreshLost
<1>3. UNCHANGED <<nonce, srvNonce>>
  BY DEF RefreshLock, GrantToken, RefreshDone, RefreshFailed, RefreshLost, backend
<1>4. \A g \in Goroutines : g # r => x'[g] = x[g]
  BY <1>1 DEF RefreshLock, GrantToken, RefreshDone, RefreshFailed, RefreshLost
<1>5. x'[r].pc \in {"refresh", "token", "failed"} /\ x'[r].nonce = x[r].nonce
  <2>1. CASE RefreshLock(r) \/ RefreshDone(r) \/ RefreshFailed(r) \/ RefreshLost(r)
    BY <1>1, <2>1 DEF RefreshLock, RefreshDone, RefreshFailed, RefreshLost, Call
  <2>2. CASE GrantToken(r)
    <3>1. PICK c : x' = [x EXCEPT ![r] = [x[r] EXCEPT !.grant = c]]
      BY <2>2 DEF GrantToken
    <3>2. x[r].pc = "refresh"
      BY <2>2 DEF GrantToken
    <3> QED
      BY <1>1, <3>1, <3>2 DEF Call
  <2> QED
    BY <2>1, <2>2
<1>6. x'[r].pc = "failed" => x'[r].denied
  <2>1. CASE RefreshLock(r) \/ RefreshDone(r)
    BY <1>1, <2>1 DEF RefreshLock, RefreshDone, Call
  <2>2. CASE RefreshFailed(r)
    BY <1>1, <2>2 DEF RefreshFailed, Call
  <2>3. CASE RefreshLost(r)
    BY <1>1, <2>3 DEF RefreshLost, Call
  <2>4. CASE GrantToken(r)
    <3>1. PICK c : x' = [x EXCEPT ![r] = [x[r] EXCEPT !.grant = c]]
      BY <2>4 DEF GrantToken
    <3>2. x[r].pc = "refresh"
      BY <2>4 DEF GrantToken
    <3> QED
      BY <1>1, <3>1, <3>2 DEF Call
  <2> QED
    BY <2>1, <2>2, <2>3, <2>4
<1> QED
  BY <1>2, <1>3, <1>4, <1>5, <1>6, UnsentAuth DEF NonceStep

\* A request carries the prover's nonce.
LEMMA SendAuth ==
    ASSUME AuthInv, OnceInv, NEW r \in Goroutines, Send(r)
    PROVE  AuthInv'
<1>1. x \in [Goroutines -> Call] /\ x[r] \in Call
  BY DEF OnceInv, TypeInv, CallsInv
<1>2. x[r].pc = "send" /\ UNCHANGED <<nonce, srvNonce>> /\ x[r].resp = None
  BY DEF Send, backend, OnceInv, RecordInv
<1>3. x' = [x EXCEPT ![r] = [x[r] EXCEPT !.pc = "sent", !.nonce = nonce, !.wire = x[r].key]]
  BY DEF Send, WireKeys
<1>4. /\ \A g \in Goroutines : g # r => x'[g] = x[g]
      /\ x'[r].pc = "sent" /\ x'[r].nonce = nonce /\ x'[r].resp = None
  BY <1>1, <1>2, <1>3 DEF Call
<1>5. x'[r].allow = x[r].allow
  BY <1>1, <1>3 DEF Call
<1>6. NonceInv'
  BY <1>2, <1>4 DEF AuthInv, NonceInv
<1>7. ChallengeInv'
  BY <1>2, <1>4, <1>5 DEF AuthInv, ChallengeInv
<1>8. AuthFailureIsReal'
  BY <1>4 DEF AuthInv, AuthFailureIsReal, Unauthorized
<1> QED
  BY <1>6, <1>7, <1>8 DEF AuthInv

\* A backend that checks the nonce first challenges only a request without one,
\* and refuses the token only of a request with it.
LEMMA ReplyAuth ==
    ASSUME AuthInv, OnceInv, ~TokenFirst, NEW r \in Goroutines, Refuse(r) \/ Accept(r)
    PROVE  AuthInv'
<1>1. x \in [Goroutines -> Call] /\ x[r] \in Call
  BY DEF OnceInv, TypeInv, CallsInv
<1>2. x[r].pc = "sent" /\ UNCHANGED <<nonce, srvNonce>>
  BY DEF Refuse, Accept, Unanswered, backend
<1>3. PICK s \in {"200", "401", "429", "503", "4xx"}, n \in {None, srvNonce} :
        /\ x' = [x EXCEPT ![r] = [x[r] EXCEPT !.resp = [status |-> s, nonce |-> n]]]
        /\ s = "401" => IF n = None THEN NonceOk(x[r]) ELSE ~NonceOk(x[r])
  <2>0. srvNonce # None
    BY TransportAssumption DEF OnceInv, TypeInv, SharedOK
  <2>1. CASE Refuse(r)
    BY <2>0, <2>1 DEF Refuse, Reply
  <2>2. CASE Accept(r)
    BY <2>2 DEF Accept, Reply
  <2> QED
    BY <2>1, <2>2
<1>4. /\ \A g \in Goroutines : g # r => x'[g] = x[g]
      /\ x'[r].pc = "sent" /\ x'[r].nonce = x[r].nonce
      /\ x'[r].resp = [status |-> s, nonce |-> n]
  BY <1>1, <1>2, <1>3 DEF Call
<1>5. x'[r].allow = x[r].allow
  BY <1>1, <1>3 DEF Call
<1>6. x'[r].resp.status = s /\ x'[r].resp.nonce = n
  BY <1>4
<1>7. NonceInv'
  BY <1>2, <1>4, <1>6 DEF AuthInv, NonceInv
<1>8. /\ s = "401" /\ n = None /\ HasDPoP => x[r].nonce # None
      /\ s = "401" /\ n # None => HasDPoP /\ x[r].allow
  <2>0. srvNonce # None
    BY TransportAssumption DEF OnceInv, TypeInv, SharedOK
  <2>1. x[r].nonce \in {None, srvNonce} /\ (HasDPoP /\ ~x[r].allow => x[r].nonce # None)
    BY <1>2 DEF AuthInv, NonceInv, ChallengeInv
  <2> QED
    BY <1>3, <2>0, <2>1 DEF NonceOk
<1>9. ChallengeInv'
  BY <1>2, <1>4, <1>5, <1>6, <1>8 DEF AuthInv, ChallengeInv
<1>10. AuthFailureIsReal'
  BY <1>4 DEF AuthInv, AuthFailureIsReal, Unauthorized
<1> QED
  BY <1>7, <1>9, <1>10 DEF AuthInv

LEMMA NextAuth ==
    ASSUME ~TokenFirst
    PROVE  AuthInv /\ OnceInv /\ OnceInv' /\ [Next]_vars /\ [srvNonce' = srvNonce]_vars
             => AuthInv'
<1> SUFFICES ASSUME AuthInv, OnceInv, OnceInv', [Next]_vars, [srvNonce' = srvNonce]_vars
             PROVE  AuthInv'
  OBVIOUS
<1>1. ASSUME NEW r \in Goroutines, Begin(r) \/ CallStep(r) \/ LockStep(r) \/ ServerStep(r)
      PROVE  AuthInv'
  BY <1>1, FailureAuth, CallAuth, RefreshAuth, SendAuth, ReplyAuth
  DEF CallStep, LockStep, ServerStep
<1>2. CASE SetAccessToken \/ SetRefreshToken \/ LateArrival \/ ExpireToken \/ RotateNonce
             \/ CalmChanges \/ UNCHANGED vars
  <2>1. UNCHANGED <<x, nonce, srvNonce>>
    BY <1>2 DEF SetAccessToken, SetRefreshToken, LateArrival, ExpireToken, RotateNonce,
                CalmChanges, vars, backend, tokens
  <2> QED
    BY <2>1 DEF AuthInv, NonceInv, ChallengeInv, AuthFailureIsReal, Unauthorized
<1> QED
  BY <1>1, <1>2 DEF Next

\* When the backend checks the nonce before the token and keeps its nonce, an error
\* with status 401 means that the token was refused, or that the body of a 401 could
\* not be read: the one challenge a call answers is always enough, also after a
\* refresh (doHTTP retries with allowNonceRetry off).
THEOREM AuthFailuresAreReal ==
    ASSUME ~TokenFirst
    PROVE  Spec /\ [][srvNonce' = srvNonce]_vars => []AuthFailureIsReal
<1>1. Init => AuthInv
  <2> SUFFICES ASSUME Init PROVE AuthInv
    OBVIOUS
  <2>1. \A r \in Goroutines : x[r] = NoCall
    BY DEF Init
  <2>2. NoCall.pc = "idle" /\ NoCall.nonce = None /\ NoCall.resp = None
    BY DEF NoCall
  <2>3. NoCall.allow
    BY DEF NoCall
  <2> QED
    BY <2>1, <2>2, <2>3
    DEF Init, AuthInv, NonceInv, ChallengeInv, AuthFailureIsReal, Unauthorized
<1>2. AuthInv => AuthFailureIsReal
  BY DEF AuthInv
<1> QED
  BY <1>1, <1>2, NextAuth, AlwaysOnce, PTL DEF Spec
================================================================================
