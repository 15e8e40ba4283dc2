--------------------------- MODULE NhiProviderProofs ---------------------------
(***************************************************************************)
(* Proofs about NhiProvider, for any set of callers, any number of renewal *)
(* attempts and any configuration: the type invariant, and the life cycle  *)
(* properties QuietAfterStop, OneLoop, DoneClosedOnce and OneExchange, and *)
(* what exchanges carry and store: StoredIsVetted, NoPackageTwice,         *)
(* RetryAnswersChallenge and HardwareBinding.                              *)
(***************************************************************************)
EXTENDS NhiProvider, TLAPS

\* What the types of the exchange and loop records rest on: an exchange that
\* succeeded holds a package, and an attempt under way is within the limit.
DataInv ==
    /\ TypeOK
    /\ \A a \in Actors : x[a].pc = "ok" =>
         x[a].resp # None /\ x[a].resp.status = "200"
    /\ \A g \in Loops : loop[g].pc = "exchange" => loop[g].attempt < MaxAttempts

USE DEF Actors

LEMMA PackageFacts ==
    /\ \A r \in Response : r.status = "200" => r.pkg \in Package
    /\ None \notin Response /\ None \notin Package /\ None \notin Credential
  BY DataAssumption DEF Response

LEMMA InitData == Init => DataInv
  <1> SUFFICES ASSUME Init PROVE DataInv
    OBVIOUS
  <1>1. x \in [Actors -> Exchange]
    BY DEF Init, NoExchange, Exchange, ExchangeSteps
  <1>2. loop \in [Loops -> LoopState]
    BY BoundsAssumption DEF Init, DeadLoop, LoopState, LoopSteps
  <1>3. pc \in [Callers -> CallSteps]
    BY DEF Init, CallSteps
  <1>4. \A a \in Actors : x[a].pc = "none"
    BY DEF Init, NoExchange
  <1>5. \A g \in Loops : loop[g].pc = "dead"
    BY DEF Init, DeadLoop
  <1>6. healthy \in BOOLEAN
    BY BoundsAssumption DEF Init
  <1> QED
    BY <1>1, <1>2, <1>3, <1>4, <1>5, <1>6, DataAssumption DEF Init, DataInv, TypeOK

\* The records the exchange steps write have the type of an exchange.
LEMMA ExchangeRecords ==
    ASSUME NEW e \in Exchange
    PROVE  /\ [e EXCEPT !.pc = "hardware"] \in Exchange
           /\ [e EXCEPT !.pc = "failed", !.resp = None] \in Exchange
           /\ [e EXCEPT !.pc = "ok"] \in Exchange
           /\ \A k \in HwKeys \cup {None} : [e EXCEPT !.pc = "attest", !.hw = k] \in Exchange
           /\ \A k \in Keys : [e EXCEPT !.pc = "send", !.key = k] \in Exchange
           /\ \A n \in Nonces \cup {None} :
                /\ [e EXCEPT !.pc = "wait", !.nonce = n] \in Exchange
                /\ [e EXCEPT !.pc = "rewait", !.nonce = n] \in Exchange
                /\ [e EXCEPT !.pc = "resend", !.challenge = n, !.resp = None] \in Exchange
           /\ \A r \in Response : [e EXCEPT !.resp = r] \in Exchange
  BY DEF Exchange, ExchangeSteps

\* Replacing one exchange record keeps what DataInv says of exchanges.
ExchangesOK ==
    /\ x \in [Actors -> Exchange]
    /\ \A a \in Actors : x[a].pc = "ok" => x[a].resp # None /\ x[a].resp.status = "200"

LEMMA ExchangeUpdate ==
    ASSUME ExchangesOK, NEW a \in Actors, NEW e \in Exchange,
           x' = [x EXCEPT ![a] = e],
           e.pc = "ok" => e.resp # None /\ e.resp.status = "200"
    PROVE  ExchangesOK'
  BY DEF ExchangesOK

LEMMA ExchangeFailsOK ==
    ASSUME ExchangesOK, NEW a \in Actors, ExchangeFails(a)
    PROVE  ExchangesOK'
  <1> DEFINE e == [x[a] EXCEPT !.pc = "failed", !.resp = None]
  <1>1. x[a] \in Exchange BY DEF ExchangesOK
  <1>2. e \in Exchange /\ e.pc = "failed" BY <1>1, ExchangeRecords DEF Exchange
  <1>3. x' = [x EXCEPT ![a] = e] BY DEF ExchangeFails
  <1> HIDE DEF e
  <1> QED BY <1>2, <1>3, ExchangeUpdate

LEMMA FinishOK ==
    ASSUME ExchangesOK, NEW a \in Actors, x[a].resp # None, Finish(a, x[a].resp)
    PROVE  ExchangesOK'
  <1> DEFINE e == [x[a] EXCEPT !.pc = "ok"]
  <1>0. CASE ExchangeFails(a) BY <1>0, ExchangeFailsOK
  <1>1. CASE x' = [x EXCEPT ![a] = e] /\ x[a].resp.status = "200"
    <2>1. x[a] \in Exchange BY DEF ExchangesOK
    <2>2. e \in Exchange /\ e.resp = x[a].resp BY <2>1, ExchangeRecords DEF Exchange
    <2> HIDE DEF e
    <2> QED BY <2>2, <1>1, ExchangeUpdate
  <1> QED BY <1>0, <1>1 DEF Finish

\* The steps of an exchange keep the exchange records well formed.
LEMMA ExchangeStepOK ==
    ASSUME DataInv, NEW a \in Actors, ExchangeStep(a)
    PROVE  ExchangesOK'
  <1>0. x[a] \in Exchange /\ ExchangesOK BY DEF DataInv, TypeOK, ExchangesOK
  <1>1. CASE PrepareHardware(a)
    <2>1. ASSUME NEW k \in HwKeys \cup {None}, WithHardware(a, k) PROVE ExchangesOK'
      <3> DEFINE e == [x[a] EXCEPT !.pc = "attest", !.hw = k]
      <3>1. e \in Exchange /\ e.pc = "attest" BY <1>0, ExchangeRecords DEF Exchange
      <3>2. x' = [x EXCEPT ![a] = e] BY <2>1 DEF WithHardware
      <3> HIDE DEF e
      <3> QED BY <1>0, <3>1, <3>2, ExchangeUpdate
    <2>2. hw \in HwKeys \cup {None} BY DEF DataInv, TypeOK
    <2>3. \/ ExchangeFails(a)
          \/ \E k \in HwKeys \cup {None} : WithHardware(a, k)
      BY <1>1, <2>2 DEF PrepareHardware, WithoutHardware
    <2> QED BY <1>0, <2>1, <2>3, ExchangeFailsOK
  <1>2. CASE Attest(a)
    <2>1. CASE ExchangeFails(a) BY <1>0, <2>1, ExchangeFailsOK
    <2>2. ASSUME NEW k \in Keys, x' = [x EXCEPT ![a].pc = "send", ![a].key = k]
          PROVE  ExchangesOK'
      <3> DEFINE e == [x[a] EXCEPT !.pc = "send", !.key = k]
      <3>1. e \in Exchange /\ e.pc = "send" BY <1>0, ExchangeRecords DEF Exchange
      <3>2. x' = [x EXCEPT ![a] = e] BY <2>2
      <3> HIDE DEF e
      <3> QED BY <1>0, <3>1, <3>2, ExchangeUpdate
    <2> QED BY <1>2, <2>1, <2>2 DEF Attest, FreshKeys
  <1>3. CASE Send(a)
    <2> DEFINE e == [x[a] EXCEPT !.pc = "wait", !.nonce = nonce]
    <2>0. nonce \in Nonces \cup {None} BY DEF DataInv, TypeOK
    <2>1. e \in Exchange BY <1>0, <2>0, ExchangeRecords
    <2>3. e.pc = "wait" BY <1>0 DEF Exchange
    <2>2. x' = [x EXCEPT ![a] = e] BY <1>3 DEF Send
    <2> HIDE DEF e
    <2> QED BY <1>0, <2>1, <2>2, <2>3, ExchangeUpdate
  <1>4. CASE Receive(a)
    <2> DEFINE r == x[a].resp
               e == [x[a] EXCEPT !.pc = "resend", !.challenge = r.nonce, !.resp = None]
    <2>0. r \in Response /\ r # None BY <1>0, <1>4 DEF Receive, Exchange
    <2>1. CASE Finish(a, r) BY <1>0, <2>0, <2>1, FinishOK
    <2>2. CASE x' = [x EXCEPT ![a] = e]
      <3>1. r.nonce \in Nonces \cup {None} BY <2>0 DEF Response
      <3>2. e \in Exchange BY <1>0, <3>1, ExchangeRecords
      <3>3. e.pc = "resend" BY <1>0 DEF Exchange
      <3> HIDE DEF e
      <3> QED BY <1>0, <3>2, <3>3, <2>2, ExchangeUpdate
    <2> QED BY <1>4, <2>1, <2>2 DEF Receive
  <1>5. CASE Resend(a)
    <2> DEFINE e == [x[a] EXCEPT !.pc = "rewait", !.nonce = nonce]
    <2>0. nonce \in Nonces \cup {None} BY DEF DataInv, TypeOK
    <2>1. e \in Exchange BY <1>0, <2>0, ExchangeRecords
    <2>3. e.pc = "rewait" BY <1>0 DEF Exchange
    <2>2. x' = [x EXCEPT ![a] = e] BY <1>5 DEF Resend
    <2> HIDE DEF e
    <2> QED BY <1>0, <2>1, <2>2, <2>3, ExchangeUpdate
  <1>6. CASE ReceiveRetry(a)
    BY <1>0, <1>6, FinishOK DEF ReceiveRetry
  <1> QED
    BY <1>1, <1>2, <1>3, <1>4, <1>5, <1>6 DEF ExchangeStep

LEMMA ExchangeStepData ==
    ASSUME DataInv, NEW a \in Actors, ExchangeStep(a)
    PROVE  DataInv'
  <1>0. x[a] \in Exchange /\ ExchangesOK' BY ExchangeStepOK DEF DataInv, TypeOK
  <1>1. UNCHANGED <<cfg, lifecycle, store, renewal, backend, installed>>
    BY DEF ExchangeStep, PrepareHardware, Attest, Send, Receive, Resend, ReceiveRetry
  <1>2. hw' \in HwKeys \cup {None}
    BY DEF DataInv, TypeOK, ExchangeStep, PrepareHardware, Attest, Send, Receive, Resend,
           ReceiveRetry
  <1>3. x[a].resp # None => x[a].resp.nonce \in Nonces \cup {None}
    BY <1>0 DEF Exchange, Response
  <1>4. nonce' \in Nonces \cup {None}
    BY <1>3 DEF DataInv, TypeOK, ExchangeStep, PrepareHardware, Attest, Send, Receive,
                Resend, ReceiveRetry
  <1>5. x[a].hw \in HwKeys \cup {None} BY <1>0 DEF Exchange
  <1>6. hwSent' \subseteq HwKeys \cup {None}
    BY <1>5 DEF DataInv, TypeOK, ExchangeStep, PrepareHardware, Attest, Send, Receive,
                Resend, ReceiveRetry
  <1> QED
    BY <1>0, <1>1, <1>2, <1>4, <1>6
    DEF DataInv, TypeOK, ExchangesOK, lifecycle, renewal, backend

\* The backend only answers requests that wait, with well-formed responses.
LEMMA BackendData ==
    ASSUME DataInv, NEW a \in Actors, Serve(a) \/ RequestFails(a)
    PROVE  DataInv'
  <1>0. x[a] \in Exchange /\ ExchangesOK /\ srvNonce \in Nonces
    BY DEF DataInv, TypeOK, ExchangesOK
  <1> DEFINE Rest == UNCHANGED <<cfg, lifecycle, store, renewal, hw, nonce, srvNonce,
                                 healthy, hwSent>>
  <1>1. ASSUME NEW r \in Response, Pending(a), Answer(a, r)
        PROVE  ExchangesOK' /\ Rest
    <2> DEFINE e == [x[a] EXCEPT !.resp = r]
    <2>1. e \in Exchange BY <1>0, ExchangeRecords
    <2>2. e.pc # "ok" BY <1>0, <1>1 DEF Exchange, Pending
    <2>3. x' = [x EXCEPT ![a] = e] BY <1>1 DEF Answer
    <2> HIDE DEF e
    <2>4. ExchangesOK' BY <1>0, <2>1, <2>2, <2>3, ExchangeUpdate
    <2> QED BY <2>4, <1>1 DEF Answer
  <1>2. ASSUME ExchangesOK', Rest, issued' \subseteq Package, installed' \subseteq PkgIds
        PROVE  DataInv'
    BY <1>2 DEF DataInv, TypeOK, ExchangesOK, lifecycle, renewal
  <1>3. issued \subseteq Package /\ installed \subseteq PkgIds BY DEF DataInv, TypeOK
  <1>4. CASE Challenge(a)
    <2> DEFINE r == [status |-> "401", nonce |-> srvNonce, pkg |-> None]
    <2>1. r \in Response BY <1>0 DEF Response
    <2> QED BY <1>1, <1>2, <1>3, <1>4, <2>1 DEF Challenge
  <1>5. CASE Refuse(a)
    <2> PICK n \in NonceHeaders : Answer(a, [status |-> "5xx", nonce |-> n, pkg |-> None])
      BY <1>5 DEF Refuse
    <2> DEFINE r == [status |-> "5xx", nonce |-> n, pkg |-> None]
    <2>1. r \in Response BY <1>0 DEF Response, NonceHeaders
    <2> QED BY <1>1, <1>2, <1>3, <1>5, <2>1 DEF Refuse
  <1>6. CASE Issue(a)
    <2> PICK q \in (IF healthy THEN {GoodQuality} ELSE Qualities), n \in NonceHeaders,
             id \in PkgIds \ {p.id : p \in issued} :
          LET p == [id |-> id, key |-> x[a].key, q |-> q] IN
          /\ issued' \in {k \in SUBSET (issued \cup {p}) : Cardinality(k) <= MaxCirculating}
          /\ installed' = (installed \ {id}) \cap {k.id : k \in issued'}
          /\ Answer(a, [status |-> "200", nonce |-> n, pkg |-> p])
      BY <1>6 DEF Issue
    <2> DEFINE p == [id |-> id, key |-> x[a].key, q |-> q]
               r == [status |-> "200", nonce |-> n, pkg |-> p]
    <2>1. q \in Quality
      <3>1. GoodQuality \in Quality BY DEF GoodQuality, Quality
      <3>2. q = GoodQuality \/ q \in Qualities OBVIOUS
      <3> QED BY <3>1, <3>2, DataAssumption
    <2>0. x[a].key \in Keys \cup {None} BY <1>0 DEF Exchange
    <2>2. p \in Package
      <3>1. id \in PkgIds OBVIOUS
      <3> QED BY <2>0, <2>1, <3>1 DEF Package
    <2>3. n \in Nonces \cup {None} BY <1>0 DEF NonceHeaders
    <2>4. r \in Response BY <2>2, <2>3 DEF Response
    <2>5. issued' \subseteq Package /\ installed' \subseteq PkgIds BY <1>3, <2>2
    <2> QED BY <1>1, <1>2, <1>6, <2>4, <2>5 DEF Issue
  <1>7. CASE IssuePlaintext(a)
    <2> PICK q \in Qualities :
          Answer(a, [status |-> "200", nonce |-> None,
                     pkg |-> [id |-> None, key |-> None, q |-> q]])
      BY <1>7 DEF IssuePlaintext
    <2> DEFINE p == [id |-> None, key |-> None, q |-> q]
               r == [status |-> "200", nonce |-> None, pkg |-> p]
    <2>1. p \in Package BY DataAssumption DEF Package
    <2>2. r \in Response BY <2>1 DEF Response
    <2> QED BY <1>1, <1>2, <1>3, <1>7, <2>2 DEF IssuePlaintext
  <1>8. CASE DeliverAgain(a)
    <2> PICK p \in issued : Answer(a, [status |-> "200", nonce |-> None, pkg |-> p])
      BY <1>8 DEF DeliverAgain
    <2> DEFINE r == [status |-> "200", nonce |-> None, pkg |-> p]
    <2>1. r \in Response BY <1>3 DEF Response
    <2> QED BY <1>1, <1>2, <1>3, <1>8, <2>1 DEF DeliverAgain
  <1>9. CASE RequestFails(a)
    BY <1>0, <1>2, <1>3, <1>9, ExchangeFailsOK DEF RequestFails, backend
  <1> QED
    BY <1>4, <1>5, <1>6, <1>7, <1>8, <1>9 DEF Serve

\* The records the renewal goroutine writes have the type of a loop.
LEMMA LoopRecords ==
    ASSUME NEW l \in LoopState
    PROVE  /\ \A p \in LoopSteps : [l EXCEPT !.pc = p] \in LoopState
           /\ \A ch \in Chans : [l EXCEPT !.pc = "sleep", !.ch = ch] \in LoopState
           /\ [l EXCEPT !.pc = "renew", !.attempt = 0] \in LoopState
           /\ [l EXCEPT !.cancelled = TRUE] \in LoopState
           /\ l.attempt < MaxAttempts =>
                [l EXCEPT !.pc = "backoff", !.attempt = l.attempt + 1] \in LoopState
  <1>1. l.attempt \in 0 .. MaxAttempts BY DEF LoopState
  <1>2. 0 \in 0 .. MaxAttempts /\ (l.attempt < MaxAttempts => l.attempt + 1 \in 0 .. MaxAttempts)
    BY <1>1, BoundsAssumption
  <1> DEFINE Range == 0 .. MaxAttempts
  <1>3. LoopState = [pc : LoopSteps, cancelled : BOOLEAN, ch : Chans \cup {None}, attempt : Range]
    BY DEF LoopState
  <1>4. 0 \in Range /\ (l.attempt < MaxAttempts => l.attempt + 1 \in Range)
    BY <1>2
  <1> HIDE DEF Range
  <1>5. \A p \in LoopSteps : [l EXCEPT !.pc = p] \in LoopState
    BY <1>3
  <1>6. \A ch \in Chans : [l EXCEPT !.pc = "sleep", !.ch = ch] \in LoopState
    BY <1>3 DEF LoopSteps
  <1>7. [l EXCEPT !.pc = "renew", !.attempt = 0] \in LoopState
    BY <1>3, <1>4 DEF LoopSteps
  <1>8. [l EXCEPT !.cancelled = TRUE] \in LoopState
    BY <1>3
  <1>9. l.attempt < MaxAttempts =>
          [l EXCEPT !.pc = "backoff", !.attempt = l.attempt + 1] \in LoopState
    BY <1>3, <1>4 DEF LoopSteps
  <1> QED BY <1>5, <1>6, <1>7, <1>8, <1>9

LEMMA NewLoopRecords ==
    DeadLoop \in LoopState /\ [DeadLoop EXCEPT !.pc = "spawned"] \in LoopState
  <1>1. 0 \in 0 .. MaxAttempts BY BoundsAssumption
  <1>2. DeadLoop \in LoopState BY <1>1 DEF LoopState, LoopSteps, DeadLoop
  <1>3. "spawned" \in LoopSteps BY DEF LoopSteps
  <1> QED BY <1>2, <1>3, LoopRecords

LoopsOK ==
    /\ loop \in [Loops -> LoopState]
    /\ \A g \in Loops : loop[g].pc = "exchange" => loop[g].attempt < MaxAttempts

LEMMA LoopUpdate ==
    ASSUME LoopsOK, NEW g \in Loops, NEW l \in LoopState,
           loop' = [loop EXCEPT ![g] = l],
           l.pc = "exchange" => l.attempt < MaxAttempts
    PROVE  LoopsOK'
  BY DEF LoopsOK

\* An exchange record that ends is a well-formed empty one.
LEMMA NoExchangeOK ==
    ASSUME ExchangesOK, NEW a \in Actors, x' = [x EXCEPT ![a] = NoExchange]
    PROVE  ExchangesOK'
  <1>1. NoExchange \in Exchange /\ NoExchange.pc = "none"
    BY DEF NoExchange, Exchange, ExchangeSteps
  <1> QED BY <1>1, ExchangeUpdate

LEMMA BeginExchangeOK ==
    ASSUME ExchangesOK, NEW a \in Actors, x' = [x EXCEPT ![a].pc = "hardware"]
    PROVE  ExchangesOK'
  <1> DEFINE e == [x[a] EXCEPT !.pc = "hardware"]
  <1>1. x[a] \in Exchange BY DEF ExchangesOK
  <1>2. e \in Exchange BY <1>1, ExchangeRecords
  <1>3. e.pc = "hardware" BY <1>1 DEF Exchange
  <1>4. x' = [x EXCEPT ![a] = e] OBVIOUS
  <1> HIDE DEF e
  <1> QED BY <1>2, <1>3, <1>4, ExchangeUpdate

LEMMA StoreSetData ==
    ASSUME DataInv, NEW a \in Actors, x[a].pc = "ok", StoreSet(x[a].resp.pkg)
    PROVE  store' \in Credential /\ installed' \subseteq PkgIds
  <1> DEFINE p == x[a].resp.pkg
  <1>1. x[a].resp \in Response /\ x[a].resp.status = "200"
    BY DEF DataInv, TypeOK, Exchange
  <1>2. p \in Package BY <1>1, PackageFacts
  <1> HIDE DEF p
  <1>3. p.id \in PkgIds \cup {None} /\ p.q.dated \in BOOLEAN BY <1>2 DEF Package, Quality
  <1>4. StoreSet(p) BY DEF p
  <1> QED BY <1>2, <1>3, <1>4 DEF StoreSet, Credential, DataInv, TypeOK

\* The steps of a renewal goroutine.
LEMMA LoopStepData ==
    ASSUME DataInv, NEW g \in Loops, LoopStep(g) \/ SleepCancelled(g)
    PROVE  DataInv'
  <1>0. loop[g] \in LoopState /\ LoopsOK /\ ExchangesOK
    BY DEF DataInv, TypeOK, LoopsOK, ExchangesOK
  <1> DEFINE Rest == UNCHANGED <<cfg, lifecycle, running, cancelOf, doneCh, waitCh, hw,
                                 nonce, backend, hwSent>>
  <1>1. ASSUME LoopsOK', ExchangesOK', Rest, store' \in Credential \cup {None},
               installed' \subseteq PkgIds, closed' \subseteq Chans \cup {None},
               panicked' \in BOOLEAN
        PROVE  DataInv'
    BY <1>1 DEF DataInv, TypeOK, LoopsOK, ExchangesOK, lifecycle, backend
  <1>2. ASSUME NEW p \in LoopSteps, loop' = [loop EXCEPT ![g].pc = p],
               p = "exchange" => loop[g].attempt < MaxAttempts
        PROVE  LoopsOK'
    <2> DEFINE l == [loop[g] EXCEPT !.pc = p]
    <2>1. l \in LoopState BY <1>0, LoopRecords
    <2>2. l.pc = p /\ l.attempt = loop[g].attempt BY <1>0 DEF LoopState
    <2>3. loop' = [loop EXCEPT ![g] = l] BY <1>2
    <2> HIDE DEF l
    <2> QED BY <1>0, <1>2, <2>1, <2>2, <2>3, LoopUpdate
  <1>3. UNCHANGED x => ExchangesOK' BY <1>0 DEF ExchangesOK
  <1>4. UNCHANGED <<store, installed, closed, panicked>> =>
          /\ store' \in Credential \cup {None} /\ installed' \subseteq PkgIds
          /\ closed' \subseteq Chans \cup {None} /\ panicked' \in BOOLEAN
    BY DEF DataInv, TypeOK
  <1>5. CASE LoopEnter(g)
    <2> DEFINE l == [loop[g] EXCEPT !.pc = "sleep", !.ch = doneCh]
    <2>0. doneCh \in Chans BY DEF DataInv, TypeOK
    <2>1. l \in LoopState BY <1>0, <2>0, LoopRecords
    <2>2. l.pc = "sleep" BY <1>0 DEF LoopState
    <2>3. loop' = [loop EXCEPT ![g] = l] BY <1>5 DEF LoopEnter
    <2> HIDE DEF l
    <2>4. LoopsOK' BY <1>0, <2>1, <2>2, <2>3, LoopUpdate
    <2> QED BY <1>1, <1>3, <1>4, <1>5, <2>4 DEF LoopEnter, LoopStays
  <1>6. CASE SleepElapsed(g)
    <2> DEFINE l == [loop[g] EXCEPT !.pc = "renew", !.attempt = 0]
    <2>1. l \in LoopState BY <1>0, LoopRecords
    <2>2. l.pc = "renew" BY <1>0 DEF LoopState
    <2>3. loop' = [loop EXCEPT ![g] = l] BY <1>6 DEF SleepElapsed
    <2> HIDE DEF l
    <2>4. LoopsOK' BY <1>0, <2>1, <2>2, <2>3, LoopUpdate
    <2> QED BY <1>1, <1>3, <1>4, <1>6, <2>4 DEF SleepElapsed, LoopStays
  <1>7. CASE RenewReturns(g)
    <2>1. LoopsOK' BY <1>2, <1>7 DEF RenewReturns, LoopSteps
    <2> QED BY <1>1, <1>3, <1>4, <1>7, <2>1 DEF RenewReturns, LoopStays
  <1>8. CASE RenewAttempt(g)
    <2>1. LoopsOK' BY <1>2, <1>8 DEF RenewAttempt, LoopSteps
    <2>2. ExchangesOK' BY <1>0, <1>8, BeginExchangeOK DEF RenewAttempt
    <2> QED BY <1>1, <1>4, <1>8, <2>1, <2>2 DEF RenewAttempt, LoopStays
  <1>9. CASE RenewSucceeded(g)
    <2>1. LoopsOK' BY <1>2, <1>9 DEF RenewSucceeded, LoopSteps
    <2>2. ExchangesOK' BY <1>0, <1>9, NoExchangeOK DEF RenewSucceeded
    <2>3. store' \in Credential /\ installed' \subseteq PkgIds
      BY <1>9, StoreSetData DEF RenewSucceeded
    <2>4. closed' \subseteq Chans \cup {None} /\ panicked' \in BOOLEAN
      BY <1>9 DEF RenewSucceeded, LoopStays, DataInv, TypeOK
    <2> QED BY <1>1, <1>9, <2>1, <2>2, <2>3, <2>4 DEF RenewSucceeded, LoopStays
  <1>10. CASE RenewFailed(g)
    <2> DEFINE l == [loop[g] EXCEPT !.pc = "backoff", !.attempt = loop[g].attempt + 1]
    <2>0. loop[g].attempt < MaxAttempts BY <1>0, <1>10 DEF RenewFailed, LoopsOK
    <2>1. l \in LoopState BY <1>0, <2>0, LoopRecords
    <2>2. l.pc = "backoff" BY <1>0 DEF LoopState
    <2>3. loop' = [loop EXCEPT ![g] = l] BY <1>10 DEF RenewFailed
    <2> HIDE DEF l
    <2>4. LoopsOK' BY <1>0, <2>1, <2>2, <2>3, LoopUpdate
    <2>5. ExchangesOK' BY <1>0, <1>10, NoExchangeOK DEF RenewFailed
    <2> QED BY <1>1, <1>4, <1>10, <2>4, <2>5 DEF RenewFailed, LoopStays
  <1>11. CASE BackoffElapsed(g)
    <2>1. LoopsOK' BY <1>2, <1>11 DEF BackoffElapsed, LoopSteps
    <2> QED BY <1>1, <1>3, <1>4, <1>11, <2>1 DEF BackoffElapsed, LoopStays
  <1>12. CASE BackoffCancelled(g)
    <2>1. LoopsOK' BY <1>2, <1>12 DEF BackoffCancelled, LoopSteps
    <2> QED BY <1>1, <1>3, <1>4, <1>12, <2>1 DEF BackoffCancelled, LoopStays
  <1>13. CASE SleepCancelled(g)
    <2>1. LoopsOK'
      <3>1. DeadLoop.pc = "dead" BY DEF DeadLoop
      <3> QED BY <1>0, <1>13, <3>1, NewLoopRecords, LoopUpdate DEF SleepCancelled
    <2>2. loop[g].ch \in Chans \cup {None} BY <1>0 DEF LoopState
    <2>3. closed' \subseteq Chans \cup {None} /\ panicked' \in BOOLEAN
      BY <1>13, <2>2 DEF SleepCancelled, DataInv, TypeOK
    <2>4. store' \in Credential \cup {None} /\ installed' \subseteq PkgIds
      BY <1>13 DEF SleepCancelled, DataInv, TypeOK
    <2> QED BY <1>1, <1>3, <1>13, <2>1, <2>3, <2>4 DEF SleepCancelled
  <1> QED
    BY <1>5, <1>6, <1>7, <1>8, <1>9, <1>10, <1>11, <1>12, <1>13 DEF LoopStep

\* The steps of a goroutine inside Start or Stop.
LEMMA CallerData ==
    ASSUME DataInv, NEW c \in Callers,
           StartCall(c) \/ StopCall(c) \/ LockStep(c) \/ CallStep(c)
    PROVE  DataInv'
  <1>0. LoopsOK /\ ExchangesOK BY DEF DataInv, TypeOK, LoopsOK, ExchangesOK
  <1> DEFINE Lifecycle == /\ mu \in Callers \cup {None} /\ started \in BOOLEAN
                          /\ env \in Envs \cup {"unknown"} /\ pc \in [Callers -> CallSteps]
             Renewal == /\ running \in BOOLEAN /\ cancelOf \in Loops \cup {None}
                        /\ doneCh \in Chans /\ waitCh \in [Callers -> Chans \cup {None}]
                        /\ closed \subseteq Chans \cup {None} /\ panicked \in BOOLEAN
                        /\ LoopsOK
             Store == store \in Credential \cup {None} /\ installed \subseteq PkgIds
             Rest == UNCHANGED <<cfg, hw, nonce, backend, hwSent>>
  <1>1. ASSUME Lifecycle', Renewal', Store', ExchangesOK', Rest PROVE DataInv'
    BY <1>1 DEF DataInv, TypeOK, LoopsOK, ExchangesOK, backend
  <1>2. Lifecycle /\ Renewal /\ Store BY <1>0 DEF DataInv, TypeOK
  <1>3. /\ UNCHANGED renewal => Renewal'
        /\ UNCHANGED <<store, installed>> => Store'
        /\ UNCHANGED x => ExchangesOK'
    BY <1>0, <1>2 DEF renewal, LoopsOK, ExchangesOK
  <1>4. CASE StartCall(c) \/ StopCall(c) \/ StartAgain(c) \/ StopAgain(c)
    <2>1. Lifecycle' BY <1>2, <1>4 DEF StartCall, StopCall, StartAgain, StopAgain, CallSteps
    <2> QED BY <1>1, <1>3, <1>4, <2>1 DEF StartCall, StopCall, StartAgain, StopAgain
  <1>5. CASE StartLocked(c)
    <2>1. Detected \subseteq Envs \cup {"unknown"}
      BY <1>2 DEF Detected, Envs, DataInv, TypeOK, Config
    <2>2. Lifecycle' BY <1>2, <1>5, <2>1 DEF StartLocked, CallSteps
    <2>3. ExchangesOK' BY <1>0, <1>5, BeginExchangeOK DEF StartLocked
    <2> QED BY <1>1, <1>3, <1>5, <2>2, <2>3 DEF StartLocked
  <1>6. CASE StartFailed(c)
    <2>1. Lifecycle' BY <1>2, <1>6 DEF StartFailed, CallSteps
    <2>2. ExchangesOK' BY <1>0, <1>6, NoExchangeOK DEF StartFailed
    <2> QED BY <1>1, <1>3, <1>6, <2>1, <2>2 DEF StartFailed
  <1>7. CASE StartStored(c)
    <2>1. Lifecycle' BY <1>2, <1>7 DEF StartStored, CallSteps
    <2>2. ExchangesOK' BY <1>0, <1>7, NoExchangeOK DEF StartStored
    <2>3. Store' BY <1>7, StoreSetData DEF StartStored
    <2> QED BY <1>1, <1>3, <1>7, <2>1, <2>2, <2>3 DEF StartStored
  <1>8. CASE StartSpawned(c)
    <2>1. Lifecycle' BY <1>2, <1>8 DEF StartSpawned, CallSteps
    <2>2. CASE running BY <1>1, <1>3, <1>8, <2>1, <2>2 DEF StartSpawned, RenewalStart
    <2>3. CASE ~running
      <3> PICK g \in Loops :
            /\ loop' = [loop EXCEPT ![g] = [DeadLoop EXCEPT !.pc = "spawned"]]
            /\ cancelOf' = g
        BY <1>8, <2>3 DEF StartSpawned, RenewalStart
      <3> DEFINE l == [DeadLoop EXCEPT !.pc = "spawned"]
      <3>1. l \in LoopState BY NewLoopRecords
      <3>2. l.pc = "spawned" BY DEF DeadLoop
      <3> HIDE DEF l
      <3>3. LoopsOK' BY <1>0, <3>1, <3>2, LoopUpdate DEF l
      <3>4. Renewal' BY <1>2, <1>8, <2>3, <3>3 DEF StartSpawned, RenewalStart
      <3> QED BY <1>1, <1>3, <1>8, <2>1, <3>4 DEF StartSpawned
    <2> QED BY <2>2, <2>3
  <1>9. CASE StopLocked(c)
    <2>1. Lifecycle' BY <1>2, <1>9 DEF StopLocked, CallSteps
    <2>2. CASE UNCHANGED loop
      <3>1. LoopsOK' BY <1>0, <2>2 DEF LoopsOK
      <3>2. Renewal' BY <1>2, <1>9, <3>1 DEF StopLocked
      <3> QED BY <1>1, <1>3, <1>9, <2>1, <3>2 DEF StopLocked
    <2>3. CASE cancelOf \in Loops /\ loop' = [loop EXCEPT ![cancelOf].cancelled = TRUE]
      <3> DEFINE l == [loop[cancelOf] EXCEPT !.cancelled = TRUE]
      <3>0. loop[cancelOf] \in LoopState BY <1>0, <2>3 DEF LoopsOK
      <3>1. l \in LoopState BY <3>0, LoopRecords
      <3>2. l.pc = loop[cancelOf].pc /\ l.attempt = loop[cancelOf].attempt
        BY <3>0 DEF LoopState
      <3>3. loop' = [loop EXCEPT ![cancelOf] = l] BY <2>3
      <3>4. l.pc = "exchange" => l.attempt < MaxAttempts BY <1>0, <2>3, <3>2 DEF LoopsOK
      <3> HIDE DEF l
      <3>5. LoopsOK' BY <1>0, <2>3, <3>1, <3>3, <3>4, LoopUpdate
      <3>6. Renewal' BY <1>2, <1>9, <3>5 DEF StopLocked
      <3> QED BY <1>1, <1>3, <1>9, <2>1, <3>6 DEF StopLocked
    <2>4. CASE cancelOf \notin Loops /\ loop' = [loop EXCEPT ![cancelOf].cancelled = TRUE]
      <3>1. loop' = loop BY <1>2, <2>4 DEF LoopsOK
      <3> QED BY <3>1, <2>2
    <2> QED BY <1>9, <2>2, <2>3, <2>4 DEF StopLocked
  <1>10. CASE StopWaited(c)
    <2>1. Lifecycle' BY <1>2, <1>10 DEF StopWaited, CallSteps
    <2>2. LoopsOK' BY <1>0, <1>10 DEF StopWaited, LoopsOK
    <2>3. Renewal' BY <1>2, <1>10, <2>2 DEF StopWaited
    <2> QED BY <1>1, <1>3, <1>10, <2>1, <2>3 DEF StopWaited
  <1>11. CASE StopCleared(c)
    <2>1. Lifecycle' BY <1>2, <1>11 DEF StopCleared, CallSteps
    <2>2. Store' BY <1>2, <1>11 DEF StopCleared, StoreClear
    <2> QED BY <1>1, <1>3, <1>11, <2>1, <2>2 DEF StopCleared
  <1> QED
    BY <1>4, <1>5, <1>6, <1>7, <1>8, <1>9, <1>10, <1>11 DEF LockStep, CallStep

\* Time and the environment.
LEMMA WorldData ==
    ASSUME DataInv, RotateNonce \/ HealthChanges \/ Expire
    PROVE  DataInv'
  <1>1. CASE RotateNonce
    BY <1>1 DEF RotateNonce, DataInv, TypeOK, lifecycle, renewal
  <1>2. CASE HealthChanges
    BY <1>2, BoundsAssumption DEF HealthChanges, DataInv, TypeOK, lifecycle, renewal
  <1>3. CASE Expire
    <2>1. store \in Credential BY <1>3 DEF Expire, DataInv, TypeOK
    <2>2. store' \in Credential BY <1>3, <2>1 DEF Expire, Credential
    <2> QED BY <1>3, <2>2 DEF Expire, DataInv, TypeOK, lifecycle, renewal, backend
  <1> QED BY <1>1, <1>2, <1>3

LEMMA StepData == DataInv /\ [Next]_vars => DataInv'
  <1> SUFFICES ASSUME DataInv, [Next]_vars PROVE DataInv'
    OBVIOUS
  <1>1. CASE UNCHANGED vars
    BY <1>1 DEF DataInv, TypeOK, vars, lifecycle, renewal, backend
  <1>2. CASE Next
    BY <1>2, CallerData, LoopStepData, ExchangeStepData, BackendData, WorldData DEF Next
  <1> QED BY <1>1, <1>2

LEMMA AlwaysData == Spec => []DataInv
  BY InitData, StepData, PTL DEF Spec

\* Every variable of the provider keeps its type, for every configuration,
\* number of goroutines and bound.
THEOREM TypeCorrect == Spec => []TypeOK
  <1>1. DataInv => TypeOK BY DEF DataInv
  <1> QED BY <1>1, AlwaysData, PTL

--------------------------------------------------------------------------------
(* The life cycle.                                                           *)

InMu == {"exchange", "spawn", "stopWait", "stopClear"}
StopIsWaiting == \E c \in Callers : pc[c] = "stopWait"

\* p.mu is held by the one caller that is inside Start or Stop.
LockInv == \A c \in Callers : pc[c] \in InMu <=> mu = c

\* An exchange is run by a caller in Start or by a loop in renew.
OwnerInv ==
    /\ \A c \in Callers : Exchanging(c) => pc[c] = "exchange"
    /\ \A g \in Loops : Exchanging(g) => loop[g].pc = "exchange"

\* r.running follows p.started whenever p.mu is free; within Stop the loop is
\* already told to end and nothing starts another.
RunningInv ==
    /\ running => started /\ mu = None
    /\ mu = None /\ started => running
    /\ \A c \in Callers :
         /\ pc[c] \in {"exchange", "spawn"} => ~started
         /\ pc[c] \in {"stopWait", "stopClear"} => started
         /\ pc[c] = "stopWait" => waitCh[c] = doneCh

\* The only loop alive is the one r.cancel cancels, it holds r.done, which is
\* still open, and it is alive only while running or while a Stop waits.
AliveInv ==
    /\ \A g \in Loops : Alive(g) =>
         /\ g = cancelOf /\ doneCh \notin closed
         /\ running \/ StopIsWaiting
         /\ loop[g].cancelled => ~running
         /\ loop[g].pc # "spawned" => loop[g].ch = doneCh
    /\ doneCh \in closed => StopIsWaiting

\* A credential is stored only between a Start and the end of a Stop.
StoreInv == store # None => started \/ \E c \in Callers : pc[c] = "spawn"

LifecycleInv == LockInv /\ OwnerInv /\ RunningInv /\ AliveInv /\ StoreInv /\ ~panicked

LEMMA InitLifecycle == Init => LifecycleInv
  <1> SUFFICES ASSUME Init PROVE LifecycleInv
    OBVIOUS
  <1>1. \A c \in Callers : pc[c] = "idle" /\ mu # c
    BY ActorsAssumption DEF Init
  <1>2. \A a \in Actors : ~Exchanging(a) BY DEF Init, NoExchange, Exchanging
  <1>3. \A g \in Loops : ~Alive(g) BY DEF Init, DeadLoop, Alive
  <1> QED
    BY <1>1, <1>2, <1>3
    DEF Init, LifecycleInv, LockInv, OwnerInv, RunningInv, AliveInv, StoreInv, InMu

\* Steps inside an exchange, of the backend and of the environment keep
\* everything the life cycle invariant looks at, and whose exchange it is.
LEMMA ExchangeLifecycle ==
    ASSUME DataInv, LifecycleInv, NEW a \in Actors,
           ExchangeStep(a) \/ Serve(a) \/ RequestFails(a)
    PROVE  LifecycleInv'
  <1>1. UNCHANGED <<lifecycle, store, renewal>>
    BY DEF ExchangeStep, PrepareHardware, Attest, Send, Receive, Resend, ReceiveRetry,
           RequestFails, Serve, Challenge, Refuse, Issue, IssuePlaintext, DeliverAgain, Answer
  <1>2. x \in [Actors -> Exchange] /\ x[a] \in Exchange BY DEF DataInv, TypeOK
  <1>3. Exchanging(a)
    BY DEF ExchangeStep, PrepareHardware, Attest, Send, Receive, Resend, ReceiveRetry, Serve,
           RequestFails, Challenge, Refuse, Issue, IssuePlaintext, DeliverAgain, Pending, Exchanging
  <1>4. \A b \in Actors \ {a} : x'[b] = x[b]
    <2>1. CASE ExchangeStep(a)
      BY <1>2, <2>1
      DEF ExchangeStep, PrepareHardware, Attest, Send, Receive, Resend, ReceiveRetry, Finish,
          WithHardware, WithoutHardware, ExchangeFails
    <2>2. CASE Serve(a) \/ RequestFails(a)
      BY <1>2, <2>2
      DEF Serve, RequestFails, Challenge, Refuse, Issue, IssuePlaintext, DeliverAgain, Answer,
          ExchangeFails
    <2> QED BY <2>1, <2>2
  <1>5. \A b \in Actors : Exchanging(b)' => Exchanging(b)
    BY <1>3, <1>4 DEF Exchanging
  <1>6. OwnerInv' BY <1>1, <1>5 DEF LifecycleInv, OwnerInv, lifecycle, renewal
  <1> QED
    BY <1>1, <1>6
    DEF LifecycleInv, LockInv, RunningInv, AliveInv, StoreInv, StopIsWaiting, Alive,
        lifecycle, renewal

LEMMA WorldLifecycle ==
    ASSUME LifecycleInv, RotateNonce \/ HealthChanges \/ Expire
    PROVE  LifecycleInv'
  <1>1. UNCHANGED <<lifecycle, renewal, x>> /\ (store' # None => store # None)
    BY DEF RotateNonce, HealthChanges, Expire
  <1> QED
    BY <1>1
    DEF LifecycleInv, LockInv, OwnerInv, RunningInv, AliveInv, StoreInv, StopIsWaiting, Alive,
        Exchanging, lifecycle, renewal

\* Steps of a loop that leave the loop alive.
LEMMA LoopLifecycle ==
    ASSUME DataInv, LifecycleInv, NEW g \in Loops, LoopStep(g)
    PROVE  LifecycleInv'
  <1> USE DEF LifecycleInv
  <1>0. loop \in [Loops -> LoopState] /\ x \in [Actors -> Exchange]
    BY DEF DataInv, TypeOK
  <1>1. UNCHANGED <<lifecycle, running, cancelOf, doneCh, waitCh, closed, panicked>>
    BY DEF LoopStep, LoopEnter, SleepElapsed, RenewReturns, RenewAttempt, RenewSucceeded,
           RenewFailed, BackoffElapsed, BackoffCancelled, LoopStays
  <1>2. Alive(g) /\ Alive(g)'
    BY <1>0 DEF LoopStep, LoopEnter, SleepElapsed, RenewReturns, RenewAttempt, RenewSucceeded,
           RenewFailed, BackoffElapsed, BackoffCancelled, Alive, LoopState
  <1>3. /\ \A h \in Loops \ {g} : loop'[h] = loop[h]
        /\ loop'[g].cancelled = loop[g].cancelled
        /\ \/ loop'[g].ch = doneCh
           \/ loop'[g].ch = loop[g].ch /\ loop[g].pc # "spawned"
    BY <1>0 DEF LoopStep, LoopEnter, SleepElapsed, RenewReturns, RenewAttempt, RenewSucceeded,
           RenewFailed, BackoffElapsed, BackoffCancelled, LoopState
  <1>4. LockInv' /\ RunningInv' BY <1>1 DEF LockInv, RunningInv, lifecycle
  <1>5. AliveInv' BY <1>1, <1>2, <1>3 DEF AliveInv, Alive, StopIsWaiting, lifecycle
  <1>6. \A a \in Actors \ {g} : x'[a] = x[a]
    BY <1>0 DEF LoopStep, LoopEnter, SleepElapsed, RenewReturns, RenewAttempt, RenewSucceeded,
           RenewFailed, BackoffElapsed, BackoffCancelled
  <1>7. Exchanging(g)' => loop'[g].pc = "exchange"
    <2>1. Exchanging(g) => loop[g].pc = "exchange" BY DEF OwnerInv
    <2>2. CASE RenewAttempt(g)
      BY <1>0, <2>2 DEF RenewAttempt, LoopState
    <2>3. CASE RenewSucceeded(g) \/ RenewFailed(g)
      BY <1>0, <2>3 DEF RenewSucceeded, RenewFailed, Exchanging, NoExchange
    <2>4. CASE LoopEnter(g) \/ SleepElapsed(g) \/ RenewReturns(g) \/ BackoffElapsed(g)
                 \/ BackoffCancelled(g)
      BY <2>1, <2>4 DEF LoopEnter, SleepElapsed, RenewReturns, BackoffElapsed,
                        BackoffCancelled, Exchanging
    <2> QED BY <2>2, <2>3, <2>4 DEF LoopStep
  <1>8. OwnerInv'
    BY <1>1, <1>3, <1>6, <1>7, ActorsAssumption DEF OwnerInv, Exchanging, lifecycle
  <1>9. started BY <1>2 DEF AliveInv, RunningInv, StopIsWaiting
  <1>10. StoreInv' BY <1>1, <1>9 DEF StoreInv, lifecycle
  <1> QED BY <1>1, <1>4, <1>5, <1>8, <1>10

\* The loop ends: it closes the open r.done, and a Stop is waiting for that.
LEMMA LoopEndLifecycle ==
    ASSUME DataInv, LifecycleInv, NEW g \in Loops, SleepCancelled(g)
    PROVE  LifecycleInv'
  <1> USE DEF LifecycleInv
  <1>0. loop \in [Loops -> LoopState] BY DEF DataInv, TypeOK
  <1>1. UNCHANGED <<lifecycle, store, x, running, cancelOf, doneCh, waitCh>>
    BY DEF SleepCancelled
  <1>2. /\ g = cancelOf /\ doneCh \notin closed /\ loop[g].ch = doneCh
        /\ StopIsWaiting
    BY DEF AliveInv, Alive, SleepCancelled
  <1>3. \A h \in Loops : ~Alive(h)'
    BY <1>0, <1>2 DEF AliveInv, Alive, SleepCancelled, DeadLoop
  <1>4. ~panicked' BY <1>2 DEF SleepCancelled
  <1>5. AliveInv' BY <1>1, <1>2, <1>3 DEF AliveInv, StopIsWaiting, lifecycle
  <1>6. OwnerInv'
    <2>1. \A h \in Loops : Exchanging(h) => loop'[h].pc = "exchange"
      BY <1>0 DEF OwnerInv, SleepCancelled, DeadLoop
    <2> QED BY <1>1, <2>1 DEF OwnerInv, Exchanging, lifecycle
  <1> QED
    BY <1>1, <1>4, <1>5, <1>6 DEF LockInv, RunningInv, StoreInv, lifecycle

\* The steps of a goroutine inside Start or Stop.
LEMMA CallerLifecycle ==
    ASSUME DataInv, LifecycleInv, NEW c \in Callers,
           StartCall(c) \/ StopCall(c) \/ LockStep(c) \/ CallStep(c)
    PROVE  LifecycleInv'
  <1> USE DEF LifecycleInv, InMu
  <1>0. /\ pc \in [Callers -> CallSteps] /\ x \in [Actors -> Exchange]
        /\ loop \in [Loops -> LoopState] /\ waitCh \in [Callers -> Chans \cup {None}]
        /\ c # None /\ c \notin Loops
    BY ActorsAssumption DEF DataInv, TypeOK
  <1>1. CASE StartCall(c) \/ StopCall(c) \/ StartAgain(c) \/ StopAgain(c)
    <2>1. /\ UNCHANGED <<mu, started, store, renewal, x>>
          /\ \A d \in Callers \ {c} : pc'[d] = pc[d]
          /\ pc[c] \notin InMu /\ pc'[c] \notin InMu
      BY <1>0, <1>1 DEF StartCall, StopCall, StartAgain, StopAgain
    <2> QED
      BY <2>1 DEF LockInv, OwnerInv, RunningInv, AliveInv, StoreInv, Alive, Exchanging,
                  StopIsWaiting, renewal
  <1>2. CASE StartLocked(c)
    <2>1. /\ UNCHANGED <<started, store, renewal>> /\ mu = None /\ mu' = c /\ ~started
          /\ pc' = [pc EXCEPT ![c] = "exchange"]
          /\ \A a \in Actors \ {c} : x'[a] = x[a]
      BY <1>0, <1>2 DEF StartLocked
    <2>2. \A d \in Callers : pc[d] \notin InMu BY <1>0, <2>1, ActorsAssumption DEF LockInv
    <2>3. LockInv' BY <1>0, <2>1, <2>2 DEF LockInv
    <2>4. OwnerInv' BY <1>0, <2>1, <2>2 DEF OwnerInv, Exchanging, renewal
    <2>5. RunningInv' BY <1>0, <2>1, <2>2 DEF RunningInv, renewal
    <2>6. AliveInv' BY <1>0, <2>1, <2>2 DEF AliveInv, RunningInv, StopIsWaiting, Alive, renewal
    <2>7. StoreInv' BY <1>0, <2>1, <2>2 DEF StoreInv
    <2> QED BY <2>1, <2>3, <2>4, <2>5, <2>6, <2>7 DEF renewal
  <1>3. ASSUME pc[c] \in InMu
        PROVE  /\ mu = c /\ ~running /\ \A d \in Callers \ {c} : pc[d] \notin InMu
               /\ (pc[c] # "stopWait" => ~StopIsWaiting /\ \A g \in Loops : ~Alive(g))
    BY <1>0, <1>3 DEF LockInv, RunningInv, AliveInv, StopIsWaiting
  <1>4. CASE StartFailed(c)
    <2>1. /\ UNCHANGED <<started, store, renewal>> /\ mu' = None
          /\ pc[c] = "exchange" /\ pc' = [pc EXCEPT ![c] = "idle"]
          /\ x' = [x EXCEPT ![c] = NoExchange]
      BY <1>4 DEF StartFailed
    <2>2. ~started /\ ~Exchanging(c)' BY <1>0, <2>1 DEF RunningInv, Exchanging, NoExchange
    <2>3. OwnerInv' BY <1>0, <2>1, <2>2 DEF OwnerInv, Exchanging, renewal
    <2> QED
      BY <1>0, <1>3, <2>1, <2>2, <2>3, ActorsAssumption
      DEF LockInv, RunningInv, AliveInv, StoreInv, Alive, StopIsWaiting, renewal
  <1>5. CASE StartStored(c)
    <2>1. /\ UNCHANGED <<mu, started, renewal>>
          /\ pc[c] = "exchange" /\ pc' = [pc EXCEPT ![c] = "spawn"]
          /\ x' = [x EXCEPT ![c] = NoExchange]
      BY <1>5 DEF StartStored
    <2>2. ~started /\ ~Exchanging(c)' BY <1>0, <2>1 DEF RunningInv, Exchanging, NoExchange
    <2>3. OwnerInv' BY <1>0, <2>1, <2>2 DEF OwnerInv, Exchanging, renewal
    <2> QED
      BY <1>0, <1>3, <2>1, <2>2, <2>3
      DEF LockInv, RunningInv, AliveInv, StoreInv, Alive, StopIsWaiting, renewal
  <1>6. CASE StartSpawned(c)
    <2>1. /\ UNCHANGED <<store, x>> /\ mu' = None /\ started' = TRUE
          /\ pc[c] = "spawn" /\ pc' = [pc EXCEPT ![c] = "idle"]
      BY <1>6 DEF StartSpawned
    <2>2. mu = c /\ ~running BY <1>3, <2>1
    <2>3. PICK g \in Loops :
            /\ loop' = [loop EXCEPT ![g] = [DeadLoop EXCEPT !.pc = "spawned"]]
            /\ cancelOf' = g
      BY <1>6, <2>2 DEF StartSpawned, RenewalStart
    <2>4. running' = TRUE /\ UNCHANGED <<doneCh, waitCh, closed, panicked>>
      BY <1>6, <2>2 DEF StartSpawned, RenewalStart
    <2>5. /\ loop'[g].pc = "spawned" /\ loop'[g].cancelled = FALSE
          /\ \A h \in Loops \ {g} : loop'[h] = loop[h] /\ ~Alive(h)'
      BY <1>0, <1>3, <2>1, <2>3 DEF DeadLoop, Alive
    <2>6. doneCh \notin closed BY <1>3, <2>1 DEF AliveInv
    <2>7. AliveInv' BY <2>3, <2>4, <2>5, <2>6 DEF AliveInv, Alive
    <2>8. OwnerInv'
      <3>1. \A a \in Actors : ~Exchanging(a)
        BY <1>3, <2>1 DEF OwnerInv, Alive
      <3> QED BY <2>1, <3>1 DEF OwnerInv, Exchanging
    <2>9. LockInv' BY <1>0, <1>3, <2>1, ActorsAssumption DEF LockInv
    <2>10. RunningInv' BY <1>0, <1>3, <2>1, <2>4 DEF RunningInv
    <2> QED BY <2>1, <2>4, <2>7, <2>8, <2>9, <2>10 DEF StoreInv
  <1>7. CASE StopLocked(c)
    <2>1. /\ UNCHANGED <<started, store, x, cancelOf, doneCh, closed, panicked>>
          /\ mu = None /\ mu' = c /\ started /\ running
      BY <1>7 DEF StopLocked, RunningInv
    <2>2. /\ pc' = [pc EXCEPT ![c] = "stopWait"] /\ running' = FALSE
          /\ waitCh' = [waitCh EXCEPT ![c] = doneCh]
          /\ loop' = [loop EXCEPT ![cancelOf].cancelled = TRUE]
      BY <1>7, <2>1 DEF StopLocked
    <2>3. \A d \in Callers : pc[d] \notin InMu BY <1>0, <2>1, ActorsAssumption DEF LockInv
    <2>4. \A g \in Loops : loop'[g].pc = loop[g].pc /\ loop'[g].ch = loop[g].ch
      BY <1>0, <2>2 DEF LoopState
    <2>5. LockInv' BY <1>0, <2>1, <2>2, <2>3 DEF LockInv
    <2>6. OwnerInv' BY <1>0, <2>1, <2>2, <2>3, <2>4 DEF OwnerInv, Exchanging
    <2>7. RunningInv' BY <1>0, <2>1, <2>2, <2>3 DEF RunningInv
    <2>8. StopIsWaiting' BY <1>0, <2>2 DEF StopIsWaiting
    <2>9. AliveInv' BY <2>1, <2>2, <2>3, <2>4, <2>8 DEF AliveInv, Alive, StopIsWaiting
    <2> QED BY <2>1, <2>5, <2>6, <2>7, <2>9 DEF StoreInv
  <1>8. CASE StopWaited(c)
    <2>1. /\ UNCHANGED <<mu, started, store, x, running, cancelOf, loop, panicked>>
          /\ pc[c] = "stopWait" /\ pc' = [pc EXCEPT ![c] = "stopClear"]
          /\ waitCh[c] \in closed /\ doneCh' \notin closed'
      BY <1>8 DEF StopWaited
    <2>2. \A g \in Loops : ~Alive(g) BY <2>1 DEF RunningInv, AliveInv
    <2>3. OwnerInv' BY <1>0, <2>1 DEF OwnerInv, Exchanging
    <2> QED
      BY <1>0, <1>3, <2>1, <2>2, <2>3 DEF LockInv, RunningInv, AliveInv, StoreInv, Alive
  <1>9. CASE StopCleared(c)
    <2>1. /\ UNCHANGED <<x, renewal>> /\ mu' = None /\ started' = FALSE /\ store' = None
          /\ pc[c] = "stopClear" /\ pc' = [pc EXCEPT ![c] = "idle"]
      BY <1>9 DEF StopCleared, StoreClear
    <2>2. OwnerInv' BY <1>0, <2>1 DEF OwnerInv, Exchanging, renewal
    <2> QED
      BY <1>0, <1>3, <2>1, <2>2, ActorsAssumption
      DEF LockInv, RunningInv, AliveInv, StoreInv, Alive, StopIsWaiting, renewal
  <1> QED
    BY <1>1, <1>2, <1>4, <1>5, <1>6, <1>7, <1>8, <1>9 DEF LockStep, CallStep

LEMMA StepLifecycle == DataInv /\ LifecycleInv /\ [Next]_vars => LifecycleInv'
  <1> SUFFICES ASSUME DataInv, LifecycleInv, [Next]_vars PROVE LifecycleInv'
    OBVIOUS
  <1>1. CASE UNCHANGED vars
    BY <1>1 DEF LifecycleInv, LockInv, OwnerInv, RunningInv, AliveInv, StoreInv, StopIsWaiting,
                Alive, Exchanging, vars, lifecycle, renewal
  <1>2. CASE Next
    BY <1>2, CallerLifecycle, LoopLifecycle, LoopEndLifecycle, ExchangeLifecycle, WorldLifecycle
    DEF Next
  <1> QED BY <1>1, <1>2

LEMMA AlwaysLifecycle == Spec => []LifecycleInv
  BY InitLifecycle, StepLifecycle, AlwaysData, PTL DEF Spec

LEMMA LifecycleOneExchange == LifecycleInv => OneExchange
  BY DEF LifecycleInv, LockInv, OwnerInv, RunningInv, AliveInv, OneExchange, InMu,
         StopIsWaiting, Alive

LEMMA LifecycleQuiet == LifecycleInv => QuietAfterStop
  BY ActorsAssumption
  DEF LifecycleInv, QuietAfterStop, LockInv, OwnerInv, RunningInv, AliveInv, StoreInv, InMu,
      StopIsWaiting, Alive

\* When Stop has returned, nothing of the provider is left: no credential, no
\* renewal goroutine and no exchange, whatever raced with the Stop.
THEOREM StopIsQuiet == Spec => []QuietAfterStop
  BY LifecycleQuiet, AlwaysLifecycle, PTL

\* However often the provider is restarted, there is at most one renewal
\* goroutine.
THEOREM AtMostOneLoop == Spec => []OneLoop
  <1>1. LifecycleInv => OneLoop BY DEF LifecycleInv, AliveInv, OneLoop
  <1> QED BY <1>1, AlwaysLifecycle, PTL

\* No `done` channel is ever closed twice.
THEOREM NoDoubleClose == Spec => []DoneClosedOnce
  <1>1. LifecycleInv => DoneClosedOnce BY DEF LifecycleInv, DoneClosedOnce
  <1> QED BY <1>1, AlwaysLifecycle, PTL

\* Two exchanges of one provider never overlap.
THEOREM AtMostOneExchange == Spec => []OneExchange
  BY LifecycleOneExchange, AlwaysLifecycle, PTL

--------------------------------------------------------------------------------
(* What an exchange carries.                                                 *)

\* A record between two exchanges is empty, an exchange holds a response only
\* while it reads it, and from the first request on it has a response key.
RecordInv ==
    \A a \in Actors :
        /\ x[a].pc = "none" => x[a] = NoExchange
        /\ x[a].pc \notin {"wait", "rewait", "ok"} => x[a].resp = None
        /\ x[a].pc \in {"send", "wait", "resend", "rewait"} => x[a].key # None

\* The nonce of a challenge is the prover's until the retry has used it: no
\* other exchange runs that could replace it.
RetryInv ==
    \A a \in Actors :
        /\ x[a].pc = "resend" => x[a].challenge = nonce
        /\ x[a].pc = "rewait" => x[a].nonce = x[a].challenge

\* Every hardware key in use or sent is the cached one, and mode "required"
\* gets no further than prepareHardware without it.
BindingInv ==
    /\ \A a \in Actors :
         /\ x[a].hw # None => x[a].hw = hw
         /\ cfg.mode = "required" /\ x[a].pc \in {"attest", "send"} => x[a].hw # None
    /\ hwSent \subseteq {hw, None}
    /\ cfg.mode = "required" => None \notin hwSent

\* A package the configuration and the environment accept.
Vetted(pkg) ==
    /\ pkg.key = None => cfg.plaintextOK \/ env = "local"
    /\ cfg.reqSig => pkg.q.sig = "valid"
    /\ pkg.q.full

\* What was decoded, or stored, was accepted in the environment of now: the
\* environment is settled by a Start that finds neither.
VettedInv ==
    /\ NewProvider(cfg)
    /\ \A a \in Actors : x[a].pc = "ok" => Vetted(x[a].resp.pkg)
    /\ store # None => Vetted(store.pkg)

\* A response can be opened with the key of its exchange.
Opens(a) == x[a].resp # None /\ x[a].resp.pkg # None /\ x[a].resp.pkg.key = x[a].key

\* No exchange holds the key of a package that was stored, so what it can open
\* is new.
FreshInv ==
    /\ \A p \in issued : p.key # None /\ p.id # None
    /\ \A p \in issued, a \in Actors : p.id \in installed => p.key # x[a].key
    /\ \A a \in Actors :
         /\ Opens(a) => x[a].resp.pkg.id \notin installed
         /\ x[a].resp # None /\ x[a].resp.pkg # None /\ x[a].resp.pkg.key = None =>
              x[a].resp.pkg.id = None
         /\ x[a].pc = "ok" /\ x[a].resp.pkg.key # None => x[a].resp.pkg.key = x[a].key

ExchangeInv == RecordInv /\ RetryInv /\ BindingInv /\ VettedInv /\ FreshInv

LEMMA InitExchange == Init => ExchangeInv
  <1> SUFFICES ASSUME Init PROVE ExchangeInv
    OBVIOUS
  <1>1. \A a \in Actors : x[a] = NoExchange BY DEF Init
  <1>2. RecordInv BY <1>1 DEF RecordInv, NoExchange
  <1>3. RetryInv BY <1>1 DEF RetryInv, NoExchange
  <1>4. BindingInv BY <1>1 DEF Init, BindingInv, NoExchange
  <1>5. VettedInv BY <1>1 DEF Init, VettedInv, NoExchange
  <1>6. FreshInv BY <1>1 DEF Init, FreshInv, Opens, NoExchange
  <1> QED BY <1>2, <1>3, <1>4, <1>5, <1>6 DEF ExchangeInv

\* While an exchange runs, the records of all other actors are empty.
LEMMA OthersIdle ==
    ASSUME LifecycleInv, RecordInv, NEW a \in Actors, Exchanging(a)
    PROVE  \A b \in Actors \ {a} : x[b] = NoExchange
  BY LifecycleOneExchange DEF OneExchange, RecordInv, Exchanging

\* The fields of an exchange record after a step that replaces some of them.
LEMMA FailExchange ==
    ASSUME DataInv, LifecycleInv, ExchangeInv, NEW a \in Actors, Exchanging(a),
           ExchangeFails(a),
           UNCHANGED <<cfg, env, store, issued, installed, hw, hwSent>>
    PROVE  ExchangeInv'
  <1> DEFINE e == [x[a] EXCEPT !.pc = "failed", !.resp = None]
  <1>1. x[a] \in Exchange /\ x' = [x EXCEPT ![a] = e] BY DEF ExchangeFails, DataInv, TypeOK
  <1>2. /\ e.pc = "failed" /\ e.resp = None /\ e.hw = x[a].hw /\ e.key = x[a].key
    BY <1>1 DEF Exchange
  <1> HIDE DEF e
  <1>3. x'[a] = e /\ \A b \in Actors \ {a} : x'[b] = NoExchange
    BY <1>1, OthersIdle DEF ExchangeInv, DataInv, TypeOK
  <1> USE DEF NoExchange
  <1>4. RecordInv' BY <1>2, <1>3 DEF RecordInv
  <1>5. RetryInv' BY <1>2, <1>3 DEF RetryInv
  <1>6. BindingInv' BY <1>2, <1>3 DEF ExchangeInv, BindingInv
  <1>7. VettedInv' BY <1>2, <1>3 DEF ExchangeInv, VettedInv, Vetted
  <1>8. FreshInv' BY <1>2, <1>3 DEF ExchangeInv, FreshInv, Opens
  <1> QED BY <1>4, <1>5, <1>6, <1>7, <1>8 DEF ExchangeInv

LEMMA PrepareHardwareExchange ==
    ASSUME DataInv, LifecycleInv, ExchangeInv, NEW a \in Actors, PrepareHardware(a)
    PROVE  ExchangeInv'
  <1>0. /\ UNCHANGED <<cfg, env, store, issued, installed, nonce, hwSent>>
        /\ x[a].pc = "hardware" /\ Exchanging(a) /\ x[a] \in Exchange
    BY DEF PrepareHardware, lifecycle, backend, Exchanging, DataInv, TypeOK
  <1>1. ASSUME NEW k \in HwKeys \cup {None}, WithHardware(a, k),
               k # None => hw' = k, hw # None => hw' = hw,
               k = None => cfg.mode # "required"
        PROVE  ExchangeInv'
    <2> DEFINE e == [x[a] EXCEPT !.pc = "attest", !.hw = k]
    <2>1. x' = [x EXCEPT ![a] = e] BY <1>1 DEF WithHardware
    <2>2. e.pc = "attest" /\ e.hw = k /\ e.key = x[a].key /\ e.resp = x[a].resp
      BY <1>0 DEF Exchange
    <2> HIDE DEF e
    <2>3. x'[a] = e /\ \A b \in Actors \ {a} : x'[b] = NoExchange
      BY <1>0, <2>1, OthersIdle DEF ExchangeInv, DataInv, TypeOK
    <2> USE DEF NoExchange
    <2>4. RecordInv' BY <1>0, <2>2, <2>3 DEF ExchangeInv, RecordInv
    <2>5. RetryInv' BY <2>2, <2>3 DEF RetryInv
    <2>6. BindingInv' BY <1>0, <1>1, <2>2, <2>3 DEF ExchangeInv, BindingInv
    <2>7. VettedInv' BY <1>0, <2>2, <2>3 DEF ExchangeInv, VettedInv, Vetted
    <2>8. FreshInv' BY <1>0, <2>2, <2>3 DEF ExchangeInv, FreshInv, Opens, RecordInv
    <2> QED BY <2>4, <2>5, <2>6, <2>7, <2>8 DEF ExchangeInv
  <1>2. hw \in HwKeys \cup {None} /\ None \notin HwKeys
    BY ActorsAssumption DEF DataInv, TypeOK
  <1>3. \/ ExchangeFails(a) /\ UNCHANGED hw
        \/ \E k \in HwKeys \cup {None} :
             /\ WithHardware(a, k)
             /\ (k # None => hw' = k) /\ (hw # None => hw' = hw)
             /\ (k = None => cfg.mode # "required")
    BY <1>2 DEF PrepareHardware, WithoutHardware
  <1> QED BY <1>0, <1>1, <1>3, FailExchange

\* A fresh response key is the key of no package in circulation.
LEMMA AttestExchange ==
    ASSUME DataInv, LifecycleInv, ExchangeInv, NEW a \in Actors, Attest(a)
    PROVE  ExchangeInv'
  <1>0. /\ UNCHANGED <<cfg, env, store, issued, installed, nonce, hw, hwSent>>
        /\ x[a].pc = "attest" /\ Exchanging(a) /\ x[a] \in Exchange
    BY DEF Attest, lifecycle, backend, Exchanging, DataInv, TypeOK
  <1>1. ASSUME NEW k \in FreshKeys, x' = [x EXCEPT ![a].pc = "send", ![a].key = k]
        PROVE  ExchangeInv'
    <2> DEFINE e == [x[a] EXCEPT !.pc = "send", !.key = k]
    <2>1. x' = [x EXCEPT ![a] = e] BY <1>1
    <2>2. e.pc = "send" /\ e.hw = x[a].hw /\ e.key = k /\ e.resp = x[a].resp
      BY <1>0 DEF Exchange
    <2> HIDE DEF e
    <2>3. x'[a] = e /\ \A b \in Actors \ {a} : x'[b] = NoExchange
      BY <1>0, <2>1, OthersIdle DEF ExchangeInv, DataInv, TypeOK
    <2>0. k # None /\ \A p \in issued : p.key # k BY ActorsAssumption DEF FreshKeys
    <2> USE DEF NoExchange
    <2>4. RecordInv' BY <1>0, <2>0, <2>2, <2>3 DEF ExchangeInv, RecordInv
    <2>5. RetryInv' BY <2>2, <2>3 DEF RetryInv
    <2>6. BindingInv' BY <1>0, <2>2, <2>3 DEF ExchangeInv, BindingInv
    <2>7. VettedInv' BY <1>0, <2>2, <2>3 DEF ExchangeInv, VettedInv, Vetted
    <2>8. FreshInv' BY <1>0, <2>0, <2>2, <2>3 DEF ExchangeInv, FreshInv, Opens, RecordInv
    <2> QED BY <2>4, <2>5, <2>6, <2>7, <2>8 DEF ExchangeInv
  <1> QED BY <1>0, <1>1, FailExchange DEF Attest

LEMMA SendExchange ==
    ASSUME DataInv, LifecycleInv, ExchangeInv, NEW a \in Actors, Send(a)
    PROVE  ExchangeInv'
  <1>0. /\ UNCHANGED <<cfg, env, store, issued, installed, nonce, hw>>
        /\ x[a].pc = "send" /\ Exchanging(a) /\ x[a] \in Exchange
        /\ hwSent' = hwSent \cup {x[a].hw}
    BY DEF Send, lifecycle, backend, Exchanging, DataInv, TypeOK
  <1> DEFINE e == [x[a] EXCEPT !.pc = "wait", !.nonce = nonce]
  <1>1. x' = [x EXCEPT ![a] = e] BY DEF Send
  <1>2. e.pc = "wait" /\ e.hw = x[a].hw /\ e.key = x[a].key /\ e.resp = x[a].resp
    BY <1>0 DEF Exchange
  <1> HIDE DEF e
  <1>3. x'[a] = e /\ \A b \in Actors \ {a} : x'[b] = NoExchange
    BY <1>0, <1>1, OthersIdle DEF ExchangeInv, DataInv, TypeOK
  <1> USE DEF NoExchange
  <1>4. RecordInv' BY <1>0, <1>2, <1>3 DEF ExchangeInv, RecordInv
  <1>5. RetryInv' BY <1>2, <1>3 DEF RetryInv
  <1>6. BindingInv' BY <1>0, <1>2, <1>3 DEF ExchangeInv, BindingInv
  <1>7. VettedInv' BY <1>0, <1>2, <1>3 DEF ExchangeInv, VettedInv, Vetted
  <1>8. FreshInv' BY <1>0, <1>2, <1>3 DEF ExchangeInv, FreshInv, Opens, RecordInv
  <1> QED BY <1>4, <1>5, <1>6, <1>7, <1>8 DEF ExchangeInv

\* Finish accepts a package only when the configuration does.
LEMMA FinishExchange ==
    ASSUME DataInv, LifecycleInv, ExchangeInv, NEW a \in Actors, Exchanging(a),
           x[a].resp # None, Finish(a, x[a].resp),
           UNCHANGED <<cfg, env, store, issued, installed, hw, hwSent>>
    PROVE  ExchangeInv'
  <1> DEFINE e == [x[a] EXCEPT !.pc = "ok"]
  <1>0. CASE ExchangeFails(a) BY <1>0, FailExchange
  <1>1. CASE /\ x[a].resp.status = "200" /\ Decodes(a, x[a].resp.pkg)
             /\ x' = [x EXCEPT ![a] = e]
    <2>0. x[a] \in Exchange /\ x[a].resp \in Response BY DEF Exchange, DataInv, TypeOK
    <2>2. e.pc = "ok" /\ e.hw = x[a].hw /\ e.key = x[a].key /\ e.resp = x[a].resp
      BY <2>0 DEF Exchange
    <2> HIDE DEF e
    <2>3. x'[a] = e /\ \A b \in Actors \ {a} : x'[b] = NoExchange
      BY <1>1, OthersIdle DEF ExchangeInv, DataInv, TypeOK
    <2>1. x[a].resp.pkg # None BY <1>1, <2>0, PackageFacts
    <2>9. Vetted(x[a].resp.pkg)
      BY <1>1 DEF Decodes, Vetted, ExchangeInv, VettedInv, NewProvider
    <2> USE DEF NoExchange
    <2>4. RecordInv' BY <2>2, <2>3 DEF RecordInv
    <2>5. RetryInv' BY <2>2, <2>3 DEF RetryInv
    <2>6. BindingInv' BY <2>2, <2>3 DEF ExchangeInv, BindingInv
    <2>7. VettedInv' BY <2>2, <2>3, <2>9 DEF ExchangeInv, VettedInv, Vetted
    <2>8. FreshInv' BY <1>1, <2>1, <2>2, <2>3 DEF ExchangeInv, FreshInv, Opens, Decodes
    <2> QED BY <2>4, <2>5, <2>6, <2>7, <2>8 DEF ExchangeInv
  <1> QED BY <1>0, <1>1 DEF Finish

LEMMA ReceiveExchange ==
    ASSUME DataInv, LifecycleInv, ExchangeInv, NEW a \in Actors, Receive(a)
    PROVE  ExchangeInv'
  <1>0. /\ UNCHANGED <<cfg, env, store, issued, installed, hw, hwSent>>
        /\ x[a].pc = "wait" /\ x[a].resp # None /\ Exchanging(a) /\ x[a] \in Exchange
    BY DEF Receive, lifecycle, backend, Exchanging, DataInv, TypeOK
  <1> DEFINE r == x[a].resp
             e == [x[a] EXCEPT !.pc = "resend", !.challenge = r.nonce, !.resp = None]
  <1>1. CASE Finish(a, r) BY <1>0, <1>1, FinishExchange
  <1>2. CASE x' = [x EXCEPT ![a] = e] /\ nonce' = r.nonce
    <2>2. /\ e.pc = "resend" /\ e.hw = x[a].hw /\ e.key = x[a].key /\ e.resp = None
          /\ e.challenge = r.nonce
      BY <1>0 DEF Exchange
    <2> HIDE DEF e
    <2>3. x'[a] = e /\ \A b \in Actors \ {a} : x'[b] = NoExchange
      BY <1>0, <1>2, OthersIdle DEF ExchangeInv, DataInv, TypeOK
    <2> USE DEF NoExchange
    <2>4. RecordInv' BY <1>0, <2>2, <2>3 DEF ExchangeInv, RecordInv
    <2>5. RetryInv' BY <1>2, <2>2, <2>3 DEF RetryInv
    <2>6. BindingInv' BY <1>0, <2>2, <2>3 DEF ExchangeInv, BindingInv
    <2>7. VettedInv' BY <1>0, <2>2, <2>3 DEF ExchangeInv, VettedInv, Vetted
    <2>8. FreshInv' BY <1>0, <2>2, <2>3 DEF ExchangeInv, FreshInv, Opens
    <2> QED BY <2>4, <2>5, <2>6, <2>7, <2>8 DEF ExchangeInv
  <1> QED BY <1>1, <1>2 DEF Receive

LEMMA ResendExchange ==
    ASSUME DataInv, LifecycleInv, ExchangeInv, NEW a \in Actors, Resend(a)
    PROVE  ExchangeInv'
  <1>0. /\ UNCHANGED <<cfg, env, store, issued, installed, nonce, hw, hwSent>>
        /\ x[a].pc = "resend" /\ Exchanging(a) /\ x[a] \in Exchange
    BY DEF Resend, lifecycle, backend, Exchanging, DataInv, TypeOK
  <1> DEFINE e == [x[a] EXCEPT !.pc = "rewait", !.nonce = nonce]
  <1>1. x' = [x EXCEPT ![a] = e] BY DEF Resend
  <1>2. /\ e.pc = "rewait" /\ e.hw = x[a].hw /\ e.key = x[a].key /\ e.resp = x[a].resp
        /\ e.nonce = nonce /\ e.challenge = x[a].challenge
    BY <1>0 DEF Exchange
  <1> HIDE DEF e
  <1>3. x'[a] = e /\ \A b \in Actors \ {a} : x'[b] = NoExchange
    BY <1>0, <1>1, OthersIdle DEF ExchangeInv, DataInv, TypeOK
  <1> USE DEF NoExchange
  <1>4. RecordInv' BY <1>0, <1>2, <1>3 DEF ExchangeInv, RecordInv
  <1>5. RetryInv' BY <1>0, <1>2, <1>3 DEF ExchangeInv, RetryInv
  <1>6. BindingInv' BY <1>0, <1>2, <1>3 DEF ExchangeInv, BindingInv
  <1>7. VettedInv' BY <1>0, <1>2, <1>3 DEF ExchangeInv, VettedInv, Vetted
  <1>8. FreshInv' BY <1>0, <1>2, <1>3 DEF ExchangeInv, FreshInv, Opens, RecordInv
  <1> QED BY <1>4, <1>5, <1>6, <1>7, <1>8 DEF ExchangeInv

LEMMA ReceiveRetryExchange ==
    ASSUME DataInv, LifecycleInv, ExchangeInv, NEW a \in Actors, ReceiveRetry(a)
    PROVE  ExchangeInv'
  BY FinishExchange DEF ReceiveRetry, lifecycle, backend, Exchanging

\* An answer changes the record of a request that waits, and nothing else of
\* the program.
LEMMA AnswerExchange ==
    ASSUME DataInv, LifecycleInv, ExchangeInv, NEW a \in Actors, NEW r, Pending(a), Answer(a, r),
           installed' \subseteq installed,
           \A p \in issued' :
              p.key # None /\ p.id # None /\ (p.id \in installed' => p.key # x[a].key),
           r.pkg # None => /\ r.pkg.key = x[a].key => r.pkg.id \notin installed'
                           /\ r.pkg.key = None => r.pkg.id = None
    PROVE  ExchangeInv'
  <1>0. /\ UNCHANGED <<cfg, env, store, nonce, hw, hwSent>>
        /\ x[a].pc \in {"wait", "rewait"} /\ Exchanging(a) /\ x[a] \in Exchange
    BY DEF Answer, Pending, lifecycle, Exchanging, DataInv, TypeOK
  <1> DEFINE e == [x[a] EXCEPT !.resp = r]
  <1>1. x' = [x EXCEPT ![a] = e] BY DEF Answer
  <1>2. /\ e.pc = x[a].pc /\ e.hw = x[a].hw /\ e.key = x[a].key /\ e.resp = r
        /\ e.nonce = x[a].nonce /\ e.challenge = x[a].challenge
    BY <1>0 DEF Exchange
  <1> HIDE DEF e
  <1>3. x'[a] = e /\ \A b \in Actors \ {a} : x'[b] = NoExchange
    BY <1>0, <1>1, OthersIdle DEF ExchangeInv, DataInv, TypeOK
  <1> USE DEF NoExchange
  <1>4. RecordInv' BY <1>0, <1>2, <1>3 DEF ExchangeInv, RecordInv
  <1>5. RetryInv' BY <1>0, <1>2, <1>3 DEF ExchangeInv, RetryInv
  <1>6. BindingInv' BY <1>0, <1>2, <1>3 DEF ExchangeInv, BindingInv
  <1>7. VettedInv' BY <1>0, <1>2, <1>3 DEF ExchangeInv, VettedInv, Vetted
  <1>8. FreshInv' BY <1>0, <1>2, <1>3 DEF ExchangeInv, FreshInv, Opens
  <1> QED BY <1>4, <1>5, <1>6, <1>7, <1>8 DEF ExchangeInv

\* What the backend delivers: a new package is not among the stored ones, and
\* an old one that was stored is under another key.
LEMMA ServeExchange ==
    ASSUME DataInv, LifecycleInv, ExchangeInv, NEW a \in Actors, Serve(a) \/ RequestFails(a)
    PROVE  ExchangeInv'
  <1>0. FreshInv /\ RecordInv BY DEF ExchangeInv
  <1>1. \A p \in issued :
           p.key # None /\ p.id # None /\ (p.id \in installed => p.key # x[a].key)
    BY <1>0 DEF FreshInv
  <1>2. CASE Challenge(a)
    <2> DEFINE r == [status |-> "401", nonce |-> srvNonce, pkg |-> None]
    <2>1. r.pkg = None OBVIOUS
    <2>2. Answer(a, r) BY <1>2 DEF Challenge
    <2> HIDE DEF r
    <2> QED BY <1>1, <1>2, <2>1, <2>2, AnswerExchange DEF Challenge
  <1>3. CASE Refuse(a)
    <2> PICK n \in NonceHeaders : Answer(a, [status |-> "5xx", nonce |-> n, pkg |-> None])
      BY <1>3 DEF Refuse
    <2> DEFINE r == [status |-> "5xx", nonce |-> n, pkg |-> None]
    <2>1. r.pkg = None /\ Answer(a, r) OBVIOUS
    <2> HIDE DEF r
    <2> QED BY <1>1, <1>3, <2>1, AnswerExchange DEF Refuse
  <1>4. CASE Issue(a)
    <2> PICK q \in (IF healthy THEN {GoodQuality} ELSE Qualities), n \in NonceHeaders,
             id \in PkgIds \ {p.id : p \in issued} :
          LET p == [id |-> id, key |-> x[a].key, q |-> q] IN
          /\ issued' \in {k \in SUBSET (issued \cup {p}) : Cardinality(k) <= MaxCirculating}
          /\ installed' = (installed \ {id}) \cap {k.id : k \in issued'}
          /\ Answer(a, [status |-> "200", nonce |-> n, pkg |-> p])
      BY <1>4 DEF Issue
    <2> DEFINE p == [id |-> id, key |-> x[a].key, q |-> q]
               r == [status |-> "200", nonce |-> n, pkg |-> p]
    <2>1. /\ Answer(a, r) /\ r.pkg = p /\ p.id = id /\ p.key = x[a].key
          /\ issued' \subseteq issued \cup {p}
      OBVIOUS
    <2>2. installed' \subseteq installed \ {id} /\ id # None BY ActorsAssumption
    <2>3. x[a].key # None BY <1>0, <1>4 DEF Issue, Pending, RecordInv
    <2> HIDE DEF r, p
    <2>4. \A k \in issued' :
             k.key # None /\ k.id # None /\ (k.id \in installed' => k.key # x[a].key)
      BY <1>1, <2>1, <2>2, <2>3
    <2> QED BY <1>4, <2>1, <2>2, <2>3, <2>4, AnswerExchange DEF Issue
  <1>5. CASE IssuePlaintext(a)
    <2> PICK q \in Qualities :
          Answer(a, [status |-> "200", nonce |-> None,
                     pkg |-> [id |-> None, key |-> None, q |-> q]])
      BY <1>5 DEF IssuePlaintext
    <2> DEFINE r == [status |-> "200", nonce |-> None,
                     pkg |-> [id |-> None, key |-> None, q |-> q]]
    <2>1. Answer(a, r) /\ r.pkg.id = None /\ r.pkg.key = None OBVIOUS
    <2>2. x[a].key # None BY <1>0, <1>5 DEF IssuePlaintext, Pending, RecordInv
    <2> HIDE DEF r
    <2> QED BY <1>1, <1>5, <2>1, <2>2, AnswerExchange DEF IssuePlaintext
  <1>6. CASE DeliverAgain(a)
    <2> PICK p \in issued : Answer(a, [status |-> "200", nonce |-> None, pkg |-> p])
      BY <1>6 DEF DeliverAgain
    <2> DEFINE r == [status |-> "200", nonce |-> None, pkg |-> p]
    <2>1. Answer(a, r) /\ r.pkg = p OBVIOUS
    <2> HIDE DEF r
    <2> QED BY <1>1, <1>6, <2>1, AnswerExchange DEF DeliverAgain
  <1>7. CASE RequestFails(a)
    BY <1>7, FailExchange DEF RequestFails, lifecycle, backend, Exchanging
  <1> QED BY <1>2, <1>3, <1>4, <1>5, <1>6, <1>7 DEF Serve

\* An exchange begins with the empty record.
LEMMA BeginExchange ==
    ASSUME DataInv, ExchangeInv, NEW a \in Actors, ~Exchanging(a),
           x' = [x EXCEPT ![a].pc = "hardware"],
           UNCHANGED <<cfg, store, issued, installed, nonce, hw, hwSent>>,
           env' = env \/ (store = None /\ \A b \in Actors : ~Exchanging(b))
    PROVE  ExchangeInv'
  <1> DEFINE e == [x[a] EXCEPT !.pc = "hardware"]
  <1>0. x[a] = NoExchange BY DEF ExchangeInv, RecordInv, Exchanging
  <1>1. x' = [x EXCEPT ![a] = e] OBVIOUS
  <1>2. e.pc = "hardware" /\ e.hw = None /\ e.key = None /\ e.resp = None
    BY <1>0 DEF NoExchange
  <1> HIDE DEF e
  <1>3. x'[a] = e /\ \A b \in Actors \ {a} : x'[b] = x[b]
    BY <1>1 DEF DataInv, TypeOK
  <1>4. RecordInv' BY <1>2, <1>3 DEF ExchangeInv, RecordInv, NoExchange
  <1>5. RetryInv' BY <1>2, <1>3 DEF ExchangeInv, RetryInv
  <1>6. BindingInv' BY <1>2, <1>3 DEF ExchangeInv, BindingInv
  <1>7. VettedInv' BY <1>2, <1>3 DEF ExchangeInv, VettedInv, Vetted, Exchanging
  <1>8. FreshInv' BY <1>2, <1>3 DEF ExchangeInv, FreshInv, Opens
  <1> QED BY <1>4, <1>5, <1>6, <1>7, <1>8 DEF ExchangeInv

\* An exchange ends: its record is empty again, so no record holds a key, and
\* its package, if it has one, may have been stored.
LEMMA EndExchange ==
    ASSUME DataInv, LifecycleInv, ExchangeInv, NEW a \in Actors, Exchanging(a),
           x' = [x EXCEPT ![a] = NoExchange],
           UNCHANGED <<cfg, env, issued, nonce, hw, hwSent>>,
           \/ UNCHANGED <<store, installed>>
           \/ x[a].pc = "ok" /\ StoreSet(x[a].resp.pkg)
    PROVE  ExchangeInv'
  <1>1. \A b \in Actors : x'[b] = NoExchange
    BY OthersIdle DEF ExchangeInv, DataInv, TypeOK
  <1> USE DEF NoExchange
  <1>2. RecordInv' BY <1>1 DEF RecordInv
  <1>3. RetryInv' BY <1>1 DEF RetryInv
  <1>4. BindingInv' BY <1>1 DEF ExchangeInv, BindingInv
  <1>5. VettedInv'
    <2>1. CASE UNCHANGED store BY <1>1, <2>1 DEF ExchangeInv, VettedInv, Vetted
    <2>2. CASE x[a].pc = "ok" /\ StoreSet(x[a].resp.pkg)
      <3> DEFINE p == x[a].resp.pkg
      <3>1. Vetted(p) BY <2>2 DEF ExchangeInv, VettedInv
      <3>2. store'.pkg = p BY <2>2 DEF StoreSet
      <3> HIDE DEF p
      <3> QED BY <1>1, <3>1, <3>2 DEF ExchangeInv, VettedInv, Vetted
    <2> QED BY <2>1, <2>2
  <1>6. FreshInv' BY <1>1 DEF ExchangeInv, FreshInv, Opens
  <1> QED BY <1>2, <1>3, <1>4, <1>5, <1>6 DEF ExchangeInv

\* Steps that touch no exchange and nothing that one carries.
LEMMA IdleExchange ==
    ASSUME DataInv, ExchangeInv,
           UNCHANGED <<cfg, env, x, issued, installed, nonce, hw, hwSent>>,
           store' = store \/ store' = None \/ (store # None /\ store'.pkg = store.pkg)
    PROVE  ExchangeInv'
  <1>1. RecordInv' BY DEF ExchangeInv, RecordInv
  <1>2. RetryInv' BY DEF ExchangeInv, RetryInv
  <1>3. BindingInv' BY DEF ExchangeInv, BindingInv
  <1>4. VettedInv' BY DEF ExchangeInv, VettedInv, Vetted
  <1>5. FreshInv' BY DEF ExchangeInv, FreshInv, Opens
  <1> QED BY <1>1, <1>2, <1>3, <1>4, <1>5 DEF ExchangeInv

LEMMA LoopExchange ==
    ASSUME DataInv, LifecycleInv, ExchangeInv, NEW g \in Loops, LoopStep(g) \/ SleepCancelled(g)
    PROVE  ExchangeInv'
  <1>1. CASE RenewAttempt(g)
    <2>1. ~Exchanging(g) BY <1>1 DEF RenewAttempt, LifecycleInv, OwnerInv
    <2> QED BY <1>1, <2>1, BeginExchange DEF RenewAttempt, lifecycle, backend
  <1>2. CASE RenewSucceeded(g) \/ RenewFailed(g)
    <2>1. Exchanging(g) BY <1>2 DEF RenewSucceeded, RenewFailed, Exchanging
    <2> QED
      BY <1>2, <2>1, EndExchange DEF RenewSucceeded, RenewFailed, lifecycle, backend
  <1>3. CASE LoopEnter(g) \/ SleepElapsed(g) \/ SleepCancelled(g) \/ RenewReturns(g)
               \/ BackoffElapsed(g) \/ BackoffCancelled(g)
    BY <1>3, IdleExchange
    DEF LoopEnter, SleepElapsed, SleepCancelled, RenewReturns, BackoffElapsed,
        BackoffCancelled, lifecycle, backend
  <1> QED BY <1>1, <1>2, <1>3 DEF LoopStep

\* A Start that settles the environment finds no exchange and no credential.
LEMMA CallerExchange ==
    ASSUME DataInv, LifecycleInv, ExchangeInv, NEW c \in Callers,
           StartCall(c) \/ StopCall(c) \/ LockStep(c) \/ CallStep(c)
    PROVE  ExchangeInv'
  <1>1. CASE StartLocked(c)
    <2>1. store = None /\ \A b \in Actors : ~Exchanging(b)
      BY <1>1, LifecycleQuiet DEF StartLocked, QuietAfterStop
    <2> QED BY <1>1, <2>1, BeginExchange DEF StartLocked, backend, renewal
  <1>2. CASE StartFailed(c) \/ StartStored(c)
    <2>1. Exchanging(c) BY <1>2 DEF StartFailed, StartStored, Exchanging
    <2> QED BY <1>2, <2>1, EndExchange DEF StartFailed, StartStored, backend
  <1>3. CASE StartCall(c) \/ StopCall(c) \/ StartAgain(c) \/ StopAgain(c) \/ StopLocked(c)
    BY <1>3, IdleExchange DEF StartCall, StopCall, StartAgain, StopAgain, StopLocked, backend
  <1>4. CASE StartSpawned(c) \/ StopWaited(c) \/ StopCleared(c)
    BY <1>4, IdleExchange DEF StartSpawned, StopWaited, StopCleared, StoreClear, backend
  <1> QED BY <1>1, <1>2, <1>3, <1>4 DEF LockStep, CallStep

LEMMA WorldExchange ==
    ASSUME DataInv, ExchangeInv, RotateNonce \/ HealthChanges \/ Expire
    PROVE  ExchangeInv'
  <1>1. CASE Expire
    <2>1. store \in Credential BY <1>1 DEF Expire, DataInv, TypeOK
    <2>2. store'.pkg = store.pkg BY <1>1, <2>1 DEF Expire, Credential
    <2> QED BY <1>1, <2>2, IdleExchange DEF Expire, lifecycle, backend
  <1>2. CASE RotateNonce \/ HealthChanges
    BY <1>2, IdleExchange DEF RotateNonce, HealthChanges, lifecycle
  <1> QED BY <1>1, <1>2

LEMMA StepExchange == DataInv /\ LifecycleInv /\ ExchangeInv /\ [Next]_vars => ExchangeInv'
  <1> SUFFICES ASSUME DataInv, LifecycleInv, ExchangeInv, [Next]_vars PROVE ExchangeInv'
    OBVIOUS
  <1>1. CASE UNCHANGED vars
    BY <1>1, IdleExchange DEF vars, lifecycle, backend
  <1>2. ASSUME NEW a \in Actors, ExchangeStep(a) PROVE ExchangeInv'
    BY <1>2, PrepareHardwareExchange, AttestExchange, SendExchange, ReceiveExchange,
       ResendExchange, ReceiveRetryExchange DEF ExchangeStep
  <1>3. CASE Next
    BY <1>2, <1>3, CallerExchange, LoopExchange, ServeExchange, WorldExchange DEF Next
  <1> QED BY <1>1, <1>3

LEMMA AlwaysExchange == Spec => []ExchangeInv
  BY InitExchange, StepExchange, AlwaysData, AlwaysLifecycle, PTL DEF Spec

\* What GetCredential can hand out passed every check of the configuration, in
\* the environment the provider runs in.
THEOREM OnlyVettedStored == Spec => []StoredIsVetted
  <1>1. ExchangeInv => StoredIsVetted
    BY DEF ExchangeInv, VettedInv, Vetted, StoredIsVetted
  <1> QED BY <1>1, AlwaysExchange, PTL

\* A package that was stored is not accepted again, whatever the network
\* delivers a second time.
THEOREM PackagesAreSpent == Spec => []NoPackageTwice
  <1>1. DataInv /\ ExchangeInv => NoPackageTwice
    <2> SUFFICES ASSUME DataInv, ExchangeInv, NEW a \in Actors, x[a].pc = "ok"
                 PROVE  x[a].resp.pkg.id \notin installed
      BY DEF NoPackageTwice
    <2> DEFINE r == x[a].resp
    <2>1. r \in Response /\ r # None /\ r.status = "200" BY DEF DataInv, TypeOK, Exchange
    <2>2. r.pkg # None BY <2>1, PackageFacts
    <2>3. None \notin installed BY ActorsAssumption DEF DataInv, TypeOK
    <2>4. CASE r.pkg.key = None BY <2>1, <2>2, <2>3, <2>4 DEF ExchangeInv, FreshInv
    <2>5. CASE r.pkg.key # None BY <2>1, <2>2, <2>5 DEF ExchangeInv, FreshInv, Opens
    <2> QED BY <2>4, <2>5
  <1> QED BY <1>1, AlwaysData, AlwaysExchange, PTL

\* The retry after a 401 carries the nonce of that 401.
THEOREM RetryIsBound == Spec => []RetryAnswersChallenge
  <1>1. ExchangeInv => RetryAnswersChallenge
    BY DEF ExchangeInv, RetryInv, RetryAnswersChallenge
  <1> QED BY <1>1, AlwaysExchange, PTL

\* All requests of a provider carry the same hardware key, and in mode
\* "required" none goes out without it.
THEOREM OneHardwareKey == Spec => []HardwareBinding
  <1>1. ExchangeInv => HardwareBinding
    BY DEF ExchangeInv, BindingInv, HardwareBinding
  <1> QED BY <1>1, AlwaysExchange, PTL
================================================================================
