--------------------------- MODULE TsProviderProofs ----------------------------
(***************************************************************************)
(* Theorems about TsProvider: its types, and that what it stores is vetted,*)
(* bound to required hardware, and emptied only when a successor is ready, *)
(* for any number of overlapping start() calls and renewals.               *)
(***************************************************************************)
EXTENDS TsProvider, TLAPS

\* A chain has a package while it reads one, and a vetted one when exchange()
\* has returned; in required mode it has sent the attestation with its request.
ChainInv ==
    \A c \in Chains :
        /\ x[c].pc \in {"body", "return"} => x[c].pkg \in Package
        /\ x[c].pc = "return" => Vetted(x[c].pkg)
        /\ x[c].pc \in {"request", "retry", "body", "return"} /\ cfg.hardware = "required"
             => x[c].hw

Inv ==
    /\ TypeOK /\ ChainInv
    /\ StoredIsVetted /\ HardwareBinding /\ EmptiedIsTransient

ChainRec == [pc : {"idle", "keygen", "attest", "hardware", "request", "retry",
                   "body", "return", "timer", "backoff", "stalled"},
             renewing : BOOLEAN, attempt : 0..MaxAttempts, hw : BOOLEAN,
             pkg : Package \cup {None}]

\* What ChainInv says of one chain.
Sound(r) ==
    /\ r \in ChainRec
    /\ r.pc \in {"body", "return"} => r.pkg \in Package
    /\ r.pc = "return" => Vetted(r.pkg)
    /\ r.pc \in {"request", "retry", "body", "return"} /\ cfg.hardware = "required" => r.hw

\* Nothing but one chain, which is not about to store a credential, changes.
Only(c, r) ==
    /\ x[c].pc # "return"
    /\ x' = [x EXCEPT ![c] = r]
    /\ UNCHANGED <<cfg, credential>>
    /\ stopped' \in BOOLEAN /\ healthy' \in BOOLEAN /\ renewTimer' \in Chains \cup {None}

--------------------------------------------------------------------------------
(* A step that changes one chain and leaves it sound keeps the invariant.     *)

\* The package checks look at nothing but the package and the configuration.
LEMMA VettedSame == ASSUME cfg' = cfg, NEW p PROVE Vetted(p)' <=> Vetted(p)
  BY DEF Vetted, Readable, SignatureOK

\* The actions of a chain other than Decoded and Install keep the invariant when
\* the chain's new record is sound.
LEMMA OnlyStep ==
    ASSUME Inv, NEW c \in Chains, NEW r, Sound(r), Only(c, r)
    PROVE  Inv'
<1>1. TypeOK'
  BY DEF Inv, TypeOK, Only, Sound, ChainRec
<1>2. x \in [Chains -> ChainRec] /\ ChainInv
  BY DEF Inv, TypeOK, ChainRec
<1>3. \A d \in Chains : x'[d] = IF d = c THEN r ELSE x[d]
  BY <1>2 DEF Only
<1>4. cfg' = cfg /\ credential' = credential
  BY DEF Only
<1>5. ChainInv'
  <2> SUFFICES ASSUME NEW d \in Chains
               PROVE  /\ x'[d].pc \in {"body", "return"} => x'[d].pkg \in Package
                      /\ x'[d].pc = "return" => Vetted(x'[d].pkg)
                      /\ x'[d].pc \in {"request", "retry", "body", "return"}
                           /\ cfg.hardware = "required" => x'[d].hw
    BY <1>4, VettedSame DEF ChainInv, Vetted, Readable, SignatureOK, Package
  <2>1. CASE d = c
    BY <1>3, <2>1 DEF Sound
  <2>2. CASE d # c
    BY <1>3, <1>2, <2>2 DEF ChainInv
  <2> QED BY <2>1, <2>2
<1>6. StoredIsVetted' /\ HardwareBinding'
  BY <1>4 DEF Inv, StoredIsVetted, HardwareBinding
<1>7. EmptiedIsTransient'
  BY <1>3, <1>4 DEF Inv, EmptiedIsTransient, At, Only
<1> QED
  BY <1>1, <1>5, <1>6, <1>7 DEF Inv

--------------------------------------------------------------------------------
(* The records the actions build are sound.                                   *)

LEMMA NoChainSound == Sound(NoChain)
  BY TsAssumption DEF Sound, NoChain, ChainRec

\* A failed exchange leaves a chain that holds no package.
LEMMA FailStep ==
    ASSUME Inv, NEW c \in Chains, x[c].pc # "return", Fail(c)
    PROVE  Inv'
<1>1. Sound(Failed(c))
  BY NoChainSound DEF Inv, TypeOK, Failed, Sound, ChainRec
<1>2. Only(c, Failed(c))
  BY DEF Inv, TypeOK, Fail, Only
<1> QED
  BY <1>1, <1>2, OnlyStep

\* The head of the renewal loop stays within the number of attempts.
LEMMA AttemptStep ==
    ASSUME Inv, NEW c \in Chains, NEW n \in Nat, x[c].pc # "return", Attempt(c, n)
    PROVE  Inv'
<1> DEFINE r == IF stopped \/ n > MaxAttempts THEN NoChain
                ELSE [NoChain EXCEPT !.pc = "attest", !.renewing = TRUE, !.attempt = n]
<1>1. Sound(r)
  <2>1. CASE stopped \/ n > MaxAttempts
    BY <2>1, NoChainSound
  <2>2. CASE ~(stopped \/ n > MaxAttempts)
    <3>1. n \in 0..MaxAttempts
      BY <2>2, TsAssumption
    <3>2. NoChain \in ChainRec
      BY NoChainSound DEF Sound
    <3>3. r = [NoChain EXCEPT !.pc = "attest", !.renewing = TRUE, !.attempt = n]
      BY <2>2
    <3>4. r \in ChainRec /\ r.pc = "attest"
      BY <3>1, <3>2, <3>3 DEF ChainRec
    <3> QED BY <3>4 DEF Sound
  <2> QED BY <2>1, <2>2
<1>2. Only(c, r)
  BY DEF Inv, TypeOK, Attempt, Only
<1> QED
  BY <1>1, <1>2, OnlyStep

LEMMA InitInv == Init => Inv
  BY TsAssumption DEF Init, Inv, TypeOK, ChainInv, StoredIsVetted,
     HardwareBinding, EmptiedIsTransient, NoChain, At

--------------------------------------------------------------------------------
(* Every step keeps the invariant.                                            *)

LEMMA NextInv == Inv /\ [Next]_vars => Inv'
<1> SUFFICES ASSUME Inv, [Next]_vars PROVE Inv'
  OBVIOUS
<1>t. /\ x \in [Chains -> ChainRec] /\ stopped \in BOOLEAN /\ healthy \in BOOLEAN
      /\ renewTimer \in Chains \cup {None} /\ cfg \in Config
  BY DEF Inv, TypeOK, ChainRec
<1>c. ChainInv
  BY DEF Inv
<1>1. ASSUME NEW c \in Chains, Start(c) PROVE Inv'
  <2> DEFINE r == [NoChain EXCEPT !.pc = "keygen"]
  <2>1. Sound(r)
    BY <1>1, <1>t, <1>c, NoChainSound DEF Start, Sound, ChainRec, ChainInv, At, NoChain
  <2>2. Only(c, r)
    BY <1>1, <1>t DEF Start, Only, At
  <2> QED BY <2>1, <2>2, OnlyStep
<1>2. ASSUME NEW c \in Chains, KeyGenerated(c) PROVE Inv'
  <2> DEFINE r == [x[c] EXCEPT !.pc = "attest"]
  <2>1. Sound(r)
    BY <1>2, <1>t, <1>c, NoChainSound DEF KeyGenerated, Sound, ChainRec, ChainInv, At
  <2>2. Only(c, r)
    BY <1>2, <1>t DEF KeyGenerated, Only, At
  <2> QED BY <2>1, <2>2, OnlyStep
<1>3. ASSUME NEW c \in Chains, Attested(c) PROVE Inv'
  <2> DEFINE r == [x[c] EXCEPT !.pc = "hardware"]
  <2>1. Sound(r)
    BY <1>3, <1>t, <1>c, NoChainSound DEF Attested, Sound, ChainRec, ChainInv, At
  <2>2. Only(c, r)
    BY <1>3, <1>t DEF Attested, Only, At
  <2> QED BY <2>1, <2>2, OnlyStep
<1>4. ASSUME NEW c \in Chains, Challenged(c) PROVE Inv'
  <2> DEFINE r == [x[c] EXCEPT !.pc = "retry"]
  <2>1. Sound(r)
    BY <1>4, <1>t, <1>c, NoChainSound DEF Challenged, Sound, ChainRec, ChainInv, At
  <2>2. Only(c, r)
    BY <1>4, <1>t DEF Challenged, Only, At
  <2> QED BY <2>1, <2>2, OnlyStep
<1>s. ASSUME NEW c \in Chains, Stalls(c) PROVE Inv'
  <2> DEFINE r == [NoChain EXCEPT !.pc = "stalled"]
  <2>1. Sound(r)
    BY NoChainSound DEF Sound, ChainRec
  <2>2. Only(c, r)
    BY <1>s, <1>t DEF Stalls, Untimed, Only, At
  <2> QED BY <2>1, <2>2, OnlyStep
<1>5. ASSUME NEW c \in Chains, Send(c) PROVE Inv'
  <2>1. PICK agentAnswers \in BOOLEAN, hw \in BOOLEAN :
          /\ IF hw THEN HardwareAdded(agentAnswers) ELSE HardwareSkipped(agentAnswers)
          /\ x' = [x EXCEPT ![c].pc = "request", ![c].hw = hw]
    BY <1>5 DEF Send
  <2> DEFINE r == [x[c] EXCEPT !.pc = "request", !.hw = hw]
  <2>2. cfg.hardware = "required" => hw
    BY <2>1 DEF HardwareSkipped
  <2>3. Sound(r)
    BY <2>2, <1>t DEF Sound, ChainRec
  <2>4. Only(c, r)
    BY <1>5, <2>1, <1>t DEF Send, Only, At
  <2> QED BY <2>3, <2>4, OnlyStep
<1>6. ASSUME NEW c \in Chains, Answered(c) PROVE Inv'
  <2>1. PICK p \in Packages : x' = [x EXCEPT ![c].pc = "body", ![c].pkg = p]
    BY <1>6 DEF Answered
  <2> DEFINE r == [x[c] EXCEPT !.pc = "body", !.pkg = p]
  <2>2. Sound(r)
    <3>1. p \in Package
      BY TsAssumption
    <3>2. cfg.hardware = "required" => x[c].hw
      BY <1>6, <1>c DEF Answered, ChainInv
    <3>3. r \in ChainRec /\ r.pc = "body" /\ r.pkg = p /\ r.hw = x[c].hw
      BY <3>1, <1>t DEF ChainRec
    <3> QED BY <3>1, <3>2, <3>3 DEF Sound
  <2>3. Only(c, r)
    BY <1>6, <2>1, <1>t DEF Answered, Only
  <2> QED BY <2>2, <2>3, OnlyStep
<1>7. ASSUME NEW c \in Chains,
            AttestFails(c) \/ HardwareFails(c) \/ Refused(c) \/ Aborted(c) \/ Rejected(c)
     PROVE  Inv'
  BY <1>7, FailStep DEF AttestFails, HardwareFails, Refused, Aborted, Rejected, At
<1>8. ASSUME NEW c \in Chains, TimerFires(c) \/ BackoffEnds(c) PROVE Inv'
  <2>1. x[c].attempt + 1 \in Nat
    BY <1>t, TsAssumption DEF ChainRec
  <2> QED BY <1>8, <2>1, AttemptStep DEF TimerFires, BackoffEnds, At
<1>9. ASSUME NEW c \in Chains, Decoded(c) PROVE Inv'
  <2>1. /\ x[c].pc = "body" /\ Vetted(x[c].pkg) /\ credential' = Emptied /\ cfg' = cfg
        /\ x' = [x EXCEPT ![c].pc = "return"]
        /\ UNCHANGED <<stopped, renewTimer, healthy>>
    BY <1>9 DEF Decoded, At
  <2>2. TypeOK'
    BY <2>1 DEF Inv, TypeOK, Emptied
  <2>3. ChainInv'
    <3> SUFFICES ASSUME NEW d \in Chains
                 PROVE  /\ x'[d].pc \in {"body", "return"} => x'[d].pkg \in Package
                        /\ x'[d].pc = "return" => Vetted(x'[d].pkg)
                        /\ x'[d].pc \in {"request", "retry", "body", "return"}
                             /\ cfg.hardware = "required" => x'[d].hw
      BY <2>1 DEF ChainInv, Vetted, Readable, SignatureOK
    <3>1. CASE d = c
      BY <2>1, <1>t, <1>c, <3>1 DEF ChainInv, ChainRec
    <3>2. CASE d # c
      BY <2>1, <1>t, <1>c, <3>2 DEF ChainInv
    <3> QED BY <3>1, <3>2
  <2>4. StoredIsVetted' /\ HardwareBinding'
    BY <2>1 DEF Inv, TypeOK, Emptied, StoredIsVetted, HardwareBinding
  <2>5. EmptiedIsTransient'
    BY <2>1, <1>t DEF EmptiedIsTransient, At, ChainRec
  <2> QED BY <2>2, <2>3, <2>4, <2>5 DEF Inv
<1>10. ASSUME NEW c \in Chains, Install(c) PROVE Inv'
  <2>1. /\ x[c].pc = "return" /\ credential' = Installed(c) /\ cfg' = cfg
        /\ UNCHANGED <<stopped, healthy>>
    BY <1>10 DEF Install, At
  <2>2. PICK r \in {NoChain, [NoChain EXCEPT !.pc = "timer"]} : x' = [x EXCEPT ![c] = r]
    BY <1>10 DEF Install
  <2>3. r \in ChainRec /\ r.pc \in {"idle", "timer"}
    <3>1. NoChain \in ChainRec /\ NoChain.pc = "idle"
      BY TsAssumption DEF NoChain, ChainRec
    <3>2. CASE r = NoChain
      BY <3>1, <3>2
    <3>3. CASE r = [NoChain EXCEPT !.pc = "timer"]
      BY <3>1, <3>3 DEF ChainRec
    <3> QED BY <2>2, <3>2, <3>3
  <2>4. x[c].pkg \in Package /\ Vetted(x[c].pkg) /\ (cfg.hardware = "required" => x[c].hw)
    BY <2>1, <1>c DEF ChainInv
  <2>5. TypeOK'
    <3>1. credential' \in [pkg : Package, hw : BOOLEAN, emptied : BOOLEAN]
      BY <2>1, <2>4, <1>t DEF Installed, ChainRec
    <3>2. renewTimer' \in Chains \cup {None}
      BY <1>10, <1>t DEF Install
    <3>3. x' \in [Chains -> ChainRec]
      BY <2>2, <2>3, <1>t
    <3> QED BY <2>1, <1>t, <3>1, <3>2, <3>3 DEF TypeOK, ChainRec
  <2>6. ChainInv'
    <3> SUFFICES ASSUME NEW d \in Chains
                 PROVE  /\ x'[d].pc \in {"body", "return"} => x'[d].pkg \in Package
                        /\ x'[d].pc = "return" => Vetted(x'[d].pkg)
                        /\ x'[d].pc \in {"request", "retry", "body", "return"}
                             /\ cfg.hardware = "required" => x'[d].hw
      BY <2>1 DEF ChainInv, Vetted, Readable, SignatureOK
    <3>1. CASE d = c
      BY <2>2, <2>3, <1>t, <3>1
    <3>2. CASE d # c
      BY <2>2, <1>t, <1>c, <3>2 DEF ChainInv
    <3> QED BY <3>1, <3>2
  <2>7. StoredIsVetted' /\ HardwareBinding' /\ EmptiedIsTransient'
    BY <2>1, <2>4 DEF Installed, StoredIsVetted, HardwareBinding, EmptiedIsTransient,
       Vetted, Readable, SignatureOK
  <2> QED BY <2>5, <2>6, <2>7 DEF Inv
<1>11. ASSUME Stop PROVE Inv'
  <2>1. /\ credential' = None /\ cfg' = cfg /\ healthy' = healthy
        /\ stopped' = TRUE /\ renewTimer' = None
        /\ x' = [c \in Chains |-> IF c = renewTimer /\ At(c, "timer") THEN NoChain ELSE x[c]]
    BY <1>11 DEF Stop
  <2>2. \A d \in Chains : x'[d] = NoChain \/ x'[d] = x[d]
    BY <2>1
  <2>3. NoChain \in ChainRec /\ NoChain.pc = "idle"
    BY TsAssumption DEF NoChain, ChainRec
  <2>4. TypeOK'
    <3>1. x' \in [Chains -> ChainRec]
      BY <2>1, <2>3, <1>t
    <3> QED BY <2>1, <3>1, <1>t DEF TypeOK, ChainRec
  <2>5. ChainInv'
    <3> SUFFICES ASSUME NEW d \in Chains
                 PROVE  /\ x'[d].pc \in {"body", "return"} => x'[d].pkg \in Package
                        /\ x'[d].pc = "return" => Vetted(x'[d].pkg)
                        /\ x'[d].pc \in {"request", "retry", "body", "return"}
                             /\ cfg.hardware = "required" => x'[d].hw
      BY <2>1 DEF ChainInv, Vetted, Readable, SignatureOK
    <3> QED BY <2>2, <2>3, <1>c DEF ChainInv
  <2>6. StoredIsVetted' /\ HardwareBinding' /\ EmptiedIsTransient'
    BY <2>1 DEF StoredIsVetted, HardwareBinding, EmptiedIsTransient
  <2> QED BY <2>4, <2>5, <2>6 DEF Inv
<1>12. ASSUME Outage \/ UNCHANGED vars PROVE Inv'
  BY <1>12 DEF Outage, vars, Inv, TypeOK, ChainInv, StoredIsVetted, HardwareBinding,
     EmptiedIsTransient, At, Vetted, Readable, SignatureOK
<1> QED
  BY <1>1, <1>2, <1>3, <1>4, <1>s, <1>5, <1>6, <1>7, <1>8, <1>9, <1>10, <1>11, <1>12 DEF Next

LEMMA SpecInv == Spec => []Inv
  BY InitInv, NextInv, PTL DEF Spec

--------------------------------------------------------------------------------
(* The theorems.                                                              *)

\* The provider's state keeps its types, and renewWithBackoff its number of
\* attempts, however many start() calls overlap.
THEOREM TypeCorrect == Spec => []TypeOK
<1>1. Inv => TypeOK
  BY DEF Inv
<1> QED BY <1>1, SpecInv, PTL

\* Whichever exchange stores a credential, it passed the checks of exchange().
THEOREM StoreIsVetted == Spec => []StoredIsVetted
<1>1. Inv => StoredIsVetted
  BY DEF Inv
<1> QED BY <1>1, SpecInv, PTL

\* In required mode no credential is stored that was obtained without the
\* hardware agent's attestation.
THEOREM RequiredHardwareIsUsed == Spec => []HardwareBinding
<1>1. Inv => HardwareBinding
  BY DEF Inv
<1> QED BY <1>1, SpecInv, PTL

\* exchange() empties the held credential only when a new one is about to be
\* stored.
THEOREM FailureKeepsCredential == Spec => []EmptiedIsTransient
<1>1. Inv => EmptiedIsTransient
  BY DEF Inv
<1> QED BY <1>1, SpecInv, PTL
================================================================================
