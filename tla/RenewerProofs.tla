------------------------------ MODULE RenewerProofs ----------------------------
(***************************************************************************)
(* Theorems about Renewer, for any number of loops and channels: its types  *)
(* for any number of callers, and its life cycle for one (with two, Stop    *)
(* works on a channel that is no longer r.done, and the life cycle breaks). *)
(***************************************************************************)
EXTENDS Renewer, FiniteSetTheorems, TLAPS

--------------------------------------------------------------------------------
(* Types                                                                      *)

\* A loop that has entered holds the channel it will close.
ChanInv ==
    \A l \in Loops : loop[l].pc \notin {"none", "spawned"} => loop[l].chan \in Chans

TypeInv == TypeOK /\ ChanInv

LEMMA InitTypes == Init => TypeInv
<1> SUFFICES ASSUME Init PROVE TypeInv
  OBVIOUS
<1>1. started \in BOOLEAN /\ up \in BOOLEAN /\ panicked \in BOOLEAN
  BY Zenon DEF Init
<1>2. NoLoop \in [pc : {"none", "spawned", "sleep", "renew", "stored", "backoff"},
                  chan : Chans \cup {None}]
  BY DEF NoLoop
<1>3. Idle \in [pc : {"idle", "cancel", "read", "wait"}, chan : Chans \cup {None}]
  BY DEF Idle
<1> QED
  BY <1>1, <1>2, <1>3, Zenon DEF Init, TypeInv, TypeOK, ChanInv, NoLoop

LEMMA CallerTypes ==
    ASSUME TypeInv, NEW k \in Callers, Start(k) \/ StopLocked(k) \/ StopStep(k)
    PROVE  TypeInv'
<1>1. CASE Start(k)
  BY <1>1 DEF Start, TypeInv, TypeOK, ChanInv
<1>2. CASE StopLocked(k)
  BY <1>2 DEF StopLocked, TypeInv, TypeOK, ChanInv
<1>3. CASE StopCancel(k)
  BY <1>3 DEF StopCancel, TypeInv, TypeOK, ChanInv, control
<1>4. CASE StopRead(k)
  BY <1>4 DEF StopRead, TypeInv, TypeOK, ChanInv, control
<1>5. CASE StopWaited(k)
  BY <1>5 DEF StopWaited, FreshChans, TypeInv, TypeOK, ChanInv, Idle
<1> QED
  BY <1>1, <1>2, <1>3, <1>4, <1>5 DEF StopStep

LEMMA LoopTypes ==
    ASSUME TypeInv, NEW l \in Loops, LoopStep(l) \/ SleepCancelled(l) \/ ParentCancelled(l)
    PROVE  TypeInv'
<1>1. CASE LoopEnter(l)
  BY <1>1 DEF LoopEnter, TypeInv, TypeOK, ChanInv, control
<1>2. CASE SleepElapsed(l)
  BY <1>2 DEF SleepElapsed, TypeInv, TypeOK, ChanInv, control
<1>3. CASE RenewSucceeds(l)
  BY <1>3 DEF RenewSucceeds, TypeInv, TypeOK, ChanInv, control
<1>4. CASE RenewDone(l)
  BY <1>4 DEF RenewDone, TypeInv, TypeOK, ChanInv, control
<1>5. CASE RenewFails(l)
  BY <1>5 DEF RenewFails, TypeInv, TypeOK, ChanInv, control
<1>6. CASE BackoffElapsed(l)
  BY <1>6 DEF BackoffElapsed, TypeInv, TypeOK, ChanInv, control
<1>7. CASE BackoffCancelled(l)
  BY <1>7 DEF BackoffCancelled, TypeInv, TypeOK, ChanInv, control
<1>8. CASE SleepCancelled(l)
  <2>1. panicked' \in BOOLEAN
    BY <1>8, Zenon DEF SleepCancelled
  <2>2. closed' \subseteq Chans
    BY <1>8 DEF SleepCancelled, TypeInv, TypeOK, ChanInv
  <2>3. loop' \in [Loops -> [pc : {"none", "spawned", "sleep", "renew", "stored", "backoff"},
                             chan : Chans \cup {None}]]
    BY <1>8 DEF SleepCancelled, TypeInv, TypeOK, NoLoop
  <2>4. ChanInv'
    BY <1>8 DEF SleepCancelled, TypeInv, TypeOK, ChanInv, NoLoop
  <2>5. started' \in BOOLEAN /\ up' \in BOOLEAN
    BY <1>8, Zenon DEF SleepCancelled, TypeInv, TypeOK, control
  <2>6. UNCHANGED <<cancel, done, cancelled, caller>>
    BY <1>8 DEF SleepCancelled, control
  <2> QED
    BY <2>1, <2>2, <2>3, <2>4, <2>5, <2>6, Zenon DEF TypeInv, TypeOK
<1>9. CASE ParentCancelled(l)
  BY <1>9 DEF ParentCancelled, TypeInv, TypeOK, ChanInv, control
<1> QED
  BY <1>1, <1>2, <1>3, <1>4, <1>5, <1>6, <1>7, <1>8, <1>9 DEF LoopStep

LEMMA NextTypes == TypeInv /\ [Next]_vars => TypeInv'
<1> SUFFICES ASSUME TypeInv, [Next]_vars PROVE TypeInv'
  OBVIOUS
<1>1. CASE \E k \in Callers : Start(k) \/ StopLocked(k) \/ StopStep(k)
  BY <1>1, CallerTypes
<1>2. CASE \E l \in Loops : LoopStep(l) \/ SleepCancelled(l) \/ ParentCancelled(l)
  BY <1>2, LoopTypes
<1>3. CASE Outage
  BY <1>3 DEF Outage, TypeInv, TypeOK, ChanInv, control
<1>4. CASE UNCHANGED vars
  BY <1>4 DEF vars, control, TypeInv, TypeOK, ChanInv
<1> QED
  BY <1>1, <1>2, <1>3, <1>4 DEF Next

\* The state of the renewer keeps its types, and r.done is always a channel: Stop
\* and the deferred close never meet a nil one (StopWaited makes a new channel).
THEOREM TypeCorrect == Spec => []TypeOK
<1>1. TypeInv => TypeOK
  BY DEF TypeInv
<1> QED
  BY <1>1, InitTypes, NextTypes, PTL DEF Spec

--------------------------------------------------------------------------------
(* The life cycle with one caller                                             *)

OneCaller == \A k, m \in Callers : k = m

\* The loop that is alive is the one r.cancel cancels; r.done is the channel it has
\* taken or will take, and is open.
AliveInv ==
    \A l \in Loops : Alive(l) =>
        /\ l = cancel /\ done \notin closed
        /\ loop[l].pc # "spawned" => loop[l].chan = done

\* What a caller in Stop and one outside of it find.
CallerInv ==
    \A k \in Callers :
        /\ caller[k].pc # "idle" => ~started
        /\ caller[k].pc = "wait" => caller[k].chan = done
        /\ caller[k].pc = "idle" /\ ~started => done \notin closed /\ \A l \in Loops : ~Alive(l)

LifecycleInv == TypeInv /\ AliveInv /\ CallerInv /\ ~panicked

LEMMA InitLifecycle == Init => LifecycleInv
BY InitTypes DEF Init, LifecycleInv, AliveInv, CallerInv, Alive, NoLoop, Idle

LEMMA CallerLifecycle ==
    ASSUME OneCaller, LifecycleInv, TypeInv', NEW k \in Callers,
           Start(k) \/ StopLocked(k) \/ StopStep(k)
    PROVE  LifecycleInv'
<1> USE DEF LifecycleInv, OneCaller
<1>1. CASE Start(k)
  BY <1>1 DEF Start, TypeInv, TypeOK, AliveInv, CallerInv, Alive
<1>2. CASE StopLocked(k)
  BY <1>2 DEF StopLocked, TypeInv, TypeOK, AliveInv, CallerInv, Alive
<1>3. CASE StopCancel(k)
  BY <1>3 DEF StopCancel, TypeInv, TypeOK, AliveInv, CallerInv, Alive, control
<1>4. CASE StopRead(k)
  BY <1>4 DEF StopRead, TypeInv, TypeOK, AliveInv, CallerInv, Alive, control
<1>5. CASE StopWaited(k)
  <2>1. \A l \in Loops : ~Alive(l)
    BY <1>5 DEF StopWaited, AliveInv, CallerInv
  <2>2. \A l \in Loops : ~Alive(l)'
    BY <1>5, <2>1 DEF StopWaited, Alive
  <2>3. done' \notin closed'
    BY <1>5 DEF StopWaited
  <2> QED
    BY <1>5, <2>2, <2>3 DEF StopWaited, TypeInv, TypeOK, AliveInv, CallerInv, Idle
<1> QED
  BY <1>1, <1>2, <1>3, <1>4, <1>5 DEF StopStep

\* A step of the loop that does not end it.
LEMMA LoopLifecycle ==
    ASSUME LifecycleInv, TypeInv', NEW l \in Loops, LoopStep(l) \/ ParentCancelled(l)
    PROVE  LifecycleInv'
<1> USE DEF LifecycleInv
<1>1. UNCHANGED <<control, closed, caller, panicked>>
  BY DEF LoopStep, LoopEnter, SleepElapsed, RenewSucceeds, RenewDone, RenewFails,
         BackoffElapsed, BackoffCancelled, ParentCancelled
<1>2. Alive(l) /\ \A m \in Loops : m # l => loop'[m] = loop[m]
  BY DEF LoopStep, LoopEnter, SleepElapsed, RenewSucceeds, RenewDone, RenewFails,
         BackoffElapsed, BackoffCancelled, ParentCancelled, TypeInv, TypeOK, Alive
<1>3. loop'[l].chan = done \/ loop'[l] = loop[l]
  BY DEF LoopStep, LoopEnter, SleepElapsed, RenewSucceeds, RenewDone, RenewFails,
         BackoffElapsed, BackoffCancelled, ParentCancelled, TypeInv, TypeOK, Alive, AliveInv
<1> QED
  BY <1>1, <1>2, <1>3 DEF AliveInv, CallerInv, Alive, control

LEMMA EndLifecycle ==
    ASSUME LifecycleInv, TypeInv', NEW l \in Loops, SleepCancelled(l)
    PROVE  LifecycleInv'
<1> USE DEF LifecycleInv
<1>1. l = cancel /\ loop[l].chan = done /\ done \notin closed
  BY DEF SleepCancelled, AliveInv, Alive
<1>2. \A m \in Loops : ~Alive(m)'
  BY <1>1 DEF SleepCancelled, AliveInv, Alive, TypeInv, TypeOK, NoLoop
<1>3. ~panicked'
  BY <1>1 DEF SleepCancelled
<1> QED
  BY <1>1, <1>2, <1>3 DEF SleepCancelled, AliveInv, CallerInv, Alive, control

LEMMA NextLifecycle == OneCaller /\ LifecycleInv /\ [Next]_vars => LifecycleInv'
<1> SUFFICES ASSUME OneCaller, LifecycleInv, [Next]_vars PROVE LifecycleInv'
  OBVIOUS
<1>0. TypeInv'
  BY NextTypes DEF LifecycleInv
<1>1. CASE \E k \in Callers : Start(k) \/ StopLocked(k) \/ StopStep(k)
  BY <1>0, <1>1, CallerLifecycle
<1>2. CASE \E l \in Loops : LoopStep(l) \/ SleepCancelled(l) \/ ParentCancelled(l)
  BY <1>0, <1>2, LoopLifecycle, EndLifecycle
<1>3. CASE Outage \/ UNCHANGED vars
  BY <1>0, <1>3 DEF Outage, vars, control, LifecycleInv, AliveInv, CallerInv, Alive
<1> QED
  BY <1>1, <1>2, <1>3 DEF Next

LEMMA Lifecycle == ASSUME OneCaller PROVE Spec => []LifecycleInv
<1>1. LifecycleInv /\ [Next]_vars => LifecycleInv'
  BY OneCaller, NextLifecycle
<1> QED
  BY <1>1, InitLifecycle, PTL DEF Spec

\* One caller never has two loops that renew: Start looks at r.started, and Stop
\* waits for the loop before it lets another Start through.
THEOREM AtMostOneLoop == ASSUME OneCaller PROVE Spec => []OneLoop
<1>1. LifecycleInv => OneLoop
  <2> SUFFICES ASSUME LifecycleInv PROVE OneLoop
    OBVIOUS
  <2> DEFINE alive == {l \in Loops : Alive(l)}
  <2>1. alive = {} \/ alive = {cancel}
    BY DEF LifecycleInv, AliveInv
  <2>2. Cardinality({}) = 0 /\ Cardinality({cancel}) = 1
    BY FS_EmptySet, FS_Singleton
  <2> QED
    BY <2>1, <2>2 DEF OneLoop
<1> QED
  BY <1>1, Lifecycle, OneCaller, PTL

\* When one caller's Stop has returned, no loop is left that could call RenewFn or
\* write to the MemStore.
THEOREM StopIsQuiet == ASSUME OneCaller, Callers # {} PROVE Spec => []QuietAfterStop
<1>1. LifecycleInv => QuietAfterStop
  BY DEF LifecycleInv, CallerInv, QuietAfterStop
<1> QED
  BY <1>1, Lifecycle, OneCaller, PTL

\* The deferred close of a loop never closes a closed channel, as long as there is
\* one caller.
THEOREM NoDoubleClose == ASSUME OneCaller PROVE Spec => []DoneClosedOnce
<1>1. LifecycleInv => DoneClosedOnce
  BY DEF LifecycleInv, DoneClosedOnce
<1> QED
  BY <1>1, Lifecycle, OneCaller, PTL

================================================================================
