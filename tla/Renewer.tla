--------------------------------- MODULE Renewer -------------------------------
(***************************************************************************)
(* The credential renewer (src/credential/renewer.go): goroutines Start    *)
(* and Stop it, a loop goroutine renews the credential and puts it in a    *)
(* MemStore.  The sections under r.mu never block, so each is one step;    *)
(* what Stop and the loop read outside r.mu (cancel, done) is a step of    *)
(* its own.  Time is abstract: a sleep or a back-off may end at any time,  *)
(* so the expiry (SetExpiry) and the stored value are not state here.      *)
(***************************************************************************)
EXTENDS Naturals, FiniteSets

CONSTANTS
    Callers,  \* goroutines that call Start and Stop
    Loops,    \* loop goroutines and their contexts (reused when ended)
    Chans,    \* done channels (reused when unreferenced)
    None

ASSUME RenewerAssumption ==
    /\ None \notin Callers \cup Loops \cup Chans
    /\ Chans # {}

VARIABLES
    started,    \* r.started
    cancel,     \* the context r.cancel cancels
    done,       \* r.done
    closed,     \* channels that are closed
    cancelled,  \* contexts that are cancelled
    loop,       \* the loop goroutines, each with the channel it will close
    caller,     \* the callers, each with the channel it waits on
    up,         \* environment: RenewFn succeeds
    panicked    \* a closed channel was closed again

control == <<started, cancel, done>>
vars == <<control, closed, cancelled, loop, caller, up, panicked>>

NoLoop == [pc |-> "none", chan |-> None]
Idle   == [pc |-> "idle", chan |-> None]

\* NewRenewer.
Init ==
    /\ started = FALSE /\ cancel = None
    /\ done \in Chans
    /\ closed = {} /\ cancelled = {}
    /\ loop = [l \in Loops |-> NoLoop]
    /\ caller = [k \in Callers |-> Idle]
    /\ up \in BOOLEAN /\ panicked = FALSE

Alive(l) == loop[l].pc # "none"

\* A channel that nothing refers to (make(chan struct{}) returns a new one).
FreshChans ==
    Chans \ ({done} \cup {loop[l].chan : l \in Loops} \cup {caller[k].chan : k \in Callers})

--------------------------------------------------------------------------------
(* Start and Stop                                                             *)

\* Mutant: Start does not look at r.started.
StartUnguarded(k) ==
    /\ caller[k].pc = "idle"
    /\ \E l \in Loops :
         /\ ~Alive(l)
         /\ started' = TRUE /\ cancel' = l
         /\ loop' = [loop EXCEPT ![l].pc = "spawned"]
         /\ cancelled' = cancelled \ {l}
    /\ UNCHANGED <<done, closed, caller, up, panicked>>

\* Start on a started renewer returns at once and changes nothing.
Start(k) ==
    /\ caller[k].pc = "idle" /\ ~started
    /\ \E l \in Loops :
         /\ ~Alive(l)
         /\ started' = TRUE /\ cancel' = l
         /\ loop' = [loop EXCEPT ![l].pc = "spawned"]
         /\ cancelled' = cancelled \ {l}
    /\ UNCHANGED <<done, closed, caller, up, panicked>>

\* Stop, the first section under r.mu (on a stopped renewer it returns).
StopLocked(k) ==
    /\ caller[k].pc = "idle" /\ started
    /\ started' = FALSE
    /\ caller' = [caller EXCEPT ![k].pc = "cancel"]
    /\ UNCHANGED <<cancel, done, closed, cancelled, loop, up, panicked>>

\* Mutant: Stop does not cancel the context.
StopCancelNot(k) ==
    /\ caller[k].pc = "cancel"
    /\ caller' = [caller EXCEPT ![k].pc = "read"]
    /\ UNCHANGED <<control, closed, cancelled, loop, up, panicked>>

\* r.cancel is read and called without r.mu ...
StopCancel(k) ==
    /\ caller[k].pc = "cancel"
    /\ cancelled' = cancelled \cup ({cancel} \ {None})
    /\ caller' = [caller EXCEPT ![k].pc = "read"]
    /\ UNCHANGED <<control, closed, loop, up, panicked>>

\* Mutant: Stop does not wait for the loop.
StopReadNoWait(k) ==
    /\ caller[k].pc = "read"
    /\ caller' = [caller EXCEPT ![k].pc = "idle"]
    /\ UNCHANGED <<control, closed, cancelled, loop, up, panicked>>

\* ... and so is r.done ...
StopRead(k) ==
    /\ caller[k].pc = "read"
    /\ caller' = [caller EXCEPT ![k] = [pc |-> "wait", chan |-> done]]
    /\ UNCHANGED <<control, closed, cancelled, loop, up, panicked>>

\* Mutant: the old channel is kept for the next loop.
StopWaitedSameChannel(k) ==
    /\ caller[k].pc = "wait" /\ caller[k].chan \in closed
    /\ caller' = [caller EXCEPT ![k] = Idle]
    /\ UNCHANGED <<control, closed, cancelled, loop, up, panicked>>

\* ... and once it is closed, r.done becomes a new channel, under r.mu.
StopWaited(k) ==
    /\ caller[k].pc = "wait" /\ caller[k].chan \in closed
    /\ done' \in FreshChans
    /\ closed' = closed \ {done'}
    /\ caller' = [caller EXCEPT ![k] = Idle]
    /\ UNCHANGED <<started, cancel, cancelled, loop, up, panicked>>

--------------------------------------------------------------------------------
(* The loop                                                                   *)

\* The deferred close takes r.done when the goroutine first runs, without r.mu.
LoopEnter(l) ==
    /\ loop[l].pc = "spawned"
    /\ loop' = [loop EXCEPT ![l] = [pc |-> "sleep", chan |-> done]]
    /\ UNCHANGED <<control, closed, cancelled, caller, up, panicked>>

\* The timer wins the select, possibly when the context is cancelled too.
SleepElapsed(l) ==
    /\ loop[l].pc = "sleep"
    /\ loop' = [loop EXCEPT ![l].pc = "renew"]
    /\ UNCHANGED <<control, closed, cancelled, caller, up, panicked>>

\* The loop returns, and its deferred close runs.
SleepCancelled(l) ==
    /\ loop[l].pc = "sleep" /\ l \in cancelled
    /\ closed' = closed \cup {loop[l].chan}
    /\ panicked' = (panicked \/ loop[l].chan \in closed)
    /\ loop' = [loop EXCEPT ![l] = NoLoop]
    /\ UNCHANGED <<control, cancelled, caller, up>>

\* performRenewal: RenewFn returns a credential, and the MemStore takes it ...
RenewSucceeds(l) ==
    /\ loop[l].pc = "renew" /\ up
    /\ loop' = [loop EXCEPT ![l].pc = "stored"]
    /\ UNCHANGED <<control, closed, cancelled, caller, up, panicked>>

\* ... then SetExpiry and OnEvent, and the loop sleeps again.
RenewDone(l) ==
    /\ loop[l].pc = "stored"
    /\ loop' = [loop EXCEPT ![l].pc = "sleep"]
    /\ UNCHANGED <<control, closed, cancelled, caller, up, panicked>>

\* Mutant: a failed renewal ends the loop.
RenewFailsForGood(l) ==
    /\ loop[l].pc = "renew" /\ (~up \/ l \in cancelled)
    /\ closed' = closed \cup {loop[l].chan}
    /\ loop' = [loop EXCEPT ![l] = NoLoop]
    /\ UNCHANGED <<control, cancelled, caller, up, panicked>>

\* RenewFn or Store fails: back off, unless the context is cancelled.
RenewFails(l) ==
    /\ loop[l].pc = "renew" /\ (~up \/ l \in cancelled)
    /\ loop' = [loop EXCEPT ![l].pc = IF l \in cancelled THEN "sleep" ELSE "backoff"]
    /\ UNCHANGED <<control, closed, cancelled, caller, up, panicked>>

BackoffElapsed(l) ==
    /\ loop[l].pc = "backoff"
    /\ loop' = [loop EXCEPT ![l].pc = "renew"]
    /\ UNCHANGED <<control, closed, cancelled, caller, up, panicked>>

BackoffCancelled(l) ==
    /\ loop[l].pc = "backoff" /\ l \in cancelled
    /\ loop' = [loop EXCEPT ![l].pc = "sleep"]
    /\ UNCHANGED <<control, closed, cancelled, caller, up, panicked>>

\* The context given to Start is cancelled.
ParentCancelled(l) ==
    /\ Alive(l) /\ l \notin cancelled
    /\ cancelled' = cancelled \cup {l}
    /\ UNCHANGED <<control, closed, loop, caller, up, panicked>>

\* The backend that RenewFn asks goes down or comes back.
Outage ==
    /\ up' = ~up
    /\ UNCHANGED <<control, closed, cancelled, loop, caller, panicked>>

--------------------------------------------------------------------------------
StopStep(k) == StopCancel(k) \/ StopRead(k) \/ StopWaited(k)

LoopStep(l) ==
    \/ LoopEnter(l) \/ SleepElapsed(l)
    \/ RenewSucceeds(l) \/ RenewDone(l) \/ RenewFails(l)
    \/ BackoffElapsed(l) \/ BackoffCancelled(l)

Next ==
    \/ \E k \in Callers : Start(k) \/ StopLocked(k) \/ StopStep(k)
    \/ \E l \in Loops : LoopStep(l) \/ SleepCancelled(l) \/ ParentCancelled(l)
    \/ Outage

\* Goroutines run, timers fire and RenewFn returns.  A select with two ready
\* cases picks one at random, so a cancelled context is not passed over forever.
Fairness ==
    /\ \A k \in Callers : WF_vars(StopStep(k))
    /\ \A l \in Loops : WF_vars(LoopStep(l)) /\ SF_vars(SleepCancelled(l))

Spec == Init /\ [][Next]_vars
FairSpec == Spec /\ Fairness

--------------------------------------------------------------------------------
(* Properties.                                                                *)

\* Every variable holds a value of its Go type.
TypeOK ==
    /\ started \in BOOLEAN /\ cancel \in Loops \cup {None} /\ done \in Chans
    /\ closed \subseteq Chans /\ cancelled \subseteq Loops
    /\ loop \in [Loops -> [pc : {"none", "spawned", "sleep", "renew", "stored", "backoff"},
                           chan : Chans \cup {None}]]
    /\ caller \in [Callers -> [pc : {"idle", "cancel", "read", "wait"},
                               chan : Chans \cup {None}]]
    /\ up \in BOOLEAN /\ panicked \in BOOLEAN

\* Start twice, or again after Stop or after its context ended, never leaves
\* two loops that both renew.
OneLoop == Cardinality({l \in Loops : Alive(l)}) <= 1

\* When Stop has returned, no loop is left that could still call RenewFn, write
\* to the MemStore or move the expiry.
QuietAfterStop ==
    ~started /\ (\A k \in Callers : caller[k].pc = "idle") => \A l \in Loops : ~Alive(l)

\* The loop's deferred close never closes a channel twice.
DoneClosedOnce == ~panicked

\* Stop returns, whatever the loop is doing when it is called, in a process that
\* has not crashed on a second close.
StopReturns == []~panicked => \A k \in Callers : caller[k].pc = "cancel" ~> caller[k].pc = "idle"

\* However long an outage lasts, a loop that is not cancelled renews once it is
\* over: performRenewal never gives up.
RecoversFromOutage ==
    <>[]up => \A l \in Loops :
        loop[l].pc \in {"renew", "backoff"} ~> (loop[l].pc = "stored" \/ l \in cancelled)
================================================================================
