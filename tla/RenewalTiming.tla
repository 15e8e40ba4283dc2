------------------------------ MODULE RenewalTiming ----------------------------
(***************************************************************************)
(* When the three renewal loops ask for a credential: the loop of the NHI  *)
(* provider (src/nhi/renewal.go), the credential renewer                   *)
(* (src/credential/renewer.go) and the TypeScript provider.  Time passes   *)
(* in ticks of half a second, and a timer that is due fires before the     *)
(* next tick.  Who starts and stops the loops is in NhiProvider, Renewer    *)
(* and TsProvider, where sleeps have no length.                            *)
(***************************************************************************)
EXTENDS Integers, FiniteSetsExt

CONSTANTS
    Lifetimes,    \* of the credentials the backend gives out; 0 is "expired"
    Thresholds,   \* RefreshThreshold, in percent
    MinSleep,     \* renewalCheckMinimum, and the 1000 ms of scheduleRenewal
    BaseDelay, MaxDelay,   \* of the back-off
    MaxAttempts,  \* maxRenewalAttempts, and the 10 of renewWithBackoff
    MaxTimer,     \* the longest delay that setTimeout can wait
    Latency,      \* the longest time an exchange takes
    NoLoop

ASSUME TimingAssumption ==
    /\ Lifetimes \subseteq Nat /\ Thresholds \subseteq 1..99
    /\ {MinSleep, BaseDelay, MaxDelay, MaxAttempts, MaxTimer} \subseteq Nat \ {0}
    /\ Latency \in Nat
    /\ MaxDelay >= 2  \* a second; the renewer's is 30 of them unless it is configured

VARIABLES
    loop,     \* [kind, threshold]: whose loop it is and its configuration, or NoLoop
    ttl,      \* the lifetime of the credential when it was stored
    left,     \* how much of it is left
    at,       \* "start", "sleep", "exchange", "backoff" or "ended"
    timer,    \* ticks until the sleep or the exchange is over
    tries,    \* the failed attempts of this round
    paused,   \* time has passed since the last exchange
    failing,  \* ticks since the first exchange that failed, or -1
    outage    \* its value when the last one failed

timingVars == <<loop, ttl, left, at, timer, tries, paused, failing, outage>>

Kinds == {"nhi", "renewer", "ts"}

--------------------------------------------------------------------------------
(* How long a loop sleeps                                                     *)

\* Mutant: the loop sleeps for the share it should leave.
nextRenewalInShare(l, remaining) == Max({(remaining * l.threshold) \div 100, MinSleep})

\* Mutant: the minimum is not applied.
nextRenewalInAtOnce(l, remaining) == remaining - (remaining * l.threshold) \div 100

\* The share of the remaining time that is not the threshold, and the minimum that
\* loop applies to it.
nextRenewalIn(l, remaining) ==
    Max({remaining - (remaining * l.threshold) \div 100, MinSleep})

\* A third, but not less than 100 ms, which is part of a tick; an expiry that has
\* passed is no reason to wait.
renewalSleep(remaining) == IF remaining = 0 THEN 0 ELSE Max({remaining \div 3, 1})

\* A delay that is out of range makes setTimeout fire at once.
scheduleRenewal(l, remaining) ==
    LET delay == Max({(remaining * (100 - l.threshold)) \div 100, MinSleep})
    IN  IF delay > MaxTimer THEN 0 ELSE delay

SleepFor(l, remaining) ==
    CASE l.kind = "nhi" -> nextRenewalIn(l, remaining)
      [] l.kind = "renewer" -> renewalSleep(remaining)
      [] l.kind = "ts" -> scheduleRenewal(l, remaining)

\* The delay after a number of failed attempts: it doubles up to MaxDelay.
DelayAfter(base, n) ==
    LET delay[i \in Nat] == IF i <= 1 THEN base ELSE Min({MaxDelay, 2 * delay[i - 1]})
    IN  delay[n]

\* Half of the renewer's delay, or the delay of the providers, and as much again at
\* most (cryptoJitter).  By default the renewer starts at twice the providers' base.
backoffWithJitter(n) ==
    LET base == IF loop.kind = "renewer" THEN DelayAfter(2 * BaseDelay, n) \div 2
                ELSE DelayAfter(BaseDelay, n)
    IN  base..(2 * base)

--------------------------------------------------------------------------------

TimingInit ==
    /\ loop = NoLoop
    /\ ttl = 0 /\ left = 0
    /\ at = "start" /\ timer = 0
    /\ tries = 0
    /\ paused = TRUE
    /\ failing = -1 /\ outage = 0

\* The loop finds a credential that Start, or the application of the renewer, has
\* stored; the application's TTL is its lifetime.
Begin ==
    /\ at = "start"
    /\ loop' \in [kind : Kinds, threshold : Thresholds]
    /\ ttl' \in Lifetimes /\ left' = ttl'
    /\ at' = "sleep" /\ timer' = SleepFor(loop', ttl')
    /\ UNCHANGED <<tries, paused, failing, outage>>

\* An outage is measured until the credential expires.
Tick ==
    /\ at = "ended" \/ timer > 0
    /\ timer' = Max({timer - 1, 0})
    /\ left' = Max({left - 1, 0})
    /\ paused' = (paused \/ at # "exchange")
    /\ failing' = IF failing = -1 \/ left = 0 THEN failing ELSE failing + 1
    /\ UNCHANGED <<loop, ttl, at, tries, outage>>

Exchange ==
    /\ at \in {"sleep", "backoff"} /\ timer = 0
    /\ at = "backoff" /\ loop.kind # "renewer" => tries < MaxAttempts
    /\ at' = "exchange" /\ timer' \in 0..Latency
    /\ UNCHANGED <<loop, ttl, left, tries, paused, failing, outage>>

\* The new credential is stored and the loop sleeps again.
Renewed ==
    /\ at = "exchange" /\ timer = 0
    /\ ttl' \in Lifetimes /\ left' = ttl'
    /\ at' = "sleep" /\ timer' = SleepFor(loop, ttl') /\ tries' = 0
    /\ paused' = FALSE /\ failing' = -1 /\ outage' = 0
    /\ UNCHANGED loop

\* The attempts of the renewer are not bounded; its delay stops growing.
Failed ==
    /\ at = "exchange" /\ timer = 0
    /\ at' = "backoff"
    /\ tries' = IF loop.kind = "renewer" THEN Min({tries + 1, MaxAttempts}) ELSE tries + 1
    /\ timer' \in backoffWithJitter(tries')
    /\ failing' = Max({failing, 0}) /\ outage' = failing'
    /\ paused' = FALSE
    /\ UNCHANGED <<loop, ttl, left>>

\* After the last attempt the NHI loop sleeps as it does with a new credential, and
\* the TypeScript provider has no timer left.
GivesUp ==
    /\ at = "backoff" /\ timer = 0
    /\ loop.kind # "renewer" /\ tries >= MaxAttempts
    /\ IF loop.kind = "nhi" THEN at' = "sleep" /\ timer' = nextRenewalIn(loop, left)
       ELSE at' = "ended" /\ timer' = 0
    /\ tries' = 0
    /\ UNCHANGED <<loop, ttl, left, paused, failing, outage>>

TimingNext == Begin \/ Tick \/ Exchange \/ Renewed \/ Failed \/ GivesUp

TimingSpec == TimingInit /\ [][TimingNext]_timingVars

--------------------------------------------------------------------------------
(* Properties                                                                 *)

\* The loops do not ask again and again without a pause, whatever lifetimes the
\* backend gives out and however often it fails.  Two cases are left out, in which
\* the code does, both on the first attempt of a round: the renewer when the credential
\* it was given had expired already, and the TypeScript provider when the lifetime it was
\* given makes a delay beyond the range of setTimeout.  After a failure these pause too.
Paced ==
    at = "exchange" /\ timer = 0 =>
        \/ paused
        \/ tries = 0 /\ loop.kind = "renewer" /\ ttl = 0
        \/ tries = 0 /\ loop.kind = "ts" /\ scheduleRenewal(loop, ttl) = 0

\* The share of a lifetime that is meant for the renewal.
Margin == IF loop.kind = "renewer" THEN ttl - ttl \div 3 ELSE (ttl * loop.threshold) \div 100

\* What the last exchange may take of it.  The NHI loop goes back to sleep after a
\* round, and then leaves no more than the threshold of what was left.
Reserve ==
    IF loop.kind = "nhi"
    THEN Max({MinSleep + Latency, (100 * Latency + 99) \div loop.threshold}) ELSE Latency

\* A credential expires only if its lifetime leaves no time for a renewal, or if the
\* backend failed for about a third of the time that is meant for it: the delays of
\* backoffWithJitter and performRenewal double, so an attempt follows the end of an
\* outage before three times its length has passed.  This holds across the end of a
\* round, where the NHI loop goes back to sleep; the TypeScript provider stops there.
LapseNeedsOutage ==
    left = 0 /\ at \notin {"start", "ended"} =>
        IF failing = -1 THEN ttl <= MinSleep + Latency \/ Margin <= Latency
        ELSE Margin <= 3 * outage + 2 * BaseDelay + MinSleep + Latency + Reserve

================================================================================
