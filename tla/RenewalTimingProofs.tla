-------------------------- MODULE RenewalTimingProofs --------------------------
(***************************************************************************)
(* Theorems about RenewalTiming: the loops pause between two exchanges,    *)
(* and a credential lapses only after an outage, for any lifetimes,        *)
(* thresholds and delays, and however long an exchange may take.           *)
(***************************************************************************)
EXTENDS RenewalTiming, WellFoundedInduction, TLAPS

--------------------------------------------------------------------------------
(* Arithmetic                                                                 *)

\* A set of naturals has a least element: the form of induction used below.
LEMMA LeastNat ==
    ASSUME NEW T \in SUBSET Nat, T # {}
    PROVE  \E m \in T : \A n \in T : m <= n
<1>1. PICK m \in T : \A n \in T : <<n, m>> \notin OpToRel(<, Nat)
  BY NatLessThanWellFounded, WFMin
<1>2. \A n \in T : ~(n < m)
  BY <1>1 DEF OpToRel
<1> QED BY <1>2

LEMMA MaxOf ==
    ASSUME NEW a \in Int, NEW b \in Int
    PROVE  Max({a, b}) = IF a >= b THEN a ELSE b
  BY DEF Max

LEMMA MinOf ==
    ASSUME NEW a \in Int, NEW b \in Int
    PROVE  Min({a, b}) = IF a <= b THEN a ELSE b
  BY DEF Min

\* A share in percent and the rest of it.
LEMMA Share ==
    ASSUME NEW n \in Nat, NEW t \in 1..99
    PROVE  /\ (n * t) \div 100 \in 0..n
           /\ n * t <= 100 * ((n * t) \div 100) + 99
           /\ (n * (100 - t)) \div 100 \in Nat
           /\ (n * t) \div 100 <= n - (n * (100 - t)) \div 100
<1>1. n * t \in Nat /\ n * (100 - t) = 100 * n - n * t /\ n * t <= 100 * n
  OBVIOUS
<1> QED BY <1>1

\* What a share leaves, the other way round.
LEMMA Unshare ==
    ASSUME NEW t \in 1..99, NEW a \in Int, NEW b \in Nat, t * a <= b
    PROVE  b \div t \in Nat /\ a <= b \div t
<1>1. b \div t \in Int /\ b \div t >= 0 /\ b < t * (b \div t) + t
  OBVIOUS
<1>2. t * a < t * (b \div t + 1)
  BY <1>1
<1> QED BY <1>1, <1>2

--------------------------------------------------------------------------------
(* The delays                                                                 *)

\* What the function in DelayAfter is equal to, and a function that is up to n.
Doubled(base, f) == [i \in Nat |-> IF i <= 1 THEN base ELSE Min({MaxDelay, 2 * f[i - 1]})]
Upto(base, f, n) == \A i \in 0..n : f[i] = Doubled(base, f)[i]

LEMMA UptoExists ==
    ASSUME NEW base \in Nat
    PROVE  \A n \in Nat : \E f \in [Nat -> Nat] : Upto(base, f, n)
<1> DEFINE T == {n \in Nat : ~\E f \in [Nat -> Nat] : Upto(base, f, n)}
<1> SUFFICES ASSUME T # {} PROVE FALSE
  OBVIOUS
<1>1. PICK n \in T : \A m \in T : n <= m
  BY LeastNat
<1>2. n \in Nat /\ ~\E f \in [Nat -> Nat] : Upto(base, f, n)
  OBVIOUS
<1>3. n # 0
  <2>1. SUFFICES ASSUME n = 0 PROVE Upto(base, [i \in Nat |-> base], n)
    BY <1>2
  <2> QED BY <2>1 DEF Upto, Doubled
<1>4. n - 1 \in Nat /\ n - 1 \notin T
  BY <1>1, <1>2, <1>3
<1>5. PICK f \in [Nat -> Nat] : Upto(base, f, n - 1)
  BY <1>4
<1> DEFINE g == [f EXCEPT ![n] = Doubled(base, f)[n]]
<1>6. Doubled(base, f)[n] \in Nat
  <2>1. MaxDelay \in Nat
    BY TimingAssumption
  <2>2. n > 1 => 2 * f[n - 1] \in Nat
    BY <1>2
  <2> QED BY <1>2, <2>1, <2>2, MinOf DEF Doubled
<1>7. g \in [Nat -> Nat] /\ g[n] = Doubled(base, f)[n] /\ \A i \in Nat : i # n => g[i] = f[i]
  BY <1>2, <1>6
<1>8. Upto(base, g, n)
  <2> HIDE DEF g
  <2> SUFFICES ASSUME NEW i \in 0..n PROVE g[i] = Doubled(base, g)[i]
    BY DEF Upto
  <2>1. Doubled(base, g)[i] = Doubled(base, f)[i]
    <3>1. i \in Nat /\ (i > 1 => g[i - 1] = f[i - 1])
      BY <1>2, <1>7
    <3> QED BY <3>1 DEF Doubled
  <2>2. i # n => f[i] = Doubled(base, f)[i]
    BY <1>2, <1>5 DEF Upto
  <2> QED BY <1>2, <1>7, <2>1, <2>2
<1> QED BY <1>2, <1>7, <1>8

LEMMA UptoUnique ==
    ASSUME NEW base \in Nat, NEW n \in Nat, NEW f, NEW g, Upto(base, f, n), Upto(base, g, n)
    PROVE  f[n] = g[n]
<1> DEFINE T == {i \in 0..n : f[i] # g[i]}
<1> SUFFICES ASSUME T # {} PROVE FALSE
  OBVIOUS
<1>1. T \in SUBSET Nat
  OBVIOUS
<1>2. PICK i \in T : \A j \in T : i <= j
  BY <1>1, LeastNat
<1>3. i \in 0..n /\ f[i] # g[i] /\ f[i] = Doubled(base, f)[i] /\ g[i] = Doubled(base, g)[i]
  BY DEF Upto
<1>4. i > 1
  BY <1>3 DEF Doubled
<1>5. f[i - 1] = g[i - 1]
  <2>1. i - 1 \in 0..n /\ ~(i <= i - 1)
    BY <1>3, <1>4
  <2> QED BY <1>2, <2>1
<1> QED BY <1>3, <1>5 DEF Doubled

\* The function exists.
LEMMA DoubledFix ==
    ASSUME NEW base \in Nat
    PROVE  \E f \in [Nat -> Nat] : f = Doubled(base, f)
<1> DEFINE G(n) == CHOOSE f \in [Nat -> Nat] : Upto(base, f, n)
           h == [n \in Nat |-> G(n)[n]]
<1>1. \A n \in Nat : G(n) \in [Nat -> Nat] /\ Upto(base, G(n), n)
  BY UptoExists
<1> HIDE DEF G
<1>2. h \in [Nat -> Nat]
  BY <1>1
<1>3. \A n \in Nat : h[n] = Doubled(base, h)[n]
  <2> SUFFICES ASSUME NEW n \in Nat PROVE h[n] = Doubled(base, h)[n]
    OBVIOUS
  <2>1. h[n] = Doubled(base, G(n))[n]
    BY <1>1 DEF Upto
  <2>2. CASE n <= 1
    BY <2>1, <2>2 DEF Doubled
  <2>3. CASE n > 1
    <3>1. n - 1 \in Nat /\ Upto(base, G(n), n - 1)
      BY <1>1, <2>3 DEF Upto
    <3>2. G(n)[n - 1] = G(n - 1)[n - 1]
      BY <1>1, <3>1, UptoUnique
    <3>3. G(n)[n - 1] = h[n - 1]
      BY <3>1, <3>2
    <3> HIDE DEF h
    <3> QED BY <2>1, <3>3 DEF Doubled
  <2> QED BY <2>2, <2>3
<1>4. h = Doubled(base, h)
  BY <1>2, <1>3 DEF Doubled
<1> QED BY <1>2, <1>4

\* The first delay is the base, and each of the others the double of the one before
\* it, or MaxDelay.
LEMMA Delays ==
    ASSUME NEW base \in Nat, NEW n \in Nat
    PROVE  /\ DelayAfter(base, n) \in Nat
           /\ n <= 1 => DelayAfter(base, n) = base
           /\ n >= 1 => DelayAfter(base, n + 1) = Min({MaxDelay, 2 * DelayAfter(base, n)})
<1> DEFINE d == CHOOSE f : f = Doubled(base, f)
<1>1. \A i : DelayAfter(base, i) = d[i]
  BY DEF DelayAfter, Doubled
<1>2. d = Doubled(base, d)
  BY DoubledFix
<1> HIDE DEF d
<1>3. \A i \in Nat : d[i] \in Nat
  <2> DEFINE T == {i \in Nat : d[i] \notin Nat}
  <2> SUFFICES ASSUME T # {} PROVE FALSE
    OBVIOUS
  <2>1. PICK i \in T : \A j \in T : i <= j
    BY LeastNat
  <2>2. i \in Nat /\ d[i] \notin Nat /\ d[i] = Doubled(base, d)[i]
    BY <1>2
  <2>3. i > 1
    BY <2>2 DEF Doubled
  <2>4. i - 1 \in Nat /\ d[i - 1] \in Nat
    BY <2>1, <2>2, <2>3
  <2>5. d[i] = Min({MaxDelay, 2 * d[i - 1]})
    BY <2>2, <2>3 DEF Doubled
  <2>6. MaxDelay \in Nat /\ 2 * d[i - 1] \in Nat
    BY <2>4, TimingAssumption
  <2> QED BY <2>2, <2>5, <2>6, MinOf
<1>4. d[n] = Doubled(base, d)[n] /\ d[n + 1] = Doubled(base, d)[n + 1]
  BY <1>2
<1> QED BY <1>1, <1>3, <1>4 DEF Doubled

LEMMA FirstDelay == ASSUME NEW base \in Nat PROVE DelayAfter(base, 1) = base
<1>1. \A n \in Nat : n <= 1 => DelayAfter(base, n) = base
  BY Delays
<1> QED BY <1>1

\* The least delay after a number of failed attempts, and what backoffWithJitter
\* makes of it.
Least(kind, n) ==
    IF kind = "renewer" THEN DelayAfter(2 * BaseDelay, n) \div 2
    ELSE DelayAfter(BaseDelay, n)

LEMMA Jitter == \A n : backoffWithJitter(n) = Least(loop.kind, n)..(2 * Least(loop.kind, n))
  BY DEF backoffWithJitter, Least

\* The renewer halves a delay that is even or as long as it gets.
LEMMA HalvedDelay ==
    ASSUME NEW n \in Nat, n >= 1
    PROVE  LET d == DelayAfter(2 * BaseDelay, n)
           IN  d >= 2 /\ (d = MaxDelay \/ \E k \in Nat : d = 2 * k)
<1> DEFINE d(i) == DelayAfter(2 * BaseDelay, i)
           Good(i) == d(i) >= 2 /\ (d(i) = MaxDelay \/ \E k \in Nat : d(i) = 2 * k)
           T == {i \in Nat : i >= 1 /\ ~Good(i)}
<1> SUFFICES ASSUME T # {} PROVE FALSE
  OBVIOUS
<1>1. PICK i \in T : \A j \in T : i <= j
  BY LeastNat
<1>2. BaseDelay \in Nat /\ BaseDelay >= 1 /\ MaxDelay \in Nat /\ MaxDelay >= 2
  BY TimingAssumption
<1>3. i \in Nat /\ i >= 1 /\ ~Good(i)
  OBVIOUS
<1>4. i # 1
  <2>1. d(1) = 2 * BaseDelay
    BY <1>2, FirstDelay
  <2> QED BY <1>2, <1>3, <2>1
<1>5. i - 1 \in Nat /\ i - 1 >= 1 /\ i - 1 \notin T
  BY <1>1, <1>3, <1>4
<1>6. Good(i - 1) /\ d(i - 1) \in Nat
  BY <1>2, <1>5, Delays
<1>7. d((i - 1) + 1) = Min({MaxDelay, 2 * d(i - 1)})
  BY <1>2, <1>5, Delays
<1>8. (i - 1) + 1 = i
  BY <1>3
<1>9. d(i) = IF MaxDelay <= 2 * d(i - 1) THEN MaxDelay ELSE 2 * d(i - 1)
  BY <1>2, <1>6, <1>7, <1>8, MinOf
<1>10. Good(i)
  BY <1>2, <1>6, <1>9
<1> QED BY <1>3, <1>10

LEMMA DelayPositive ==
    ASSUME NEW n \in Nat, n >= 1
    PROVE  DelayAfter(BaseDelay, n) >= 1
<1> DEFINE d(i) == DelayAfter(BaseDelay, i)
           T == {i \in Nat : i >= 1 /\ ~(d(i) >= 1)}
<1> SUFFICES ASSUME T # {} PROVE FALSE
  OBVIOUS
<1>1. PICK i \in T : \A j \in T : i <= j
  BY LeastNat
<1>2. BaseDelay \in Nat /\ BaseDelay >= 1 /\ MaxDelay \in Nat /\ MaxDelay >= 2
  BY TimingAssumption
<1>3. i \in Nat /\ i >= 1 /\ ~(d(i) >= 1)
  OBVIOUS
<1>4. i # 1
  <2>1. d(1) = BaseDelay
    BY <1>2, FirstDelay
  <2> QED BY <1>2, <1>3, <2>1
<1>5. i - 1 \in Nat /\ i - 1 >= 1 /\ i - 1 \notin T
  BY <1>1, <1>3, <1>4
<1>6. d(i - 1) >= 1 /\ d(i - 1) \in Nat
  BY <1>2, <1>5, Delays
<1>7. d((i - 1) + 1) = Min({MaxDelay, 2 * d(i - 1)})
  BY <1>2, <1>5, Delays
<1>8. (i - 1) + 1 = i
  BY <1>3
<1>9. d(i) = IF MaxDelay <= 2 * d(i - 1) THEN MaxDelay ELSE 2 * d(i - 1)
  BY <1>2, <1>6, <1>7, <1>8, MinOf
<1> QED BY <1>2, <1>3, <1>6, <1>9

\* Every loop waits at least BaseDelay at first, then some time, and never more than
\* twice as long as before.
LEMMA LeastDelay ==
    ASSUME NEW kind, NEW n \in Nat, n >= 1
    PROVE  /\ Least(kind, n) \in Nat /\ Least(kind, n) >= 1
           /\ Least(kind, 1) = BaseDelay
           /\ Least(kind, n + 1) <= 2 * Least(kind, n)
<1>1. BaseDelay \in Nat /\ BaseDelay >= 1 /\ MaxDelay \in Nat /\ MaxDelay >= 2
  BY TimingAssumption
<1>2. CASE kind = "renewer"
  <2> DEFINE d(i) == DelayAfter(2 * BaseDelay, i)
  <2>1. d(1) = 2 * BaseDelay /\ d(n) \in Nat /\ d(n + 1) = Min({MaxDelay, 2 * d(n)})
    BY <1>1, FirstDelay, Delays
  <2>2. d(n) >= 2 /\ (d(n) = MaxDelay \/ \E k \in Nat : d(n) = 2 * k)
    BY HalvedDelay
  <2>3. d(n + 1) = IF MaxDelay <= 2 * d(n) THEN MaxDelay ELSE 2 * d(n)
    BY <1>1, <2>1, MinOf
  <2>4. /\ Least(kind, 1) = d(1) \div 2
        /\ Least(kind, n) = d(n) \div 2 /\ Least(kind, n + 1) = d(n + 1) \div 2
    BY <1>2 DEF Least
  <2> HIDE DEF d
  <2>5. d(n + 1) \div 2 <= 2 * (d(n) \div 2)
    <3>1. CASE d(n) = MaxDelay
      BY <1>1, <2>2, <2>3, <3>1
    <3>2. ASSUME NEW k \in Nat, d(n) = 2 * k PROVE d(n + 1) \div 2 <= 2 * (d(n) \div 2)
      BY <1>1, <2>2, <2>3, <3>2
    <3> QED BY <2>2, <3>1, <3>2
  <2> QED BY <1>1, <2>1, <2>2, <2>4, <2>5
<1>3. CASE kind # "renewer"
  <2> DEFINE d(i) == DelayAfter(BaseDelay, i)
  <2>1. d(1) = BaseDelay /\ d(n) \in Nat /\ d(n + 1) = Min({MaxDelay, 2 * d(n)})
    BY <1>1, FirstDelay, Delays
  <2>2. d(n + 1) <= 2 * d(n)
    BY <1>1, <2>1, MinOf
  <2> QED BY <1>3, <2>1, <2>2, DelayPositive DEF Least
<1> QED BY <1>2, <1>3

--------------------------------------------------------------------------------
(* How long a loop sleeps                                                     *)

LoopType == [kind : Kinds, threshold : Thresholds]

\* Margin and Reserve as functions of the loop and the lifetime.
MarginOf(l, r) == IF l.kind = "renewer" THEN r - r \div 3 ELSE (r * l.threshold) \div 100
ReserveOf(l) ==
    IF l.kind = "nhi" THEN Max({MinSleep + Latency, (100 * Latency + 99) \div l.threshold})
    ELSE Latency

LEMMA LoopFields ==
    ASSUME NEW l \in LoopType
    PROVE  l.kind \in {"nhi", "renewer", "ts"} /\ l.threshold \in 1..99
  BY TimingAssumption DEF LoopType, Kinds

LEMMA Constants ==
    /\ MinSleep \in Nat /\ MinSleep >= 1 /\ Latency \in Nat
    /\ BaseDelay \in Nat /\ BaseDelay >= 1 /\ MaxAttempts \in Nat /\ MaxAttempts >= 1
    /\ \A r \in Lifetimes : r \in Nat
  BY TimingAssumption

\* The NHI loop sleeps for MinSleep, or leaves the threshold of what is left.
LEMMA NextRenewal ==
    ASSUME NEW l \in LoopType, NEW r \in Nat
    PROVE  /\ nextRenewalIn(l, r) \in Nat /\ nextRenewalIn(l, r) >= 1
           /\ \/ nextRenewalIn(l, r) <= MinSleep
              \/ /\ nextRenewalIn(l, r) = r - (r * l.threshold) \div 100
                 /\ l.threshold * r <= 100 * (r - nextRenewalIn(l, r)) + 99
<1> DEFINE s == (r * l.threshold) \div 100
<1>1. s \in 0..r /\ r * l.threshold <= 100 * s + 99
  BY LoopFields, Share
<1>2. l.threshold * r = r * l.threshold
  BY LoopFields
<1>3. nextRenewalIn(l, r) = Max({r - s, MinSleep})
  BY DEF nextRenewalIn
<1> HIDE DEF s
<1>4. nextRenewalIn(l, r) = IF r - s >= MinSleep THEN r - s ELSE MinSleep
  BY <1>1, <1>3, MaxOf, Constants
<1>5. CASE r - s >= MinSleep
  BY <1>1, <1>2, <1>4, <1>5, Constants DEF s
<1>6. CASE ~(r - s >= MinSleep)
  BY <1>1, <1>4, <1>6, Constants
<1> QED BY <1>5, <1>6

\* Every loop sleeps for MinSleep or less, or leaves its margin; and it sleeps, but
\* for the two cases of Paced.
LEMMA Sleeps ==
    ASSUME NEW l \in LoopType, NEW r \in Nat
    PROVE  /\ SleepFor(l, r) \in Nat /\ MarginOf(l, r) \in Nat /\ MarginOf(l, r) <= r
           /\ SleepFor(l, r) <= MinSleep \/ MarginOf(l, r) <= r - SleepFor(l, r)
           /\ SleepFor(l, r) = 0 => \/ l.kind = "renewer" /\ r = 0
                                    \/ l.kind = "ts" /\ scheduleRenewal(l, r) = 0
<1>1. CASE l.kind = "nhi"
  <2>1. SleepFor(l, r) = nextRenewalIn(l, r) /\ MarginOf(l, r) = (r * l.threshold) \div 100
    BY <1>1 DEF SleepFor, MarginOf
  <2>2. (r * l.threshold) \div 100 \in 0..r
    BY LoopFields, Share
  <2> QED BY <2>1, <2>2, NextRenewal
<1>2. CASE l.kind = "renewer"
  <2>1. SleepFor(l, r) = (IF r = 0 THEN 0 ELSE Max({r \div 3, 1})) /\ MarginOf(l, r) = r - r \div 3
    BY <1>2 DEF SleepFor, MarginOf, renewalSleep
  <2>2. r \div 3 \in 0..r /\ (r = 0 => r \div 3 = 0)
    OBVIOUS
  <2>3. r \div 3 \in Int /\ 1 \in Int
    OBVIOUS
  <2>4. Max({r \div 3, 1}) = IF r \div 3 >= 1 THEN r \div 3 ELSE 1
    BY <2>3, MaxOf
  <2> QED BY <1>2, <2>1, <2>2, <2>4, Constants
<1>3. CASE l.kind = "ts"
  <2> DEFINE d == (r * (100 - l.threshold)) \div 100
             m == (r * l.threshold) \div 100
  <2>1. d \in Nat /\ m \in 0..r /\ m <= r - d
    BY LoopFields, Share
  <2>2. SleepFor(l, r) = scheduleRenewal(l, r) /\ MarginOf(l, r) = m
    BY <1>3 DEF SleepFor, MarginOf
  <2>3. scheduleRenewal(l, r) = LET e == Max({d, MinSleep}) IN IF e > MaxTimer THEN 0 ELSE e
    BY DEF scheduleRenewal
  <2> HIDE DEF d, m
  <2>4. Max({d, MinSleep}) = IF d >= MinSleep THEN d ELSE MinSleep
    BY <2>1, MaxOf, Constants
  <2> QED BY <1>3, <2>1, <2>2, <2>3, <2>4, Constants
<1> QED BY <1>1, <1>2, <1>3, LoopFields

LEMMA Reserves ==
    ASSUME NEW l \in LoopType
    PROVE  /\ ReserveOf(l) \in Nat /\ ReserveOf(l) >= Latency
           /\ l.kind = "nhi" =>
                /\ ReserveOf(l) >= MinSleep + Latency
                /\ \A a \in Int : l.threshold * a <= 100 * Latency + 99 => a <= ReserveOf(l)
<1> DEFINE b == 100 * Latency + 99
           c == b \div l.threshold
<1>1. l.threshold \in 1..99 /\ b \in Nat
  BY LoopFields, Constants
<1> HIDE DEF b
<1>2. c \in Nat /\ \A a \in Int : l.threshold * a <= b => a <= c
  <2>1. l.threshold * 0 <= b
    BY <1>1
  <2> QED BY <1>1, <2>1, Unshare
<1>3. ReserveOf(l) = IF l.kind = "nhi" THEN Max({MinSleep + Latency, c}) ELSE Latency
  BY DEF ReserveOf, b
<1> HIDE DEF c
<1>4. Max({MinSleep + Latency, c}) = IF MinSleep + Latency >= c THEN MinSleep + Latency ELSE c
  BY <1>2, MaxOf, Constants
<1>5. CASE l.kind = "nhi"
  <2>1. ReserveOf(l) \in Nat /\ ReserveOf(l) >= MinSleep + Latency /\ ReserveOf(l) >= c
    BY <1>2, <1>3, <1>4, <1>5, Constants
  <2>2. \A a \in Int : l.threshold * a <= b => a <= ReserveOf(l)
    BY <1>2, <2>1
  <2> QED BY <2>1, <2>2, Constants DEF b
<1>6. CASE l.kind # "nhi"
  BY <1>3, <1>6, Constants
<1> QED BY <1>5, <1>6

--------------------------------------------------------------------------------
(* The invariant                                                              *)

TimingTypes ==
    /\ ttl \in Nat /\ left \in Nat /\ left <= ttl /\ timer \in Nat
    /\ tries \in Nat /\ outage \in Nat /\ failing \in Int /\ failing >= -1
    /\ at \in {"start", "sleep", "exchange", "backoff", "ended"}
    /\ at = "start" => failing = -1 /\ paused
    /\ at # "start" => loop \in LoopType /\ (loop.kind = "renewer" => tries <= MaxAttempts)
    /\ at \in {"start", "sleep"} \/ failing = -1 => tries = 0
    /\ at = "exchange" => timer <= Latency
    /\ at = "backoff" => failing >= 0 /\ tries >= 1

\* The cases that Paced leaves out.
Unpaced ==
    \/ tries = 0 /\ loop.kind = "renewer" /\ ttl = 0
    \/ tries = 0 /\ loop.kind = "ts" /\ scheduleRenewal(loop, ttl) = 0

\* A loop that has not paused since its last exchange has a pause ahead.
PausedInv ==
    ~paused =>
        /\ at = "sleep" => timer > 0 \/ Unpaced
        /\ at = "backoff" => timer > 0
        /\ at = "exchange" => Unpaced

\* Before the first failure: the exchange begins when the margin is left, or MinSleep
\* after the credential was stored.
FirstTry ==
    LET margin == MarginOf(loop, ttl) IN
    /\ at = "sleep" => margin <= left - timer \/ ttl + timer <= left + MinSleep
    /\ at = "exchange" => \/ margin <= left + Latency - timer
                          \/ ttl + timer <= left + MinSleep + Latency

\* When the attempt comes that follows the last failure of a round.
Soon == 3 * outage + 2 * BaseDelay

\* After a round the NHI loop has slept for MinSleep, or a share of what is left
\* remains for the exchange.
Slept(d) ==
    \/ failing + timer <= Soon + MinSleep + d
    \/ loop.threshold * (failing + left - Soon) <= 100 * (left + d - timer) + 99

\* After a failure: each delay is at most twice the one before, and so no longer than
\* the outage and BaseDelay together.
Retrying ==
    LET delay == Least(loop.kind, tries) IN
    /\ at = "backoff" => /\ outage + delay <= failing + timer
                         /\ failing + timer <= outage + 2 * delay
                         /\ delay <= outage + BaseDelay
    /\ at = "exchange" /\ tries > 0 => /\ outage + delay <= failing
                                       /\ failing + timer <= Soon + Latency
                                       /\ delay <= outage + BaseDelay
    /\ at = "sleep" => loop.kind = "nhi" /\ Slept(0)
    /\ at = "exchange" /\ tries = 0 => loop.kind = "nhi" /\ Slept(Latency)

\* What is left and the time since the first failure make up for the margin.  The
\* clock of the outage stops when the credential expires.
LapseInv ==
    at \notin {"start", "ended"} =>
        /\ failing = -1 => FirstTry
        /\ failing >= 0 =>
             /\ MarginOf(loop, ttl) <= left + failing + MinSleep + Latency
             /\ outage <= failing
             /\ left > 0 => Retrying
             /\ left = 0 => failing <= Soon + ReserveOf(loop)

TimingInv == TimingTypes /\ PausedInv /\ LapseInv

LEMMA InitTiming == TimingInit => TimingInv
  BY DEF TimingInit, TimingInv, TimingTypes, PausedInv, LapseInv

\* A credential has been stored and the loop goes to sleep.
LEMMA AfterStored ==
    ASSUME loop' \in LoopType, ttl' \in Lifetimes, left' = ttl',
           at' = "sleep", timer' = SleepFor(loop', ttl'), tries' = 0,
           failing' = -1, outage' \in Nat
    PROVE  TimingInv'
<1>1. ttl' \in Nat
  BY Constants
<1>2. TimingTypes'
  BY <1>1, Sleeps, Constants DEF TimingTypes
<1>3. PausedInv'
  <2>1. timer' \in Nat /\ (timer' = 0 => Unpaced')
    BY <1>1, Sleeps DEF Unpaced
  <2> QED BY <2>1 DEF PausedInv
<1>4. LapseInv'
  <2>1. MarginOf(loop', ttl') <= ttl' - timer' \/ timer' <= MinSleep
    BY <1>1, Sleeps
  <2>2. timer' \in Nat
    BY <1>1, Sleeps
  <2> QED BY <1>1, <2>1, <2>2, Constants DEF LapseInv, FirstTry
<1> QED BY <1>2, <1>3, <1>4 DEF TimingInv

LEMMA BeginStep == ASSUME TimingInv, Begin PROVE TimingInv'
<1>1. at = "start" /\ UNCHANGED <<tries, failing, outage>>
  BY DEF Begin
<1>2. tries' = 0 /\ failing' = -1 /\ outage' \in Nat
  BY <1>1 DEF TimingInv, TimingTypes
<1> QED BY <1>2, AfterStored DEF Begin, LoopType

LEMMA RenewedStep == ASSUME TimingInv, Renewed PROVE TimingInv'
<1>1. loop' \in LoopType
  BY DEF Renewed, TimingInv, TimingTypes
<1> QED BY <1>1, AfterStored DEF Renewed

LEMMA ExchangeStep == ASSUME TimingInv, Exchange PROVE TimingInv'
<1>1. /\ at \in {"sleep", "backoff"} /\ timer = 0 /\ at' = "exchange"
      /\ UNCHANGED <<loop, ttl, left, tries, paused, failing, outage>>
  BY DEF Exchange
<1>2. TimingTypes /\ PausedInv /\ LapseInv /\ loop \in LoopType
  BY <1>1 DEF TimingInv, TimingTypes
<1>3. PICK t \in 0..Latency : timer' = t
  BY DEF Exchange
<1>4. TimingTypes'
  BY <1>1, <1>2, <1>3, Constants DEF TimingTypes
<1>5. PausedInv'
  BY <1>1, <1>2 DEF PausedInv, Unpaced
<1>6. LapseInv'
  <2>1. MarginOf(loop, ttl) \in Nat
    BY <1>2, Sleeps DEF TimingTypes
  <2>2. CASE failing = -1
    <3>1. \/ MarginOf(loop, ttl) <= left + Latency - t
          \/ ttl + t <= left + MinSleep + Latency
      BY <1>1, <1>2, <2>1, <2>2, Constants DEF LapseInv, FirstTry, TimingTypes
    <3>2. FirstTry'
      BY <1>1, <1>3, <3>1 DEF FirstTry
    <3> QED BY <1>1, <2>2, <3>2 DEF LapseInv
  <2>3. CASE failing >= 0 /\ left = 0
    BY <1>1, <1>2, <2>3, Constants DEF LapseInv, TimingTypes, Soon
  <2>4. CASE failing >= 0 /\ left > 0 /\ at = "backoff"
    <3> DEFINE delay == Least(loop.kind, tries)
    <3>1. tries >= 1 /\ tries > 0 /\ delay \in Nat
      BY <1>2, <2>4, LeastDelay DEF TimingTypes
    <3>2. /\ outage + delay <= failing /\ delay <= outage + BaseDelay
          /\ failing + t <= 3 * outage + 2 * BaseDelay + Latency
      BY <1>1, <1>2, <2>4, <3>1, Constants DEF LapseInv, Retrying, TimingTypes
    <3> HIDE DEF delay
    <3>3. Retrying'
      BY <1>1, <1>3, <3>1, <3>2 DEF Retrying, Soon, delay
    <3> QED BY <1>1, <1>2, <2>4, <3>3 DEF LapseInv, TimingTypes
  <2>5. CASE failing >= 0 /\ left > 0 /\ at = "sleep"
    <3>1. tries = 0 /\ loop.kind = "nhi" /\ Slept(0)
      BY <1>2, <2>5 DEF TimingTypes, LapseInv, Retrying
    <3> DEFINE w == loop.threshold * (failing + left - Soon)
    <3>2. Soon \in Nat /\ w \in Int
      <4>1. Soon \in Nat
        BY <1>2, Constants DEF Soon, TimingTypes
      <4>2. loop.threshold \in Int
        BY <1>2, LoopFields
      <4> QED BY <1>2, <4>1, <4>2 DEF TimingTypes
    <3>3. failing + timer <= Soon + MinSleep + 0 \/ w <= 100 * (left + 0 - timer) + 99
      BY <3>1 DEF Slept
    <3>4. Soon' = Soon /\ w' = w
      BY <1>1 DEF Soon
    <3> HIDE DEF w
    <3>5. failing + t <= Soon + MinSleep + Latency \/ w <= 100 * (left + Latency - t) + 99
      BY <1>1, <1>2, <3>2, <3>3, Constants DEF TimingTypes
    <3>6. Slept(Latency)'
      BY <1>1, <1>3, <3>4, <3>5 DEF Slept, w
    <3>7. Retrying'
      BY <1>1, <3>1, <3>6 DEF Retrying
    <3> QED BY <1>1, <1>2, <2>5, <3>7 DEF LapseInv, TimingTypes
  <2> QED BY <1>1, <1>2, <2>2, <2>3, <2>4, <2>5 DEF TimingTypes
<1> QED BY <1>4, <1>5, <1>6 DEF TimingInv

LEMMA FailedStep == ASSUME TimingInv, Failed PROVE TimingInv'
<1>1. /\ at = "exchange" /\ timer = 0 /\ at' = "backoff" /\ outage' = failing' /\ paused' = FALSE
      /\ UNCHANGED <<loop, ttl, left>>
  BY DEF Failed
<1>2. TimingTypes /\ LapseInv /\ loop \in LoopType
  BY <1>1 DEF TimingInv, TimingTypes
<1>3. PICK n \in Nat :
        /\ tries' = n /\ n >= 1 /\ (loop.kind = "renewer" => n <= MaxAttempts)
        /\ n = tries + 1 \/ (n = tries /\ tries >= 1)
  <2>1. tries + 1 \in Nat /\ MaxAttempts \in Nat /\ MaxAttempts >= 1
    BY <1>2, Constants DEF TimingTypes
  <2>2. Min({tries + 1, MaxAttempts}) = IF tries + 1 <= MaxAttempts THEN tries + 1 ELSE MaxAttempts
    BY <2>1, MinOf
  <2>3. tries' = IF loop.kind = "renewer" THEN Min({tries + 1, MaxAttempts}) ELSE tries + 1
    BY DEF Failed
  <2>4. loop.kind = "renewer" => tries <= MaxAttempts
    BY <1>1, <1>2 DEF TimingTypes
  <2>5. tries \in Nat
    BY <1>2 DEF TimingTypes
  <2> DEFINE m == IF loop.kind = "renewer" THEN Min({tries + 1, MaxAttempts}) ELSE tries + 1
  <2>6. /\ m \in Nat /\ m >= 1 /\ (loop.kind = "renewer" => m <= MaxAttempts)
        /\ m = tries + 1 \/ (m = tries /\ tries >= 1)
    BY <2>1, <2>2, <2>4, <2>5
  <2> HIDE DEF m
  <2> QED BY <2>3, <2>6 DEF m
<1>4. PICK f \in Nat : failing' = f /\ f = IF failing = -1 THEN 0 ELSE failing
  <2>1. failing \in Int /\ failing >= -1 /\ 0 \in Int
    BY <1>2 DEF TimingTypes
  <2>2. Max({failing, 0}) = IF failing >= 0 THEN failing ELSE 0
    BY <2>1, MaxOf
  <2>3. failing' = Max({failing, 0})
    BY DEF Failed
  <2> QED BY <2>1, <2>2, <2>3
<1> DEFINE delay == Least(loop.kind, n)
<1>5. delay \in Nat /\ delay >= 1 /\ Least(loop.kind, 1) = BaseDelay
  BY <1>3, LeastDelay
<1>6. PICK t \in Nat : timer' = t /\ delay <= t /\ t <= 2 * delay
  <2>1. timer' \in Least(loop.kind, n)..(2 * Least(loop.kind, n))
    BY <1>3, Jitter DEF Failed
  <2> QED BY <1>5, <2>1
<1>7. delay <= f + BaseDelay \/ left = 0
  <2> SUFFICES ASSUME left # 0 PROVE delay <= f + BaseDelay
    OBVIOUS
  <2>1. CASE tries = 0
    <3>1. n = 1
      BY <1>3, <2>1
    <3> QED BY <1>4, <1>5, <3>1, Constants
  <2>2. CASE tries > 0
    <3> DEFINE old == Least(loop.kind, tries)
    <3>1. old \in Nat /\ delay <= 2 * old
      <4>1. tries \in Nat /\ tries >= 1
        BY <1>2, <2>2 DEF TimingTypes
      <4>2. old \in Nat /\ Least(loop.kind, tries + 1) <= 2 * old
        BY <4>1, LeastDelay
      <4>3. CASE n = tries + 1
        BY <4>2, <4>3
      <4>4. CASE n = tries
        BY <4>2, <4>4
      <4> QED BY <1>3, <4>3, <4>4
    <3>2. failing >= 0 /\ left > 0
      BY <1>2, <2>2 DEF TimingTypes
    <3>3. outage + old <= failing /\ old <= outage + BaseDelay
      BY <1>1, <1>2, <2>2, <3>2 DEF LapseInv, Retrying
    <3> HIDE DEF delay, old
    <3> QED BY <1>2, <1>4, <1>5, <3>1, <3>2, <3>3, Constants DEF TimingTypes
  <2> QED BY <1>2, <2>1, <2>2 DEF TimingTypes
<1>8. MarginOf(loop, ttl) <= left + f + MinSleep + Latency
  <2>1. MarginOf(loop, ttl) \in Nat /\ MarginOf(loop, ttl) <= ttl
    BY <1>2, Sleeps DEF TimingTypes
  <2>2. CASE failing = -1
    <3>1. \/ MarginOf(loop, ttl) <= left + Latency - timer
          \/ ttl + timer <= left + MinSleep + Latency
      BY <1>1, <1>2, <2>2 DEF LapseInv, FirstTry
    <3> QED BY <1>1, <1>2, <1>4, <2>1, <2>2, <3>1, Constants DEF TimingTypes
  <2>3. CASE failing >= 0
    BY <1>1, <1>2, <1>4, <2>3 DEF LapseInv, TimingTypes
  <2> QED BY <1>2, <2>2, <2>3 DEF TimingTypes
<1> HIDE DEF delay
<1>9. TimingTypes'
  BY <1>1, <1>2, <1>3, <1>4, <1>6 DEF TimingTypes
<1>10. PausedInv'
  <2>1. t > 0
    BY <1>5, <1>6
  <2> QED BY <1>1, <1>6, <2>1 DEF PausedInv
<1>11. LapseInv'
  <2>1. left # 0 => f + delay <= f + t /\ f + t <= f + 2 * delay /\ delay <= f + BaseDelay
    BY <1>5, <1>6, <1>7, Constants
  <2>2. f <= 3 * f + 2 * BaseDelay + ReserveOf(loop)
    BY <1>2, Reserves, Constants
  <2>3. left' # 0 => Retrying'
    BY <1>1, <1>3, <1>4, <1>6, <2>1 DEF Retrying, delay
  <2> QED BY <1>1, <1>4, <1>8, <2>2, <2>3 DEF LapseInv, Soon
<1> QED BY <1>9, <1>10, <1>11 DEF TimingInv

LEMMA GivesUpStep == ASSUME TimingInv, GivesUp PROVE TimingInv'
<1>1. /\ at = "backoff" /\ timer = 0 /\ loop.kind # "renewer" /\ tries' = 0
      /\ UNCHANGED <<loop, ttl, left, paused, failing, outage>>
  BY DEF GivesUp
<1>2. TimingTypes /\ PausedInv /\ LapseInv /\ loop \in LoopType /\ failing >= 0
  BY <1>1 DEF TimingInv, TimingTypes
<1>3. paused'
  BY <1>1, <1>2 DEF PausedInv
<1>4. PausedInv'
  BY <1>3 DEF PausedInv
<1>5. CASE loop.kind # "nhi"
  <2>1. at' = "ended" /\ timer' = 0
    BY <1>5 DEF GivesUp
  <2>2. TimingTypes'
    BY <1>1, <1>2, <2>1 DEF TimingTypes
  <2> QED BY <1>4, <2>1, <2>2 DEF TimingInv, LapseInv
<1>6. CASE loop.kind = "nhi"
  <2>1. at' = "sleep" /\ timer' = nextRenewalIn(loop, left)
    BY <1>6 DEF GivesUp
  <2>2. left \in Nat
    BY <1>2 DEF TimingTypes
  <2>3. PICK t \in Nat :
          /\ timer' = t
          /\ t <= MinSleep \/ loop.threshold * left <= 100 * (left - t) + 99
    BY <1>2, <2>1, <2>2, NextRenewal
  <2>4. TimingTypes'
    BY <1>1, <1>2, <2>1, <2>3 DEF TimingTypes
  <2>5. LapseInv'
    <3>1. CASE left = 0
      BY <1>1, <1>2, <2>1, <3>1 DEF LapseInv, Soon
    <3>2. CASE left > 0
      <4> DEFINE delay == Least(loop.kind, tries)
      <4>1. tries >= 1 /\ delay \in Nat
        BY <1>1, <1>2, LeastDelay DEF TimingTypes
      <4>2. failing + timer <= outage + 2 * delay /\ delay <= outage + BaseDelay
        BY <1>1, <1>2, <3>2 DEF LapseInv, Retrying
      <4> HIDE DEF delay
      <4>3. Soon \in Nat /\ failing <= Soon
        BY <1>1, <1>2, <4>1, <4>2, Constants DEF Soon, TimingTypes
      <4>4. loop.threshold \in 1..99
        BY <1>2, LoopFields
      <4>5. loop.threshold * (failing + left - Soon) <= loop.threshold * left
        <5>1. failing + left - Soon \in Int /\ failing + left - Soon <= left
          BY <1>2, <2>2, <4>3 DEF TimingTypes
        <5>2. \A i \in 1..99 : \A a, b \in Int : a <= b => i * a <= i * b
          OBVIOUS
        <5> QED BY <2>2, <4>4, <5>1, <5>2
      <4> DEFINE w == loop.threshold * (failing + left - Soon)
                 v == loop.threshold * left
      <4>6. w \in Int /\ v \in Int /\ w <= v
        BY <1>2, <2>2, <4>3, <4>4, <4>5 DEF TimingTypes
      <4>7. t <= MinSleep \/ v <= 100 * (left - t) + 99
        BY <2>3
      <4>8. Soon' = Soon /\ w' = w
        BY <1>1 DEF Soon
      <4> HIDE DEF w, v
      <4>9. failing + t <= Soon + MinSleep + 0 \/ w <= 100 * (left + 0 - t) + 99
        BY <1>2, <2>2, <4>3, <4>6, <4>7, Constants DEF TimingTypes
      <4>10. Slept(0)'
        BY <1>1, <2>3, <4>8, <4>9 DEF Slept, w
      <4>11. Retrying'
        BY <1>1, <1>6, <2>1, <4>10 DEF Retrying
      <4> QED BY <1>1, <1>2, <2>1, <3>2, <4>11 DEF LapseInv, TimingTypes
    <3> QED BY <2>2, <3>1, <3>2
  <2> QED BY <1>4, <2>4, <2>5 DEF TimingInv
<1> QED BY <1>5, <1>6

LEMMA TickStep == ASSUME TimingInv, Tick PROVE TimingInv'
<1>1. /\ at = "ended" \/ timer > 0
      /\ paused' = (paused \/ at # "exchange")
      /\ UNCHANGED <<loop, ttl, at, tries, outage>>
  BY DEF Tick
<1>2. TimingTypes /\ PausedInv /\ LapseInv
  BY DEF TimingInv
<1>3. /\ left \in Nat /\ timer \in Nat /\ outage \in Nat /\ ttl \in Nat
      /\ failing \in Int /\ failing >= -1
  BY <1>2 DEF TimingTypes
<1>4. PICK t \in Nat : timer' = t /\ t = IF timer = 0 THEN 0 ELSE timer - 1
  <2>1. Max({timer - 1, 0}) = IF timer - 1 >= 0 THEN timer - 1 ELSE 0
    BY <1>3, MaxOf
  <2> QED BY <1>3, <2>1 DEF Tick
<1>5. PICK l \in Nat : left' = l /\ l = IF left = 0 THEN 0 ELSE left - 1
  <2>1. Max({left - 1, 0}) = IF left - 1 >= 0 THEN left - 1 ELSE 0
    BY <1>3, MaxOf
  <2> QED BY <1>3, <2>1 DEF Tick
<1>6. PICK f \in Int : failing' = f /\ f = IF failing = -1 \/ left = 0 THEN failing ELSE failing + 1
  BY <1>3 DEF Tick
<1>7. TimingTypes'
  <2>1. l <= left /\ f >= -1 /\ (failing >= 0 => f >= 0) /\ (f = -1 => failing = -1)
    BY <1>3, <1>5, <1>6
  <2>2. t <= timer
    BY <1>3, <1>4
  <2>3. l <= ttl /\ (at = "exchange" => t <= Latency)
    BY <1>2, <1>3, <2>1, <2>2, Constants DEF TimingTypes
  <2>4. at = "start" => failing' = -1 /\ paused'
    BY <1>1, <1>2, <1>6 DEF TimingTypes
  <2> QED BY <1>1, <1>2, <1>4, <1>5, <1>6, <2>1, <2>3, <2>4 DEF TimingTypes
<1>8. PausedInv'
  <2> SUFFICES ASSUME ~paused' PROVE at = "exchange" /\ Unpaced'
    BY <1>1 DEF PausedInv
  <2>1. ~paused /\ at = "exchange"
    BY <1>1
  <2>2. Unpaced
    BY <1>2, <2>1 DEF PausedInv
  <2> QED BY <1>1, <1>5, <2>1, <2>2 DEF Unpaced
<1>9. LapseInv'
  <2> SUFFICES ASSUME at \notin {"start", "ended"} PROVE LapseInv'
    BY <1>1 DEF LapseInv
  <2>1. loop \in LoopType /\ timer > 0 /\ t = timer - 1
    BY <1>1, <1>2, <1>3, <1>4 DEF TimingTypes
  <2> DEFINE m == MarginOf(loop, ttl)
  <2>2. m \in Nat /\ m' = m
    BY <1>1, <1>3, <2>1, Sleeps
  <2>3. CASE failing = -1
    <3>1. /\ at = "sleep" => m <= left - timer \/ ttl + timer <= left + MinSleep
          /\ at = "exchange" => \/ m <= left + Latency - timer
                                \/ ttl + timer <= left + MinSleep + Latency
      BY <1>2, <2>3 DEF LapseInv, FirstTry
    <3> HIDE DEF m
    <3>2. /\ at = "sleep" => m <= l - t \/ ttl + t <= l + MinSleep
          /\ at = "exchange" => \/ m <= l + Latency - t
                                \/ ttl + t <= l + MinSleep + Latency
      <4>1. CASE at = "sleep"
        BY <1>3, <1>5, <2>1, <2>2, <3>1, <4>1, Constants
      <4>2. CASE at = "exchange"
        BY <1>3, <1>5, <2>1, <2>2, <3>1, <4>2, Constants
      <4> QED BY <4>1, <4>2
    <3>3. FirstTry'
      BY <1>1, <1>4, <1>5, <3>2 DEF FirstTry, m
    <3> QED BY <1>1, <1>6, <2>3, <3>3 DEF LapseInv
  <2>4. ASSUME failing >= 0 PROVE f >= 0 /\ m <= l + f + MinSleep + Latency /\ outage <= f
    <3>1. m <= left + failing + MinSleep + Latency /\ outage <= failing
      BY <1>2, <2>4 DEF LapseInv
    <3> HIDE DEF m
    <3> QED BY <1>3, <1>5, <1>6, <2>2, <2>4, <3>1, Constants
  <2>5. CASE failing >= 0 /\ left = 0
    <3>1. f = failing /\ l = 0
      BY <1>5, <1>6, <2>5
    <3>2. failing <= Soon + ReserveOf(loop)
      BY <1>2, <2>5 DEF LapseInv
    <3>3. Soon' = Soon
      BY <1>1 DEF Soon
    <3> QED BY <1>1, <1>5, <1>6, <2>4, <2>5, <3>1, <3>2, <3>3 DEF LapseInv
  <2>6. CASE failing >= 0 /\ left > 0
    <3> DEFINE delay == Least(loop.kind, tries)
               w == loop.threshold * (failing + left - Soon)
    <3>1. f = failing + 1 /\ l = left - 1 /\ t = timer - 1
      BY <1>3, <1>5, <1>6, <2>1, <2>6
    <3>2. Soon \in Nat /\ Soon = 3 * outage + 2 * BaseDelay /\ Soon' = Soon
      BY <1>1, <1>3, Constants DEF Soon
    <3>3. loop.threshold \in 1..99 /\ w \in Int
      BY <1>3, <2>1, <3>2, LoopFields
    <3>4. loop.threshold * (f + l - Soon) = w
      <4>1. f + l - Soon = failing + left - Soon
        BY <1>3, <3>1, <3>2
      <4> QED BY <4>1
    <3>5. Retrying
      BY <1>2, <2>6 DEF LapseInv
    <3>6. at = "backoff" \/ tries > 0 => delay \in Nat
      <4>1. tries \in Nat /\ (at = "backoff" => tries >= 1)
        BY <1>2 DEF TimingTypes
      <4> QED BY <4>1, LeastDelay
    <3> HIDE DEF w, delay
    \* What Retrying says of each point, a tick later.
    <3>7. ASSUME at = "backoff"
          PROVE  /\ outage + delay <= f + t /\ f + t <= outage + 2 * delay
                 /\ delay <= outage + BaseDelay /\ f <= Soon
      <4>1. /\ outage + delay <= failing + timer /\ failing + timer <= outage + 2 * delay
            /\ delay <= outage + BaseDelay
        BY <3>5, <3>7 DEF Retrying, delay
      <4> QED BY <1>3, <3>1, <3>2, <3>6, <3>7, <4>1, Constants
    <3>8. ASSUME at = "exchange", tries > 0
          PROVE  /\ outage + delay <= f /\ f + t <= Soon + Latency
                 /\ delay <= outage + BaseDelay /\ f <= Soon + Latency
      <4>1. /\ outage + delay <= failing /\ failing + timer <= Soon + Latency
            /\ delay <= outage + BaseDelay
        BY <3>5, <3>8 DEF Retrying, delay
      <4> QED BY <1>3, <3>1, <3>2, <3>6, <3>8, <4>1, Constants
    <3>9. ASSUME NEW d \in Nat, Slept(d)
          PROVE  f + t <= Soon + MinSleep + d \/ w <= 100 * (l + d - t) + 99
      <4>1. failing + timer <= Soon + MinSleep + d \/ w <= 100 * (left + d - timer) + 99
        BY <3>9 DEF Slept, w
      <4> QED BY <1>3, <3>1, <3>2, <3>3, <4>1, Constants
    <3>10. ASSUME NEW d \in Nat, Slept(d) PROVE Slept(d)'
      BY <1>1, <1>4, <1>5, <1>6, <3>2, <3>4, <3>9, <3>10 DEF Slept
    <3>11. ASSUME NEW d \in Nat, d <= Latency, Slept(d), loop.kind = "nhi", l = 0
           PROVE  f <= Soon + ReserveOf(loop)
      <4>1. f + t <= Soon + MinSleep + d \/ w <= 100 * (l + d - t) + 99
        BY <3>9, <3>11
      <4>2. ReserveOf(loop) \in Nat /\ ReserveOf(loop) >= MinSleep + Latency
        BY <2>1, <3>11, Reserves
      <4>3. CASE f + t <= Soon + MinSleep + d
        BY <3>2, <3>11, <4>2, <4>3, Constants
      <4>4. CASE w <= 100 * (l + d - t) + 99
        <5>1. w <= 100 * Latency + 99
          BY <3>3, <3>11, <4>4, Constants
        <5>2. f + l - Soon \in Int
          BY <3>2
        <5>3. f + l - Soon <= ReserveOf(loop)
          BY <2>1, <3>4, <3>11, <5>1, <5>2, Reserves
        <5> QED BY <3>2, <3>11, <4>2, <5>3
      <4> QED BY <4>1, <4>3, <4>4
    <3>12. tries \in Nat /\ Latency \in Nat /\ 0 <= Latency
      BY <1>2, Constants DEF TimingTypes
    <3>13. l = 0 => f <= Soon + ReserveOf(loop)
      <4> SUFFICES ASSUME l = 0 PROVE f <= Soon + ReserveOf(loop)
        OBVIOUS
      <4>1. ReserveOf(loop) \in Nat /\ ReserveOf(loop) >= Latency
        BY <2>1, Reserves
      <4>2. CASE at = "backoff"
        BY <3>2, <3>7, <4>1, <4>2
      <4>3. CASE at = "exchange" /\ tries > 0
        BY <3>2, <3>8, <4>1, <4>3, Constants
      <4>4. CASE at = "exchange" /\ tries = 0
        BY <3>5, <3>11, <3>12, <4>4 DEF Retrying
      <4>5. CASE at = "sleep"
        BY <3>5, <3>11, <3>12, <4>5 DEF Retrying
      <4> QED BY <1>2, <3>12, <4>2, <4>3, <4>4, <4>5 DEF TimingTypes
    <3>14. Retrying'
      <4>1. Slept(0) => Slept(0)'
        BY <3>10
      <4>2. Slept(Latency) => Slept(Latency)'
        BY <3>10, <3>12
      <4>3. at = "backoff" => /\ outage' + Least(loop'.kind, tries') <= failing' + timer'
                              /\ failing' + timer' <= outage' + 2 * Least(loop'.kind, tries')
                              /\ Least(loop'.kind, tries') <= outage' + BaseDelay
        BY <1>1, <1>4, <1>6, <3>7 DEF delay
      <4>4. at = "exchange" /\ tries > 0 =>
              /\ outage' + Least(loop'.kind, tries') <= failing'
              /\ failing' + timer' <= Soon' + Latency
              /\ Least(loop'.kind, tries') <= outage' + BaseDelay
        BY <1>1, <1>4, <1>6, <3>2, <3>8 DEF delay
      <4> QED BY <1>1, <3>5, <4>1, <4>2, <4>3, <4>4 DEF Retrying
    <3> QED BY <1>1, <1>5, <1>6, <2>4, <2>6, <3>2, <3>13, <3>14 DEF LapseInv
  <2> QED BY <1>3, <2>3, <2>5, <2>6
<1> QED BY <1>7, <1>8, <1>9 DEF TimingInv

LEMMA NextTiming == TimingInv /\ [TimingNext]_timingVars => TimingInv'
<1> SUFFICES ASSUME TimingInv, [TimingNext]_timingVars PROVE TimingInv'
  OBVIOUS
<1>1. ASSUME UNCHANGED timingVars PROVE TimingInv'
  BY <1>1 DEF timingVars, TimingInv, TimingTypes, PausedInv, Unpaced, LapseInv, FirstTry,
              Retrying, Slept, Soon
<1> QED
  BY <1>1, BeginStep, TickStep, ExchangeStep, RenewedStep, FailedStep, GivesUpStep DEF TimingNext

LEMMA TimingSpecInv == TimingSpec => []TimingInv
  BY InitTiming, NextTiming, PTL DEF TimingSpec

--------------------------------------------------------------------------------
(* The theorems.                                                              *)

\* The three loops (loop and renew of the NHI provider, performRenewal,
\* renewWithBackoff) pause between two exchanges for any lifetimes that the backend
\* gives out, but for the cases that Paced names.
THEOREM LoopsArePaced == TimingSpec => []Paced
<1>1. TimingInv => Paced
  BY DEF TimingInv, PausedInv, Unpaced, Paced
<1> QED BY <1>1, TimingSpecInv, PTL

\* A credential lapses only when its lifetime is too short for a renewal or after an
\* outage of about a third of the margin, for any threshold, any delays and any
\* length of an exchange.
THEOREM LapsesNeedOutage == TimingSpec => []LapseNeedsOutage
<1>1. TimingInv => LapseNeedsOutage
  <2> SUFFICES ASSUME TimingInv, left = 0, at \notin {"start", "ended"}
               PROVE  IF failing = -1 THEN ttl <= MinSleep + Latency \/ Margin <= Latency
                      ELSE Margin <= 3 * outage + 2 * BaseDelay + MinSleep + Latency + Reserve
    BY DEF LapseNeedsOutage
  <2> DEFINE m == MarginOf(loop, ttl)
             r == ReserveOf(loop)
  <2>1. TimingTypes /\ LapseInv /\ loop \in LoopType
    BY DEF TimingInv, TimingTypes
  <2>2. m = Margin /\ r = Reserve
    BY DEF MarginOf, Margin, ReserveOf, Reserve
  <2>3. m \in Nat /\ r \in Nat
    BY <2>1, Sleeps, Reserves DEF TimingTypes
  <2>4. CASE failing = -1
    <3>1. at \in {"sleep", "exchange"}
      BY <2>1, <2>4 DEF TimingTypes
    <3>2. \/ m <= left - timer \/ ttl + timer <= left + MinSleep
          \/ m <= left + Latency - timer
          \/ ttl + timer <= left + MinSleep + Latency
      BY <2>1, <2>4, <3>1 DEF LapseInv, FirstTry
    <3> HIDE DEF m
    <3>3. ttl <= MinSleep + Latency \/ m <= Latency
      BY <2>1, <2>3, <3>2, Constants DEF TimingTypes
    <3> QED BY <2>2, <2>4, <3>3
  <2>5. CASE failing >= 0
    <3>1. m <= left + failing + MinSleep + Latency /\ failing <= Soon + r
      BY <2>1, <2>5 DEF LapseInv
    <3> HIDE DEF m, r
    <3>2. m <= 3 * outage + 2 * BaseDelay + MinSleep + Latency + r
      BY <2>1, <2>3, <2>5, <3>1, Constants DEF Soon, TimingTypes
    <3> QED BY <2>2, <2>5, <3>2
  <2> QED BY <2>1, <2>4, <2>5 DEF TimingTypes
<1> QED BY <1>1, TimingSpecInv, PTL
================================================================================
