----------------------- MODULE RateLimiterStackProofs -----------------------
(***************************************************************************)
(* Proofs about RateLimiterStack, for every interval, ramp, burst size,    *)
(* jitter and scheduled start.                                             *)
(***************************************************************************)
EXTENDS RateLimiterStack, FiniteSetTheorems, SequenceTheorems, TLAPS

\* Division by a positive number is monotone and keeps to the naturals.
LEMMA DivMonotone ==
    ASSUME NEW a \in Nat, NEW b \in Nat, NEW d \in Nat \ {0}, a <= b
    PROVE  a \div d <= b \div d /\ a \div d \in Nat
  OBVIOUS

\* Squaring is monotone on the naturals.
LEMMA SquareMonotone ==
    ASSUME NEW a \in Nat, NEW b \in Nat, a <= b
    PROVE  a * a <= b * b /\ a * a \in Nat
  OBVIOUS

\* The product of two positive numbers is positive.
LEMMA ProductPositive ==
    ASSUME NEW a \in Nat \ {0}, NEW b \in Nat \ {0}
    PROVE  a * b \in Nat \ {0}
  OBVIOUS

\* At the end of the ramp its two halves agree: R^2 / (2RI) is R / (2I).
LEMMA RampEnd ==
    ASSUME NEW R \in Nat \ {0}, NEW I \in Nat \ {0}
    PROVE  (R * R + R * I) \div (2 * R * I) = (R + I) \div (2 * I)
  OBVIOUS

\* A whole number of bursts and one more burst is a whole number of bursts.
LEMMA ModAddDivisor ==
    ASSUME NEW a \in Nat, NEW b \in Nat \ {0}, a % b = 0
    PROVE  (a + b) % b = 0
<1> DEFINE q == a \div b
<1>1. q \in Nat /\ a = b * q
  OBVIOUS
<1>2. a + b = b * (q + 1)
  BY <1>1
<1>3. \A k \in Nat : (b * k) % b = 0
  OBVIOUS
<1> HIDE DEF q
<1>4. (b * (q + 1)) % b = 0
  BY <1>1, <1>3
<1> QED
  BY <1>2, <1>4

\* A positive multiple of b that does not exceed b is b.
LEMMA ModSmall ==
    ASSUME NEW a \in Nat, NEW b \in Nat \ {0}, 0 < a, a <= b, a % b = 0
    PROVE  a = b
  OBVIOUS

-----------------------------------------------------------------------------
(* The schedule never goes backwards, also not where the ramp ends.        *)

\* The schedule is a natural number at any time.
LEMMA TotalType == \A e \in Nat : Total(e) \in Nat
<1> TAKE e \in Nat
<1> USE StackAssumption
<1>1. 2 * Interval \in Nat \ {0} /\ RampTime * Interval \in Nat \ {0}
  BY ProductPositive
<1>2. LinearTotal(e) \in Nat
  BY <1>1, DivMonotone DEF LinearTotal
<1>3. RampTotal(e) \in Nat
  <2>1. e * e + RampTime * Interval \in Nat
    BY <1>1, SquareMonotone
  <2>2. 2 * RampTime * Interval \in Nat \ {0}
    BY <1>1
  <2> QED
    BY <2>1, <2>2, DivMonotone DEF RampTotal
<1>4. CASE e < RampTime
  BY <1>2, <1>3, <1>4 DEF Total
<1>5. CASE ~(e < RampTime)
  <2>1. (RampTime + Interval) \div (2 * Interval) \in Nat
    BY <1>1, DivMonotone
  <2>2. 2 * (e - RampTime) + Interval \in Nat
    BY <1>5
  <2>3. (2 * (e - RampTime) + Interval) \div (2 * Interval) \in Nat
    BY <1>1, <2>2, DivMonotone
  <2>4. RampedTotal(e) \in Nat
    BY <2>1, <2>3 DEF RampedTotal
  <2> QED
    BY <1>2, <1>5, <2>4 DEF Total
<1> QED
  BY <1>4, <1>5

\* Totals are monotone in the elapsed time: what was due stays due.
LEMMA TotalMonotone ==
    ASSUME NEW e \in Nat, NEW f \in Nat, e <= f
    PROVE  Total(e) <= Total(f)
<1> USE StackAssumption
<1>1. 2 * Interval \in Nat \ {0} /\ RampTime * Interval \in Nat \ {0}
  BY ProductPositive
<1>2. CASE Pacing = "linear"
  <2>1. 2 * e + Interval \in Nat /\ 2 * f + Interval \in Nat /\ 2 * e + Interval <= 2 * f + Interval
    OBVIOUS
  <2>2. LinearTotal(e) <= LinearTotal(f)
    BY <1>1, <2>1, DivMonotone DEF LinearTotal
  <2> QED
    BY <1>2, <2>2 DEF Total
<1>3. CASE Pacing = "ramping" /\ f < RampTime
  <2>1. RampTotal(e) <= RampTotal(f)
    <3>1. /\ e * e + RampTime * Interval \in Nat
          /\ f * f + RampTime * Interval \in Nat
          /\ e * e + RampTime * Interval <= f * f + RampTime * Interval
      BY <1>1, SquareMonotone
    <3>2. 2 * RampTime * Interval \in Nat \ {0}
      BY <1>1
    <3> QED
      BY <3>1, <3>2, DivMonotone DEF RampTotal
  <2> QED
    BY <1>3, <2>1 DEF Total
<1>4. CASE Pacing = "ramping" /\ e < RampTime /\ ~(f < RampTime)
  <2>1. RampTotal(e) <= (RampTime * RampTime + RampTime * Interval) \div (2 * RampTime * Interval)
    <3>1. /\ e * e + RampTime * Interval \in Nat
          /\ RampTime * RampTime + RampTime * Interval \in Nat
          /\ e * e + RampTime * Interval <= RampTime * RampTime + RampTime * Interval
      BY <1>1, <1>4, SquareMonotone
    <3>2. 2 * RampTime * Interval \in Nat \ {0}
      BY <1>1
    <3> QED
      BY <3>1, <3>2, DivMonotone DEF RampTotal
  <2>2. RampTotal(e) <= (RampTime + Interval) \div (2 * Interval)
    BY <2>1, RampEnd
  <2>3. (2 * (f - RampTime) + Interval) \div (2 * Interval) \in Nat
    <3>1. 2 * (f - RampTime) + Interval \in Nat
      BY <1>4
    <3> QED
      BY <1>1, <3>1, DivMonotone
  <2>4. RampTotal(e) <= RampedTotal(f)
    <3>1. RampTotal(e) \in Nat
      BY <1>4, TotalType DEF Total
    <3>2. (RampTime + Interval) \div (2 * Interval) \in Nat
      BY <1>1, DivMonotone
    <3> DEFINE x == RampTotal(e)
               y == (RampTime + Interval) \div (2 * Interval)
               z == (2 * (f - RampTime) + Interval) \div (2 * Interval)
    <3>3. x \in Nat /\ y \in Nat /\ z \in Nat /\ x <= y
      BY <2>2, <2>3, <3>1, <3>2
    <3>4. RampedTotal(f) = y + z
      BY DEF RampedTotal
    <3> HIDE DEF x, y, z
    <3>5. x <= y + z
      BY <3>3
    <3> QED
      BY <3>4, <3>5 DEF x
  <2> QED
    BY <1>4, <2>4 DEF Total
<1>5. CASE Pacing = "ramping" /\ ~(e < RampTime)
  <2>1. ~(f < RampTime)
    BY <1>5
  <2>2. /\ 2 * (e - RampTime) + Interval \in Nat
        /\ 2 * (f - RampTime) + Interval \in Nat
        /\ 2 * (e - RampTime) + Interval <= 2 * (f - RampTime) + Interval
    BY <1>5, <2>1
  <2> DEFINE y == (RampTime + Interval) \div (2 * Interval)
             z == (2 * (e - RampTime) + Interval) \div (2 * Interval)
             w == (2 * (f - RampTime) + Interval) \div (2 * Interval)
  <2>3. y \in Nat /\ z \in Nat /\ w \in Nat /\ z <= w
    BY <1>1, <2>2, DivMonotone
  <2>4. RampedTotal(e) = y + z /\ RampedTotal(f) = y + w
    BY DEF RampedTotal
  <2> HIDE DEF y, z, w
  <2>5. RampedTotal(e) <= RampedTotal(f)
    BY <2>3, <2>4
  <2> QED
    BY <1>5, <2>1, <2>5 DEF Total
<1> QED
  BY <1>2, <1>3, <1>4, <1>5

-----------------------------------------------------------------------------
(* The jitter layer.                                                       *)

\* Inserting a timing adds exactly one element, wherever it goes.
LEMMA InsertTimingProperties ==
    ASSUME NEW timings \in Seq(Nat), NEW t \in Nat
    PROVE  /\ InsertTiming(timings, t) \in Seq(Nat)
           /\ Len(InsertTiming(timings, t)) = Len(timings) + 1
<1> DEFINE n == Len(timings)
           S == {i \in DOMAIN timings : timings[i] <= t}
           k == Cardinality(S)
<1>1. n \in Nat /\ DOMAIN timings = 1..n /\ \A i \in 1..n : timings[i] \in Nat
  OBVIOUS
<1>2. IsFiniteSet(1..n) /\ Cardinality(1..n) = n
  BY <1>1, FS_Interval
<1>3. S \subseteq 1..n
  BY <1>1
<1>4. k \in Nat /\ k <= n
  BY <1>1, <1>2, <1>3, FS_Subset, FS_CardinalityType
<1> HIDE DEF k, n
<1>5. /\ SubSeq(timings, 1, k) \in Seq(Nat)
      /\ Len(SubSeq(timings, 1, k)) = k
  BY <1>1, <1>4, SubSeqProperties
<1>6. /\ SubSeq(timings, k + 1, n) \in Seq(Nat)
      /\ Len(SubSeq(timings, k + 1, n)) = n - k
  BY <1>1, <1>4, SubSeqProperties
<1>7. <<t>> \in Seq(Nat) /\ Len(<<t>>) = 1
  OBVIOUS
<1>8. InsertTiming(timings, t) = SubSeq(timings, 1, k) \o <<t>> \o SubSeq(timings, k + 1, n)
  BY DEF InsertTiming, k, n
<1> DEFINE u == SubSeq(timings, 1, k)
           v == SubSeq(timings, k + 1, n)
<1>9. u \in Seq(Nat) /\ v \in Seq(Nat) /\ Len(u) = k /\ Len(v) = n - k
  BY <1>5, <1>6
<1>10. InsertTiming(timings, t) = (u \o <<t>>) \o v
  BY <1>8
<1> HIDE DEF u, v
<1>11. u \o <<t>> \in Seq(Nat) /\ Len(u \o <<t>>) = k + 1
  BY <1>4, <1>7, <1>9, ConcatProperties
<1>12. (u \o <<t>>) \o v \in Seq(Nat) /\ Len((u \o <<t>>) \o v) = k + 1 + (n - k)
  BY <1>9, <1>11, ConcatProperties
<1> QED
  BY <1>1, <1>4, <1>10, <1>12 DEF n

\* An answer moves an acquisition of the layers below to the caller or to the list of
\* pending timings, and neither loses nor invents one.
LEMMA AnswerProperties ==
    ASSUME NEW ok \in BOOLEAN, Answer(ok),
           now \in Nat, distributed_timings \in Seq(Nat),
           sanity_check_pending_release \in BOOLEAN,
           ~Jitters => distributed_timings = <<>>
    PROVE  /\ distributed_timings' \in Seq(Nat)
           /\ sanity_check_pending_release' \in BOOLEAN
           /\ pc' \in {"idle", "held"}
           /\ Held' + Len(distributed_timings')
                = Len(distributed_timings) + (IF ok THEN 1 ELSE 0)
           /\ ~Jitters => distributed_timings' = <<>>
           /\ ~Jitters => pc' = IF ok THEN "held" ELSE "idle"
           /\ pc' = "held" /\ Jitters => ~sanity_check_pending_release'
<1>1. CASE ~Jitters
  <2>1. pc' = (IF ok THEN "held" ELSE "idle") /\ UNCHANGED jitterVars
    BY <1>1 DEF Answer
  <2> QED
    BY <1>1, <2>1 DEF jitterVars, Held
<1>2. CASE Jitters
  <2>1. PICK delay \in 0..JitterMax :
            LET timings == IF ok THEN InsertTiming(distributed_timings, now + delay)
                                 ELSE distributed_timings
                due     == timings # <<>> /\ timings[1] <= now
            IN  /\ distributed_timings' = IF due THEN Tail(timings) ELSE timings
                /\ sanity_check_pending_release' =
                        IF due THEN FALSE ELSE sanity_check_pending_release
                /\ pc' = IF due THEN "held" ELSE "idle"
    BY <1>2, Zenon DEF Answer
  <2> DEFINE timings == IF ok THEN InsertTiming(distributed_timings, now + delay)
                              ELSE distributed_timings
             due     == timings # <<>> /\ timings[1] <= now
  <2>2. now + delay \in Nat
    BY StackAssumption
  <2>3. timings \in Seq(Nat) /\ Len(timings) = Len(distributed_timings) + (IF ok THEN 1 ELSE 0)
    <3> DEFINE inserted == InsertTiming(distributed_timings, now + delay)
    <3>1. inserted \in Seq(Nat) /\ Len(inserted) = Len(distributed_timings) + 1
      BY <2>2, InsertTimingProperties, Zenon
    <3>2. timings = IF ok THEN inserted ELSE distributed_timings
      OBVIOUS
    <3> HIDE DEF inserted, timings
    <3>3. CASE ok
      BY <3>1, <3>2, <3>3
    <3>4. CASE ~ok
      BY <3>2, <3>4
    <3> QED
      BY <3>3, <3>4
  <2>4. /\ distributed_timings' = IF due THEN Tail(timings) ELSE timings
        /\ sanity_check_pending_release' = IF due THEN FALSE ELSE sanity_check_pending_release
        /\ pc' = IF due THEN "held" ELSE "idle"
    BY <2>1
  <2>5. due => timings # <<>>
    OBVIOUS
  <2> HIDE DEF timings, due
  <2>6. CASE due
    <3>1. Tail(timings) \in Seq(Nat) /\ Len(Tail(timings)) = Len(timings) - 1
      BY <2>3, <2>5, <2>6, HeadTailProperties
    <3> QED
      BY <1>2, <2>3, <2>4, <2>6, <3>1 DEF Held
  <2>7. CASE ~due
    BY <1>2, <2>3, <2>4, <2>7 DEF Held
  <2> QED
    BY <2>6, <2>7
<1> QED
  BY <1>1, <1>2

-----------------------------------------------------------------------------
(* The pacing.                                                             *)

\* Where the pacing stands when it is consulted: the start point is not in the
\* future, and nothing has been handed out before the scheduled start.
PacingInv ==
    /\ start_time # Unset => start_time <= now
    /\ acquired_count > 0 => now >= StartTime

\* A successful acquisition adds one to what was handed out and stays on schedule.
LEMMA PacingAcquiresProperties ==
    ASSUME TypeOK, PacingInv, NeverAheadOfSchedule, PacingAcquires, now' = now
    PROVE  /\ start_time' \in Nat \cup {Unset}
           /\ acquireable_count' \in Nat
           /\ acquired_count' = acquired_count + 1
           /\ now >= StartTime
           /\ PacingInv'
           /\ NeverAheadOfSchedule'
<1> USE StackAssumption
<1>1. now >= StartTime /\ acquired_count' = acquired_count + 1
  BY DEF PacingAcquires, Started
<1>2. CASE /\ HasAcquireable
           /\ acquireable_count' = acquireable_count - 1
           /\ start_time' = start_time
  <2>1. acquireable_count > 0
    BY <1>2 DEF HasAcquireable, TypeOK
  <2>2. start_time # Unset
    BY <2>1 DEF NeverAheadOfSchedule
  <2>3. now - start_time \in Nat
    BY <2>2 DEF TypeOK, PacingInv
  <2>4. Total(now - start_time) \in Nat
    BY <2>3, TotalType
  <2>5. acquired_count' + acquireable_count' <= Total(now - start_time)
    BY <1>1, <1>2, <2>1, <2>2, <2>4 DEF NeverAheadOfSchedule, TypeOK
  <2>6. NeverAheadOfSchedule'
    BY <1>2, <2>2, <2>5 DEF NeverAheadOfSchedule
  <2> QED
    BY <1>1, <1>2, <2>1, <2>6 DEF TypeOK, PacingInv
<1>3. CASE /\ ~HasAcquireable
           /\ Total(Elapsed) > acquired_count
           /\ acquireable_count' = Total(Elapsed) - acquired_count - 1
           /\ start_time' = StartPoint
  <2>1. StartPoint \in Nat /\ StartPoint <= now
    BY DEF StartPoint, TypeOK, PacingInv
  <2>2. Elapsed \in Nat
    BY <2>1 DEF Elapsed, TypeOK
  <2>3. Total(Elapsed) \in Nat
    BY <2>2, TotalType
  <2>4. StartPoint # Unset
    BY <2>1 DEF Unset
  <2>5. acquired_count' + acquireable_count' = Total(Elapsed)
    BY <1>1, <1>3, <2>3 DEF TypeOK
  <2>6. NeverAheadOfSchedule'
    <3>1. Total(now' - start_time') = Total(Elapsed)
      BY <1>3 DEF Elapsed
    <3> QED
      BY <1>3, <2>3, <2>4, <2>5, <3>1 DEF NeverAheadOfSchedule
  <2> QED
    BY <1>1, <1>3, <2>1, <2>3, <2>6 DEF TypeOK, PacingInv
<1> QED
  BY <1>2, <1>3 DEF PacingAcquires, Started

\* A refusal hands nothing out; after the scheduled start it leaves the pacing exactly
\* on schedule.
LEMMA PacingRefusesProperties ==
    ASSUME TypeOK, PacingInv, NeverAheadOfSchedule, PacingRefuses, now' = now
    PROVE  /\ start_time' \in Nat \cup {Unset}
           /\ acquireable_count' \in Nat
           /\ acquired_count' = acquired_count
           /\ PacingInv'
           /\ NeverAheadOfSchedule'
           /\ now >= StartTime => acquired_count' = Total(now - start_time')
<1> USE StackAssumption
<1>1. CASE ~(now >= StartTime) /\ UNCHANGED pacingVars
  <2>1. /\ start_time' = start_time /\ acquireable_count' = acquireable_count
        /\ acquired_count' = acquired_count
    BY <1>1 DEF pacingVars
  <2>2. NeverAheadOfSchedule'
    BY <2>1 DEF NeverAheadOfSchedule
  <2> QED
    BY <1>1, <2>1, <2>2 DEF TypeOK, PacingInv
<1>2. CASE /\ now >= StartTime
           /\ ~HasAcquireable
           /\ Total(Elapsed) <= acquired_count
           /\ acquireable_count' = Total(Elapsed) - acquired_count
           /\ start_time' = StartPoint
           /\ acquired_count' = acquired_count
  <2>1. StartPoint \in Nat /\ StartPoint <= now
    BY DEF StartPoint, TypeOK, PacingInv
  <2>2. Elapsed \in Nat
    BY <2>1 DEF Elapsed, TypeOK
  <2>3. Total(Elapsed) \in Nat
    BY <2>2, TotalType
  <2>4. StartPoint # Unset
    BY <2>1 DEF Unset
  <2>5. acquired_count <= Total(Elapsed)
    <3>1. CASE start_time = Unset
      BY <2>3, <3>1 DEF NeverAheadOfSchedule, TypeOK
    <3>2. CASE start_time # Unset
      <4>1. Elapsed = now - start_time
        BY <3>2 DEF Elapsed, StartPoint
      <4>2. acquired_count + acquireable_count <= Total(Elapsed)
        BY <3>2, <4>1 DEF NeverAheadOfSchedule
      <4> QED
        BY <2>3, <4>2 DEF TypeOK
    <3> QED
      BY <3>1, <3>2
  <2>6. Total(Elapsed) = acquired_count
    BY <1>2, <2>3, <2>5 DEF TypeOK
  <2>7. acquireable_count' = 0
    BY <1>2, <2>3, <2>6
  <2>8. Total(now' - start_time') = Total(Elapsed)
    BY <1>2 DEF Elapsed
  <2>9. NeverAheadOfSchedule'
    BY <1>2, <2>3, <2>4, <2>6, <2>7, <2>8 DEF NeverAheadOfSchedule
  <2> QED
    BY <1>2, <2>1, <2>6, <2>7, <2>8, <2>9 DEF TypeOK, PacingInv
<1> QED
  BY <1>1, <1>2 DEF PacingRefuses, Started
-----------------------------------------------------------------------------
(* The inductive invariant.                                                *)

\* Layers that are not configured stay out of the way, and release mode always has
\* something to release.
LayerInv ==
    /\ ~Jitters => distributed_timings = <<>>
    /\ ~Bursts => accumulated = 0 /\ ~releasing /\ pc # "pull"
    /\ releasing => accumulated > 0
    /\ pc = "pull" => ~releasing

IInv ==
    /\ TypeOK
    /\ PacingInv
    /\ NeverAheadOfSchedule
    /\ TokenConservation
    /\ ReleaseContract
    /\ LayerInv

\* The invariant holds in a freshly built stack.
LEMMA InitIInv == Init => IInv
<1> SUFFICES ASSUME Init PROVE IInv
  OBVIOUS
<1> USE DEF Init
<1>1. TypeOK
  <2>1. distributed_timings \in Seq(Nat)
    OBVIOUS
  <2>2. releasing \in BOOLEAN /\ sanity_check_pending_release \in BOOLEAN
    BY Zenon
  <2>3. start_time \in Nat \cup {Unset}
    OBVIOUS
  <2> QED
    BY <2>1, <2>2, <2>3 DEF TypeOK
<1>2. TokenConservation
  BY DEF TokenConservation, Held
<1> QED
  BY <1>1, <1>2 DEF IInv, PacingInv, NeverAheadOfSchedule, ReleaseContract, LayerInv

\* The invariant survives the passing of time: what was due stays due.
LEMMA TickIInv ==
    ASSUME IInv, Tick
    PROVE  IInv'
<1> USE StackAssumption
<1>1. /\ now' = now + 1 /\ pc = "idle" /\ pc' = pc /\ kept' = kept
      /\ start_time' = start_time /\ acquireable_count' = acquireable_count
      /\ acquired_count' = acquired_count /\ accumulated' = accumulated
      /\ releasing' = releasing /\ previously_releasing' = previously_releasing
      /\ distributed_timings' = distributed_timings
      /\ sanity_check_pending_release' = sanity_check_pending_release
  BY DEF Tick, pacingVars, burstVars, jitterVars
<1>2. TypeOK'
  BY <1>1 DEF IInv, TypeOK
<1>3. PacingInv'
  BY <1>1 DEF IInv, TypeOK, PacingInv
<1>4. NeverAheadOfSchedule'
  <2>1. CASE start_time = Unset
    BY <1>1, <2>1 DEF IInv, NeverAheadOfSchedule
  <2>2. CASE start_time # Unset
    <3>1. now - start_time \in Nat /\ now' - start_time \in Nat
      BY <1>1, <2>2 DEF IInv, TypeOK, PacingInv
    <3>2. now - start_time <= now' - start_time
      BY <1>1, <2>2 DEF IInv, TypeOK
    <3>3. /\ Total(now - start_time) \in Nat /\ Total(now' - start_time) \in Nat
          /\ Total(now - start_time) <= Total(now' - start_time)
      BY <3>1, <3>2, TotalType, TotalMonotone
    <3>4. acquired_count + acquireable_count <= Total(now - start_time)
      BY <2>2 DEF IInv, NeverAheadOfSchedule
    <3>5. acquired_count' + acquireable_count' <= Total(now' - start_time)
      BY <1>1, <3>3, <3>4 DEF IInv, TypeOK
    <3>6. Total(now' - start_time') = Total(now' - start_time)
      BY <1>1
    <3> QED
      BY <1>1, <2>2, <3>5, <3>6 DEF NeverAheadOfSchedule
  <2> QED
    BY <2>1, <2>2
<1>5. TokenConservation'
  BY <1>1 DEF IInv, TokenConservation, Held
<1>6. ReleaseContract' /\ LayerInv'
  BY <1>1 DEF IInv, ReleaseContract, LayerInv
<1> QED
  BY <1>2, <1>3, <1>4, <1>5, <1>6 DEF IInv

\* What the layers below did on the way to their answer: it accounts for the
\* difference between what the pacing handed out and what the bursting layer stored.
Accounted(ok) ==
    /\ pc # "held"
    /\ now' = now /\ kept' = kept
    /\ start_time' \in Nat \cup {Unset} /\ acquireable_count' \in Nat
    /\ acquired_count' \in Nat /\ accumulated' \in Nat
    /\ releasing' \in BOOLEAN
    /\ previously_releasing' \in {"nullopt", "false", "true"}
    /\ PacingInv' /\ NeverAheadOfSchedule'
    /\ acquired_count' + accumulated = acquired_count + accumulated' + (IF ok THEN 1 ELSE 0)
    /\ ~Bursts => accumulated' = 0 /\ ~releasing'
    /\ releasing' => accumulated' > 0

\* The balance of an answer, in numbers only.
LEMMA Balance ==
    ASSUME NEW k \in Nat, NEW a \in Nat, NEW a1 \in Nat, NEW c \in Nat, NEW c1 \in Nat,
           NEW x \in Nat, NEW y \in Nat, NEW h \in Nat, NEW d \in Nat,
           c = k + 0 + a + y, h + x = y + d, c1 + a = c + a1 + d
    PROVE  c1 = k + h + a1 + x
  OBVIOUS

\* The invariant survives the return of a tryAcquireOne() call whose answer accounts
\* for what the layers below did.
LEMMA AnswerIInv ==
    ASSUME IInv, NEW ok \in BOOLEAN, Answer(ok), Accounted(ok)
    PROVE  IInv'
<1>1. /\ distributed_timings' \in Seq(Nat)
      /\ sanity_check_pending_release' \in BOOLEAN
      /\ pc' \in {"idle", "held"}
      /\ Held' + Len(distributed_timings') = Len(distributed_timings) + (IF ok THEN 1 ELSE 0)
      /\ ~Jitters => distributed_timings' = <<>>
      /\ pc' = "held" /\ Jitters => ~sanity_check_pending_release'
  BY AnswerProperties DEF IInv, TypeOK, LayerInv
<1>2. TypeOK'
  <2>1. now' \in Nat /\ kept' \in Nat
    BY DEF IInv, TypeOK, Accounted
  <2>2. pc' \in {"idle", "pull", "held"}
    BY <1>1
  <2> QED
    BY <1>1, <2>1, <2>2 DEF TypeOK, Accounted
<1>3. TokenConservation'
  <2>1. PICK x \in Nat : x = Len(distributed_timings')
    BY <1>1
  <2>2. PICK y \in Nat : y = Len(distributed_timings)
    BY DEF IInv, TypeOK
  <2>3. PICK h \in Nat : h = Held'
    BY DEF Held
  <2>4. PICK d \in Nat : d = IF ok THEN 1 ELSE 0
    OBVIOUS
  <2>5. PICK a1 \in Nat : a1 = accumulated'
    BY DEF Accounted
  <2>6. PICK c1 \in Nat : c1 = acquired_count'
    BY DEF Accounted
  <2>7. /\ kept \in Nat /\ accumulated \in Nat /\ acquired_count \in Nat
        /\ acquired_count = kept + 0 + accumulated + y
    BY <2>2 DEF IInv, TypeOK, TokenConservation, Held, Accounted
  <2>8. h + x = y + d /\ c1 + accumulated = acquired_count + a1 + d
    BY <1>1, <2>1, <2>2, <2>3, <2>4, <2>5, <2>6 DEF Accounted
  <2>9. c1 = kept + h + a1 + x
    BY ONLY <2>7, <2>8, x \in Nat, y \in Nat, h \in Nat, d \in Nat, a1 \in Nat, c1 \in Nat, Balance
  <2> QED
    BY <2>1, <2>3, <2>5, <2>6, <2>9 DEF TokenConservation, Accounted
<1>4. ReleaseContract'
  <2>1. ASSUME pc' = "held" PROVE acquired_count' > 0
    <3>1. Held' = 1 /\ Len(distributed_timings') \in Nat
      BY <1>1, <2>1 DEF Held
    <3> QED
      BY <1>2, <1>3, <3>1 DEF TokenConservation, TypeOK
  <2>2. pc' = "held" => now' >= StartTime
    BY <2>1 DEF PacingInv, Accounted
  <2> QED
    BY <1>1, <2>2, Zenon DEF ReleaseContract
<1>5. LayerInv'
  BY <1>1 DEF LayerInv, Accounted
<1> QED
  BY <1>2, <1>3, <1>4, <1>5 DEF IInv, Accounted

\* The invariant survives tryAcquireOne() on a stack without a bursting layer.
LEMMA PacedIInv ==
    ASSUME IInv, TryAcquireOnePaced
    PROVE  IInv'
<1>1. /\ pc = "idle" /\ ~Bursts /\ now' = now /\ kept' = kept
      /\ accumulated' = accumulated /\ releasing' = releasing
      /\ previously_releasing' = previously_releasing
  BY DEF TryAcquireOnePaced, burstVars
<1>2. /\ accumulated' = 0 /\ ~releasing' /\ accumulated = 0
      /\ previously_releasing' \in {"nullopt", "false", "true"}
      /\ releasing' \in BOOLEAN
  BY <1>1 DEF IInv, LayerInv, TypeOK
<1>3. CASE PacingAcquires /\ Answer(TRUE)
  <2>1. /\ start_time' \in Nat \cup {Unset} /\ acquireable_count' \in Nat
        /\ acquired_count' = acquired_count + 1
        /\ PacingInv' /\ NeverAheadOfSchedule'
    BY <1>1, <1>3, PacingAcquiresProperties DEF IInv
  <2>2. acquired_count' \in Nat /\ acquired_count' + accumulated = acquired_count + accumulated' + 1
    BY <1>2, <2>1 DEF IInv, TypeOK
  <2>3. Accounted(TRUE)
    BY <1>1, <1>2, <2>1, <2>2 DEF Accounted
  <2> QED
    BY <1>3, <2>3, AnswerIInv, Zenon
<1>4. CASE PacingRefuses /\ Answer(FALSE)
  <2>1. /\ start_time' \in Nat \cup {Unset} /\ acquireable_count' \in Nat
        /\ acquired_count' = acquired_count
        /\ PacingInv' /\ NeverAheadOfSchedule'
    BY <1>1, <1>4, PacingRefusesProperties DEF IInv
  <2>2. acquired_count' \in Nat /\ acquired_count' + accumulated = acquired_count + accumulated'
    BY <1>2, <2>1 DEF IInv, TypeOK
  <2>3. Accounted(FALSE)
    BY <1>1, <1>2, <2>1, <2>2 DEF Accounted
  <2> QED
    BY <1>4, <2>3, AnswerIInv, Zenon
<1> QED
  BY <1>3, <1>4, Zenon DEF TryAcquireOnePaced

\* The invariant survives tryAcquireOne() of the bursting layer in release mode.
LEMMA ReleasingIInv ==
    ASSUME IInv, TryAcquireOneReleasing
    PROVE  IInv'
<1>1. /\ pc = "idle" /\ Bursts /\ releasing /\ now' = now /\ kept' = kept
      /\ previously_releasing' = "true" /\ accumulated' = accumulated - 1
      /\ releasing' = (accumulated' > 0) /\ Answer(TRUE)
      /\ start_time' = start_time /\ acquireable_count' = acquireable_count
      /\ acquired_count' = acquired_count
  BY Zenon DEF TryAcquireOneReleasing, pacingVars
<1>2. accumulated' \in Nat
  BY <1>1 DEF IInv, TypeOK, LayerInv
<1>3. acquired_count' + accumulated = acquired_count + accumulated' + 1
  BY <1>1 DEF IInv, TypeOK
<1>4. PacingInv' /\ NeverAheadOfSchedule'
  BY <1>1 DEF IInv, PacingInv, NeverAheadOfSchedule
<1>5. releasing' \in BOOLEAN
  BY <1>1
<1>6. /\ start_time' \in Nat \cup {Unset} /\ acquireable_count' \in Nat
      /\ acquired_count' \in Nat
  BY <1>1 DEF IInv, TypeOK
<1>7. Accounted(TRUE)
  BY <1>1, <1>2, <1>3, <1>4, <1>5, <1>6, Zenon DEF Accounted
<1> QED
  BY <1>1, <1>7, AnswerIInv, Zenon

\* The invariant survives the bursting layer entering its greedy loop.
LEMMA AccumulatingIInv ==
    ASSUME IInv, TryAcquireOneAccumulating
    PROVE  IInv'
<1>1. /\ pc = "idle" /\ pc' = "pull" /\ Bursts /\ ~releasing /\ now' = now /\ kept' = kept
      /\ previously_releasing' = "false" /\ accumulated' = accumulated
      /\ releasing' = releasing
      /\ start_time' = start_time /\ acquireable_count' = acquireable_count
      /\ acquired_count' = acquired_count
      /\ distributed_timings' = distributed_timings
      /\ sanity_check_pending_release' = sanity_check_pending_release
  BY DEF TryAcquireOneAccumulating, pacingVars, jitterVars
<1>2. TypeOK'
  BY <1>1 DEF IInv, TypeOK
<1>3. PacingInv' /\ NeverAheadOfSchedule'
  BY <1>1 DEF IInv, PacingInv, NeverAheadOfSchedule
<1>4. TokenConservation'
  BY <1>1 DEF IInv, TokenConservation, Held
<1>5. ReleaseContract' /\ LayerInv'
  BY <1>1 DEF IInv, ReleaseContract, LayerInv
<1> QED
  BY <1>2, <1>3, <1>4, <1>5 DEF IInv

\* The invariant survives a turn of the greedy loop, whichever way it ends.
LEMMA PullIInv ==
    ASSUME IInv, PullOne
    PROVE  IInv'
<1>1. pc = "pull" /\ now' = now /\ kept' = kept
  BY DEF PullOne
<1>2. Bursts /\ ~releasing /\ accumulated \in Nat /\ acquired_count \in Nat
  BY <1>1 DEF IInv, LayerInv, TypeOK
<1>3. ASSUME PacingAcquires
      PROVE  /\ start_time' \in Nat \cup {Unset} /\ acquireable_count' \in Nat
             /\ acquired_count' = acquired_count + 1 /\ acquired_count' \in Nat
             /\ PacingInv' /\ NeverAheadOfSchedule'
  BY <1>1, <1>2, <1>3, PacingAcquiresProperties DEF IInv
<1>4. CASE /\ PacingAcquires
           /\ accumulated' = accumulated + 1
           /\ UNCHANGED <<releasing, previously_releasing, jitterVars, pc>>
  <2>1. /\ releasing' = releasing /\ previously_releasing' = previously_releasing
        /\ distributed_timings' = distributed_timings
        /\ sanity_check_pending_release' = sanity_check_pending_release /\ pc' = pc
    BY <1>4 DEF jitterVars
  <2>2. TypeOK'
    BY <1>1, <1>2, <1>3, <1>4, <2>1 DEF IInv, TypeOK
  <2>3. TokenConservation'
    <3>1. PICK y \in Nat : y = Len(distributed_timings) /\ y = Len(distributed_timings')
      BY <2>1 DEF IInv, TypeOK
    <3>2. acquired_count = kept + 0 + accumulated + y
      BY <1>1, <3>1 DEF IInv, TokenConservation, Held
    <3>3. acquired_count + 1 = kept + 0 + (accumulated + 1) + y
      BY <1>2, <3>2 DEF IInv, TypeOK
    <3> QED
      BY <1>1, <1>3, <1>4, <2>1, <3>1, <3>3 DEF TokenConservation, Held
  <2>4. ReleaseContract' /\ LayerInv'
    BY <1>1, <1>2, <2>1 DEF IInv, ReleaseContract, LayerInv
  <2> QED
    BY <1>3, <1>4, <2>2, <2>3, <2>4 DEF IInv
<1>5. CASE /\ PacingAcquires
           /\ previously_releasing' = "true"
           /\ accumulated' = accumulated
           /\ releasing' = (accumulated > 0)
           /\ Answer(TRUE)
  <2>1. acquired_count' + accumulated = acquired_count + accumulated' + 1
    BY <1>2, <1>3, <1>5
  <2>2. releasing' \in BOOLEAN /\ (releasing' => accumulated' > 0)
    <3>1. CASE accumulated > 0
      <4>1. releasing' = TRUE
        BY <1>5, <3>1, Zenon
      <4> QED
        BY <1>5, <3>1, <4>1
    <3>2. CASE ~(accumulated > 0)
      <4>1. releasing' = FALSE
        <5>1. (accumulated > 0) = FALSE
          BY <3>2
        <5>2. releasing' = (accumulated > 0)
          BY <1>5
        <5> QED
          BY <5>1, <5>2, Zenon
      <4> QED
        BY <4>1, Zenon
    <3> QED
      BY <3>1, <3>2
  <2>3. Accounted(TRUE)
    BY <1>1, <1>2, <1>3, <1>5, <2>1, <2>2 DEF Accounted
  <2> QED
    BY <1>5, <2>3, AnswerIInv, Zenon
<1>6. CASE /\ PacingRefuses
           /\ previously_releasing' = "nullopt"
           /\ UNCHANGED <<accumulated, releasing>>
           /\ Answer(FALSE)
  <2>1. /\ start_time' \in Nat \cup {Unset} /\ acquireable_count' \in Nat
        /\ acquired_count' = acquired_count
        /\ PacingInv' /\ NeverAheadOfSchedule'
    BY <1>1, <1>6, PacingRefusesProperties DEF IInv
  <2>2. acquired_count' + accumulated = acquired_count + accumulated' + 0
    BY <1>2, <1>6, <2>1
  <2>3. releasing' \in BOOLEAN /\ ~releasing'
    BY <1>2, <1>6 DEF IInv, TypeOK
  <2>4. Accounted(FALSE)
    BY <1>1, <1>2, <1>6, <2>1, <2>2, <2>3 DEF Accounted
  <2> QED
    BY <1>6, <2>4, AnswerIInv, Zenon
<1> QED
  BY <1>4, <1>5, <1>6, Zenon DEF PullOne

\* The invariant survives the use of an acquisition.
LEMMA KeepIInv ==
    ASSUME IInv, Keep
    PROVE  IInv'
<1>1. /\ pc = "held" /\ pc' = "idle" /\ now' = now /\ kept' = kept + 1
      /\ start_time' = start_time /\ acquireable_count' = acquireable_count
      /\ acquired_count' = acquired_count /\ accumulated' = accumulated
      /\ releasing' = releasing /\ previously_releasing' = previously_releasing
      /\ distributed_timings' = distributed_timings
      /\ sanity_check_pending_release' = sanity_check_pending_release
  BY DEF Keep, pacingVars, burstVars, jitterVars
<1>2. TypeOK'
  BY <1>1 DEF IInv, TypeOK
<1>3. PacingInv' /\ NeverAheadOfSchedule'
  BY <1>1 DEF IInv, PacingInv, NeverAheadOfSchedule
<1>4. TokenConservation'
  <2>1. PICK y \in Nat : y = Len(distributed_timings) /\ y = Len(distributed_timings')
    BY <1>1 DEF IInv, TypeOK
  <2>2. acquired_count = kept + 1 + accumulated + y
    BY <1>1, <2>1 DEF IInv, TokenConservation, Held
  <2>3. acquired_count = (kept + 1) + 0 + accumulated + y
    BY <2>2 DEF IInv, TypeOK
  <2> QED
    BY <1>1, <2>1, <2>3 DEF TokenConservation, Held
<1>5. ReleaseContract' /\ LayerInv'
  BY <1>1 DEF IInv, ReleaseContract, LayerInv
<1> QED
  BY <1>2, <1>3, <1>4, <1>5 DEF IInv

\* The invariant survives handing an acquisition back: it returns to the pacing or to
\* the burst, never to both.
LEMMA ReleaseIInv ==
    ASSUME IInv, ReleaseOne
    PROVE  IInv'
<1>1. /\ pc = "held" /\ pc' = "idle" /\ now' = now /\ kept' = kept
      /\ distributed_timings' = distributed_timings
      /\ sanity_check_pending_release' = TRUE
  BY DEF ReleaseOne
<1>2. PICK y \in Nat : y = Len(distributed_timings) /\ y = Len(distributed_timings')
  BY <1>1 DEF IInv, TypeOK
<1>3. acquired_count = kept + 1 + accumulated + y
  BY <1>1, <1>2 DEF IInv, TokenConservation, Held
<1>4. kept \in Nat /\ accumulated \in Nat /\ acquired_count \in Nat /\ acquireable_count \in Nat
  BY DEF IInv, TypeOK
<1>5. CASE Bursts
  <2>1. /\ accumulated' = accumulated + 1 /\ releasing' = TRUE
        /\ previously_releasing' = "nullopt"
        /\ start_time' = start_time /\ acquireable_count' = acquireable_count
        /\ acquired_count' = acquired_count
    BY <1>5 DEF ReleaseOne, BurstReleases, pacingVars
  <2>2. TypeOK'
    <3>1. accumulated' \in Nat
      BY <1>4, <2>1
    <3> QED
      BY <1>1, <2>1, <3>1 DEF IInv, TypeOK
  <2>3. PacingInv' /\ NeverAheadOfSchedule'
    BY <1>1, <2>1 DEF IInv, PacingInv, NeverAheadOfSchedule
  <2>4. TokenConservation'
    <3>1. acquired_count = kept + 0 + (accumulated + 1) + y
      BY <1>3, <1>4
    <3> QED
      BY <1>1, <1>2, <2>1, <3>1 DEF TokenConservation, Held
  <2>5. LayerInv'
    BY <1>1, <1>4, <1>5, <2>1 DEF IInv, LayerInv
  <2> QED
    BY <1>1, <2>2, <2>3, <2>4, <2>5 DEF IInv, ReleaseContract
<1>6. CASE ~Bursts
  <2>1. /\ accumulated' = accumulated /\ releasing' = releasing
        /\ previously_releasing' = previously_releasing
        /\ start_time' = start_time /\ acquireable_count' = acquireable_count + 1
        /\ acquired_count' = acquired_count - 1
    BY <1>6 DEF ReleaseOne, PacingReleases, burstVars
  <2>2. TypeOK'
    <3>1. acquired_count' \in Nat /\ acquireable_count' \in Nat
      BY <1>3, <1>4, <2>1
    <3>2. sanity_check_pending_release' \in BOOLEAN
      BY <1>1
    <3> QED
      BY <1>1, <2>1, <3>1, <3>2 DEF IInv, TypeOK
  <2>3. PacingInv'
    BY <1>1, <1>4, <2>1 DEF IInv, PacingInv
  <2>4. NeverAheadOfSchedule'
    <3>1. start_time # Unset
      BY <1>3, <1>4 DEF IInv, NeverAheadOfSchedule
    <3>2. acquired_count' + acquireable_count' = acquired_count + acquireable_count
      BY <1>4, <2>1
    <3> QED
      BY <1>1, <2>1, <3>1, <3>2 DEF IInv, NeverAheadOfSchedule
  <2>5. TokenConservation'
    <3>1. acquired_count - 1 = kept + 0 + accumulated + y
      BY <1>3, <1>4
    <3> QED
      BY <1>1, <1>2, <2>1, <3>1 DEF TokenConservation, Held
  <2>6. LayerInv'
    BY <1>1, <1>6, <2>1 DEF IInv, LayerInv
  <2> QED
    BY <1>1, <2>2, <2>3, <2>4, <2>5, <2>6 DEF IInv, ReleaseContract
<1> QED
  BY <1>5, <1>6

\* Every step of the stack preserves the invariant.
LEMMA NextIInv == IInv /\ [Next]_vars => IInv'
<1> SUFFICES ASSUME IInv, [Next]_vars PROVE IInv'
  OBVIOUS
<1>1. CASE Next
  BY <1>1, TickIInv, PacedIInv, ReleasingIInv, AccumulatingIInv, PullIInv, KeepIInv, ReleaseIInv
     DEF Next
<1>2. CASE UNCHANGED vars
  <2>1. /\ now' = now /\ start_time' = start_time /\ acquireable_count' = acquireable_count
        /\ acquired_count' = acquired_count /\ accumulated' = accumulated
        /\ releasing' = releasing /\ previously_releasing' = previously_releasing
        /\ distributed_timings' = distributed_timings
        /\ sanity_check_pending_release' = sanity_check_pending_release
        /\ pc' = pc /\ kept' = kept
    BY <1>2 DEF vars, pacingVars, burstVars, jitterVars
  <2>2. TypeOK' /\ PacingInv' /\ NeverAheadOfSchedule'
    BY <2>1 DEF IInv, TypeOK, PacingInv, NeverAheadOfSchedule
  <2>3. TokenConservation' /\ ReleaseContract' /\ LayerInv'
    BY <2>1 DEF IInv, TokenConservation, Held, ReleaseContract, LayerInv
  <2> QED
    BY <2>2, <2>3 DEF IInv
<1> QED
  BY <1>1, <1>2

-----------------------------------------------------------------------------
(* Bursts, on a stack without jitter.                                      *)

\* How far a burst has got: while one is being released the remainder is counted in
\* accumulated, and what left the layer together with it makes up whole bursts.
BurstInv ==
    Bursts /\ ~Jitters =>
        /\ pc = "held" =>
              /\ accumulated < BurstSize
              /\ previously_releasing = "true"
              /\ ~releasing => accumulated = 0
              /\ (kept + accumulated + 1) % BurstSize = 0
        /\ pc # "held" /\ releasing =>
              /\ accumulated <= BurstSize
              /\ (kept + accumulated) % BurstSize = 0
        /\ pc # "held" /\ ~releasing =>
              /\ accumulated < BurstSize
              /\ kept % BurstSize = 0

\* Every step of a stack without jitter keeps its bursts whole.
LEMMA NextBurstInv == IInv /\ BurstInv /\ [Next]_vars => BurstInv'
<1> SUFFICES ASSUME IInv, BurstInv, [Next]_vars, Bursts, ~Jitters PROVE BurstInv'
  BY DEF BurstInv, Bursts, Jitters
<1>0. /\ BurstSize \in Nat \ {0} /\ kept \in Nat /\ accumulated \in Nat
      /\ pc \in {"idle", "pull", "held"} /\ releasing \in BOOLEAN
  BY StackAssumption DEF IInv, TypeOK, Bursts
<1>1. CASE \/ Tick
           \/ TryAcquireOneAccumulating
           \/ UNCHANGED vars
  <2>1. /\ accumulated' = accumulated /\ releasing' = releasing /\ kept' = kept
        /\ (pc' = pc /\ previously_releasing' = previously_releasing)
              \/ (pc = "idle" /\ pc' = "pull")
    BY <1>1 DEF Tick, TryAcquireOneAccumulating, vars, burstVars
  <2> QED
    BY <2>1 DEF BurstInv
<1>2. CASE TryAcquireOnePaced
  BY <1>2 DEF TryAcquireOnePaced
<1>3. CASE TryAcquireOneReleasing
  <2>1. /\ pc = "idle" /\ releasing /\ kept' = kept /\ pc' = "held"
        /\ previously_releasing' = "true" /\ accumulated' = accumulated - 1
        /\ releasing' = (accumulated' > 0)
    BY <1>3 DEF TryAcquireOneReleasing, Answer
  <2>2. accumulated > 0 /\ accumulated <= BurstSize /\ (kept + accumulated) % BurstSize = 0
    BY <2>1 DEF IInv, LayerInv, BurstInv
  <2>3. accumulated' \in Nat /\ accumulated' < BurstSize
    BY <1>0, <2>1, <2>2
  <2>4. kept' + accumulated' + 1 = kept + accumulated
    BY <1>0, <2>1
  <2>5. (kept' + accumulated' + 1) % BurstSize = 0
    BY <2>2, <2>4
  <2>6. ~releasing' => accumulated' = 0
    <3>1. CASE accumulated' > 0
      BY <2>1, <3>1, Zenon
    <3>2. CASE ~(accumulated' > 0)
      BY <2>3, <3>2
    <3> QED
      BY <3>1, <3>2
  <2> QED
    BY <2>1, <2>3, <2>5, <2>6 DEF BurstInv
<1>4. CASE PullOne
  <2>1. pc = "pull" /\ kept' = kept /\ ~releasing
    BY <1>4 DEF PullOne, IInv, LayerInv
  <2>2. accumulated < BurstSize /\ kept % BurstSize = 0
    BY <2>1 DEF BurstInv
  <2>3. CASE /\ (accumulated + 1) % BurstSize # 0
             /\ accumulated' = accumulated + 1
             /\ releasing' = releasing /\ pc' = pc
    <3>1. accumulated + 1 # BurstSize
      <4>1. BurstSize % BurstSize = 0
        BY <1>0
      <4> QED
        BY <2>3, <4>1
    <3>2. accumulated' < BurstSize
      BY <1>0, <2>2, <2>3, <3>1
    <3> QED
      BY <2>1, <2>2, <2>3, <3>2 DEF BurstInv
  <2>4. CASE /\ (accumulated + 1) % BurstSize = 0
             /\ previously_releasing' = "true"
             /\ accumulated' = accumulated
             /\ releasing' = (accumulated > 0)
             /\ Answer(TRUE)
    <3>1. accumulated + 1 = BurstSize
      BY <1>0, <2>2, <2>4, ModSmall
    <3>2. pc' = "held"
      BY <2>4 DEF Answer
    <3>3. (kept + BurstSize) % BurstSize = 0
      BY <1>0, <2>2, ModAddDivisor, Zenon
    <3>4. kept' + accumulated' + 1 = kept + BurstSize
      BY <1>0, <2>1, <2>4, <3>1
    <3>5. (kept' + accumulated' + 1) % BurstSize = 0
      BY <3>3, <3>4
    <3>6. ~releasing' => accumulated' = 0
      <4>1. CASE accumulated > 0
        BY <2>4, <4>1, Zenon
      <4>2. CASE ~(accumulated > 0)
        <5>1. accumulated = 0
          BY <1>0, <4>2
        <5> QED
          BY <2>4, <5>1
      <4> QED
        BY <4>1, <4>2
    <3> QED
      BY <2>2, <2>4, <3>2, <3>5, <3>6 DEF BurstInv
  <2>5. CASE /\ UNCHANGED <<accumulated, releasing>>
             /\ Answer(FALSE)
    <3>1. pc' = "idle"
      BY <2>5 DEF Answer
    <3> QED
      BY <2>1, <2>2, <2>5, <3>1 DEF BurstInv
  <2> QED
    BY <1>4, <2>3, <2>4, <2>5, Zenon DEF PullOne
<1>5. CASE Keep
  <2>1. /\ pc = "held" /\ pc' = "idle" /\ kept' = kept + 1
        /\ accumulated' = accumulated /\ releasing' = releasing
    BY <1>5 DEF Keep, burstVars
  <2>2. /\ accumulated < BurstSize /\ (~releasing => accumulated = 0)
        /\ (kept + accumulated + 1) % BurstSize = 0
    BY <2>1 DEF BurstInv
  <2>3. kept' + accumulated' = kept + accumulated + 1
    BY <1>0, <2>1
  <2>4. (kept' + accumulated') % BurstSize = 0
    BY <2>2, <2>3
  <2>5. ~releasing => kept' % BurstSize = 0
    <3>1. ASSUME ~releasing PROVE kept' + accumulated' = kept'
      BY <1>0, <2>1, <2>2, <3>1
    <3> QED
      BY <2>4, <3>1
  <2>6. accumulated' <= BurstSize /\ accumulated' < BurstSize
    BY <1>0, <2>1, <2>2
  <2> QED
    BY <2>1, <2>4, <2>5, <2>6 DEF BurstInv
<1>6. CASE ReleaseOne
  <2>1. /\ pc = "held" /\ pc' = "idle" /\ kept' = kept
        /\ accumulated' = accumulated + 1 /\ releasing' = TRUE
    BY <1>6 DEF ReleaseOne, BurstReleases
  <2>2. accumulated < BurstSize /\ (kept + accumulated + 1) % BurstSize = 0
    BY <2>1 DEF BurstInv
  <2>3. accumulated' <= BurstSize /\ kept' + accumulated' = kept + accumulated + 1
    BY <1>0, <2>1, <2>2
  <2>4. (kept' + accumulated') % BurstSize = 0
    BY <2>2, <2>3
  <2> QED
    BY <2>1, <2>3, <2>4 DEF BurstInv
<1> QED
  BY <1>1, <1>2, <1>3, <1>4, <1>5, <1>6 DEF Next
-----------------------------------------------------------------------------
(* Theorems.                                                               *)

\* The inductive invariant holds throughout every execution of the stack.
THEOREM StackInvariant == Spec => []IInv
  BY InitIInv, NextIInv, PTL DEF Spec

\* Types, for every configuration: acquired_count_ and accumulated_, unsigned in the
\* code, never wrap below zero however calls to releaseOne() fall, and the ramping
\* limiter's "not zero" test never meets a negative acquireable_count_.
THEOREM StackTypes == Spec => []TypeOK
<1>1. IInv => TypeOK
  BY DEF IInv
<1> QED
  BY <1>1, StackInvariant, PTL

\* Every acquisition the pacing handed out is used, held, accumulated or waiting for its
\* jittered timing, in every combination of layers.
THEOREM TokensConserved == Spec => []TokenConservation
<1>1. IInv => TokenConservation
  BY DEF IInv
<1> QED
  BY <1>1, StackInvariant, PTL

\* No configuration of the stack gets ahead of its schedule.
THEOREM OnSchedule == Spec => []NeverAheadOfSchedule
<1>1. IInv => NeverAheadOfSchedule
  BY DEF IInv
<1> QED
  BY <1>1, StackInvariant, PTL

\* releaseOne() neither throws in the scheduled-start layer nor trips the
\* RELEASE_ASSERT of the jitter layer.
THEOREM ReleaseIsAccepted == Spec => []ReleaseContract
<1>1. IInv => ReleaseContract
  BY DEF IInv
<1> QED
  BY <1>1, StackInvariant, PTL

\* The burst invariant holds throughout every execution.
THEOREM BurstInvariant == Spec => []BurstInv
<1>1. Init => BurstInv
  <2> SUFFICES ASSUME Init, Bursts PROVE BurstInv
    BY DEF BurstInv
  <2>1. BurstSize \in Nat \ {0}
    BY StackAssumption DEF Bursts
  <2>2. 0 % BurstSize = 0
    BY <2>1
  <2> QED
    BY <2>1, <2>2 DEF Init, BurstInv
<1> QED
  BY <1>1, NextBurstInv, StackInvariant, PTL DEF Spec

\* Without jitter both ASSERTs of BurstingRateLimiter::releaseOne hold whenever it can be
\* called, for every burst size.
THEOREM BurstReleaseAssertsHold ==
    ASSUME JitterMax = 0
    PROVE  Spec => []BurstReleaseAsserts
<1>1. BurstInv => BurstReleaseAsserts
  BY DEF BurstInv, BurstReleaseAsserts, Jitters
<1> QED
  BY <1>1, BurstInvariant, PTL

\* Without jitter bursts leave the stack whole, for every burst size and however often
\* the target pushes back in the middle of one.
THEOREM BurstsAreWhole ==
    ASSUME JitterMax = 0
    PROVE  Spec => []WholeBursts
<1>1. IInv /\ BurstInv => WholeBursts
  <2> SUFFICES ASSUME IInv, BurstInv, Bursts, pc = "idle", ~releasing
               PROVE  (kept + Len(distributed_timings)) % BurstSize = 0
    BY DEF WholeBursts
  <2>1. ~Jitters
    BY DEF Jitters
  <2>2. distributed_timings = <<>> /\ kept \in Nat
    BY <2>1 DEF IInv, LayerInv, TypeOK
  <2>3. kept % BurstSize = 0
    BY <2>1 DEF BurstInv
  <2>4. kept + Len(distributed_timings) = kept
    BY <2>2
  <2> QED
    BY <2>3, <2>4
<1> QED
  BY <1>1, BurstInvariant, StackInvariant, PTL

\* A refusal after the scheduled start means that everything due was handed out.
THEOREM RefusalMeansCaughtUp == Spec => RefusesOnlyWhenCaughtUp
<1> DEFINE Refused == /\ ~Jitters
                      /\ now >= StartTime
                      /\ pc # "held" /\ pc' = "idle" /\ now' = now
           CaughtUp == kept + accumulated' = Total(now - start_time')
<1>1. IInv /\ IInv' /\ [Next]_vars => [Refused => CaughtUp]_vars
  <2> SUFFICES ASSUME IInv, IInv', Next, Refused PROVE CaughtUp
    OBVIOUS
  <2>1. PacingRefuses /\ kept' = kept
    <3>1. CASE TryAcquireOnePaced
      BY <3>1 DEF TryAcquireOnePaced, Answer
    <3>2. CASE PullOne
      BY <3>2 DEF PullOne, Answer
    <3>3. CASE Tick
      BY <3>3 DEF Tick, IInv, TypeOK
    <3>4. CASE TryAcquireOneReleasing
      BY <3>4 DEF TryAcquireOneReleasing, Answer
    <3>5. CASE TryAcquireOneAccumulating \/ Keep \/ ReleaseOne
      BY <3>5 DEF TryAcquireOneAccumulating, Keep, ReleaseOne
    <3> QED
      BY <3>1, <3>2, <3>3, <3>4, <3>5 DEF Next
  <2>2. acquired_count' = Total(now - start_time')
    BY <2>1, PacingRefusesProperties DEF IInv
  <2>3. acquired_count' = kept' + 0 + accumulated' + 0
    <3>1. Len(distributed_timings') = 0 /\ Held' = 0
      BY DEF IInv, LayerInv, Held
    <3> QED
      BY <3>1 DEF IInv, TokenConservation
  <2>4. kept + accumulated' = kept' + 0 + accumulated' + 0
    BY <2>1 DEF IInv, TypeOK
  <2> QED
    BY <2>2, <2>3, <2>4
<1> QED
  BY <1>1, StackInvariant, PTL DEF Spec, RefusesOnlyWhenCaughtUp, CaughtUpIfRefused

-----------------------------------------------------------------------------
(* The order of the pending timings.                                       *)

\* k positions that include every position before one of them are the first k.
LEMMA FirstPositions ==
    ASSUME NEW n \in Nat, NEW S \in SUBSET (1..n), \A i \in S : 1..i \subseteq S
    PROVE  Cardinality(S) \in Nat /\ S = 1..Cardinality(S)
<1> DEFINE k == Cardinality(S)
<1>1. IsFiniteSet(S) /\ k \in Nat
  <2>1. IsFiniteSet(1..n)
    BY FS_Interval
  <2> QED
    BY <2>1, FS_Subset, FS_CardinalityType, Zenon
<1> HIDE DEF k
<1>2. ASSUME NEW i \in S PROVE i \in 1..k
  <2>1. i \in Nat /\ i >= 1
    OBVIOUS
  <2>2. Cardinality(1..i) = i
    BY <2>1, FS_Interval
  <2>3. Cardinality(1..i) <= k
    BY <1>1, <1>2, FS_Subset DEF k
  <2> QED
    BY <1>1, <2>1, <2>2, <2>3
<1>3. S \subseteq 1..k
  BY <1>2
<1>4. IsFiniteSet(1..k) /\ Cardinality(1..k) = k
  BY <1>1, FS_Interval
<1>5. 1..k = S
  BY <1>3, <1>4, FS_Subset, Zenon DEF k
<1> QED
  BY <1>1, <1>5 DEF k

Ordered(timings, latest) ==
    /\ \A i, j \in DOMAIN timings : i < j => timings[i] <= timings[j]
    /\ \A i \in DOMAIN timings : timings[i] <= latest

\* An insertion behind the timings that are not later keeps the list in order.
LEMMA InsertKeepsOrder ==
    ASSUME NEW timings \in Seq(Nat), NEW latest \in Nat, Ordered(timings, latest),
           NEW t \in Nat, t <= latest
    PROVE  Ordered(InsertTiming(timings, t), latest)
<1> DEFINE n == Len(timings)
           S == {i \in DOMAIN timings : timings[i] <= t}
           k == Cardinality(S)
           u == SubSeq(timings, 1, k)
           v == SubSeq(timings, k + 1, n)
           w == InsertTiming(timings, t)
<1>1. n \in Nat /\ DOMAIN timings = 1..n /\ \A i \in 1..n : timings[i] \in Nat
  OBVIOUS
<1>2. \A i, j \in 1..n : i < j => timings[i] <= timings[j]
  BY <1>1 DEF Ordered
<1>3. \A i \in 1..n : timings[i] <= latest
  BY <1>1 DEF Ordered
<1>4. S \in SUBSET (1..n)
  BY <1>1
<1>5. \A i \in 1..n : i \in S <=> timings[i] <= t
  BY <1>1
<1>6. w = (u \o <<t>>) \o v
  BY DEF InsertTiming
<1> HIDE DEF n, S, w
<1>7. ASSUME NEW i \in S, NEW j \in 1..i PROVE j \in S
  <2>1. i \in 1..n /\ j \in 1..n
    BY <1>1, <1>4
  <2>2. timings[i] <= t /\ timings[j] <= timings[i]
    BY <1>1, <1>2, <1>5, <2>1
  <2> QED
    BY <1>1, <1>5, <2>1, <2>2
<1>8. k \in Nat /\ S = 1..k
  <2>1. \A i \in S : 1..i \subseteq S
    BY <1>7
  <2> QED
    BY <1>1, <1>4, <2>1, FirstPositions, Zenon
<1> HIDE DEF k
<1>9. k <= n
  BY <1>1, <1>4, <1>8
<1>10. \A i \in 1..k : timings[i] <= t
  BY <1>1, <1>5, <1>8, <1>9
<1>11. \A i \in (k + 1)..n : t <= timings[i]
  BY <1>1, <1>5, <1>8, <1>9
<1>12. /\ u \in Seq(Nat) /\ Len(u) = k /\ \A i \in 1..k : u[i] = timings[i]
  BY <1>1, <1>8, <1>9, SubSeqProperties DEF n
<1>13. /\ v \in Seq(Nat) /\ Len(v) = n - k /\ \A i \in 1..(n - k) : v[i] = timings[k + i]
  <2>1. k + 1 \in Int /\ n \in Int /\ \A i \in (k + 1)..n : timings[i] \in Nat
    BY <1>1, <1>8
  <2>2. /\ v \in Seq(Nat)
        /\ Len(v) = IF k + 1 <= n THEN n - (k + 1) + 1 ELSE 0
        /\ \A i \in 1..(n - (k + 1) + 1) : v[i] = timings[(k + 1) + i - 1]
    BY <2>1, SubSeqProperties
  <2>3. Len(v) = n - k
    BY <1>1, <1>8, <1>9, <2>2
  <2>4. n - (k + 1) + 1 = n - k /\ \A i \in 1..(n - k) : (k + 1) + i - 1 = k + i
    BY <1>1, <1>8
  <2> QED
    BY <2>2, <2>3, <2>4
<1> HIDE DEF u, v
<1>14. <<t>> \in Seq(Nat) /\ Len(<<t>>) = 1 /\ <<t>>[1] = t
  OBVIOUS
<1>15. /\ u \o <<t>> \in Seq(Nat) /\ Len(u \o <<t>>) = k + 1
       /\ \A i \in 1..k : (u \o <<t>>)[i] = timings[i]
       /\ (u \o <<t>>)[k + 1] = t
  <2> DEFINE y == <<t>>
  <2>1. y \in Seq(Nat) /\ Len(y) = 1 /\ y[1] = t
    BY <1>14
  <2> HIDE DEF y
  <2>2. /\ u \o y \in Seq(Nat) /\ Len(u \o y) = k + 1
        /\ \A i \in 1..(k + 1) : (u \o y)[i] = IF i <= k THEN u[i] ELSE y[i - k]
    <3>1. u \in Seq(Nat) /\ Len(u) = k
      BY <1>12
    <3>2. /\ u \o y \in Seq(Nat) /\ Len(u \o y) = Len(u) + Len(y)
          /\ \A i \in 1..(Len(u) + Len(y)) :
                 (u \o y)[i] = IF i <= Len(u) THEN u[i] ELSE y[i - Len(u)]
      BY <2>1, <3>1, ConcatProperties, Zenon
    <3> QED
      BY <2>1, <3>1, <3>2
  <2>3. k + 1 \in 1..(k + 1) /\ ~(k + 1 <= k) /\ (k + 1) - k = 1
    BY <1>8
  <2>4. (u \o y)[k + 1] = t
    BY <2>1, <2>2, <2>3
  <2>5. \A i \in 1..k : i \in 1..(k + 1) /\ i <= k
    BY <1>8
  <2>6. \A i \in 1..k : (u \o y)[i] = timings[i]
    BY <1>12, <2>2, <2>5
  <2> QED
    BY <2>2, <2>4, <2>6, Zenon DEF y
<1> DEFINE x == u \o <<t>>
<1>16. x \in Seq(Nat) /\ Len(x) = k + 1 /\ w = x \o v
       /\ (\A i \in 1..k : x[i] = timings[i]) /\ x[k + 1] = t
  BY <1>6, <1>15, Zenon
<1> HIDE DEF x
<1>17. /\ w \in Seq(Nat) /\ Len(w) = n + 1
       /\ \A i \in 1..(k + 1) : w[i] = x[i]
       /\ \A i \in (k + 2)..(n + 1) : w[i] = timings[i - 1]
  <2>0. /\ w \in Seq(Nat) /\ Len(w) = Len(x) + Len(v)
        /\ \A i \in 1..(Len(x) + Len(v)) : w[i] = IF i <= Len(x) THEN x[i] ELSE v[i - Len(x)]
    BY <1>13, <1>16, ConcatProperties, Zenon
  <2>1. w \in Seq(Nat) /\ Len(w) = n + 1
    BY <1>1, <1>8, <1>13, <1>16, <2>0
  <2>2. \A i \in 1..(k + 1) : w[i] = x[i]
    <3>1. \A i \in 1..(k + 1) : i \in 1..(Len(x) + Len(v)) /\ i <= Len(x)
      BY <1>1, <1>8, <1>9, <1>13, <1>16
    <3> QED
      BY <2>0, <3>1
  <2>3. ASSUME NEW i \in (k + 2)..(n + 1) PROVE w[i] = timings[i - 1]
    <3>1. i - (k + 1) \in 1..(n - k) /\ i \in 1..(Len(x) + Len(v)) /\ ~(i <= Len(x))
      BY <1>1, <1>8, <1>9, <1>13, <1>16
    <3>2. w[i] = v[i - (k + 1)]
      BY <1>16, <2>0, <3>1
    <3>3. k + (i - (k + 1)) = i - 1
      BY <1>8
    <3> QED
      BY <1>13, <3>1, <3>2, <3>3
  <2> QED
    BY <2>1, <2>2, <2>3
<1>18. /\ \A i \in 1..k : w[i] = timings[i] /\ w[i] <= t
       /\ w[k + 1] = t
       /\ \A i \in (k + 2)..(n + 1) : w[i] = timings[i - 1] /\ t <= w[i]
  <2>1. \A i \in 1..k : w[i] = timings[i] /\ w[i] <= t
    BY <1>8, <1>10, <1>16, <1>17
  <2>2. w[k + 1] = t
    BY <1>8, <1>16, <1>17
  <2>3. \A i \in (k + 2)..(n + 1) : i - 1 \in (k + 1)..n
    BY <1>1, <1>8
  <2> QED
    BY <1>11, <1>17, <2>1, <2>2, <2>3
<1>19. DOMAIN w = 1..(n + 1) /\ \A i \in 1..(n + 1) : w[i] \in Nat
  <2>1. w \in Seq(Nat) /\ Len(w) = n + 1
    BY <1>17
  <2> QED
    BY <2>1
<1>20. ASSUME NEW i \in 1..(n + 1), NEW j \in 1..(n + 1), i < j PROVE w[i] <= w[j]
  <2>1. CASE j <= k
    BY <1>1, <1>2, <1>8, <1>9, <1>18, <1>20, <2>1
  <2>2. CASE i <= k /\ j > k
    <3>1. w[i] <= t
      BY <1>8, <1>18, <2>2
    <3>2. t <= w[j]
      BY <1>1, <1>8, <1>18, <2>2
    <3> QED
      BY <1>19, <3>1, <3>2
  <2>3. CASE i = k + 1
    <3>1. j \in (k + 2)..(n + 1)
      BY <1>1, <1>8, <1>20, <2>3
    <3> QED
      BY <1>18, <2>3, <3>1
  <2>4. CASE i > k + 1
    <3>1. /\ i \in (k + 2)..(n + 1) /\ j \in (k + 2)..(n + 1)
          /\ i - 1 \in 1..n /\ j - 1 \in 1..n /\ i - 1 < j - 1
      BY <1>1, <1>8, <1>20, <2>4
    <3>2. w[i] = timings[i - 1] /\ w[j] = timings[j - 1]
      BY <1>18, <3>1
    <3> QED
      BY <1>2, <3>1, <3>2
  <2> QED
    BY <1>8, <1>20, <2>1, <2>2, <2>3, <2>4
<1>21. ASSUME NEW i \in 1..(n + 1) PROVE w[i] <= latest
  <2>1. CASE i <= k
    BY <1>1, <1>3, <1>8, <1>9, <1>18, <2>1
  <2>2. CASE i = k + 1
    BY <1>18, <2>2
  <2>3. CASE i > k + 1
    <3>1. i \in (k + 2)..(n + 1) /\ i - 1 \in 1..n
      BY <1>1, <1>8, <2>3
    <3> QED
      BY <1>3, <1>18, <3>1
  <2> QED
    BY <1>8, <2>1, <2>2, <2>3
<1>22. Ordered(w, latest)
  BY <1>19, <1>20, <1>21 DEF Ordered
<1> QED
  BY <1>22 DEF w

\* The front of a list in order may go.
LEMMA TailKeepsOrder ==
    ASSUME NEW timings \in Seq(Nat), timings # <<>>, NEW latest \in Nat, Ordered(timings, latest)
    PROVE  Ordered(Tail(timings), latest)
<1> DEFINE n == Len(timings)
<1>1. n \in Nat /\ n > 0 /\ DOMAIN timings = 1..n
  OBVIOUS
<1>2. /\ Tail(timings) \in Seq(Nat) /\ Len(Tail(timings)) = n - 1
      /\ \A i \in 1..(n - 1) : Tail(timings)[i] = timings[i + 1]
  BY HeadTailProperties
<1>3. DOMAIN Tail(timings) = 1..(n - 1)
  BY <1>2
<1> HIDE DEF n
<1>4. \A i \in 1..(n - 1) : i + 1 \in 1..n
  BY <1>1
<1>5. \A i, j \in 1..(n - 1) : i < j => i + 1 < j + 1
  OBVIOUS
<1> QED
  BY <1>1, <1>2, <1>3, <1>4, <1>5, Zenon DEF Ordered

\* What an answer inserts lies within the jitter, and what it takes is the front.
LEMMA AnswerKeepsOrder ==
    ASSUME NEW ok \in BOOLEAN, Answer(ok), now \in Nat, distributed_timings \in Seq(Nat),
           Ordered(distributed_timings, now + JitterMax)
    PROVE  Ordered(distributed_timings', now + JitterMax)
<1>1. CASE ~Jitters
  BY <1>1 DEF Answer, jitterVars
<1>2. CASE Jitters
  <2>1. PICK delay \in 0..JitterMax :
            LET timings == IF ok THEN InsertTiming(distributed_timings, now + delay)
                                 ELSE distributed_timings
                due     == timings # <<>> /\ timings[1] <= now
            IN  distributed_timings' = IF due THEN Tail(timings) ELSE timings
    BY <1>2, Zenon DEF Answer
  <2> DEFINE timings == IF ok THEN InsertTiming(distributed_timings, now + delay)
                              ELSE distributed_timings
  <2>2. now + delay \in Nat /\ now + delay <= now + JitterMax /\ now + JitterMax \in Nat
    BY StackAssumption
  <2>3. timings \in Seq(Nat)
    BY <2>2, InsertTimingProperties
  <2>4. Ordered(timings, now + JitterMax)
    BY <2>2, InsertKeepsOrder
  <2>5. \/ distributed_timings' = timings
        \/ timings # <<>> /\ distributed_timings' = Tail(timings)
    BY <2>1
  <2> HIDE DEF timings
  <2> QED
    BY <2>2, <2>3, <2>4, <2>5, TailKeepsOrder, Zenon
<1> QED
  BY <1>1, <1>2

\* The pending timings of the jitter layer are in order, and none lies further ahead than
\* the jitter, for every jitter and every way the stack is polled (TimingsInOrder).
THEOREM TimingsStayInOrder == Spec => []TimingsInOrder
<1>1. TimingsInOrder <=> Ordered(distributed_timings, now + JitterMax)
  BY DEF TimingsInOrder, Ordered
<1>2. Init => TimingsInOrder
  BY DEF Init, TimingsInOrder
<1>3. IInv /\ TimingsInOrder /\ [Next]_vars => TimingsInOrder'
  <2> SUFFICES ASSUME IInv, TimingsInOrder, [Next]_vars PROVE TimingsInOrder'
    OBVIOUS
  <2>1. now \in Nat /\ distributed_timings \in Seq(Nat)
    BY DEF IInv, TypeOK
  <2>2. CASE Tick
    <3>1. now' = now + 1 /\ distributed_timings' = distributed_timings
      BY <2>2 DEF Tick, jitterVars
    <3>2. \A i \in DOMAIN distributed_timings : distributed_timings[i] \in Nat
      BY <2>1
    <3>3. \A i \in DOMAIN distributed_timings : distributed_timings[i] <= now' + JitterMax
      BY <2>1, <3>1, <3>2, StackAssumption DEF TimingsInOrder
    <3> QED
      BY <3>1, <3>3 DEF TimingsInOrder
  <2>3. ASSUME NEW ok \in BOOLEAN, Answer(ok), now' = now PROVE TimingsInOrder'
    <3>1. Ordered(distributed_timings', now + JitterMax)
      BY <1>1, <2>1, <2>3, AnswerKeepsOrder
    <3> QED
      BY <2>3, <3>1 DEF TimingsInOrder, Ordered
  <2>4. ASSUME distributed_timings' = distributed_timings, now' = now PROVE TimingsInOrder'
    BY <2>4 DEF TimingsInOrder
  <2>5. \/ Tick
        \/ now' = now /\ distributed_timings' = distributed_timings
        \/ now' = now /\ Answer(TRUE)
        \/ now' = now /\ Answer(FALSE)
    BY Zenon DEF Next, TryAcquireOnePaced, TryAcquireOneReleasing, TryAcquireOneAccumulating, PullOne,
           Keep, ReleaseOne, vars, jitterVars
  <2> QED
    BY <2>2, <2>3, <2>4, <2>5, Zenon
<1> QED
  BY <1>2, <1>3, StackInvariant, PTL DEF Spec
=============================================================================
