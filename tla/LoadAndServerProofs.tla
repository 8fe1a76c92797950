------------------------- MODULE LoadAndServerProofs ------------------------
(***************************************************************************)
(* Proofs about the two ends of a test: an adaptive load session, for      *)
(* every session spec, every service and every limit on the load           *)
(* (AdaptiveLoad), and the filters of the test server, for every           *)
(* configuration and every set of requests (ServerFilters).                *)
(***************************************************************************)
EXTENDS AdaptiveLoad, ServerFilters, FiniteSetTheorems, TLAPS

-----------------------------------------------------------------------------
(* Arithmetic of the search.                                               *)

\* A factor above one at least doubles the load.
LEMMA FactorDoubles ==
    ASSUME NEW c \in Int, c > 0, NEW f \in Int, f > 1
    PROVE  c * f \in Int /\ c * f >= 2 * c
<1>1. f >= 2
  OBVIOUS
<1>2. PICK k \in Nat : f = 2 + k
  <2>1. f - 2 \in Nat /\ f = 2 + (f - 2)
    BY <1>1
  <2> QED
    BY <2>1
<1>3. c * f = 2 * c + c * k /\ c * k >= 0
  BY <1>2
<1> QED
  BY <1>3

\* The middle of a range, and how far it is from the ends.
LEMMA Middle ==
    ASSUME NEW b \in Int, NEW t \in Int
    PROVE  LET m == (b + t) \div 2
           IN  /\ m \in Int
               /\ 2 * m <= b + t /\ b + t <= 2 * m + 1
OBVIOUS

\* What is left of a range that was halved.
LEMMA Halved ==
    ASSUME NEW b \in Int, NEW t \in Int, NEW c \in Int, NEW u \in Int
    PROVE  /\ u - c >= 5 => u - c >= 2
           /\ u - c >= 2 => u - c >= 1 /\ c < u
           /\ 2 * (u - c) >= t - b - 1 /\ t - b >= 5 => u - c >= 2
           /\ 2 * (u - c) >= t - b - 1 /\ t - b >= 2 => u - c >= 1
OBVIOUS

\* The defaults of a session spec leave the step controller's configuration alone.
LEMMA DefaultsKeepSearch ==
    ASSUME NEW s, {"initial_value", "exponential_factor"} \subseteq DOMAIN s
    PROVE  /\ SetSessionSpecDefaults(s).initial_value = s.initial_value
           /\ SetSessionSpecDefaults(s).exponential_factor = s.exponential_factor
           /\ {"initial_value", "exponential_factor"} \subseteq DOMAIN SetSessionSpecDefaults(s)
BY DEF SetSessionSpecDefaults

-----------------------------------------------------------------------------
(* The inductive invariant.  While the search goes on its range is at      *)
(* least five wide: a narrower one would have converged.  The benchmark    *)
(* that finds convergence and the one of the testing stage each halve it.  *)

MinimalGap == IF stage = "adjusting" THEN 5 ELSE IF stage = "testing" THEN 2 ELSE 1

Typed ==
    /\ spec.initial_value \in Int
    /\ spec.exponential_factor \in Int
    /\ {"initial_value", "exponential_factor"} \subseteq DOMAIN spec
    /\ stage \in {"new", "adjusting", "testing", "done"}
    /\ is_range_finding_phase_ \in BOOLEAN
    /\ doomed \in BOOLEAN
    /\ previous_load_value_ \in Int /\ current_load_value_ \in Int
    /\ bottom_load_value_ \in Int /\ top_load_value_ \in Int

RangeFinding ==
    /\ current_load_value_ > 200
    /\ \/ previous_load_value_ = NaN
       \/ /\ previous_load_value_ \in within
          /\ previous_load_value_ > 200
          /\ 2 * previous_load_value_ <= current_load_value_

Searching ==
    /\ bottom_load_value_ \in within
    /\ top_load_value_ \in outside
    /\ bottom_load_value_ > 200
    /\ current_load_value_ = (bottom_load_value_ + top_load_value_) \div 2
    /\ previous_load_value_ \in {bottom_load_value_, top_load_value_}
    /\ top_load_value_ - bottom_load_value_ >= MinimalGap

SearchInv ==
    /\ Typed
    /\ stage = "testing" => ~is_range_finding_phase_
    /\ FineGrained /\ exponential_factor_ > 1 =>
           /\ stage = "new" => is_range_finding_phase_
           /\ stage \in {"new", "adjusting"} => ~doomed
           /\ is_range_finding_phase_ => RangeFinding
           /\ ~is_range_finding_phase_ => Searching

LEMMA SearchInit == AdaptiveInit => SearchInv
<1> SUFFICES ASSUME AdaptiveInit PROVE SearchInv
  OBVIOUS
<1>1. spec.initial_value \in Int /\ spec.exponential_factor \in Int
  BY AdaptiveAssumption DEF AdaptiveInit
<1>2. {"initial_value", "exponential_factor"} \subseteq DOMAIN spec
  BY AdaptiveAssumption, Zenon DEF AdaptiveInit
<1>3. is_range_finding_phase_ = TRUE /\ doomed = FALSE /\ stage = "new"
  BY DEF AdaptiveInit
<1>4. Typed
  <2>1. is_range_finding_phase_ \in BOOLEAN /\ doomed \in BOOLEAN
    BY <1>3, Zenon
  <2>2. /\ previous_load_value_ \in Int /\ current_load_value_ \in Int
        /\ bottom_load_value_ \in Int /\ top_load_value_ \in Int
    BY <1>1 DEF AdaptiveInit, NaN
  <2>3. stage \in {"new", "adjusting", "testing", "done"}
    BY <1>3
  <2> QED
    BY <1>1, <1>2, <2>1, <2>2, <2>3, Zenon DEF Typed
<1>5. FineGrained => RangeFinding
  BY <1>1 DEF AdaptiveInit, FineGrained, RangeFinding
<1> QED
  BY <1>3, <1>4, <1>5, Zenon DEF SearchInv

\* A factor is an integer.
LEMMA FactorTyped == Typed => exponential_factor_ \in Int
BY DEF Typed, exponential_factor_

\* The step controller's variables stay integers.
LEMMA UpdateTyped ==
    ASSUME Typed, NEW ok \in BOOLEAN, UpdateAndRecompute(ok)
    PROVE  /\ previous_load_value_' \in Int /\ current_load_value_' \in Int
           /\ bottom_load_value_' \in Int /\ top_load_value_' \in Int
<1>1. CASE is_range_finding_phase_ /\ IterateRangeFindingPhase(ok)
  <2>1. current_load_value_ * exponential_factor_ \in Int
    BY FactorTyped DEF Typed
  <2>2. (previous_load_value_ + current_load_value_) \div 2 \in Int
    BY Middle DEF Typed
  <2> QED
    BY <1>1, <2>1, <2>2, Zenon DEF Typed, IterateRangeFindingPhase
<1>2. CASE ~is_range_finding_phase_ /\ IterateBinarySearchPhase(ok)
  <2>1. bottom_load_value_' \in Int /\ top_load_value_' \in Int
    BY <1>2 DEF Typed, IterateBinarySearchPhase
  <2>2. (bottom_load_value_' + top_load_value_') \div 2 \in Int
    BY <2>1, Middle
  <2> QED
    BY <1>2, <2>1, <2>2 DEF Typed, IterateBinarySearchPhase
<1> QED
  BY <1>1, <1>2 DEF UpdateAndRecompute

\* The two flags stay flags.
LEMMA UpdateFlags ==
    ASSUME Typed, NEW ok \in BOOLEAN, UpdateAndRecompute(ok)
    PROVE  is_range_finding_phase_' \in BOOLEAN /\ doomed' \in BOOLEAN
BY Zenon DEF Typed, UpdateAndRecompute, IterateRangeFindingPhase, IterateBinarySearchPhase

\* What a benchmark makes of the search, whatever the stage: a range that a binary search
\* has already is halved, a new one is wide.
LEMMA UpdateSearches ==
    ASSUME Typed, FineGrained, exponential_factor_ > 1,
           is_range_finding_phase_ => RangeFinding,
           ~is_range_finding_phase_ => Searching,
           NEW ok \in BOOLEAN, Benchmark(ok)
    PROVE  /\ is_range_finding_phase_' => RangeFinding'
           /\ ~is_range_finding_phase_' =>
                  /\ bottom_load_value_' \in within'
                  /\ top_load_value_' \in outside'
                  /\ bottom_load_value_' > 200
                  /\ current_load_value_' = (bottom_load_value_' + top_load_value_') \div 2
                  /\ previous_load_value_' \in {bottom_load_value_', top_load_value_'}
                  /\ \/ top_load_value_' - bottom_load_value_' >= 5
                     \/ /\ ~is_range_finding_phase_
                        /\ 2 * (top_load_value_' - bottom_load_value_')
                             >= top_load_value_ - bottom_load_value_ - 1
<1>1. CASE is_range_finding_phase_ /\ IterateRangeFindingPhase(ok)
  <2>1. CASE ok
    <3>1. /\ current_load_value_ * exponential_factor_ \in Int
          /\ current_load_value_ * exponential_factor_ >= 2 * current_load_value_
      BY <1>1, FactorDoubles, FactorTyped DEF Typed, RangeFinding
    <3>2. current_load_value_ \in within'
      BY <2>1 DEF Benchmark
    <3> QED
      BY <1>1, <2>1, <3>1, <3>2 DEF IterateRangeFindingPhase, RangeFinding, Typed
  <2>2. CASE ~ok /\ previous_load_value_ = NaN
    BY <1>1, <2>2, Zenon DEF IterateRangeFindingPhase, RangeFinding
  <2>3. CASE ~ok /\ previous_load_value_ # NaN
    <3>1. /\ previous_load_value_ \in within
          /\ previous_load_value_ > 200
          /\ 2 * previous_load_value_ <= current_load_value_
      BY <1>1, <2>3 DEF RangeFinding
    <3>2. within' = within /\ current_load_value_ \in outside'
      BY <2>3 DEF Benchmark
    <3>3. /\ ~is_range_finding_phase_'
          /\ bottom_load_value_' = previous_load_value_
          /\ top_load_value_' = current_load_value_
          /\ previous_load_value_' = current_load_value_
          /\ current_load_value_' = (bottom_load_value_' + top_load_value_') \div 2
      BY <1>1, <2>3, Zenon DEF IterateRangeFindingPhase
    <3>4. top_load_value_' - bottom_load_value_' >= 5
      BY <3>1, <3>3 DEF Typed
    <3> QED
      BY <3>1, <3>2, <3>3, <3>4
  <2> QED
    BY <2>1, <2>2, <2>3
<1>2. CASE ~is_range_finding_phase_ /\ IterateBinarySearchPhase(ok)
  <2>1. /\ bottom_load_value_ \in within /\ top_load_value_ \in outside
        /\ bottom_load_value_ > 200
        /\ current_load_value_ = (bottom_load_value_ + top_load_value_) \div 2
        /\ top_load_value_ - bottom_load_value_ >= 1
    BY <1>2 DEF Searching, MinimalGap, Typed
  <2>2. /\ 2 * current_load_value_ <= bottom_load_value_ + top_load_value_
        /\ bottom_load_value_ + top_load_value_ <= 2 * current_load_value_ + 1
    BY <2>1, Middle DEF Typed
  <2>3. current_load_value_ > 200
    BY <2>1, <2>2 DEF Typed
  <2>4. CASE ok
    <3>1. bottom_load_value_' = current_load_value_ /\ top_load_value_' = top_load_value_
      BY <1>2, <2>4 DEF IterateBinarySearchPhase
    <3>2. current_load_value_ \in within' /\ outside' = outside
      BY <2>4 DEF Benchmark
    <3>3. 2 * (top_load_value_' - bottom_load_value_') >= top_load_value_ - bottom_load_value_ - 1
      BY <3>1, <2>2 DEF Typed
    <3> QED
      BY <1>2, <2>1, <2>3, <3>1, <3>2, <3>3 DEF IterateBinarySearchPhase
  <2>5. CASE ~ok
    <3>1. bottom_load_value_' = bottom_load_value_ /\ top_load_value_' = current_load_value_
      BY <1>2, <2>5 DEF IterateBinarySearchPhase
    <3>2. within' = within /\ current_load_value_ \in outside'
      BY <2>5 DEF Benchmark
    <3>3. 2 * (top_load_value_' - bottom_load_value_') >= top_load_value_ - bottom_load_value_ - 1
      BY <3>1, <2>2 DEF Typed
    <3> QED
      BY <1>2, <2>1, <3>1, <3>2, <3>3 DEF IterateBinarySearchPhase
  <2> QED
    BY <2>4, <2>5
<1> QED
  BY <1>1, <1>2 DEF Benchmark, UpdateAndRecompute

\* A range of 200 and up in which the search has not converged is at least five wide.
LEMMA UnconvergedIsWide ==
    ASSUME NEW b \in Int, NEW t \in Int, b > 200, b < t,
           NEW p \in {b, t}, NEW c \in Int, c = (b + t) \div 2,
           ~IsConverged(FALSE, c, p, FALSE)
    PROVE  t - b >= 5
<1>1. 2 * c <= b + t /\ b + t <= 2 * c + 1
  BY Middle
<1>2. p \in Int /\ p > 200
  OBVIOUS
<1>3. ~(100 * Distance(c, p) < p)
  BY <1>2 DEF IsConverged
<1>4. Distance(c, p) \in Int
  BY <1>2 DEF Distance
<1>5. Distance(c, p) >= 3
  BY <1>2, <1>3, <1>4
<1>6. CASE p = b
  BY <1>1, <1>5, <1>6 DEF Distance
<1>7. CASE p = t
  BY <1>1, <1>5, <1>7 DEF Distance
<1> QED
  BY <1>6, <1>7

\* The invariant does not look at what the other actions change.
LEMMA SearchStutters ==
    ASSUME SearchInv,
           UNCHANGED <<spec, controller, within, outside>>,
           \/ stage' = "done"
           \/ stage' = stage
    PROVE  SearchInv'
<1> USE DEF controller
<1>1. Typed'
  BY DEF SearchInv, Typed
<1>2. exponential_factor_' = exponential_factor_ /\ FineGrained' = FineGrained
  BY DEF exponential_factor_, FineGrained
<1>3. RangeFinding' = RangeFinding
  BY DEF RangeFinding
<1>4. Searching => Searching'
  <2>1. MinimalGap' <= MinimalGap /\ MinimalGap' \in Int /\ MinimalGap \in Int
    BY DEF MinimalGap
  <2> QED
    BY <2>1 DEF Searching, SearchInv, Typed
<1> QED
  BY <1>1, <1>2, <1>3, <1>4, Zenon DEF SearchInv

\* Checking the spec starts the adjusting stage in the range finding phase.
LEMMA SearchCheckSpec == ASSUME SearchInv, CheckSpec PROVE SearchInv'
<1> USE DEF controller
<1>1. /\ spec'.initial_value = spec.initial_value
      /\ spec'.exponential_factor = spec.exponential_factor
      /\ {"initial_value", "exponential_factor"} \subseteq DOMAIN spec'
  BY DefaultsKeepSearch DEF CheckSpec, SearchInv, Typed
<1>2. stage = "new" /\ stage' \in {"adjusting", "done"}
  BY DEF CheckSpec, Finish
<1>3. UNCHANGED <<controller, within, outside>>
  BY DEF CheckSpec
<1>4. Typed'
  BY <1>1, <1>2, <1>3 DEF SearchInv, Typed
<1>5. exponential_factor_' = exponential_factor_ /\ FineGrained' = FineGrained
  BY <1>1 DEF exponential_factor_, FineGrained
<1>6. RangeFinding' = RangeFinding
  BY <1>3 DEF RangeFinding
<1>7. stage' # "testing" /\ stage' # "new"
  BY <1>2
<1>8. is_range_finding_phase_' = is_range_finding_phase_ /\ doomed' = doomed
  BY <1>3
<1>9. stage \in {"new", "adjusting"}
  BY <1>2
<1> QED
  BY <1>2, <1>4, <1>5, <1>6, <1>7, <1>8, <1>9, Zenon DEF SearchInv

\* A round of the adjusting stage.
LEMMA SearchAdjust ==
    ASSUME SearchInv, NEW ok \in BOOLEAN, NEW delay \in 0..MaxDelay, Adjust(ok, delay)
    PROVE  SearchInv'
<1>1. spec' = spec /\ stage = "adjusting" /\ stage' \in {"adjusting", "testing", "done"}
  BY DEF Adjust, Finish
<1>2. Benchmark(ok) /\ UpdateAndRecompute(ok) /\ Typed
  BY DEF Adjust, Benchmark, SearchInv
<1>3. Typed'
  <2>1. spec' = spec /\ stage' \in {"new", "adjusting", "testing", "done"}
    BY <1>1
  <2> QED
    BY <1>2, <2>1, UpdateTyped, UpdateFlags, Zenon DEF Typed
<1>4. exponential_factor_' = exponential_factor_ /\ FineGrained' = FineGrained
  BY <1>1 DEF exponential_factor_, FineGrained
<1>5. stage' = "testing" => ~is_range_finding_phase_'
  BY <1>1 DEF Adjust, Finish, IsConverged
<1>6. stage' = "adjusting" => ~doomed'
  BY <1>1 DEF Adjust, Finish
<1>7. stage' = "adjusting" =>
        ~IsConverged(is_range_finding_phase_', current_load_value_', previous_load_value_', doomed')
  BY <1>1 DEF Adjust, Finish
<1>8. ASSUME FineGrained, exponential_factor_ > 1
      PROVE  /\ is_range_finding_phase_' => RangeFinding'
             /\ ~is_range_finding_phase_' => Searching'
  <2>1. /\ is_range_finding_phase_ => RangeFinding
        /\ ~is_range_finding_phase_ => Searching
    BY <1>8, Zenon DEF SearchInv
  <2>2. is_range_finding_phase_' => RangeFinding'
    BY <1>2, <1>8, <2>1, UpdateSearches
  <2>3. ASSUME ~is_range_finding_phase_' PROVE Searching'
    <3>1. /\ bottom_load_value_' \in within'
          /\ top_load_value_' \in outside'
          /\ bottom_load_value_' > 200
          /\ current_load_value_' = (bottom_load_value_' + top_load_value_') \div 2
          /\ previous_load_value_' \in {bottom_load_value_', top_load_value_'}
          /\ \/ top_load_value_' - bottom_load_value_' >= 5
             \/ /\ ~is_range_finding_phase_
                /\ 2 * (top_load_value_' - bottom_load_value_')
                     >= top_load_value_ - bottom_load_value_ - 1
      BY <1>2, <1>8, <2>1, <2>3, UpdateSearches
    <3>2. ~is_range_finding_phase_ => top_load_value_ - bottom_load_value_ >= 5
      BY <1>1, <2>1 DEF Searching, MinimalGap
    <3>3. top_load_value_' - bottom_load_value_' >= 2
      <4>1. /\ bottom_load_value_ \in Int /\ top_load_value_ \in Int
            /\ bottom_load_value_' \in Int /\ top_load_value_' \in Int
        BY <1>2, <1>3 DEF Typed
      <4> QED
        BY <3>1, <3>2, <4>1, Halved, Zenon
    <3>4. stage' = "adjusting" => top_load_value_' - bottom_load_value_' >= 5
      <4> SUFFICES ASSUME stage' = "adjusting"
                   PROVE  top_load_value_' - bottom_load_value_' >= 5
        OBVIOUS
      <4>1. is_range_finding_phase_' = FALSE /\ doomed' = FALSE
        BY <1>3, <1>6, <2>3, Zenon DEF Typed
      <4>2. ~IsConverged(FALSE, current_load_value_', previous_load_value_', FALSE)
        BY <1>7, <4>1, Zenon
      <4>3. /\ bottom_load_value_' \in Int /\ top_load_value_' \in Int
            /\ current_load_value_' \in Int
        BY <1>3 DEF Typed
      <4>4. bottom_load_value_' < top_load_value_'
        BY <3>3, <4>3, Halved, Zenon
      <4>5. bottom_load_value_' > 200
        BY <3>1
      <4>6. /\ current_load_value_' = (bottom_load_value_' + top_load_value_') \div 2
            /\ previous_load_value_' \in {bottom_load_value_', top_load_value_'}
        BY <3>1, Zenon
      <4> QED
        BY <4>2, <4>3, <4>4, <4>5, <4>6, UnconvergedIsWide, Zenon
    <3>5. top_load_value_' - bottom_load_value_' >= MinimalGap'
      <4>1. bottom_load_value_' \in Int /\ top_load_value_' \in Int
        BY <1>3 DEF Typed
      <4>2. (MinimalGap' = 5 /\ stage' = "adjusting") \/ MinimalGap' = 2 \/ MinimalGap' = 1
        BY <1>1 DEF MinimalGap
      <4> QED
        BY <3>3, <3>4, <4>1, <4>2, Halved, Zenon
    <3> QED
      BY <3>1, <3>5 DEF Searching
  <2> QED
    BY <2>2, <2>3
<1>9. stage' # "new"
  BY <1>1
<1>10. stage' \in {"new", "adjusting"} => stage' = "adjusting"
  BY <1>1
<1> QED
  BY <1>3, <1>4, <1>5, <1>6, <1>8, <1>9, <1>10, Zenon DEF SearchInv

\* The benchmark of the testing stage.
LEMMA SearchTest ==
    ASSUME SearchInv, NEW ok \in BOOLEAN, Test(ok)
    PROVE  SearchInv'
<1>1. spec' = spec /\ stage = "testing" /\ stage' = "done"
  BY DEF Test, Finish
<1>2. Benchmark(ok) /\ UpdateAndRecompute(ok) /\ Typed
  BY DEF Test, Benchmark, SearchInv
<1>3. Typed'
  <2>1. spec' = spec /\ stage' \in {"new", "adjusting", "testing", "done"}
    BY <1>1
  <2> QED
    BY <1>2, <2>1, UpdateTyped, UpdateFlags, Zenon DEF Typed
<1>4. exponential_factor_' = exponential_factor_ /\ FineGrained' = FineGrained
  BY <1>1 DEF exponential_factor_, FineGrained
<1>5. ASSUME FineGrained, exponential_factor_ > 1
      PROVE  /\ is_range_finding_phase_' => RangeFinding'
             /\ ~is_range_finding_phase_' => Searching'
  <2>1. /\ is_range_finding_phase_ => RangeFinding
        /\ ~is_range_finding_phase_ => Searching
    BY <1>5, Zenon DEF SearchInv
  <2>2. is_range_finding_phase_' => RangeFinding'
    BY <1>2, <1>5, <2>1, UpdateSearches
  <2>3. ASSUME ~is_range_finding_phase_' PROVE Searching'
    <3>1. /\ bottom_load_value_' \in within'
          /\ top_load_value_' \in outside'
          /\ bottom_load_value_' > 200
          /\ current_load_value_' = (bottom_load_value_' + top_load_value_') \div 2
          /\ previous_load_value_' \in {bottom_load_value_', top_load_value_'}
          /\ \/ top_load_value_' - bottom_load_value_' >= 5
             \/ /\ ~is_range_finding_phase_
                /\ 2 * (top_load_value_' - bottom_load_value_')
                     >= top_load_value_ - bottom_load_value_ - 1
      BY <1>2, <1>5, <2>1, <2>3, UpdateSearches
    <3>2. ~is_range_finding_phase_ => top_load_value_ - bottom_load_value_ >= 2
      BY <1>1, <2>1 DEF Searching, MinimalGap
    <3>3. top_load_value_' - bottom_load_value_' >= 1
      <4>1. /\ bottom_load_value_ \in Int /\ top_load_value_ \in Int
            /\ bottom_load_value_' \in Int /\ top_load_value_' \in Int
        BY <1>2, <1>3 DEF Typed
      <4> QED
        BY <3>1, <3>2, <4>1, Halved, Zenon
    <3>4. top_load_value_' - bottom_load_value_' >= MinimalGap'
      BY <1>1, <3>3 DEF MinimalGap
    <3> QED
      BY <3>1, <3>4 DEF Searching
  <2> QED
    BY <2>2, <2>3
<1>6. stage' # "new" /\ stage' # "testing" /\ stage' \notin {"new", "adjusting"}
  BY <1>1
<1> QED
  BY <1>3, <1>4, <1>5, <1>6, Zenon DEF SearchInv

\* Every step preserves the invariant.
LEMMA SearchNext == ASSUME SearchInv, [AdaptiveNext]_adaptiveVars PROVE SearchInv'
<1>1. CASE ReadSpecFails
  BY <1>1, SearchStutters DEF ReadSpecFails, Finish
<1>2. CASE CheckSpec
  BY <1>2, SearchCheckSpec
<1>3. CASE Exits
  BY <1>3, SearchStutters DEF Exits
<1>4. CASE BenchmarkFails
  BY <1>4, SearchStutters DEF BenchmarkFails, Finish
<1>5. CASE \E ok \in BOOLEAN : (\E delay \in 0..MaxDelay : Adjust(ok, delay)) \/ Test(ok)
  BY <1>5, SearchAdjust, SearchTest
<1>6. CASE UNCHANGED adaptiveVars
  BY <1>6, SearchStutters DEF adaptiveVars
<1> QED
  BY <1>1, <1>2, <1>3, <1>4, <1>5, <1>6 DEF AdaptiveNext

\* The search never loses its range: its bottom was measured within the thresholds, its top
\* outside, and the next load lies between, for every factor above one, every service and
\* every first load (UpdateAndRecompute of the exponential search).
THEOREM SearchKeepsItsRange == AdaptiveSpec => []SearchBracketsThreshold
<1>1. SearchInv => SearchBracketsThreshold
  <2> SUFFICES ASSUME SearchInv, ~is_range_finding_phase_, FineGrained, exponential_factor_ > 1
               PROVE  /\ bottom_load_value_ \in within /\ top_load_value_ \in outside
                      /\ bottom_load_value_ <= current_load_value_
                      /\ current_load_value_ < top_load_value_
    BY DEF SearchBracketsThreshold
  <2>1. Searching /\ Typed
    BY DEF SearchInv
  <2>2. top_load_value_ - bottom_load_value_ >= 1
    BY <2>1 DEF Searching, MinimalGap, Typed
  <2>3. /\ 2 * current_load_value_ <= bottom_load_value_ + top_load_value_
        /\ bottom_load_value_ + top_load_value_ <= 2 * current_load_value_ + 1
    BY <2>1, Middle DEF Searching, Typed
  <2> QED
    BY <2>1, <2>2, <2>3 DEF Searching, Typed
<1> QED
  BY <1>1, SearchInit, SearchNext, PTL DEF AdaptiveSpec

-----------------------------------------------------------------------------
(* The testing stage.                                                      *)

\* What the load x of a testing stage rests on.
Earned(x) ==
    /\ ~(elapsed > spec.convergence_deadline)
    /\ outside # {}
    /\ \E load \in within \union outside : 100 * Distance(x, load) < load

EarnedInv ==
    /\ ~is_range_finding_phase_ => outside # {}
    /\ stage \in {"new", "adjusting", "testing"} => status # "ok"
    /\ stage = "testing" => Earned(current_load_value_)
    /\ stage = "done" /\ status = "ok" => Earned(tested)
    /\ stage \in {"new", "adjusting", "testing", "done"}

LEMMA EarnedInit == AdaptiveInit => EarnedInv
BY DEF AdaptiveInit, EarnedInv

\* A benchmark adds a load to those measured, and the range is found only above one that is
\* outside.
LEMMA BenchmarkMeasures ==
    ASSUME EarnedInv, NEW ok \in BOOLEAN, Benchmark(ok)
    PROVE  /\ ~is_range_finding_phase_' => outside' # {}
           /\ outside \subseteq outside'
           /\ within \union outside \subseteq within' \union outside'
           /\ current_load_value_ \in within' \union outside'
           /\ previous_load_value_' = current_load_value_ \/ is_range_finding_phase_'
<1>1. CASE is_range_finding_phase_ /\ IterateRangeFindingPhase(ok)
  BY <1>1, Zenon DEF Benchmark, IterateRangeFindingPhase, EarnedInv
<1>2. CASE ~is_range_finding_phase_ /\ IterateBinarySearchPhase(ok)
  BY <1>2 DEF Benchmark, IterateBinarySearchPhase, EarnedInv
<1> QED
  BY <1>1, <1>2 DEF Benchmark, UpdateAndRecompute

LEMMA EarnedNext == ASSUME EarnedInv, [AdaptiveNext]_adaptiveVars PROVE EarnedInv'
<1>1. CASE ReadSpecFails
  BY <1>1 DEF ReadSpecFails, Finish, EarnedInv, controller
<1>2. CASE CheckSpec
  BY <1>2 DEF CheckSpec, Finish, EarnedInv, controller
<1>3. CASE Exits
  BY <1>3 DEF Exits, EarnedInv, Earned, controller
<1>4. CASE BenchmarkFails
  BY <1>4 DEF BenchmarkFails, Finish, EarnedInv, controller
<1>5. ASSUME NEW ok \in BOOLEAN, NEW delay \in 0..MaxDelay, Adjust(ok, delay) PROVE EarnedInv'
  <2>1. Benchmark(ok) /\ spec' = spec /\ stage = "adjusting" /\ status # "ok"
    BY <1>5 DEF Adjust, EarnedInv
  <2>2. /\ ~is_range_finding_phase_' => outside' # {}
        /\ current_load_value_ \in within' \union outside'
        /\ previous_load_value_' = current_load_value_ \/ is_range_finding_phase_'
    BY <2>1, BenchmarkMeasures
  <2>3. stage' \in {"adjusting", "testing", "done"} /\ status' # "ok"
    BY <1>5, <2>1 DEF Adjust, Finish
  <2>4. ASSUME stage' = "testing" PROVE Earned(current_load_value_)'
    <3>1. /\ ~(elapsed' > spec.convergence_deadline)
          /\ IsConverged(is_range_finding_phase_', current_load_value_', previous_load_value_', doomed')
      BY <1>5, <2>1, <2>4 DEF Adjust, Finish
    <3>2. /\ ~is_range_finding_phase_'
          /\ 100 * Distance(current_load_value_', previous_load_value_') < previous_load_value_'
      BY <3>1 DEF IsConverged
    <3>3. previous_load_value_' \in within' \union outside'
      BY <2>2, <3>2
    <3> QED
      BY <2>1, <2>2, <3>1, <3>2, <3>3 DEF Earned
  <2> QED
    BY <2>2, <2>3, <2>4 DEF EarnedInv
<1>6. ASSUME NEW ok \in BOOLEAN, Test(ok) PROVE EarnedInv'
  <2>1. /\ Benchmark(ok) /\ UNCHANGED <<spec, elapsed>> /\ stage' = "done"
        /\ tested' = current_load_value_ /\ Earned(current_load_value_)
    BY <1>6 DEF Test, Finish, EarnedInv
  <2>2. /\ ~is_range_finding_phase_' => outside' # {}
        /\ outside \subseteq outside'
        /\ within \union outside \subseteq within' \union outside'
    BY <2>1, BenchmarkMeasures
  <2>3. Earned(tested)'
    BY <2>1, <2>2 DEF Earned
  <2> QED
    BY <2>1, <2>2, <2>3 DEF EarnedInv
<1>7. CASE UNCHANGED adaptiveVars
  BY <1>7 DEF adaptiveVars, EarnedInv, Earned, controller
<1> QED
  BY <1>1, <1>2, <1>3, <1>4, <1>5, <1>6, <1>7 DEF AdaptiveNext

\* No session reaches the testing stage, or succeeds, past its deadline, without a load that
\* was too high, or at a load that is not within 1% of a measured one, for every spec,
\* service and search (PerformAdaptiveLoadSession).
THEOREM TestingIsEarned == AdaptiveSpec => []TestingStageIsEarned
<1>1. EarnedInv => TestingStageIsEarned
  <2> SUFFICES ASSUME EarnedInv, stage = "testing" \/ status = "ok" PROVE TestingStageIsEarned
    BY DEF TestingStageIsEarned
  <2>1. CASE stage = "testing"
    BY <2>1 DEF EarnedInv, Earned, TestingStageIsEarned
  <2>2. CASE stage # "testing"
    BY <2>2 DEF EarnedInv, Earned, TestingStageIsEarned
  <2> QED
    BY <2>1, <2>2
<1> QED
  BY <1>1, EarnedInit, EarnedNext, PTL DEF AdaptiveSpec

-----------------------------------------------------------------------------
(* The filters of the test server.                                         *)

-----------------------------------------------------------------------------
(* One stream.                                                             *)

Fields == {"pc", "config", "body", "delay", "tracked", "at", "delta", "replies"}
Unanswered == Starting \union {"created", "delayed", "receiving", "passed on", "aborted"}

\* What a reply says of the time since the stream before is what was measured, or nothing.
Told(replies, delta) == replies # <<>> => Head(replies).delta \in {0, delta}

\* The server dies over this configuration.
Deadly(c) == mergeJsonConfig(c) /\ {"v2", "v3"} \subseteq HeaderKinds(c)

\* What holds of a stream from its creation on.
Sound(q) ==
    /\ Fields \subseteq DOMAIN q
    /\ q.pc \in Unanswered \union {"replied", "destroyed"}
    /\ q.pc \in Unanswered => q.replies = <<>>
    /\ q.pc = "passed on" => q.body = "trailers"
    /\ q.pc = "aborted" => Deadly(q.config)
    /\ DelayedByLoad(q)
    /\ AnsweredOnce(q.replies, q.config, q.body)
    /\ Told(q.replies, q.delta)

\* Only what test-server accepts is accepted by the filters before it.
LEMMA MergeImpliesPicks == \A c : mergeJsonConfig(c) => CherryPicks(c)
BY DEF mergeJsonConfig, CherryPicks

\* A step that changes none of the fields below leaves a stream sound.
LEMMA SoundMoves ==
    ASSUME NEW q, NEW t, Sound(q), Fields \subseteq DOMAIN t,
           t.config = q.config, t.body = q.body, t.delay = q.delay, t.replies = q.replies,
           t.delta = q.delta \/ q.pc \in Unanswered,
           t.pc \in Unanswered \union {"replied", "destroyed"},
           t.pc \in Unanswered => q.pc \in Unanswered,
           t.pc = "passed on" => t.body = "trailers",
           t.pc = "aborted" => Deadly(t.config)
    PROVE  Sound(t)
<1>1. DelayedByLoad(t)
  BY Zenon DEF DelayedByLoad, Sound
<1>2. AnsweredOnce(t.replies, t.config, t.body)
  <2>1. AnsweredOnce(q.replies, q.config, q.body)
    BY Zenon DEF Sound
  <2> QED
    BY <2>1, Zenon
<1>3. Told(t.replies, t.delta)
  BY Zenon DEF Sound, Told
<1> QED
  BY <1>1, <1>2, <1>3, Zenon DEF Sound

\* A reply leaves the stream sound when its code fits the configuration.
LEMMA SoundReply ==
    ASSUME NEW q, Sound(q), q.replies = <<>>, NEW code,
           code = 200 => mergeJsonConfig(q.config) /\ q.body # "trailers",
           code = 500 => ~mergeJsonConfig(q.config)
    PROVE  /\ Sound(Reply(q, code)) /\ Reply(q, code).pc = "replied"
           /\ Reply(q, code).at = q.at /\ Reply(q, code).delta = q.delta
<1> DEFINE t == Reply(q, code)
           reply == WithDelta(q, code)
<1>1. Fields \subseteq DOMAIN q
  BY Zenon DEF Sound
<1>2. /\ Fields \subseteq DOMAIN t
      /\ t.config = q.config /\ t.body = q.body /\ t.delay = q.delay
      /\ t.pc = "replied" /\ t.replies = Append(q.replies, reply)
      /\ t.at = q.at /\ t.delta = q.delta
  BY <1>1 DEF Reply, Fields
<1>3. t.replies = <<reply>>
  BY <1>2
<1>4. Len(t.replies) = 1 /\ Head(t.replies) = reply
  BY <1>3
<1>5. reply.code = code
  BY DEF WithDelta
<1>6. code = 200 => reply.size = MergeFrom(q.config, "response_body_size", 0)
  BY DEF WithDelta
<1>7. AnsweredOnce(t.replies, t.config, t.body)
  BY <1>2, <1>4, <1>5, <1>6 DEF AnsweredOnce, MergeFrom, Brings
<1>8. DelayedByLoad(t)
  BY <1>2, Zenon DEF DelayedByLoad, Sound
<1>9. Told(t.replies, t.delta)
  <2>1. reply.delta \in {0, q.delta}
    BY DEF WithDelta
  <2> QED
    BY <1>2, <1>4, <2>1, Zenon DEF Told
<1> HIDE DEF t
<1>10. Sound(t)
  BY <1>2, <1>7, <1>8, <1>9, Zenon DEF Sound, Unanswered, Starting
<1> QED
  BY <1>2, <1>10 DEF t

\* test-server answers, or dies over the headers.
LEMMA SoundAnswers ==
    ASSUME NEW q, Sound(q), q.pc \in Unanswered, q.body # "trailers"
    PROVE  /\ Sound(Answers(q)) /\ Answers(q).pc \in {"replied", "aborted"}
           /\ Answers(q).at = q.at /\ Answers(q).delta = q.delta
<1> DEFINE t == [q EXCEPT !.pc = "aborted"]
<1>1. Fields \subseteq DOMAIN q /\ q.replies = <<>>
  BY Zenon DEF Sound
<1>2. /\ Fields \subseteq DOMAIN t
      /\ t.config = q.config /\ t.body = q.body /\ t.delay = q.delay /\ t.replies = q.replies
      /\ t.pc = "aborted" /\ t.at = q.at /\ t.delta = q.delta
  BY <1>1 DEF Fields
<1>3. CASE ~mergeJsonConfig(q.config)
  BY <1>1, <1>3, SoundReply DEF Answers
<1>4. CASE mergeJsonConfig(q.config) /\ validateResponseOptions(q.config)
  BY <1>1, <1>4, SoundReply DEF Answers, sendReply
<1>5. CASE mergeJsonConfig(q.config) /\ ~validateResponseOptions(q.config)
  <2>1. Answers(q) = t
    BY <1>5 DEF Answers, sendReply
  <2>2. Deadly(q.config)
    BY <1>5 DEF Deadly, validateResponseOptions
  <2> HIDE DEF t
  <2>3. t.pc \in Unanswered /\ t.pc # "passed on" /\ Deadly(t.config)
    BY <1>2, <2>2 DEF Unanswered
  <2>4. Sound(t)
    BY <1>2, <2>3, SoundMoves, Zenon
  <2> QED
    BY <1>2, <2>1, <2>4
<1> QED
  BY <1>3, <1>4, <1>5

\* What follows the delay.
LEMMA SoundAfterDelay ==
    ASSUME NEW q, Sound(q), q.pc \in {"created", "delayed"}
    PROVE  /\ Sound(AfterDelay(q)) /\ AfterDelay(q).pc \in {"receiving", "replied", "aborted"}
           /\ AfterDelay(q).at = q.at /\ AfterDelay(q).delta = q.delta
<1> DEFINE t == [q EXCEPT !.tracked = TRUE]
           u == [t EXCEPT !.pc = "receiving"]
<1>1. Fields \subseteq DOMAIN q /\ q.pc \in Unanswered /\ q.replies = <<>>
  BY Zenon DEF Sound, Unanswered
<1>2. /\ Fields \subseteq DOMAIN t
      /\ t.config = q.config /\ t.body = q.body /\ t.delay = q.delay
      /\ t.pc = q.pc /\ t.replies = q.replies /\ t.at = q.at /\ t.delta = q.delta
  BY <1>1 DEF Fields
<1>3. /\ Fields \subseteq DOMAIN u
      /\ u.config = q.config /\ u.body = q.body /\ u.delay = q.delay
      /\ u.pc = "receiving" /\ u.replies = q.replies /\ u.at = q.at /\ u.delta = q.delta
  BY <1>1 DEF Fields
<1>4. Sound(t)
  <2> HIDE DEF t
  <2>1. t.pc \notin {"passed on", "aborted"} /\ t.pc \in Unanswered
    BY <1>2 DEF Unanswered
  <2> QED
    BY <1>1, <1>2, <2>1, SoundMoves
<1>5. Sound(u)
  <2> HIDE DEF u
  <2>1. u.pc \notin {"passed on", "aborted"} /\ u.pc \in Unanswered
    BY <1>3 DEF Unanswered
  <2> QED
    BY <1>1, <1>3, <2>1, SoundMoves
<1>6. CASE q.body # "none"
  <2>1. AfterDelay(q) = u
    BY <1>6 DEF AfterDelay
  <2> QED
    BY <1>3, <1>5, <2>1
<1>7. CASE q.body = "none"
  <2>1. \/ AfterDelay(q) = Reply(t, 500) /\ ~CherryPicks(q.config)
        \/ AfterDelay(q) = Answers(t)
    BY <1>7 DEF AfterDelay
  <2>2. t.replies = <<>> /\ t.body # "trailers" /\ t.config = q.config /\ t.pc \in Unanswered
    BY <1>1, <1>2, <1>7
  <2> HIDE DEF t
  <2>3. CASE AfterDelay(q) = Answers(t)
    BY <1>2, <1>4, <2>2, <2>3, SoundAnswers
  <2>4. CASE AfterDelay(q) = Reply(t, 500) /\ ~CherryPicks(q.config)
    <3>1. ~mergeJsonConfig(t.config)
      BY <2>2, <2>4, MergeImpliesPicks
    <3>2. /\ Sound(Reply(t, 500)) /\ Reply(t, 500).pc = "replied"
          /\ Reply(t, 500).at = t.at /\ Reply(t, 500).delta = t.delta
      BY <1>4, <2>2, <3>1, SoundReply
    <3> QED
      BY <1>2, <2>4, <3>2
  <2> QED
    BY <2>1, <2>3, <2>4
<1> QED
  BY <1>6, <1>7

-----------------------------------------------------------------------------
(* All streams, and their count.                                           *)

Inv ==
    /\ DOMAIN request = Requests
    /\ \A r \in Requests : request[r] = Idle \/ Sound(request[r])
    /\ instances = Cardinality(LiveStreams)

LEMMA IdleIsNotSound == ~Sound(Idle) /\ Idle.pc = "idle"
BY DEF Sound, Idle, Unanswered, Starting

\* What a step that moves one stream leaves of the others.
LEMMA OneMoves ==
    ASSUME DOMAIN request = Requests, NEW r \in Requests, NEW next, To(r, next)
    PROVE  /\ DOMAIN request' = Requests
           /\ request'[r] = next
           /\ \A s \in Requests \ {r} : request'[s] = request[s]
BY DEF To

\* The streams that live are a finite set, and no more than there are requests.
LEMMA LiveIsFinite ==
    /\ IsFiniteSet(LiveStreams)
    /\ Cardinality(LiveStreams) \in Nat
    /\ Cardinality(LiveStreams) <= Cardinality(Requests)
    /\ Cardinality(Requests) \in Nat
<1>1. LiveStreams \subseteq Requests
  BY DEF LiveStreams
<1> QED
  BY <1>1, ServerAssumption, FS_Subset, FS_CardinalityType

\* A stream that lives on counts as before.
LEMMA InvMoves ==
    ASSUME Inv, NEW r \in Requests, NEW next, To(r, next), UNCHANGED instances,
           Live(r), Sound(next), next.pc # "destroyed"
    PROVE  Inv'
<1>1. /\ DOMAIN request' = Requests /\ request'[r] = next
      /\ \A s \in Requests \ {r} : request'[s] = request[s]
  BY OneMoves DEF Inv
<1>2. \A s \in Requests : request'[s] = Idle \/ Sound(request'[s])
  BY <1>1, Zenon DEF Inv
<1>3. next.pc \notin {"idle", "destroyed"}
  BY Zenon DEF Sound, Unanswered, Starting
<1>4. \A s \in Requests : Live(s)' <=> Live(s)
  BY <1>1, <1>3, Zenon DEF Live
<1>5. LiveStreams' = LiveStreams
  BY <1>4, Zenon DEF LiveStreams
<1>6. (\A s \in Requests : request[s] = Idle \/ Sound(request[s]))'
  BY <1>2
<1> QED
  BY <1>1, <1>5, <1>6 DEF Inv

\* The filters of a stream are constructed.
LEMMA InvConstructs ==
    ASSUME Inv, NEW r \in Requests, NEW c \in Configs, NEW body, Constructs(r, c, body)
    PROVE  Inv'
<1> DEFINE next == [pc |-> "constructed", config |-> c, body |-> body, delay |-> 0,
                    tracked |-> FALSE, at |-> 0, delta |-> 0, replies |-> <<>>]
<1>1. To(r, next) /\ request[r] = Idle /\ instances' = instances + 1
  BY Zenon DEF Constructs
<1>2. Sound(next) /\ next.pc = "constructed"
  BY DEF Sound, Unanswered, Starting, Fields, DelayedByLoad, AnsweredOnce, Told
<1> HIDE DEF next
<1>3. /\ DOMAIN request' = Requests /\ request'[r] = next
      /\ \A s \in Requests \ {r} : request'[s] = request[s]
  BY <1>1, OneMoves DEF Inv
<1>4. \A s \in Requests : request'[s] = Idle \/ Sound(request'[s])
  BY <1>2, <1>3, Zenon DEF Inv
<1>5. r \notin LiveStreams
  BY <1>1, IdleIsNotSound DEF LiveStreams, Live
<1>6. Live(r)'
  BY <1>2, <1>3 DEF Live
<1>7. \A s \in Requests \ {r} : Live(s)' <=> Live(s)
  BY <1>3, Zenon DEF Live
<1>8. LiveStreams' = LiveStreams \union {r}
  BY <1>6, <1>7, Zenon DEF LiveStreams
<1>9. Cardinality(LiveStreams \union {r}) = Cardinality(LiveStreams) + 1
  BY <1>5, LiveIsFinite, FS_AddElement, Zenon
<1>10. (instances = Cardinality(LiveStreams))'
  BY <1>1, <1>8, <1>9 DEF Inv
<1>11. (\A s \in Requests : request[s] = Idle \/ Sound(request[s]))'
  BY <1>4
<1> QED
  BY <1>3, <1>10, <1>11 DEF Inv

\* A stream ends.
LEMMA InvDestroy ==
    ASSUME Inv, NEW r \in Requests, onDestroy(r)
    PROVE  Inv'
<1> DEFINE next == [request[r] EXCEPT !.pc = "destroyed"]
<1>1. To(r, next) /\ Live(r) /\ instances' = instances - 1
  BY DEF onDestroy
<1>2. Sound(request[r])
  BY <1>1, IdleIsNotSound DEF Inv, Live
<1>3. /\ Fields \subseteq DOMAIN next
      /\ next.config = request[r].config /\ next.body = request[r].body
      /\ next.delay = request[r].delay /\ next.replies = request[r].replies
      /\ next.pc = "destroyed" /\ next.delta = request[r].delta
  BY <1>2, Zenon DEF Sound, Fields
<1> HIDE DEF next
<1>4. Sound(next)
  <2>1. next.pc \in Unanswered \union {"replied", "destroyed"} /\ next.pc \notin Unanswered
    BY <1>3 DEF Unanswered, Starting
  <2>2. next.pc # "passed on" /\ next.pc # "aborted"
    BY <1>3
  <2> QED
    BY <1>2, <1>3, <2>1, <2>2, SoundMoves, Zenon
<1>5. /\ DOMAIN request' = Requests /\ request'[r] = next
      /\ \A s \in Requests \ {r} : request'[s] = request[s]
  BY <1>1, OneMoves DEF Inv
<1>6. \A s \in Requests : request'[s] = Idle \/ Sound(request'[s])
  BY <1>4, <1>5, Zenon DEF Inv
<1>7. r \in LiveStreams
  BY <1>1 DEF LiveStreams
<1>8. ~Live(r)'
  BY <1>3, <1>5 DEF Live
<1>9. \A s \in Requests \ {r} : Live(s)' <=> Live(s)
  BY <1>5, Zenon DEF Live
<1>10. LiveStreams' = LiveStreams \ {r}
  BY <1>8, <1>9, Zenon DEF LiveStreams
<1>11. Cardinality(LiveStreams \ {r}) = Cardinality(LiveStreams) - 1
  BY <1>7, LiveIsFinite, FS_RemoveElement, Zenon
<1>12. (instances = Cardinality(LiveStreams))'
  BY <1>1, <1>10, <1>11 DEF Inv
<1>13. (\A s \in Requests : request[s] = Idle \/ Sound(request[s]))'
  BY <1>6
<1> QED
  BY <1>5, <1>12, <1>13 DEF Inv

\* Where a callback takes a stream that has been measured: on, with the same measurement.
MovesOn(r) ==
    /\ Live(r) /\ request[r].pc \notin Starting /\ UNCHANGED <<now, instances, start_, lock_>>
    /\ \E next : /\ To(r, next) /\ Sound(next) /\ next.pc \notin Starting \union {"destroyed"}
                 /\ next.at = request[r].at /\ next.delta = request[r].delta

LEMMA ToMoveOn ==
    ASSUME NEW r \in Requests, Live(r), request[r].pc \notin Starting,
           UNCHANGED <<now, instances, start_, lock_>>,
           NEW next, To(r, next), Sound(next),
           next.pc \in {"delayed", "receiving", "passed on", "replied", "aborted"},
           next.at = request[r].at, next.delta = request[r].delta
    PROVE  MovesOn(r)
<1>1. next.pc \notin Starting \union {"destroyed"}
  BY DEF Starting
<1> QED
  BY <1>1, Zenon DEF MovesOn

\* The delay is computed while the request itself is counted.
LEMMA HeadersMoveOn ==
    ASSUME Inv, NEW r \in Requests, DecodesHeaders(r)
    PROVE  MovesOn(r)
<1> DEFINE q == request[r]
           delay == computeDelayMs(q.config, instances)
           d == [q EXCEPT !.pc = "delayed", !.delay = delay]
<1>1. q.pc = "created" /\ UNCHANGED <<now, instances, start_, lock_>>
  BY DEF DecodesHeaders
<1>2. Live(r) /\ Sound(q) /\ q.pc \notin Starting
  BY <1>1, IdleIsNotSound DEF Inv, Live, Starting
<1>3. instances \in 1..Cardinality(Requests)
  <2>1. r \in LiveStreams
    BY <1>2 DEF LiveStreams
  <2>2. Cardinality(LiveStreams) # 0
    BY <2>1, LiveIsFinite, FS_EmptySet
  <2> QED
    BY <2>2, LiveIsFinite DEF Inv
<1>4. q.replies = <<>>
  BY <1>1, <1>2 DEF Sound, Unanswered
<1>5. \/ To(r, Reply(q, 500)) /\ ~CherryPicks(q.config)
      \/ To(r, AfterDelay(q))
      \/ To(r, d)
  BY Zenon DEF DecodesHeaders
<1>6. ~CherryPicks(q.config) =>
          /\ Sound(Reply(q, 500)) /\ Reply(q, 500).pc = "replied"
          /\ Reply(q, 500).at = q.at /\ Reply(q, 500).delta = q.delta
  BY <1>2, <1>4, MergeImpliesPicks, SoundReply
<1>7. /\ Sound(AfterDelay(q)) /\ AfterDelay(q).pc \in {"receiving", "replied", "aborted"}
      /\ AfterDelay(q).at = q.at /\ AfterDelay(q).delta = q.delta
  BY <1>1, <1>2, SoundAfterDelay
<1>8. Sound(d) /\ d.pc = "delayed" /\ d.at = q.at /\ d.delta = q.delta
  <2>1. /\ Fields \subseteq DOMAIN d
        /\ d.config = q.config /\ d.body = q.body /\ d.delay = delay
        /\ d.pc = "delayed" /\ d.replies = q.replies /\ d.at = q.at /\ d.delta = q.delta
    BY <1>2, Zenon DEF Sound, Fields
  <2> HIDE DEF d, q
  <2>2. DelayedByLoad(d)
    BY <1>3, <2>1 DEF DelayedByLoad
  <2>3. AnsweredOnce(d.replies, d.config, d.body) /\ Told(d.replies, d.delta)
    BY <1>4, <2>1 DEF AnsweredOnce, Told
  <2> QED
    BY <1>4, <2>1, <2>2, <2>3 DEF Sound, Unanswered
<1> HIDE DEF d
<1>9. CASE To(r, Reply(q, 500)) /\ ~CherryPicks(q.config)
  <2>1. PICK next : next = Reply(q, 500)
    OBVIOUS
  <2>2. To(r, next) /\ Sound(next) /\ next.pc = "replied" /\ next.at = q.at /\ next.delta = q.delta
    BY <1>6, <1>9, <2>1
  <2> QED
    BY <1>1, <1>2, <2>2, ToMoveOn
<1>10. CASE To(r, AfterDelay(q))
  BY <1>1, <1>2, <1>7, <1>10, ToMoveOn, Zenon
<1>11. CASE To(r, d)
  BY <1>1, <1>2, <1>8, <1>11, ToMoveOn, Zenon
<1> QED
  BY <1>5, <1>9, <1>10, <1>11

LEMMA DelayMovesOn ==
    ASSUME Inv, NEW r \in Requests, DelayEnds(r)
    PROVE  MovesOn(r)
<1>1. /\ request[r].pc = "delayed" /\ To(r, AfterDelay(request[r]))
      /\ UNCHANGED <<now, instances, start_, lock_>>
  BY DEF DelayEnds
<1>2. Live(r) /\ Sound(request[r]) /\ request[r].pc \notin Starting
  BY <1>1, IdleIsNotSound DEF Inv, Live, Starting
<1>3. /\ Sound(AfterDelay(request[r]))
      /\ AfterDelay(request[r]).pc \in {"receiving", "replied", "aborted"}
      /\ AfterDelay(request[r]).at = request[r].at
      /\ AfterDelay(request[r]).delta = request[r].delta
  BY <1>1, <1>2, SoundAfterDelay
<1> QED
  BY <1>1, <1>2, <1>3, ToMoveOn

LEMMA EndMovesOn ==
    ASSUME Inv, NEW r \in Requests, DecodesEnd(r)
    PROVE  MovesOn(r)
<1> DEFINE q == request[r]
           p == [q EXCEPT !.pc = "passed on"]
<1>1. q.pc = "receiving" /\ UNCHANGED <<now, instances, start_, lock_>>
  BY Zenon DEF DecodesEnd
<1>2. Live(r) /\ Sound(q) /\ q.pc \notin Starting
  BY <1>1, IdleIsNotSound DEF Inv, Live, Starting
<1>3. q.replies = <<>> /\ q.pc \in Unanswered
  BY <1>1, <1>2 DEF Sound, Unanswered
<1>4. \/ q.body = "trailers" /\ To(r, p)
      \/ q.body # "trailers" /\ To(r, Answers(q))
      \/ ~CherryPicks(q.config) /\ To(r, Reply(q, 500))
  <2>1. CASE q.body = "trailers"
    BY <2>1, Zenon DEF DecodesEnd
  <2>2. CASE q.body # "trailers" /\ CherryPicks(q.config)
    BY <2>2, Zenon DEF DecodesEnd
  <2>3. CASE q.body # "trailers" /\ ~CherryPicks(q.config)
    BY <2>3, Zenon DEF DecodesEnd
  <2> QED
    BY <2>1, <2>2, <2>3, Zenon
<1>5. CASE q.body = "trailers" /\ To(r, p)
  <2>1. /\ Fields \subseteq DOMAIN p
        /\ p.config = q.config /\ p.body = q.body /\ p.delay = q.delay
        /\ p.pc = "passed on" /\ p.replies = q.replies /\ p.at = q.at /\ p.delta = q.delta
    BY <1>2, Zenon DEF Sound, Fields
  <2> HIDE DEF p
  <2>2. p.pc \in Unanswered /\ p.body = "trailers" /\ p.pc # "aborted"
    BY <1>5, <2>1 DEF Unanswered
  <2>3. Sound(p)
    BY <1>2, <1>3, <2>1, <2>2, SoundMoves, Zenon
  <2> QED
    BY <1>1, <1>2, <1>5, <2>1, <2>3, ToMoveOn
<1>6. CASE q.body # "trailers" /\ To(r, Answers(q))
  <2>1. /\ Sound(Answers(q)) /\ Answers(q).pc \in {"replied", "aborted"}
        /\ Answers(q).at = q.at /\ Answers(q).delta = q.delta
    BY <1>2, <1>3, <1>6, SoundAnswers
  <2> QED
    BY <1>1, <1>2, <1>6, <2>1, ToMoveOn
<1>7. CASE ~CherryPicks(q.config) /\ To(r, Reply(q, 500))
  <2>1. /\ Sound(Reply(q, 500)) /\ Reply(q, 500).pc = "replied"
        /\ Reply(q, 500).at = q.at /\ Reply(q, 500).delta = q.delta
    BY <1>2, <1>3, <1>7, MergeImpliesPicks, SoundReply
  <2>2. PICK next : next = Reply(q, 500)
    OBVIOUS
  <2>3. To(r, next) /\ Sound(next) /\ next.pc = "replied" /\ next.at = q.at /\ next.delta = q.delta
    BY <1>7, <2>1, <2>2
  <2> QED
    BY <1>1, <1>2, <2>3, ToMoveOn, Zenon
<1> QED
  BY <1>4, <1>5, <1>6, <1>7, Zenon

LEMMA NextFilterMovesOn ==
    ASSUME Inv, NEW r \in Requests, NextFilterReplies(r)
    PROVE  MovesOn(r)
<1>1. /\ request[r].pc = "passed on" /\ To(r, Reply(request[r], 404))
      /\ UNCHANGED <<now, instances, start_, lock_>>
  BY Zenon DEF NextFilterReplies
<1>2. Live(r) /\ Sound(request[r]) /\ request[r].pc \notin Starting
  BY <1>1, IdleIsNotSound DEF Inv, Live, Starting
<1>3. request[r].replies = <<>>
  BY <1>1, <1>2, Zenon DEF Sound, Unanswered
<1>4. /\ Sound(Reply(request[r], 404)) /\ Reply(request[r], 404).pc = "replied"
      /\ Reply(request[r], 404).at = request[r].at
      /\ Reply(request[r], 404).delta = request[r].delta
  BY <1>2, <1>3, SoundReply
<1> QED
  BY <1>1, <1>2, <1>4, ToMoveOn, Zenon

LEMMA CallbacksMoveOn ==
    ASSUME Inv, NEW r \in Requests,
           DecodesHeaders(r) \/ DelayEnds(r) \/ DecodesEnd(r) \/ NextFilterReplies(r)
    PROVE  MovesOn(r)
BY HeadersMoveOn, DelayMovesOn, EndMovesOn, NextFilterMovesOn

\* The steps of getElapsedNsAndReset(), each as the stream it leads to.
LEMMA StopwatchMoves ==
    ASSUME Inv, NEW r \in Requests, NEW next, request[r].pc \in Starting,
           \/ next = [request[r] EXCEPT !.pc = "locked"]
           \/ \E time : next = [request[r] EXCEPT !.pc = "timed", !.at = time]
           \/ \E gap : next = [request[r] EXCEPT !.pc = "created", !.delta = gap]
    PROVE  Sound(next) /\ next.pc # "destroyed" /\ Live(r)
<1>1. Live(r) /\ Sound(request[r])
  BY IdleIsNotSound, Zenon DEF Inv, Live, Starting
<1>2. PICK q : q = request[r]
  BY Zenon
<1>3. Fields \subseteq DOMAIN q /\ q.pc \in Unanswered
  BY <1>1, <1>2, Zenon DEF Sound, Unanswered
<1>4. /\ Fields \subseteq DOMAIN next
      /\ next.config = q.config /\ next.body = q.body /\ next.delay = q.delay
      /\ next.replies = q.replies /\ next.pc \in {"locked", "timed", "created"}
  <2>1. CASE next = [q EXCEPT !.pc = "locked"]
    BY <1>3, <2>1, Zenon DEF Fields
  <2>2. CASE \E time : next = [q EXCEPT !.pc = "timed", !.at = time]
    BY <1>3, <2>2, Zenon DEF Fields
  <2>3. CASE \E gap : next = [q EXCEPT !.pc = "created", !.delta = gap]
    BY <1>3, <2>3, Zenon DEF Fields
  <2> QED
    BY <1>2, <2>1, <2>2, <2>3, Zenon
<1>5. next.pc \in Unanswered /\ next.pc \notin {"passed on", "aborted", "destroyed"}
  BY <1>4, Zenon DEF Unanswered, Starting
<1>6. Sound(next)
  BY <1>1, <1>2, <1>3, <1>4, <1>5, SoundMoves, Zenon
<1> QED
  BY <1>1, <1>5, <1>6, Zenon

LEMMA InvStopwatch ==
    ASSUME Inv, NEW r \in Requests, LocksStopwatch(r) \/ ReadsTime(r) \/ ResetsStopwatch(r)
    PROVE  Inv'
<1>1. request[r].pc \in Starting /\ UNCHANGED instances
  BY DEF LocksStopwatch, ReadsTime, ResetsStopwatch, Starting
<1>2. PICK next : /\ To(r, next)
                  /\ \/ next = [request[r] EXCEPT !.pc = "locked"]
                     \/ \E time : next = [request[r] EXCEPT !.pc = "timed", !.at = time]
                     \/ \E gap : next = [request[r] EXCEPT !.pc = "created", !.delta = gap]
  BY Zenon DEF LocksStopwatch, ReadsTime, ResetsStopwatch
<1>3. Sound(next) /\ next.pc # "destroyed" /\ Live(r)
  BY <1>1, <1>2, StopwatchMoves, Zenon
<1> QED
  BY <1>1, <1>2, <1>3, InvMoves

LEMMA InvInit == Init => Inv
<1> SUFFICES ASSUME Init PROVE Inv
  OBVIOUS
<1>1. DOMAIN request = Requests /\ \A r \in Requests : request[r] = Idle
  BY DEF Init
<1>2. LiveStreams = {}
  BY <1>1, IdleIsNotSound DEF LiveStreams, Live
<1>3. instances = Cardinality(LiveStreams)
  BY <1>2, FS_EmptySet DEF Init
<1> QED
  BY <1>1, <1>3 DEF Inv

LEMMA InvNext == ASSUME Inv, [Next]_vars PROVE Inv'
<1>1. CASE Tick \/ UNCHANGED vars
  <2>1. UNCHANGED <<request, instances>>
    BY <1>1 DEF Tick, vars
  <2>2. LiveStreams' = LiveStreams
    BY <2>1 DEF LiveStreams, Live
  <2> QED
    BY <2>1, <2>2 DEF Inv
<1>2. ASSUME NEW r \in Requests,
             \/ \E c \in Configs, body \in {"none", "data", "trailers"} : Constructs(r, c, body)
             \/ LocksStopwatch(r) \/ ReadsTime(r) \/ ResetsStopwatch(r)
             \/ onDestroy(r)
      PROVE  Inv'
  BY <1>2, InvConstructs, InvStopwatch, InvDestroy
<1>3. ASSUME NEW r \in Requests,
             DecodesHeaders(r) \/ DelayEnds(r) \/ DecodesEnd(r) \/ NextFilterReplies(r)
      PROVE  Inv'
  BY <1>3, CallbacksMoveOn, InvMoves DEF MovesOn
<1> QED
  BY <1>1, <1>2, <1>3 DEF Next

\* For any number of requests the count of live filters is exact, and no delay is one for
\* fewer or more requests than there are (DelayFollowsLoad; dynamic-delay's filter count).
THEOREM DelaysFollowLoad == Spec => []DelayFollowsLoad
<1>1. Inv => DelayFollowsLoad
  BY IdleIsNotSound, Zenon DEF Inv, DelayFollowsLoad, Created, Sound
<1> QED
  BY <1>1, InvInit, InvNext, PTL DEF Spec

\* Whatever the configurations of the server and of the requests, every stream has at most
\* one reply, with the body size that merging its own configuration gives, and the server
\* dies only over one that sets response headers of both kinds (validateOrSendError,
\* sendReply, mergeJsonConfig, validateResponseOptions).
THEOREM EachAnsweredByItsOwnConfig == Spec => []AnsweredByItsOwnConfig
<1>1. ASSUME NEW q, Sound(q)
      PROVE  /\ AnsweredOnce(q.replies, q.config, q.body)
             /\ q.pc = "aborted" =>
                    /\ q.replies = <<>> /\ mergeJsonConfig(q.config)
                    /\ {"v2", "v3"} \subseteq HeaderKinds(q.config)
  BY <1>1 DEF Sound, Deadly, Unanswered
<1>2. Inv => AnsweredByItsOwnConfig
  BY <1>1, IdleIsNotSound, Zenon DEF Inv, AnsweredByItsOwnConfig, Created
<1> QED
  BY <1>2, InvInit, InvNext, PTL DEF Spec

-----------------------------------------------------------------------------
(* The times between streams.  start_ is the latest time at which a stream *)
(* was measured, and the lock keeps it so until the worker that holds it   *)
(* has put its own time there.                                             *)

At(r) == request[r].at
Delta(r) == request[r].delta

\* The stream was measured against the one before it.
Gap(r) ==
    \E s \in Measured :
        /\ At(s) + Delta(r) = At(r)
        /\ \A t \in Measured : At(t) <= At(s) \/ At(t) >= At(r)

\* The worker that has the lock, and what it read.
OneMeasures ==
    /\ \A r \in Requests : request[r].pc \in {"locked", "timed"} => lock_ = {r}
    /\ \A r \in Requests : request[r].pc = "timed" => At(r) \in Nat \ {0} /\ At(r) \in start_..now

StartIsLatest ==
    /\ now \in 1..MaxTime /\ start_ \in 0..now
    /\ \A r \in Measured : At(r) \in 0..start_ /\ Delta(r) \in Nat
    /\ start_ # NoTime => \E r \in Measured : At(r) = start_

GapsOnly ==
    /\ \A r \in Measured : Delta(r) > 0 => Gap(r)
    /\ \A r, t \in Measured : Delta(r) > 0 /\ Delta(t) > 0 /\ At(r) = At(t) => r = t

GapInv == OneMeasures /\ StartIsLatest /\ GapsOnly

\* Nothing that has been measured changes.
LEMMA GapsStay ==
    ASSUME GapsOnly, Measured' = Measured,
           \A r \in Measured : At(r)' = At(r) /\ Delta(r)' = Delta(r)
    PROVE  GapsOnly'
<1>1. ASSUME NEW r \in Measured, Delta(r)' > 0 PROVE Gap(r)'
  <2>1. PICK s \in Measured : /\ At(s) + Delta(r) = At(r)
                              /\ \A t \in Measured : At(t) <= At(s) \/ At(t) >= At(r)
    BY <1>1, Zenon DEF GapsOnly, Gap
  <2>2. At(s)' + Delta(r)' = At(r)'
    BY <2>1, Zenon
  <2>3. \A t \in Measured' : At(t)' <= At(s)' \/ At(t)' >= At(r)'
    BY <2>1, Zenon
  <2> QED
    BY <2>2, <2>3, Zenon DEF Gap
<1>2. ASSUME NEW r \in Measured, NEW t \in Measured,
             Delta(r)' > 0, Delta(t)' > 0, At(r)' = At(t)'
      PROVE  r = t
  BY <1>2, Zenon DEF GapsOnly
<1> QED
  BY <1>1, <1>2, Zenon DEF GapsOnly

LEMMA StartStays ==
    ASSUME StartIsLatest, Measured' = Measured, start_' = start_, now' \in now..MaxTime,
           \A r \in Measured : At(r)' = At(r) /\ Delta(r)' = Delta(r)
    PROVE  StartIsLatest'
<1>1. now' \in 1..MaxTime /\ start_' \in 0..now'
  BY ServerAssumption DEF StartIsLatest
<1>2. /\ \A r \in Measured : At(r)' \in 0..start_ /\ Delta(r)' \in Nat
      /\ start_ # NoTime => \E r \in Measured : At(r)' = start_
  BY Zenon DEF StartIsLatest
<1> QED
  BY <1>1, <1>2, Zenon DEF StartIsLatest

\* A stream that has been measured goes on, or ends.
LEMMA GapMoves ==
    ASSUME Inv, GapInv, NEW r \in Requests, NEW next, To(r, next),
           request[r].pc \notin Starting \union {"idle"}, next.pc \notin Starting \union {"idle"},
           next.at = request[r].at, next.delta = request[r].delta,
           UNCHANGED <<now, start_, lock_>>
    PROVE  GapInv'
<1>1. request'[r] = next /\ \A s \in Requests \ {r} : request'[s] = request[s]
  BY OneMoves DEF Inv
<1>2. Measured' = Measured
  BY <1>1, Zenon DEF Measured
<1>3. \A s \in Requests : At(s)' = At(s) /\ Delta(s)' = Delta(s)
  BY <1>1, Zenon DEF At, Delta
<1>4. StartIsLatest'
  <2>1. now' \in now..MaxTime
    BY ServerAssumption DEF GapInv, StartIsLatest
  <2> QED
    BY <1>2, <1>3, <2>1, StartStays DEF GapInv, Measured
<1>5. GapsOnly'
  BY <1>2, <1>3, GapsStay DEF GapInv, Measured
<1>6. \A s \in Requests : request'[s].pc \in {"locked", "timed"} => request'[s] = request[s]
  BY <1>1 DEF Starting
<1>7. OneMeasures'
  BY <1>3, <1>6, Zenon DEF GapInv, OneMeasures
<1> QED
  BY <1>4, <1>5, <1>7 DEF GapInv

\* A stream that is not measured yet takes a step that does not finish the measurement.
LEMMA GapStarts ==
    ASSUME Inv, GapInv, NEW r \in Requests, NEW next, To(r, next),
           request[r].pc \in Starting \union {"idle"}, next.pc \in Starting, OneMeasures',
           UNCHANGED <<now, start_>>
    PROVE  GapInv'
<1>1. request'[r] = next /\ \A s \in Requests \ {r} : request'[s] = request[s]
  BY OneMoves DEF Inv
<1>2. Measured' = Measured /\ r \notin Measured
  BY <1>1, Zenon DEF Measured
<1>3. \A s \in Measured : At(s)' = At(s) /\ Delta(s)' = Delta(s)
  BY <1>1, <1>2, Zenon DEF At, Delta, Measured
<1>4. now' \in now..MaxTime
  BY ServerAssumption DEF GapInv, StartIsLatest
<1>5. StartIsLatest'
  BY <1>2, <1>3, <1>4, StartStays DEF GapInv
<1>6. GapsOnly'
  BY <1>2, <1>3, GapsStay DEF GapInv
<1> QED
  BY <1>5, <1>6 DEF GapInv

LEMMA GapConstructs ==
    ASSUME Inv, GapInv, NEW r \in Requests, NEW c, NEW body, Constructs(r, c, body)
    PROVE  GapInv'
<1> DEFINE next == [pc |-> "constructed", config |-> c, body |-> body, delay |-> 0,
                    tracked |-> FALSE, at |-> 0, delta |-> 0, replies |-> <<>>]
<1>1. To(r, next) /\ request[r] = Idle /\ UNCHANGED <<now, start_, lock_>>
  BY Zenon DEF Constructs
<1>2. next.pc = "constructed"
  OBVIOUS
<1> HIDE DEF next
<1>3. request'[r] = next /\ \A s \in Requests \ {r} : request'[s] = request[s]
  BY <1>1, OneMoves DEF Inv
<1>4. OneMeasures'
  BY <1>1, <1>2, <1>3 DEF GapInv, OneMeasures, At
<1> QED
  BY <1>1, <1>2, <1>4, IdleIsNotSound, GapStarts DEF Starting

LEMMA GapLocks ==
    ASSUME Inv, GapInv, NEW r \in Requests, LocksStopwatch(r)
    PROVE  GapInv'
<1>1. /\ request[r].pc = "constructed" /\ lock_ = {} /\ lock_' = {r}
      /\ To(r, [request[r] EXCEPT !.pc = "locked"]) /\ UNCHANGED <<now, start_>>
  BY DEF LocksStopwatch
<1>2. PICK next : To(r, next) /\ next = [request[r] EXCEPT !.pc = "locked"]
  BY <1>1
<1>3. next.pc = "locked"
  <2>1. "pc" \in DOMAIN request[r]
    BY <1>1, IdleIsNotSound DEF Inv, Sound, Fields
  <2> QED
    BY <1>2, <2>1
<1>4. request'[r] = next /\ \A s \in Requests \ {r} : request'[s] = request[s]
  BY <1>2, OneMoves DEF Inv
<1>5. \A s \in Requests : request[s].pc \notin {"locked", "timed"}
  BY <1>1 DEF GapInv, OneMeasures
<1>6. OneMeasures'
  BY <1>1, <1>3, <1>4, <1>5 DEF OneMeasures
<1> QED
  BY <1>1, <1>2, <1>3, <1>6, GapStarts DEF Starting

LEMMA GapReads ==
    ASSUME Inv, GapInv, NEW r \in Requests, ReadsTime(r)
    PROVE  GapInv'
<1>1. /\ request[r].pc = "locked" /\ UNCHANGED <<now, start_, lock_>>
      /\ To(r, [request[r] EXCEPT !.pc = "timed", !.at = now])
  BY DEF ReadsTime
<1>2. PICK next : To(r, next) /\ next = [request[r] EXCEPT !.pc = "timed", !.at = now]
  BY <1>1
<1>3. next.pc = "timed" /\ next.at = now
  <2>1. {"pc", "at"} \subseteq DOMAIN request[r]
    BY <1>1, IdleIsNotSound DEF Inv, Sound, Fields
  <2> QED
    BY <1>2, <2>1
<1>4. request'[r] = next /\ \A s \in Requests \ {r} : request'[s] = request[s]
  BY <1>2, OneMoves DEF Inv
<1>5. lock_ = {r} /\ \A s \in Requests \ {r} : request[s].pc \notin {"locked", "timed"}
  BY <1>1 DEF GapInv, OneMeasures
<1>6. now \in Nat \ {0} /\ now \in start_..now
  BY DEF GapInv, StartIsLatest
<1>7. OneMeasures'
  BY <1>1, <1>3, <1>4, <1>5, <1>6 DEF OneMeasures, At
<1> QED
  BY <1>1, <1>2, <1>3, <1>7, GapStarts DEF Starting

\* The measurement: the new time is not before start_, so that the difference is the time
\* since the stream measured last.
LEMMA GapResets ==
    ASSUME Inv, GapInv, NEW r \in Requests, ResetsStopwatch(r)
    PROVE  GapInv'
<1>1. PICK time, gap :
         /\ time = request[r].at
         /\ gap = IF start_ = NoTime THEN 0 ELSE (time - start_) % UInt64
  OBVIOUS
<1>2. /\ request[r].pc = "timed" /\ start_' = time /\ lock_' = {} /\ now' = now
      /\ To(r, [request[r] EXCEPT !.pc = "created", !.delta = gap])
  BY <1>1 DEF ResetsStopwatch
<1>3. /\ time \in Nat \ {0} /\ start_ \in 0..time /\ time \in 1..now /\ now \in 1..MaxTime
      /\ lock_ = {r} /\ \A s \in Requests \ {r} : request[s].pc \notin {"locked", "timed"}
  BY <1>1, <1>2 DEF GapInv, OneMeasures, StartIsLatest, At
<1>4. gap = IF start_ = NoTime THEN 0 ELSE time - start_
  <2>1. time - start_ \in 0..(UInt64 - 1)
    BY <1>3, ServerAssumption
  <2>2. \A d \in 0..(UInt64 - 1) : d % UInt64 = d
    BY ServerAssumption
  <2> QED
    BY <1>1, <2>1, <2>2
<1>5. gap \in Nat
  BY <1>3, <1>4
<1>6. PICK next : To(r, next) /\ next = [request[r] EXCEPT !.pc = "created", !.delta = gap]
  BY <1>2
<1>7. next.pc = "created" /\ next.at = time /\ next.delta = gap
  <2>1. {"pc", "at", "delta"} \subseteq DOMAIN request[r]
    BY <1>2, IdleIsNotSound DEF Inv, Sound, Fields
  <2> QED
    BY <1>1, <1>6, <2>1
<1>8. request'[r] = next /\ \A s \in Requests \ {r} : request'[s] = request[s]
  BY <1>6, OneMoves DEF Inv
<1>9. r \notin Measured /\ Measured' = Measured \union {r}
  BY <1>2, <1>7, <1>8 DEF Measured, Starting
<1>10. /\ At(r)' = time /\ Delta(r)' = gap
       /\ \A s \in Measured : At(s)' = At(s) /\ Delta(s)' = Delta(s)
  BY <1>7, <1>8, <1>9, Zenon DEF At, Delta, Measured
<1>11. \A s \in Measured : At(s) \in 0..start_ /\ At(s) <= time /\ Delta(s) \in Nat
  BY <1>3 DEF GapInv, StartIsLatest
<1>12. OneMeasures'
  BY <1>3, <1>7, <1>8 DEF OneMeasures
<1>13. StartIsLatest'
  <2>1. now' \in 1..MaxTime /\ start_' \in 0..now'
    BY <1>2, <1>3
  <2>2. \A s \in Measured' : At(s)' \in 0..start_' /\ Delta(s)' \in Nat
    BY <1>2, <1>3, <1>5, <1>9, <1>10, <1>11
  <2>3. \E s \in Measured' : At(s)' = start_'
    BY <1>2, <1>9, <1>10
  <2> QED
    BY <2>1, <2>2, <2>3, Zenon DEF StartIsLatest
<1>14. \A s \in Measured : Delta(s) > 0 => Gap(s)'
  <2> SUFFICES ASSUME NEW s \in Measured, Delta(s) > 0 PROVE Gap(s)'
    OBVIOUS
  <2>1. PICK u \in Measured : /\ At(u) + Delta(s) = At(s)
                              /\ \A t \in Measured : At(t) <= At(u) \/ At(t) >= At(s)
    BY DEF GapInv, GapsOnly, Gap
  <2>2. At(r)' >= At(s)'
    BY <1>3, <1>10, <1>11
  <2>3. \A t \in Measured' : At(t)' <= At(u)' \/ At(t)' >= At(s)'
    BY <1>9, <1>10, <2>1, <2>2, Zenon
  <2> QED
    BY <1>9, <1>10, <2>1, <2>3, Zenon DEF Gap
<1>15. gap > 0 => Gap(r)' /\ \A s \in Measured : At(s) # time
  <2> SUFFICES ASSUME gap > 0 PROVE Gap(r)' /\ \A s \in Measured : At(s) # time
    OBVIOUS
  <2>1. start_ # NoTime /\ start_ < time /\ start_ + gap = time
    BY <1>3, <1>4
  <2>2. PICK u \in Measured : At(u) = start_
    BY <2>1 DEF GapInv, StartIsLatest
  <2>3. \A t \in Measured : At(t) <= start_ /\ At(t) # time
    BY <1>3, <1>11, <2>1
  <2>4. time >= time
    BY <1>3
  <2>5. \A t \in Measured' : At(t)' <= At(u)' \/ At(t)' >= At(r)'
    BY <1>9, <1>10, <2>2, <2>3, <2>4, Zenon
  <2>6. At(u)' + Delta(r)' = At(r)'
    BY <1>10, <2>1, <2>2
  <2>7. Gap(r)'
    BY <1>9, <2>2, <2>5, <2>6, Zenon DEF Gap
  <2> QED
    BY <2>3, <2>7
<1>16. GapsOnly'
  <2>1. \A s \in Measured' : Delta(s)' > 0 => Gap(s)'
    BY <1>9, <1>10, <1>14, <1>15, Zenon
  <2>2. ASSUME NEW s \in Measured', NEW t \in Measured', Delta(s)' > 0, Delta(t)' > 0,
               At(s)' = At(t)'
        PROVE  s = t
    <3>1. CASE s \in Measured /\ t \in Measured
      BY <1>10, <2>2, <3>1, Zenon DEF GapInv, GapsOnly
    <3>2. CASE s = r /\ t \in Measured
      BY <1>10, <1>15, <2>2, <3>2, Zenon
    <3>3. CASE s \in Measured /\ t = r
      BY <1>10, <1>15, <2>2, <3>3, Zenon
    <3> QED
      BY <1>9, <3>1, <3>2, <3>3, Zenon
  <2> QED
    BY <2>1, <2>2, Zenon DEF GapsOnly
<1> QED
  BY <1>12, <1>13, <1>16 DEF GapInv

LEMMA GapInit == Init => GapInv
<1> SUFFICES ASSUME Init PROVE GapInv
  OBVIOUS
<1>1. now = 1 /\ start_ = NoTime /\ \A r \in Requests : request[r].pc = "idle"
  BY IdleIsNotSound DEF Init
<1>2. Measured = {}
  BY <1>1 DEF Measured
<1> QED
  BY <1>1, <1>2, ServerAssumption DEF GapInv, OneMeasures, StartIsLatest, GapsOnly, NoTime

LEMMA GapNext == ASSUME Inv, GapInv, [Next]_vars PROVE GapInv'
<1>1. CASE Tick \/ UNCHANGED vars
  <2>1. UNCHANGED <<request, start_, lock_>> /\ now' \in now..MaxTime
    BY <1>1, ServerAssumption DEF Tick, vars, GapInv, StartIsLatest
  <2>2. Measured' = Measured /\ \A r \in Requests : At(r)' = At(r) /\ Delta(r)' = Delta(r)
    BY <2>1, Zenon DEF Measured, At, Delta
  <2>3. StartIsLatest'
    BY <2>1, <2>2, StartStays DEF GapInv, Measured
  <2>4. GapsOnly'
    BY <2>2, GapsStay DEF GapInv, Measured
  <2>5. start_..now \subseteq start_..now'
    BY <2>1 DEF GapInv, StartIsLatest
  <2>6. OneMeasures'
    BY <2>1, <2>2, <2>5, Zenon DEF GapInv, OneMeasures
  <2> QED
    BY <2>3, <2>4, <2>6 DEF GapInv
<1>2. ASSUME NEW r \in Requests,
             DecodesHeaders(r) \/ DelayEnds(r) \/ DecodesEnd(r) \/ NextFilterReplies(r)
      PROVE  GapInv'
  <2>1. MovesOn(r)
    BY <1>2, CallbacksMoveOn
  <2>2. PICK next : /\ To(r, next) /\ Sound(next) /\ next.pc \notin Starting \union {"destroyed"}
                    /\ next.at = request[r].at /\ next.delta = request[r].delta
    BY <2>1, Zenon DEF MovesOn
  <2>3. next.pc # "idle"
    BY <2>2, Zenon DEF Sound, Unanswered, Starting
  <2>4. request[r].pc \notin Starting \union {"idle"} /\ UNCHANGED <<now, start_, lock_>>
    BY <2>1 DEF MovesOn, Live
  <2> QED
    BY <2>2, <2>3, <2>4, GapMoves
<1>3. ASSUME NEW r \in Requests, onDestroy(r) PROVE GapInv'
  <2>1. /\ To(r, [request[r] EXCEPT !.pc = "destroyed"]) /\ UNCHANGED <<now, start_, lock_>>
        /\ request[r].pc \notin Starting \union {"idle"}
    BY <1>3 DEF onDestroy, Live
  <2>2. {"pc", "at", "delta"} \subseteq DOMAIN request[r]
    BY <2>1, IdleIsNotSound DEF Inv, Sound, Fields
  <2>3. PICK next : To(r, next) /\ next = [request[r] EXCEPT !.pc = "destroyed"]
    BY <2>1
  <2>4. /\ next.pc = "destroyed" /\ next.at = request[r].at /\ next.delta = request[r].delta
    BY <2>2, <2>3
  <2>5. next.pc \notin Starting \union {"idle"}
    BY <2>4 DEF Starting
  <2> QED
    BY <2>1, <2>3, <2>4, <2>5, GapMoves
<1>4. ASSUME NEW r \in Requests,
             \/ \E c \in Configs, body \in {"none", "data", "trailers"} : Constructs(r, c, body)
             \/ LocksStopwatch(r) \/ ReadsTime(r) \/ ResetsStopwatch(r)
      PROVE  GapInv'
  BY <1>4, GapConstructs, GapLocks, GapReads, GapResets
<1> QED
  BY <1>1, <1>2, <1>3, <1>4 DEF Next

\* What is reported is what was measured.
LEMMA GapsAreReported == ASSUME Inv, GapInv PROVE ReportedDeltasAreGaps
<1>1. ASSUME NEW r \in Reported
      PROVE  /\ r \in Measured /\ Delta(r) > 0
             /\ Head(request[r].replies).delta = Delta(r)
  <2>1. /\ r \in Requests /\ r \in Measured /\ request[r].replies # <<>>
        /\ Head(request[r].replies).delta > 0 /\ request[r].pc # "idle"
    BY DEF Reported, Measured
  <2>2. Told(request[r].replies, request[r].delta)
    BY <2>1, IdleIsNotSound, Zenon DEF Inv, Sound
  <2>3. Head(request[r].replies).delta \in {0, request[r].delta}
    BY <2>1, <2>2, Zenon DEF Told
  <2>4. ~(0 > 0)
    OBVIOUS
  <2>5. Head(request[r].replies).delta # 0
    BY <2>1, <2>4, Zenon
  <2> QED
    BY <2>1, <2>3, <2>5, Zenon DEF Delta
<1>2. ASSUME NEW r \in Reported
      PROVE  \E s \in Measured :
                 /\ request[s].at + Head(request[r].replies).delta = request[r].at
                 /\ \A t \in Measured :
                        request[t].at <= request[s].at \/ request[t].at >= request[r].at
  <2>1. Gap(r)
    BY <1>1, Zenon DEF GapInv, GapsOnly
  <2> QED
    BY <1>1, <2>1, Zenon DEF Gap, At
<1>3. ASSUME NEW r \in Reported, NEW t \in Reported \ {r} PROVE request[t].at # request[r].at
  <2>1. t \in Reported /\ t # r
    OBVIOUS
  <2> QED
    BY <1>1, <2>1, Zenon DEF GapInv, GapsOnly, At
<1> QED
  BY <1>2, <1>3, Zenon DEF ReportedDeltasAreGaps

\* For any number of requests and workers, every reported delta is the time between the
\* creation of the stream and of the one before it, and none is reported twice
\* (ReportedDeltasAreGaps): getElapsedNsAndReset() reads the time under the lock, so no
\* worker puts an earlier time into start_ than the one that is there.
THEOREM EveryReportedDeltaIsAGap == Spec => []ReportedDeltasAreGaps
<1>1. Inv /\ GapInv /\ [Next]_vars => (Inv /\ GapInv)'
  BY InvNext, GapNext
<1> QED
  BY <1>1, InvInit, GapInit, GapsAreReported, PTL DEF Spec
=============================================================================
