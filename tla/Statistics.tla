---------------------------- MODULE Statistics ----------------------------
(***************************************************************************)
(* The statistics of a run: StreamingStatistic, which measures sizes,      *)
(* HdrStatistic, which measures latencies, and SimpleStatistic, the plain  *)
(* sums the other two are compared with.  A double is a ratio of integers; *)
(* a zero denominator is NaN.  HdrHistogram itself is a bag of values; its *)
(* rounding to four digits is left out.                                    *)
(***************************************************************************)
EXTENDS Integers, Sequences, Bags, SequencesExt, FiniteSetsExt

CONSTANTS
    Kilo,         \* 1000: from nanoseconds to microseconds, milliseconds and seconds
    HdrSeconds    \* 60: what the histograms can record

Uint64Max == 2147483647   \* above every sample
MaxLatency == Kilo * Kilo * Kilo * HdrSeconds

R(n) == <<n, 1>>
NaN == <<0, 0>>
isnan(q) == q[2] = 0
Plus(p, q) == <<p[1] * q[2] + q[1] * p[2], p[2] * q[2]>>
Times(p, q) == <<p[1] * q[1], p[2] * q[2]>>
Over(p, n) == <<p[1], p[2] * n>>
Minus(p, q) == Plus(p, Times(R(-1), q))
Same(p, q) == IF isnan(p) \/ isnan(q) THEN isnan(p) /\ isnan(q) ELSE p[1] * q[2] = q[1] * p[2]
Round(q) == (2 * q[1] + q[2]) \div (2 * q[2])
RoundSqrt(q, bound) ==
    CHOOSE n \in 0..bound : /\ 4 * q[1] < (2 * n + 1) * (2 * n + 1) * q[2]
                            /\ n > 0 => (2 * n - 1) * (2 * n - 1) * q[2] <= 4 * q[1]

StatisticImpl == [count |-> 0, min |-> Uint64Max, max |-> 0]
Added(s, v) == [s EXCEPT !.count = @ + 1, !.min = Min({@, v}), !.max = Max({@, v})]
Combined(a, b) ==
    [count |-> a.count + b.count, min |-> Min({a.min, b.min}), max |-> Max({a.max, b.max})]

(***************************************************************************)
(* SimpleStatistic                                                         *)
(***************************************************************************)
SimpleStatistic == StatisticImpl @@ [sum_x |-> 0, sum_x2 |-> 0]
SimpleAdd(s, v) == [Added(s, v) EXCEPT !.sum_x = @ + v, !.sum_x2 = @ + v * v]
SimpleMean(s) == IF s.count = 0 THEN NaN ELSE Over(R(s.sum_x), s.count)
SimplePvariance(s) ==
    IF s.count = 0 THEN NaN
    ELSE Minus(Over(R(s.sum_x2), s.count), Times(SimpleMean(s), SimpleMean(s)))

(***************************************************************************)
(* StreamingStatistic                                                      *)
(***************************************************************************)
StreamingStatistic == StatisticImpl @@ [mean |-> R(0), accumulated_variance |-> R(0)]

StreamingAdd(s, v) ==
    LET count   == s.count + 1
        delta   == Minus(R(v), s.mean)
        delta_n == Over(delta, count)
    IN  [Added(s, v) EXCEPT
            !.mean = Plus(@, delta_n),
            !.accumulated_variance = Plus(@, Times(Times(delta, delta_n), R(count - 1)))]

StreamingMean(s) == IF s.count = 0 THEN NaN ELSE s.mean
StreamingPvariance(s) == IF s.count = 0 THEN NaN ELSE Over(s.accumulated_variance, s.count)

\* Mutation: the spread between the two means is forgotten.
StreamingCombine_NoSpread(a, b) ==
    LET count == a.count + b.count
        zero(q) == IF isnan(q) THEN R(0) ELSE q
    IN  Combined(a, b) @@
        [mean |-> Over(Plus(Times(R(a.count), zero(StreamingMean(a))),
                            Times(R(b.count), zero(StreamingMean(b)))), count),
         accumulated_variance |-> Plus(a.accumulated_variance, b.accumulated_variance)]

\* Combining two statistics without samples divides 0 by 0: the variance stays NaN from then on.
StreamingCombine(a, b) ==
    LET count  == a.count + b.count
        a_mean == IF isnan(StreamingMean(a)) THEN R(0) ELSE StreamingMean(a)
        b_mean == IF isnan(StreamingMean(b)) THEN R(0) ELSE StreamingMean(b)
        spread == Minus(a_mean, b_mean)
    IN  Combined(a, b) @@
        [mean |-> Over(Plus(Times(R(a.count), a_mean), Times(R(b.count), b_mean)), count),
         accumulated_variance |->
            Plus(Plus(a.accumulated_variance, b.accumulated_variance),
                 Over(Times(Times(spread, spread), R(a.count * b.count)), count))]

(***************************************************************************)
(* HdrStatistic                                                            *)
(***************************************************************************)
HdrStatistic == [histogram |-> EmptyBag]

\* Values beyond the range of the histogram are dropped.
HdrAdd(s, v) == IF v > MaxLatency THEN s ELSE [histogram |-> s.histogram (+) SetToBag({v})]
HdrCombine(a, b) == [histogram |-> a.histogram (+) b.histogram]

HdrCount(s) == BagCardinality(s.histogram)
HdrMean(s) ==
    IF HdrCount(s) = 0 THEN NaN
    ELSE Over(R(MapThenSumSet(LAMBDA v : v * s.histogram[v], DOMAIN s.histogram)), HdrCount(s))
HdrPvariance(s) ==
    IF HdrCount(s) = 0 THEN NaN
    ELSE LET n     == HdrCount(s)
             total == MapThenSumSet(LAMBDA v : v * s.histogram[v], DOMAIN s.histogram)
             Off(v) == (v * n - total) * (v * n - total) * s.histogram[v]
         IN  <<MapThenSumSet(Off, DOMAIN s.histogram), n * n * n>>
HdrMin(s) == IF HdrCount(s) = 0 THEN Uint64Max ELSE Min(DOMAIN s.histogram)
HdrMax(s) == IF HdrCount(s) = 0 THEN 0 ELSE Max(DOMAIN s.histogram)

\* The percentiles hdr_iter_percentile visits, in thousandths: coarser than the real steps.
\* Of an empty histogram it visits only its end.
Levels == <<0, 500, 750, 1000>>
HdrBelow(s, v) ==
    MapThenSumSet(LAMBDA w : s.histogram[w], {w \in DOMAIN s.histogram : w <= v})
HdrPercentiles(s) ==
    IF HdrCount(s) = 0 THEN <<[percentile |-> 1000, value |-> 0, count |-> 0]>>
    ELSE [i \in DOMAIN Levels |->
            LET v == Min({w \in DOMAIN s.histogram :
                            HdrBelow(s, w) * 1000 >= Levels[i] * HdrCount(s)})
            IN  [percentile |-> Levels[i], value |-> v, count |-> HdrBelow(s, v)]]

(***************************************************************************)
(* StatisticImpl::toProto: latencies in the DURATION domain, sizes RAW.  A *)
(* raw standard deviation stands for its square, the variance.             *)
(***************************************************************************)
setDurationFromNanos(nanos) ==
    [seconds |-> nanos \div (Kilo * Kilo * Kilo), nanos |-> nanos % (Kilo * Kilo * Kilo)]

HdrToProto(s) ==
    [domain |-> "DURATION", count |-> HdrCount(s),
     mean |-> setDurationFromNanos(IF HdrCount(s) = 0 THEN 0 ELSE Round(HdrMean(s))),
     pstdev |-> setDurationFromNanos(
        IF HdrCount(s) = 0 THEN 0 ELSE RoundSqrt(HdrPvariance(s), HdrMax(s))),
     min |-> setDurationFromNanos(IF HdrMin(s) = Uint64Max THEN 0 ELSE HdrMin(s)),
     max |-> setDurationFromNanos(HdrMax(s)),
     percentiles |-> [i \in DOMAIN HdrPercentiles(s) |->
        [HdrPercentiles(s)[i] EXCEPT !.value = setDurationFromNanos(@)]]]

StreamingToProto(s) ==
    [domain |-> "RAW", count |-> s.count, mean |-> StreamingMean(s), min |-> R(s.min),
     max |-> R(s.max), pstdev |-> StreamingPvariance(s), percentiles |-> <<>>]
=============================================================================
