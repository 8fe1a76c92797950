---------------------------- MODULE AdaptiveLoad ----------------------------
(***************************************************************************)
(* An adaptive load session: AdaptiveLoadControllerImpl runs benchmarks on *)
(* a Nighthawk service, has the metrics of each evaluated against the      *)
(* thresholds of the session spec, and lets the exponential search step    *)
(* controller choose the next load, until the search converges; then it    *)
(* runs the testing stage.                                                 *)
(*                                                                         *)
(* A load is an integer, in 1/Scale of a request per second; a metric is a *)
(* fraction n/d; times are integers.  An optional field that is absent is  *)
(* Unset.                                                                  *)
(***************************************************************************)
EXTENDS Integers, Sequences, FiniteSets

CONSTANTS
    Specs,       \* session specs
    Scale, MaxRps,
    Outputs(_),  \* the answers the service may give at a number of requests per second
    MaxDelay     \* how much longer than its duration a benchmark may take

Unset == -1
NaN == -1

ASSUME AdaptiveAssumption ==
    /\ Scale \in Nat \ {0} /\ MaxRps \in Nat /\ MaxDelay \in Nat
    /\ \A s \in Specs : s.initial_value \in Int /\ s.initial_value # NaN
                        /\ s.exponential_factor \in Int
                        /\ {"initial_value", "exponential_factor"} \subseteq DOMAIN s

VARIABLES
    spec, stage,           \* "new", "adjusting", "testing", "done"
    status,                \* of the finished session
    exit,                  \* how the client's main ended: "none", "0", "1" or "threw"
    elapsed,               \* since the adjusting stage began
    is_range_finding_phase_, previous_load_value_, current_load_value_,
    bottom_load_value_, top_load_value_, doomed,
    tested,                \* the load of the testing stage, Unset without one
    within, outside        \* (history) loads measured within, and outside of, the thresholds

controller == <<is_range_finding_phase_, previous_load_value_, current_load_value_,
                bottom_load_value_, top_load_value_, doomed>>
adaptiveVars == <<spec, stage, status, exit, elapsed, controller, tested, within, outside>>

(***************************************************************************)
(* AdaptiveLoadSessionSpecProtoHelperImpl.                                 *)
(***************************************************************************)
Default(value, default) == IF value = Unset THEN default ELSE value
builtin == "nighthawk.builtin"
WithPlugin(m) == [m EXCEPT !.plugin = IF @ = "" THEN builtin ELSE @]

\* Times in units of ten seconds.
SetSessionSpecDefaults(s) ==
    [s EXCEPT
        !.open_loop = Default(@, 1),
        !.measuring_period = Default(@, 1),
        !.convergence_deadline = Default(@, 30),
        !.testing_stage_duration = Default(@, 3),
        !.thresholds = [i \in DOMAIN @ |-> [WithPlugin(@[i]) EXCEPT !.weight = Default(@, 1)]],
        !.informational = [i \in DOMAIN @ |-> WithPlugin(@[i])]]

BuiltinMetrics ==
    {"achieved-rps", "attempted-rps", "send-rate", "success-rate", "latency-ns-min",
     "latency-ns-mean", "latency-ns-max", "latency-ns-mean-plus-1stdev",
     "latency-ns-mean-plus-2stdev", "latency-ns-mean-plus-3stdev", "latency-ns-pstdev"}

Elements(seq) == {seq[i] : i \in DOMAIN seq}

\* What LoadMetricsPlugin, LoadStepControllerPlugin, LoadInputVariableSetterPlugin and
\* LoadScoringFunctionPlugin accept: a known factory and a config it validates.
Loads(config) == config.registered /\ config.valid

\* CheckSessionSpec: every plugin loads and every metric is one its plugin supports.
CheckSessionSpec(s) ==
    /\ ~s.has_duration
    /\ s.validates
    /\ \A p \in s.plugins : Loads(p)
    /\ Loads(s.step_controller) /\ (s.setter # {} => \A v \in s.setter : Loads(v))
    /\ \A m \in Elements(s.thresholds) : Loads(m.scoring)
    /\ \A m \in Elements(s.thresholds) \union Elements(s.informational) :
           \/ m.plugin = builtin /\ m.metric \in BuiltinMetrics
           \/ \E p \in s.plugins : p.name = m.plugin /\ m.metric \in p.metrics

(***************************************************************************)
(* NighthawkStatsEmulatedMetricsPlugin: metrics out of the global result.  *)
(***************************************************************************)
Fraction(n, d) == [n |-> n, d |-> d]

NumberOfWorkers(out) == IF Len(out.results) = 1 THEN 1 ELSE Len(out.results) - 1
TotalSpecified(out) == out.rps * out.duration * NumberOfWorkers(out)

\* ExtractCounters and ExtractStatistics note an error for each of these.
ExtractionFails(out) ==
    \/ ~out.global
    \/ out.upstream_rq_total = Unset \/ out.http_2xx = Unset
    \/ out.duration = 0
    \/ ~out.statistic

Metric(out, name) ==
    CASE name = "attempted-rps" -> Fraction(TotalSpecified(out), out.duration)
      [] name = "achieved-rps"  -> Fraction(out.upstream_rq_total, out.duration)
      [] name = "send-rate"     -> IF TotalSpecified(out) > 0
                                   THEN Fraction(out.upstream_rq_total, TotalSpecified(out))
                                   ELSE Fraction(0, 1)
      [] name = "success-rate"  -> IF out.upstream_rq_total > 0
                                   THEN Fraction(out.http_2xx, out.upstream_rq_total)
                                   ELSE Fraction(0, 1)
      [] name = "latency-ns-min" -> Fraction(out.min, 1)
      [] name = "latency-ns-mean" -> Fraction(out.mean, 1)
      [] name = "latency-ns-max" -> Fraction(out.max, 1)
      [] name = "latency-ns-mean-plus-1stdev" -> Fraction(out.mean + out.pstdev, 1)
      [] name = "latency-ns-mean-plus-2stdev" -> Fraction(out.mean + 2 * out.pstdev, 1)
      [] name = "latency-ns-mean-plus-3stdev" -> Fraction(out.mean + 3 * out.pstdev, 1)
      [] name = "latency-ns-pstdev" -> Fraction(out.pstdev, 1)

(***************************************************************************)
(* MetricsEvaluatorImpl and the scoring functions.                         *)
(***************************************************************************)
\* GetReportingPeriod: the time when all workers were active must not be empty.
AllWorkersActive(out) ==
    /\ out.results # <<>>
    /\ \A r, q \in Elements(out.results) : r.start < q.start + q.duration

\* GetMetric falls back to the metric without period; only a custom plugin can fail here.
MetricFails(out, m) == IF m.plugin = builtin THEN ExtractionFails(out) ELSE out.custom = Unset
MetricValue(out, m) == IF m.plugin = builtin THEN Metric(out, m.metric) ELSE Fraction(out.custom, 1)

\* BinaryScoringFunction::EvaluateMetric, and a number of the sign that
\* LinearScoringFunction's has.  Thresholds are in hundredths.
Scores(f, value) ==
    IF f.kind = "binary"
    THEN IF /\ f.upper # Unset => 100 * value.n <= f.upper * value.d
            /\ f.lower # Unset => 100 * value.n >= f.lower * value.d
         THEN 1 ELSE -1
    ELSE f.scaling_constant * (f.threshold * value.d - 100 * value.n)

\* AnalyzeNighthawkBenchmark succeeds.
Analyzable(s, out) ==
    /\ ~out.error_detail
    /\ AllWorkersActive(out)
    /\ \A m \in Elements(s.thresholds) \union Elements(s.informational) : ~MetricFails(out, m)

\* TotalScore: no metric with a weight is outside of its threshold.
TotalScoreOk(s, out) ==
    \A m \in Elements(s.thresholds) : m.weight > 0 => Scores(m.scoring, MetricValue(out, m)) >= 0

(***************************************************************************)
(* ExponentialSearchStepController.                                        *)
(***************************************************************************)
\* SetInputVariable refuses what requests_per_second cannot hold, and truncates.
InRange(load) == load >= 0 /\ load <= MaxRps * Scale
RequestsPerSecond(load) == load \div Scale

AdaptiveInit ==
    /\ spec \in Specs
    /\ stage = "new"
    /\ status = "none"
    /\ exit = "none"
    /\ elapsed = 0
    /\ is_range_finding_phase_ = TRUE
    /\ previous_load_value_ = NaN
    /\ current_load_value_ = spec.initial_value
    /\ bottom_load_value_ = NaN /\ top_load_value_ = NaN
    /\ doomed = FALSE
    /\ tested = Unset
    /\ within = {} /\ outside = {}

exponential_factor_ == IF spec.exponential_factor > 0 THEN spec.exponential_factor ELSE 2

IterateRangeFindingPhase(ok) ==
    \/ /\ ok
       /\ previous_load_value_' = current_load_value_
       /\ current_load_value_' = current_load_value_ * exponential_factor_
       /\ UNCHANGED <<is_range_finding_phase_, bottom_load_value_, top_load_value_, doomed>>
    \/ /\ ~ok /\ previous_load_value_ = NaN
       /\ doomed' = TRUE
       /\ UNCHANGED <<is_range_finding_phase_, previous_load_value_, current_load_value_,
                      bottom_load_value_, top_load_value_>>
    \/ /\ ~ok /\ previous_load_value_ # NaN
       /\ is_range_finding_phase_' = FALSE
       /\ bottom_load_value_' = previous_load_value_
       /\ top_load_value_' = current_load_value_
       /\ previous_load_value_' = current_load_value_
       /\ current_load_value_' = (bottom_load_value_' + top_load_value_') \div 2
       /\ UNCHANGED doomed

\* Mutation: the bound takes the load that is tried next.
IterateBinarySearchPhase_MovesFirst(ok) ==
    /\ previous_load_value_' = current_load_value_
    /\ current_load_value_' = (bottom_load_value_ + top_load_value_) \div 2
    /\ bottom_load_value_' = IF ok THEN (bottom_load_value_ + current_load_value_) \div 2
                             ELSE bottom_load_value_
    /\ top_load_value_' = IF ok THEN top_load_value_ ELSE current_load_value_
    /\ UNCHANGED <<is_range_finding_phase_, doomed>>

IterateBinarySearchPhase(ok) ==
    /\ bottom_load_value_' = IF ok THEN current_load_value_ ELSE bottom_load_value_
    /\ top_load_value_' = IF ok THEN top_load_value_ ELSE current_load_value_
    /\ previous_load_value_' = current_load_value_
    /\ current_load_value_' = (bottom_load_value_' + top_load_value_') \div 2
    /\ UNCHANGED <<is_range_finding_phase_, doomed>>

UpdateAndRecompute(ok) ==
    \/ is_range_finding_phase_ /\ IterateRangeFindingPhase(ok)
    \/ ~is_range_finding_phase_ /\ IterateBinarySearchPhase(ok)

Distance(a, b) == IF a < b THEN b - a ELSE a - b

\* Mutation: the phase is not looked at.
IsConverged_AnyPhase(phase, current, previous, is_doomed) ==
    ~is_doomed /\ previous > 0 /\ 100 * Distance(current, previous) < previous

\* |current / previous - 1| < 0.01; 0 / 0 is not a number, and compares as false.
IsConverged(phase, current, previous, is_doomed) ==
    ~is_doomed /\ ~phase /\ previous > 0 /\ 100 * Distance(current, previous) < previous

(***************************************************************************)
(* AdaptiveLoadControllerImpl.                                             *)
(***************************************************************************)
Finish(s) ==
    /\ stage' = "done"
    /\ status' = s

CheckSpec ==
    /\ stage = "new"
    /\ spec' = SetSessionSpecDefaults(spec)
    /\ \/ CheckSessionSpec(spec') /\ stage' = "adjusting" /\ UNCHANGED status
       \/ ~CheckSessionSpec(spec') /\ Finish("invalid_argument")
    /\ UNCHANGED <<exit, elapsed, controller, tested, within, outside>>

\* PerformAndAnalyzeNighthawkBenchmark ends without a result: the load cannot be set, the
\* service fails, or what it answers cannot be analysed.
BenchmarkFails ==
    /\ stage \in {"adjusting", "testing"}
    /\ \/ ~InRange(current_load_value_) /\ Finish("internal")
       \/ InRange(current_load_value_) /\ Finish("unavailable")
       \/ /\ InRange(current_load_value_)
          /\ \E out \in Outputs(RequestsPerSecond(current_load_value_)) : ~Analyzable(spec, out)
          /\ Finish("unscored")
    /\ UNCHANGED <<spec, exit, elapsed, controller, tested, within, outside>>

\* It ends with a result, which the step controller gets.
Benchmark(ok) ==
    /\ InRange(current_load_value_)
    /\ \E out \in Outputs(RequestsPerSecond(current_load_value_)) :
           Analyzable(spec, out) /\ (ok <=> TotalScoreOk(spec, out))
    /\ UpdateAndRecompute(ok)
    /\ within' = IF ok THEN within \union {current_load_value_} ELSE within
    /\ outside' = IF ok THEN outside ELSE outside \union {current_load_value_}

\* Mutation: the deadline is counted from the last benchmark.
Adjust_DeadlinePerRound(ok, delay) ==
    /\ stage = "adjusting"
    /\ Benchmark(ok)
    /\ elapsed' = spec.measuring_period + delay + Default(spec.benchmark_cooldown_duration, 0)
    /\ IF elapsed' > spec.convergence_deadline THEN Finish("deadline_exceeded")
       ELSE IF doomed' THEN Finish("aborted")
       ELSE IF IsConverged(is_range_finding_phase_', current_load_value_', previous_load_value_', doomed')
       THEN stage' = "testing" /\ UNCHANGED status
       ELSE UNCHANGED <<stage, status>>
    /\ UNCHANGED <<spec, exit, tested>>

\* One round of the adjusting stage: benchmark, cool down, then look at the deadline before
\* anything else.
Adjust(ok, delay) ==
    /\ stage = "adjusting"
    /\ Benchmark(ok)
    /\ elapsed' = elapsed + spec.measuring_period + delay
                  + Default(spec.benchmark_cooldown_duration, 0)
    /\ IF elapsed' > spec.convergence_deadline THEN Finish("deadline_exceeded")
       ELSE IF doomed' THEN Finish("aborted")
       ELSE IF IsConverged(is_range_finding_phase_', current_load_value_', previous_load_value_', doomed')
       THEN stage' = "testing" /\ UNCHANGED status
       ELSE UNCHANGED <<stage, status>>
    /\ UNCHANGED <<spec, exit, tested>>

\* The testing stage goes through the same function, so the controller moves on as well.
Test(ok) ==
    /\ stage = "testing"
    /\ Benchmark(ok)
    /\ tested' = current_load_value_
    /\ Finish("ok")
    /\ UNCHANGED <<spec, exit, elapsed>>

\* AdaptiveLoadClientMain::Run: a spec file that cannot be read or parsed, or an output
\* file that cannot be opened, written or closed, throws; a failed session writes nothing.
ReadSpecFails ==
    /\ stage = "new"
    /\ Finish("none") /\ exit' = "threw"
    /\ UNCHANGED <<spec, elapsed, controller, tested, within, outside>>

WriteFileOrThrow == {"0", "threw"}

Exits ==
    /\ stage = "done" /\ exit = "none"
    /\ exit' \in IF status = "ok" THEN WriteFileOrThrow ELSE {"1"}
    /\ UNCHANGED <<spec, stage, status, elapsed, controller, tested, within, outside>>

AdaptiveNext ==
    \/ ReadSpecFails \/ CheckSpec \/ Exits
    \/ BenchmarkFails
    \/ \E ok \in BOOLEAN : (\E delay \in 0..MaxDelay : Adjust(ok, delay)) \/ Test(ok)

AdaptiveSpec == AdaptiveInit /\ [][AdaptiveNext]_adaptiveVars

\* The controller is one thread that does not wait for anything but its benchmarks, and
\* those have a duration.
FairAdaptiveSpec == AdaptiveSpec /\ WF_adaptiveVars(AdaptiveNext)

(***************************************************************************)
(* Properties.                                                             *)
(***************************************************************************)
\* The code computes with doubles; loads of the model stand for them as long as their unit is
\* less than half a percent of the first load, fine enough to see convergence to one percent.
FineGrained == spec.initial_value > 200

\* In the binary search the range is never lost: its bottom is a load that was measured and
\* found within the thresholds, its top one that was found outside, and the load tried next
\* lies between (IterateRangeFindingPhase, IterateBinarySearchPhase).
SearchBracketsThreshold ==
    ~is_range_finding_phase_ /\ FineGrained /\ exponential_factor_ > 1 =>
        /\ bottom_load_value_ \in within
        /\ top_load_value_ \in outside
        /\ bottom_load_value_ <= current_load_value_
        /\ current_load_value_ < top_load_value_

\* The load of the testing stage is within 1% of one that was measured, in a session that
\* met a load too high and stayed within its deadline (IsConverged, PerformAdaptiveLoadSession).
TestingStageIsEarned ==
    stage = "testing" \/ status = "ok" =>
        /\ ~(elapsed > spec.convergence_deadline)
        /\ outside # {}
        /\ \E load \in within \union outside :
               100 * Distance(IF stage = "testing" THEN current_load_value_ ELSE tested, load) < load

\* A session ends, with its output or with an error: the deadline ends a search that cannot
\* converge, as with a factor of one (adaptive_load_controller_impl.cc:220).
SessionEnds == <>(exit # "none")
=============================================================================
