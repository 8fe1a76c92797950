--------------------------- MODULE MCAdaptiveLoad ---------------------------
(* Instances of AdaptiveLoad for TLC.                                       *)
EXTENDS AdaptiveLoad

Ok == [registered |-> TRUE, valid |-> TRUE]
Binary(lower, upper) ==
    [kind |-> "binary", lower |-> lower, upper |-> upper, registered |-> TRUE, valid |-> TRUE]
Linear(threshold) ==
    [kind |-> "linear", threshold |-> threshold, scaling_constant |-> 1, registered |-> TRUE,
     valid |-> TRUE]

\* Send rate and latency decide, the success rate has no weight, a custom metric informs.
Session ==
    [ open_loop |-> Unset, has_duration |-> FALSE, validates |-> TRUE,
      measuring_period |-> Unset, convergence_deadline |-> 13, testing_stage_duration |-> Unset,
      benchmark_cooldown_duration |-> Unset,
      initial_value |-> 256, exponential_factor |-> 0,
      step_controller |-> Ok, setter |-> {},
      plugins |-> {[name |-> "custom", metrics |-> {"custom-metric"}, registered |-> TRUE, valid |-> TRUE]},
      thresholds |->
        << [plugin |-> "", metric |-> "send-rate", weight |-> Unset, scoring |-> Binary(95, Unset)],
           [plugin |-> "", metric |-> "latency-ns-mean-plus-2stdev", weight |-> 2, scoring |-> Linear(900)],
           [plugin |-> "", metric |-> "success-rate", weight |-> 0, scoring |-> Binary(100, 100)] >>,
      informational |-> << [plugin |-> "custom", metric |-> "custom-metric"],
                           [plugin |-> "", metric |-> "latency-ns-max"] >> ]

\* The search as usual; cooling down; loads that cannot grow; loads that cannot be set; specs
\* that are refused.
MCSpecs ==
    { Session,
      [Session EXCEPT !.exponential_factor = 4, !.benchmark_cooldown_duration = 1,
                      !.convergence_deadline = 24],
      [Session EXCEPT !.initial_value = 0, !.convergence_deadline = Unset],
      [Session EXCEPT !.exponential_factor = 1],
      [Session EXCEPT !.initial_value = -256],
      [Session EXCEPT !.has_duration = TRUE],
      [Session EXCEPT !.plugins = {}],
      [Session EXCEPT !.setter = {[registered |-> FALSE, valid |-> TRUE]}] }

Response(rps) ==
    [ error_detail |-> FALSE,
      results |-> << [start |-> 0, duration |-> 4], [start |-> 1, duration |-> 4], [start |-> 1, duration |-> 4] >>,
      global |-> TRUE, duration |-> 4, rps |-> rps, upstream_rq_total |-> 8 * rps, http_2xx |-> 8 * rps,
      statistic |-> TRUE, min |-> 1, mean |-> 3, max |-> 8, pstdev |-> 2, custom |-> 1 ]

\* Within all thresholds; only the success rate outside; each of the others outside;
\* answers that cannot be analysed.
MCOutputs(rps) ==
    { Response(rps),
      [Response(rps) EXCEPT !.http_2xx = @ \div 2],
      [Response(rps) EXCEPT !.upstream_rq_total = @ \div 2, !.http_2xx = @ \div 2],
      [Response(rps) EXCEPT !.pstdev = 4],
      [Response(rps) EXCEPT !.error_detail = TRUE],
      [Response(rps) EXCEPT !.results = << [start |-> 0, duration |-> 1], [start |-> 1, duration |-> 1] >>],
      [Response(rps) EXCEPT !.http_2xx = Unset],
      [Response(rps) EXCEPT !.duration = 0],
      [Response(rps) EXCEPT !.custom = Unset] }
=============================================================================
