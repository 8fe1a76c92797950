------------------------------- MODULE Report -------------------------------
(***************************************************************************)
(* From a command line to the printed report.  Main::run parses the        *)
(* options, runs them in this process or sends them to a remote service,   *)
(* and prints the output; the process creates its bootstrap and workers,   *)
(* and collects the statistics and plugin outputs of the workers into      *)
(* results.  How workers execute, and how all this is cancelled, is the    *)
(* business of Process; how the service serialises runs, of                *)
(* ExecutionService.                                                       *)
(***************************************************************************)
EXTENDS Bootstrap, Statistics

CONSTANTS
    CommandLines,   \* what a user may type
    Outcomes,       \* what a worker may measure
    Cpus            \* of the machine

VARIABLES
    pc,
    argv,
    options,        \* what the client parsed
    executed,       \* the options of the process that runs
    bootstrap,
    encap,
    workers,        \* the outcome of each worker
    output,
    format,         \* of what is printed
    printed,        \* <<>> or what the formatter wrote
    result          \* of Main::run

vars ==
    <<pc, argv, options, executed, bootstrap, encap, workers, output, format, printed, result>>

Nothing == <<>>
Remote == options.nighthawk_service # <<>>

Init ==
    /\ pc = "parse"
    /\ argv \in CommandLines
    /\ options = Nothing /\ executed = Nothing
    /\ bootstrap = Nothing /\ encap = Nothing
    /\ workers = <<>>
    /\ output = Nothing
    /\ format = "" /\ printed = <<>>
    /\ result = FALSE

(***************************************************************************)
(* The client                                                              *)
(***************************************************************************)
\* A tunnel needs a free port for its listener: the constructor throws without one.
Parse ==
    /\ pc = "parse"
    /\ \/ /\ acceptsArgv(argv)
          /\ options' = fromArgv(argv)
          /\ pc' = "main"
       \/ /\ ~acceptsArgv(argv) \/ "tunnel_protocol" \in DOMAIN argv.flags
          /\ pc' = "done"
          /\ UNCHANGED options
    /\ UNCHANGED <<argv, executed, bootstrap, encap, workers, output, format, printed, result>>

\* The collector starts with the options and no results.
EmptyOutput(o) == [options |-> toCommandLineOptions(o), results |-> <<>>]

RunHere ==
    /\ pc = "main" /\ ~Remote
    /\ executed' = options
    /\ output' = EmptyOutput(options)
    /\ pc' = "create"
    /\ UNCHANGED <<argv, options, bootstrap, encap, workers, format, printed, result>>

Forwarded(o) == [toCommandLineOptions(o) EXCEPT !.nighthawk_service = <<>>]

NoOptions == [f \in {} |-> 0]

\* A service that refuses the options answers with an empty output: the remote run succeeds.
RunThere ==
    /\ pc = "main" /\ Remote
    /\ IF ~isValid(UriImpl(options.nighthawk_service[1], "http"))
       THEN pc' = "done" /\ UNCHANGED <<executed, output, result>>
       ELSE IF acceptsProto(Forwarded(options))
       THEN /\ executed' = fromProto(Forwarded(options))
            /\ output' = EmptyOutput(executed')
            /\ pc' = "create"
            /\ UNCHANGED result
       ELSE /\ output' = [options |-> NoOptions, results |-> <<>>]
            /\ result' = TRUE
            /\ pc' = "format"
            /\ UNCHANGED executed
    /\ UNCHANGED <<argv, options, bootstrap, encap, workers, format, printed>>

(***************************************************************************)
(* The process                                                             *)
(***************************************************************************)
determineConcurrency(o) == IF o.concurrency = <<>> THEN Cpus ELSE o.concurrency[1]

\* Without a process the client prints nothing; a service answers with an empty output.
CreateProcessImpl ==
    /\ pc = "create"
    /\ IF extractAndResolveUrisFromOptions(executed)
       THEN /\ bootstrap' = createBootstrapConfiguration(executed, determineConcurrency(executed))
            /\ pc' = "run"
            /\ UNCHANGED <<output, result>>
       ELSE /\ output' = [options |-> NoOptions, results |-> <<>>]
            /\ result' = Remote
            /\ pc' = IF Remote THEN "format" ELSE "done"
            /\ UNCHANGED bootstrap
    /\ UNCHANGED <<argv, options, executed, encap, workers, format, printed>>

Reachable(uri, o) == isValid(UriImpl(uri, "http")) /\ resolve(UriImpl(uri, "http"), o.address_family)

\* createUserDefinedOutputPlugins, with the validateConfig of the plugin that logs headers.
PluginsCreated(o) ==
    \A i \in DOMAIN o.user_defined_plugin_configs : o.user_defined_plugin_configs[i].valid

\* run() fails without results: tracing, plugins, and whatever Envoy refuses to set up.
RunFails ==
    /\ pc = "run"
    /\ result' = Remote
    /\ pc' = "format"
    /\ UNCHANGED <<argv, options, executed, bootstrap, encap, workers, output, format, printed>>

\* A tunnel that does not resolve throws out of Main::run.
TunnelThrows ==
    /\ pc = "run"
    /\ Tunnelling(executed) /\ ~Reachable(executed.tunnel_uri[1], executed)
    /\ pc' = "done"
    /\ UNCHANGED <<argv, options, executed, bootstrap, encap, workers, output, format, printed, result>>

RunInternal ==
    /\ pc = "run"
    /\ \A i \in DOMAIN executed.trace : Reachable(executed.trace[i], executed)
    /\ \A i \in DOMAIN executed.tunnel_uri : Reachable(executed.tunnel_uri[i], executed)
    /\ PluginsCreated(executed)
    /\ encap' = IF Tunnelling(executed) THEN createEncapBootstrap(executed) ELSE Nothing
    /\ workers' \in [1..determineConcurrency(executed) -> Outcomes]
    /\ pc' = "collect"
    /\ UNCHANGED <<argv, options, executed, bootstrap, output, format, printed, result>>

(***************************************************************************)
(* Statistics of a worker, and of all of them.                             *)
(***************************************************************************)
WorkerStatistics(w) ==
    [request_to_response |-> FoldLeft(HdrAdd, HdrStatistic, workers[w].latencies),
     response_body_size |-> FoldLeft(StreamingAdd, StreamingStatistic, workers[w].sizes)]

FreshStatistics ==
    [request_to_response |-> HdrStatistic, response_body_size |-> StreamingStatistic]

CombineStatistics(a, b) ==
    [request_to_response |-> HdrCombine(a.request_to_response, b.request_to_response),
     response_body_size |-> StreamingCombine(a.response_body_size, b.response_body_size)]

vectorizeStatisticPtrMap(w) == CombineStatistics(FreshStatistics, WorkerStatistics(w))

mergeWorkerStatistics ==
    FoldLeft(LAMBDA merged, w : CombineStatistics(merged, WorkerStatistics(w)),
             FreshStatistics, [w \in DOMAIN workers |-> w])

(***************************************************************************)
(* User defined outputs: one per plugin of a worker; globally, one per     *)
(* configured plugin, made of all outputs under its name.                  *)
(***************************************************************************)
getUserDefinedOutputResults(w) ==
    [i \in DOMAIN executed.user_defined_plugin_configs |->
        [plugin_name |-> executed.user_defined_plugin_configs[i].name, worker |-> w,
         error |-> workers[w].plugin_fails]]

collectUserDefinedOutputs ==
    FlattenSeq([w \in DOMAIN workers |-> getUserDefinedOutputResults(w)])

compileGlobalUserDefinedPluginOutputs ==
    [i \in DOMAIN executed.user_defined_plugin_configs |->
        LET name == executed.user_defined_plugin_configs[i].name
        IN  [plugin_name |-> name,
             inputs |-> SelectSeq(collectUserDefinedOutputs, LAMBDA u : u.plugin_name = name)]]

(***************************************************************************)
(* OutputCollectorImpl                                                     *)
(***************************************************************************)
addResult(name, statistics, duration, start, outputs) ==
    [name |-> name, execution_duration |-> duration, execution_start |-> start,
     user_defined_outputs |-> outputs,
     statistics |-> [request_to_response |-> HdrToProto(statistics.request_to_response),
                     response_body_size |-> StreamingToProto(statistics.response_body_size)]]

WorkerResult(w) ==
    addResult(<<"worker", w>>, vectorizeStatisticPtrMap(w), workers[w].duration,
              workers[w].start, getUserDefinedOutputResults(w))

Starts == {workers[w].start[1] : w \in {v \in DOMAIN workers : workers[v].start # <<>>}}
GlobalResult ==
    addResult(<<"global">>, mergeWorkerStatistics,
              MapThenSumSet(LAMBDA w : workers[w].duration, DOMAIN workers) \div Len(workers),
              IF Starts = {} THEN <<>> ELSE <<Min(Starts)>>,
              compileGlobalUserDefinedPluginOutputs)

WorkerResults == IF Len(workers) > 1 THEN [w \in DOMAIN workers |-> WorkerResult(w)] ELSE <<>>

\* The run failed if a failure predicate stopped a worker; a remote run is not told.
Collect ==
    /\ pc = "collect"
    /\ output' = [output EXCEPT !.results = WorkerResults \o <<GlobalResult>>]
    /\ result' = (Remote \/ \A w \in DOMAIN workers : ~workers[w].failed)
    /\ pc' = "format"
    /\ UNCHANGED <<argv, options, executed, bootstrap, encap, workers, format, printed>>

(***************************************************************************)
(* The formatters.  A line of a report is a value of a statistic of a      *)
(* result.  Durations are cut to microseconds.                             *)
(***************************************************************************)
DurationToMicroseconds(d) == (d.seconds * Kilo * Kilo * Kilo + d.nanos) \div Kilo

\* Mutation: the milliseconds include the seconds.
formatProtoDuration_Unreduced(us) ==
    <<(us % (Kilo * Kilo * Kilo)) \div (Kilo * Kilo), us \div Kilo, us % Kilo>>

\* Seconds, milliseconds and microseconds; the seconds wrap.
formatProtoDuration(us) ==
    <<(us % (Kilo * Kilo * Kilo)) \div (Kilo * Kilo), (us % (Kilo * Kilo)) \div Kilo, us % Kilo>>
ReadBack(text) == text[1] * Kilo * Kilo + text[2] * Kilo + text[3]

\* The first percentile at or above each wanted one, each at most once.
iteratePercentiles(percentiles) ==
    FoldLeft(LAMBDA picked, p :
                LET later == SelectSeq(percentiles, LAMBDA e :
                        e.percentile >= p /\
                        (picked = <<>> \/ picked[Len(picked)].percentile < e.percentile))
                IN  IF later = <<>> THEN picked ELSE Append(picked, later[1]),
             <<>>, <<0, 500, 750, 800, 900, 950, 990, 999, 1000>>)

\* A line that the formatter of a statistic writes, its durations as microseconds or spelled
\* out for a human.
Shown(us, human) == IF human THEN ReadBack(formatProtoDuration(us)) ELSE us
Value(s, v, human) ==
    IF s.domain = "RAW" THEN v ELSE R(Shown(DurationToMicroseconds(v), human))

Moments == {"min", "mean", "max", "pstdev"}
Lines(r, human) ==
    LET Line(id, attribute, p, value) ==
            [name |-> r.name, id |-> id, attribute |-> attribute, percentile |-> p, value |-> value]
        OfStatistic(id, s) ==
            {Line(id, "count", 0, R(s.count))} \cup
            {Line(id, a, 0, Value(s, s[a], human)) : a \in Moments} \cup
            {Line(id, "sum", 0, Times(Value(s, s.mean, human), R(s.count)))} \cup
            UNION {{Line(id, "percentile", e.percentile, Value(s, e.value, human)),
                    Line(id, "below", e.percentile, R(e.count))}
                   : e \in ToSet(iteratePercentiles(s.percentiles))}
    IN  UNION {OfStatistic(id, r.statistics[id]) : id \in DOMAIN r.statistics}

\* Console and CSV: only the global result, statistics with samples, and inner percentiles.
ConsoleLines ==
    UNION {{l \in Lines(r, TRUE) :
               /\ r.statistics[l.id].count > 0
               /\ l.attribute # "sum"
               /\ l.attribute \in {"percentile", "below"} => l.percentile \in 1..999}
           : r \in {s \in ToSet(output.results) : s.name = <<"global">>}}

\* The others print all results: dotted without the sums, Prometheus without the counts below
\* a percentile.
AllLines == UNION {Lines(r, FALSE) : r \in ToSet(output.results)}
DottedLines == {l \in AllLines : l.attribute # "sum"}
PrometheusLines == {l \in AllLines : l.attribute # "below"}

renderFortioDurationHistogram(s) ==
    LET p == s.percentiles
    IN  [count |-> s.count,
         data |-> [i \in DOMAIN p |->
                     [percent |-> p[i].percentile, end |-> p[i].value,
                      start |-> p[IF i = 1 THEN 1 ELSE i - 1].value,
                      count |-> p[i].count - (IF i = 1 THEN 0 ELSE p[i - 1].count)]],
         percentiles |-> SelectSeq(iteratePercentiles(p),
                                   LAMBDA e : e.percentile > 0 /\ e.percentile < 1000)]

\* Mutation: the global result counts as a worker.
number_of_workers_CountsGlobal == Len(output.results)
number_of_workers == IF Len(output.results) = 1 THEN 1 ELSE Len(output.results) - 1

\* Fails without a global result.
Fortio ==
    LET globals == SelectSeq(output.results, LAMBDA r : r.name = <<"global">>)
    IN  IF globals = <<>> THEN <<>>
        ELSE <<[requestedqps |-> number_of_workers * output.options.requests_per_second,
                numthreads |-> number_of_workers * output.options.connections,
                actualduration |-> output.results[Len(output.results)].execution_duration,
                durationhistogram |->
                    renderFortioDurationHistogram(globals[1].statistics.request_to_response),
                sizes |->
                    renderFortioDurationHistogram(globals[1].statistics.response_body_size)]>>

Formats ==
    {"human", "csv", "dotted", "prometheus", "fortio", "experimental_fortio_pedantic", "json", "yaml"}
formatProto(f) ==
    CASE f \in {"human", "csv"} -> <<ConsoleLines>>
      [] f = "dotted" -> <<DottedLines>>
      [] f = "prometheus" -> <<PrometheusLines>>
      [] f \in {"fortio", "experimental_fortio_pedantic"} -> Fortio
      [] OTHER -> <<output>>

Format ==
    /\ pc = "format"
    /\ format' = options.output_format
    /\ printed' = formatProto(format')
    /\ result' = (result /\ printed' # <<>>)
    /\ pc' = "done"
    /\ UNCHANGED <<argv, options, executed, bootstrap, encap, workers, output>>

\* OutputTransformMain::run, on a report in JSON.
Transform(f) ==
    /\ pc = "done" /\ format = "json"
    /\ format' = f
    /\ printed' = formatProto(f)
    /\ UNCHANGED <<pc, argv, options, executed, bootstrap, encap, workers, output, result>>

Next ==
    \/ Parse \/ RunHere \/ RunThere \/ CreateProcessImpl
    \/ RunFails \/ TunnelThrows \/ RunInternal \/ Collect \/ Format
    \/ \E f \in Formats : Transform(f)

Spec == Init /\ [][Next]_vars

(***************************************************************************)
(* Properties                                                              *)
(***************************************************************************)
\* What the program reads of the options; the request fields only without a request source.
Effective(o) ==
    [bootstrap |-> createBootstrapConfiguration(o, determineConcurrency(o)),
     encap |-> IF Tunnelling(o) THEN <<createEncapBootstrap(o)>> ELSE <<>>,
     duration |-> IF o.no_duration THEN <<>> ELSE <<o.duration>>,
     request |-> IF o.request_source # <<>> \/ o.request_source_plugin_config # <<>>
                 THEN <<o.request_source, o.request_source_plugin_config>>
                 ELSE <<o.request_method, o.request_headers, o.request_body_size>>,
     plain |-> [f \in (Plain \cup Optional \cup {"jitter_uniform"}) \ {"nighthawk_service"}
                |-> o[f]]]

\* The options of a command line that toCommandLineOptions does not carry over.
LosesTunnel(o) == Tunnelling(o)
LosesBody(o) == o.request_headers = <<>> /\ o.request_body_size > 0
LosesHeaders(o) ==
    o.request_headers # <<>> /\ (o.request_source # <<>> \/ o.request_source_plugin_config # <<>>)

\* A run sent to a service runs there as it would have run here: what the command line accepts
\* the constructor from a proto accepts (options_impl.cc:833), and every option the process reads
\* has the same value, unless it is one of the three kinds toCommandLineOptions leaves behind.
RemoteRunIsEquivalent ==
    pc \notin {"parse", "main"} /\ options # Nothing /\ Remote
    /\ isValid(UriImpl(options.nighthawk_service[1], "http"))
    /\ ~LosesTunnel(options) /\ ~LosesBody(options) /\ ~LosesHeaders(options)
    => executed # Nothing /\ Effective(executed) = Effective(options)

\* toCommandLineOptions "converts an Options instance to an equivalent CommandLineOptions
\* instance in terms of option values" (include/nighthawk/client/options.h:113): here for the
\* request that a run without tunnel and request source sends.
RemoteRequestIsTheSame ==
    executed # Nothing /\ executed.request_source = <<>>
    /\ executed.request_source_plugin_config = <<>>
    => executed.request_body_size = options.request_body_size

\* Where a connection of a worker ends: behind the encapsulating Envoy if it goes there.
Reached(endpoint) ==
    IF encap # Nothing /\ endpoint = encap.listener THEN encap.cluster ELSE <<endpoint>>

\* The traffic of every worker reaches what the options name, and nothing else: the targets, or
\* the tunnel, over a listener of the kind its protocol needs (createNighthawkClusterForWorker,
\* createEncapBootstrap).
TrafficReachesItsTarget ==
    workers # <<>> =>
        /\ DOMAIN bootstrap.clusters = DOMAIN workers
        /\ \A w \in DOMAIN workers :
              FlattenSeq(Map(bootstrap.clusters[w].endpoints, Reached))
                = IF Tunnelling(executed)
                  THEN <<Endpoint(UriImpl(executed.tunnel_uri[1], "http"))>>
                  ELSE Map(TargetUris(executed), Endpoint)
        /\ encap # Nothing =>
              /\ encap.udp <=> \E w \in DOMAIN workers : bootstrap.clusters[w].protocol = "http3"
              /\ encap.protocol = "http3" => encap.transport_socket # <<>>

\* The samples behind a result, in the order the workers are merged.
SamplesOf(name, field) ==
    FlattenSeq([w \in DOMAIN workers |->
        IF name \in {<<"global">>, <<"worker", w>>} THEN workers[w][field] ELSE <<>>])
Latencies(name) == SelectSeq(SamplesOf(name, "latencies"), LAMBDA v : v <= MaxLatency)
Reference(name, id) ==
    FoldLeft(SimpleAdd, SimpleStatistic,
             IF id = "request_to_response" THEN Latencies(name) ELSE SamplesOf(name, "sizes"))

Global == output.results[Len(output.results)]

\* The global result covers every worker once: its size statistic is the one plain sums over all
\* samples give, variance included as long as the first worker measured something, its start is
\* the earliest, and each plugin aggregates one output of every worker, in order
\* (mergeWorkerStatistics, StreamingStatistic::combine, compileGlobalUserDefinedPluginOutputs).
GlobalCoversEveryWorker ==
    workers # <<>> /\ output.results # <<>> =>
        LET s == Global.statistics.response_body_size
            r == Reference(<<"global">>, "response_body_size")
        IN  /\ Global.name = <<"global">>
            /\ s.count = r.count
            /\ Same(s.mean, SimpleMean(r))
            /\ workers[1].sizes # <<>> => Same(s.pstdev, SimplePvariance(r))
            /\ \A w \in DOMAIN workers : workers[w].start # <<>> =>
                  Global.execution_start[1] <= workers[w].start[1]
            /\ \A i \in DOMAIN Global.user_defined_outputs :
                  LET inputs == Global.user_defined_outputs[i].inputs
                      Once(j) == Cardinality({k \in DOMAIN inputs :
                                    inputs[k].worker = inputs[j].worker}) = 1
                  IN  (\A j \in DOMAIN Global.user_defined_outputs : j # i =>
                          Global.user_defined_outputs[j].plugin_name
                            # Global.user_defined_outputs[i].plugin_name)
                      => /\ {inputs[j].worker : j \in DOMAIN inputs} = DOMAIN workers
                         /\ \A j \in DOMAIN inputs : Once(j)

\* What the samples say a line of a report should read, durations in microseconds.  The first
\* worker that measured no size leaves a NaN as the deviation of all of them.
Measured(l) ==
    LET latency == l.id = "request_to_response"
        samples == Latencies(l.name)
        r == Reference(l.name, l.id)
        UpTo(v) == Len(SelectSeq(samples, LAMBDA w : w <= v))
        percentile == Min({v \in ToSet(samples) : UpTo(v) * 1000 >= l.percentile * Len(samples)})
        InMicroseconds(v) == R(IF r.count = 0 THEN 0 ELSE IF latency THEN v \div Kilo ELSE v)
    IN  CASE l.attribute = "count" -> R(r.count)
          [] l.attribute = "percentile" -> InMicroseconds(percentile)
          [] l.attribute = "below" -> R(IF r.count = 0 THEN 0 ELSE UpTo(percentile))
          [] l.attribute = "min" -> IF latency THEN InMicroseconds(r.min) ELSE R(r.min)
          [] l.attribute = "max" -> InMicroseconds(r.max)
          [] l.attribute = "mean" ->
                IF latency THEN InMicroseconds(Round(SimpleMean(r))) ELSE SimpleMean(r)
          [] l.attribute = "pstdev" ->
                IF latency THEN InMicroseconds(RoundSqrt(SimplePvariance(r), r.max))
                ELSE IF l.name = <<"global">> /\ workers[1].sizes = <<>> THEN NaN
                ELSE SimplePvariance(r)
          [] OTHER -> IF r.count = 0 /\ ~latency THEN NaN ELSE R(r.sum_x)

\* A sum of latencies is the mean as printed times the count: up to a microsecond off for
\* each sample.
ReadsAsMeasured(l) ==
    IF l.attribute = "sum" /\ l.id = "request_to_response"
    THEN LET r == Reference(l.name, l.id)
         IN  l.value[1] * Kilo - r.sum_x \in (-r.count * Kilo)..(r.count * Kilo)
    ELSE Same(l.value, Measured(l))

\* The lines that a report should have, as names, statistics and attributes.
Names ==
    {<<"global">>} \cup
    IF format \in {"dotted", "prometheus"} /\ Len(workers) > 1
    THEN {<<"worker", w>> : w \in DOMAIN workers} ELSE {}
Attributes(id) ==
    {"count"} \cup Moments
    \cup (IF id = "request_to_response" THEN {"percentile"} ELSE {})
    \cup (IF id = "request_to_response" /\ format # "prometheus" THEN {"below"} ELSE {})
    \cup (IF format = "prometheus" THEN {"sum"} ELSE {})
Wanted ==
    UNION {{<<name, id, a>> : a \in Attributes(id)} :
           <<name, id>> \in {q \in Names \X {"request_to_response", "response_body_size"} :
               format \in {"human", "csv"} => Reference(q[1], q[2]).count > 0}}

\* A report reads as the workers measured: every line of it is the value the raw samples give,
\* but for the NaN that a first worker without samples leaves as the deviation of the sizes,
\* and the lines are those of all statistics that have samples, in dotted and Prometheus of
\* every worker too.  The seconds of the console never wrap since the histograms stop at a
\* minute (formatProtoDuration, HdrStatistic, StreamingStatistic::combine, iteratePercentiles).
ReportReadsAsMeasured ==
    format \in {"human", "csv", "dotted", "prometheus"} =>
        /\ \A l \in printed[1] : ReadsAsMeasured(l)
        /\ {<<l.name, l.id, l.attribute>> : l \in printed[1]}
             = IF workers = <<>> THEN {} ELSE Wanted

\* The Fortio report describes the run that was made: the number of workers it infers from the
\* number of results is the real one, so its rate and connections are, and the buckets of its
\* histogram add up to the samples and leave no gaps (FortioOutputFormatterImpl::formatProto).
FortioDescribesTheRun ==
    format = "fortio" /\ workers # <<>> =>
        LET f == printed[1]
            data == f.durationhistogram.data
        IN  /\ f.requestedqps = Len(workers) * executed.requests_per_second
            /\ f.numthreads = Len(workers) * executed.connections
            /\ f.durationhistogram.count = Len(Latencies(<<"global">>))
            /\ MapThenSumSet(LAMBDA i : data[i].count, DOMAIN data) = f.durationhistogram.count
            /\ \A i \in 2..Len(data) : data[i].start = data[i - 1].end
=============================================================================
