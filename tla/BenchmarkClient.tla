-------------------------- MODULE BenchmarkClient --------------------------
(***************************************************************************)
(* BenchmarkClientHttpImpl (source/client/benchmark_client_impl.cc), the   *)
(* StreamDecoder it creates for each request (source/client/stream_decoder *)
(* .cc) and the phases in which its ClientWorkerImpl drives it             *)
(* (source/client/client_worker_impl.cc): a warm-up request whose latency  *)
(* is not measured, the measured phase, and terminate(), which drains the  *)
(* connection pool on the worker's dispatcher.                             *)
(*                                                                         *)
(* Everything runs on one worker thread, so each callback is one step.     *)
(* The connection pool is Envoy's and external.  It attaches a request to  *)
(* a connection at once or later (onPoolReady), fails it at once or later  *)
(* (onPoolFailure), and an attached stream ends exactly once, with a       *)
(* complete response or with a reset.                                      *)
(***************************************************************************)
EXTENDS Integers, FiniteSets

CONSTANTS
    Requests,         \* the requests of the run: a bound on how many are sent
    ActiveLimit,      \* connection_limit_ (HTTP/1) or max_active_requests_ (2 and 3)
    PendingLimit,     \* max_pending_requests_
    Codes             \* the status codes the server answers with

ASSUME ClientAssumption ==
    /\ ActiveLimit \in Nat \ {0}
    /\ PendingLimit \in Nat
    /\ IsFiniteSet(Requests)
    /\ Codes \subseteq Nat

VARIABLES
    provide_resource_backpressure, \* TRUE in closed-loop mode: fixed by the options
    phase,                     \* "warmup", "measure", "reported", "drain", "terminated"
    measure_latencies,         \* of the client
    requests_initiated,
    requests_completed,
    decoder,                   \* per request: the state of its StreamDecoder
    decoder_measures,          \* per request: the decoder's own measure_latencies_
    called_back,               \* per request: calls of caller_completion_callback_
    http,                      \* the http_1xx .. http_xxx counters
    stream_resets,
    pool_overflow,
    pool_connection_failure,
    latencies,                 \* values in response_statistic, per status class
    plugin_saw,                \* per request: the headers handleResponseHeaders() got
    drain_timer,               \* "off" or "armed"
    drain,                     \* "none", "posted", "started"
    exit_pending               \* dispatcher_.exit() was called

counterVars == <<http, stream_resets, pool_overflow, pool_connection_failure, latencies,
                plugin_saw>>
requestVars == <<requests_initiated, requests_completed, decoder, decoder_measures, called_back>>
drainVars == <<drain_timer, drain, exit_pending>>
vars == <<phase, measure_latencies, requestVars, counterVars,
          provide_resource_backpressure, drainVars>>

Classes == {"1xx", "2xx", "3xx", "4xx", "5xx", "xxx"}

\* The class under which a response is counted and its latency recorded.
StatusClass(code) ==
    CASE code > 99 /\ code <= 199 -> "1xx"
      [] code > 199 /\ code <= 299 -> "2xx"
      [] code > 299 /\ code <= 399 -> "3xx"
      [] code > 399 /\ code <= 499 -> "4xx"
      [] code > 499 /\ code <= 599 -> "5xx"
      [] OTHER -> "xxx"

InState(states) == {r \in Requests : decoder[r] \in states}
Pending == InState({"pending"})
Active == InState({"active", "headers"})
Live == Pending \cup Active
Fresh == InState({"none"})

-----------------------------------------------------------------------------
Init ==
    /\ provide_resource_backpressure \in BOOLEAN
    /\ phase = "warmup"
    /\ measure_latencies = FALSE
    /\ requests_initiated = 0
    /\ requests_completed = 0
    /\ decoder = [r \in Requests |-> "none"]
    /\ decoder_measures = [r \in Requests |-> FALSE]
    /\ called_back = [r \in Requests |-> 0]
    /\ http = [c \in Classes |-> 0]
    /\ stream_resets = 0
    /\ pool_overflow = 0
    /\ pool_connection_failure = 0
    /\ latencies = [c \in Classes |-> 0]
    /\ plugin_saw = [r \in Requests |-> "nothing"]
    /\ drain_timer = "off"
    /\ drain = "none"
    /\ exit_pending = FALSE

\* caller_completion_callback_: the sequencer's, or the warm-up's, which ends its loop.
CallBack(r) == called_back' = [called_back EXCEPT ![r] = @ + 1]

-----------------------------------------------------------------------------
(* Starting requests.                                                      *)

max_in_flight == PendingLimit + ActiveLimit

\* Mutation: one request too many.
Refuses_OffByOne == provide_resource_backpressure /\ requests_initiated - requests_completed > max_in_flight

\* The closed-loop test at the head of tryStartRequest(), on the two counters.
Refuses == provide_resource_backpressure /\ requests_initiated - requests_completed >= max_in_flight

\* newStream() of the pool: attach to a free connection, queue, or overflow.  Only an
\* overflow is reported before newStream() returns.  Connections have no identity here: which
\* free one is taken (the oldest, with LRU), and how many are opened ahead of need, does not
\* show.
newStream(r) ==
    \/ /\ Cardinality(Active) < ActiveLimit
       /\ decoder' = [decoder EXCEPT ![r] = "active"]
       /\ UNCHANGED <<called_back, pool_overflow>>
    \/ /\ Cardinality(Pending) < (IF PendingLimit = 0 THEN 1 ELSE PendingLimit)
       /\ decoder' = [decoder EXCEPT ![r] = "pending"]
       /\ UNCHANGED <<called_back, pool_overflow>>
    \/ /\ Cardinality(Pending) >= (IF PendingLimit = 0 THEN 1 ELSE PendingLimit)
       /\ decoder' = [decoder EXCEPT ![r] = "failed"]
       /\ pool_overflow' = pool_overflow + 1
       /\ CallBack(r)

\* tryStartRequest() goes through (without a pool, or without a request to send, it returns
\* false and changes nothing): a new StreamDecoder with its own copy of the flag.
StartRequest(r) ==
    /\ decoder[r] = "none"
    /\ ~Refuses
    /\ requests_initiated' = requests_initiated + 1
    /\ decoder_measures' = [decoder_measures EXCEPT ![r] = measure_latencies]
    /\ newStream(r)
    /\ UNCHANGED <<measure_latencies, requests_completed, http, stream_resets,
                   pool_connection_failure, latencies, plugin_saw,
                   provide_resource_backpressure,
                   drainVars>>

\* simpleWarmup(): one request, sent before latencies are measured.
Warmup ==
    /\ phase = "warmup"
    /\ Live = {}
    /\ requests_initiated = 0
    /\ \E r \in Requests : StartRequest(r)
    /\ UNCHANGED phase

\* The warm-up was skipped or its request has reported back: work() goes on to measure.
setShouldMeasureLatencies ==
    /\ phase = "warmup"
    /\ Live = {}
    /\ phase' = "measure"
    /\ measure_latencies' = TRUE
    /\ UNCHANGED <<requestVars, counterVars, provide_resource_backpressure, drainVars>>

\* The sequencer calls its target.
tryStartRequest ==
    /\ phase = "measure"
    /\ \E r \in Requests : StartRequest(r)
    /\ UNCHANGED phase

-----------------------------------------------------------------------------
(* Callbacks of the pool and of the codec.                                 *)

\* Events reach the worker only while it runs its dispatcher; after terminate() the
\* thread-local pool is destroyed, which fails or resets what is left.
DispatcherRuns == phase \in {"warmup", "measure", "drain"}

onPoolReady(r) ==
    /\ DispatcherRuns
    /\ r \in Pending
    /\ Cardinality(Active) < ActiveLimit
    /\ decoder' = [decoder EXCEPT ![r] = "active"]
    /\ UNCHANGED <<phase, measure_latencies, requests_initiated, requests_completed,
                   decoder_measures, called_back, counterVars,
                   provide_resource_backpressure, drainVars>>

\* The client counts why the pool failed; a timeout is not counted at all.
CountPoolFailure ==
    pool_connection_failure' \in {pool_connection_failure, pool_connection_failure + 1}

\* Mutation: the caller is not told.
onPoolFailure_Silent(r) ==
    /\ r \in Pending
    /\ decoder' = [decoder EXCEPT ![r] = "failed"]
    /\ CountPoolFailure
    /\ UNCHANGED <<phase, measure_latencies, requests_initiated, requests_completed,
                   decoder_measures, called_back, http, stream_resets, pool_overflow,
                   latencies, plugin_saw, provide_resource_backpressure, drainVars>>

\* The decoder fails without a response.  Note that requests_completed_ is not touched.
onPoolFailure(r) ==
    /\ r \in Pending
    /\ decoder' = [decoder EXCEPT ![r] = "failed"]
    /\ CountPoolFailure
    /\ CallBack(r)
    /\ UNCHANGED <<phase, measure_latencies, requests_initiated, requests_completed,
                   decoder_measures, http, stream_resets, pool_overflow, latencies,
                   plugin_saw, provide_resource_backpressure, drainVars>>

\* The decoder exports the latency of a complete response if it measures.
exportLatency(r, success, code) ==
    latencies' = IF success /\ decoder_measures[r]
                 THEN [latencies EXCEPT ![StatusClass(code)] = @ + 1] ELSE latencies

\* Mutation: a reset is counted under the class of its status, too.
CountCompletion_ResetClassed(success, code) ==
    /\ requests_completed' = requests_completed + 1
    /\ http' = [http EXCEPT ![StatusClass(code)] = @ + 1]
    /\ stream_resets' = stream_resets + IF success THEN 0 ELSE 1

\* The client's onComplete(): count a response by class, or the reset.
CountCompletion(success, code) ==
    /\ requests_completed' = requests_completed + 1
    /\ http' = IF success THEN [http EXCEPT ![StatusClass(code)] = @ + 1] ELSE http
    /\ stream_resets' = stream_resets + IF success THEN 0 ELSE 1

\* The client hands the plugins the headers of the response, complete or reset, or empty
\* headers if none have come in.
handleResponseHeaders(r, success) ==
    plugin_saw' = [plugin_saw EXCEPT ![r] =
                    IF success \/ decoder[r] = "headers" THEN "headers" ELSE "empty"]

\* Mutation: the caller hears of successes only.
onComplete_SuccessOnly(r, success, code) ==
    /\ decoder' = [decoder EXCEPT ![r] = "done"]
    /\ exportLatency(r, success, code)
    /\ CountCompletion(success, code)
    /\ handleResponseHeaders(r, success)
    /\ IF success THEN CallBack(r) ELSE UNCHANGED called_back
    /\ UNCHANGED <<phase, measure_latencies, requests_initiated, decoder_measures,
                   pool_overflow, pool_connection_failure,
                   provide_resource_backpressure, drainVars>>

\* StreamDecoder::onComplete(): latency, counters, then the caller.
onComplete(r, success, code) ==
    /\ decoder' = [decoder EXCEPT ![r] = "done"]
    /\ exportLatency(r, success, code)
    /\ CountCompletion(success, code)
    /\ handleResponseHeaders(r, success)
    /\ CallBack(r)
    /\ UNCHANGED <<phase, measure_latencies, requests_initiated, decoder_measures,
                   pool_overflow, pool_connection_failure,
                   provide_resource_backpressure, drainVars>>

\* Response headers that do not end the stream.
decodeHeaders(r) ==
    /\ DispatcherRuns
    /\ decoder[r] = "active"
    /\ decoder' = [decoder EXCEPT ![r] = "headers"]
    /\ UNCHANGED <<phase, measure_latencies, requests_initiated, requests_completed,
                   decoder_measures, called_back, counterVars,
                   provide_resource_backpressure, drainVars>>

\* The response ends: with its headers, or later with data or trailers.
EndOfStream(r, code) ==
    /\ DispatcherRuns
    /\ r \in Active
    /\ onComplete(r, TRUE, code)

onResetStream(r) ==
    /\ r \in Active
    /\ onComplete(r, FALSE, 0)

-----------------------------------------------------------------------------
(* terminate().                                                            *)

\* The sequencer has stopped and work() returned: the worker thread leaves its event loop
\* while the main thread reads counters, statistics and the plugins' output.
WorkCompletes ==
    /\ phase = "measure"
    /\ phase' = "reported"
    /\ UNCHANGED <<measure_latencies, requestVars, counterVars,
                   provide_resource_backpressure, drainVars>>

\* The execution is over and the worker was told to exit.  With streams outstanding:
\* stop measuring, arm the drain timer, post the drain and run the dispatcher.
terminate ==
    /\ phase = "reported"
    /\ IF Live # {}
       THEN /\ phase' = "drain"
            /\ measure_latencies' = FALSE
            /\ drain_timer' = "armed"
            /\ drain' = "posted"
       ELSE /\ phase' = "terminated"
            /\ UNCHANGED <<measure_latencies, drain_timer, drain>>
    /\ UNCHANGED <<requestVars, counterVars, provide_resource_backpressure, exit_pending>>

\* The posted drain runs: idle connections are closed, busy ones when they get idle.
drainConnections ==
    /\ phase = "drain"
    /\ drain = "posted"
    /\ drain' = "started"
    /\ UNCHANGED <<phase, measure_latencies, requestVars, counterVars,
                   provide_resource_backpressure, drain_timer, exit_pending>>

\* Mutation: the idle callback disables the timer but does not end the loop.
IdleCallback_NoExit ==
    /\ phase = "drain"
    /\ drain = "started"
    /\ Live = {}
    /\ drain_timer' = "off"
    /\ UNCHANGED <<phase, measure_latencies, requestVars, counterVars,
                   provide_resource_backpressure, drain, exit_pending>>

\* A draining pool without streams has closed its connections: the idle callback runs.
IdleCallback ==
    /\ phase = "drain"
    /\ drain = "started"
    /\ Live = {}
    /\ drain_timer' = "off"
    /\ exit_pending' = TRUE
    /\ UNCHANGED <<phase, measure_latencies, requestVars, counterVars,
                   provide_resource_backpressure, drain>>

DrainTimeout ==
    /\ phase = "drain"
    /\ drain_timer = "armed"
    /\ drain_timer' = "off"
    /\ exit_pending' = TRUE
    /\ UNCHANGED <<phase, measure_latencies, requestVars, counterVars,
                   provide_resource_backpressure, drain>>

\* The dispatcher's loop ends and terminate() returns.
DrainLoopExits ==
    /\ phase = "drain"
    /\ exit_pending
    /\ exit_pending' = FALSE
    /\ phase' = "terminated"
    /\ UNCHANGED <<measure_latencies, requestVars, counterVars,
                   provide_resource_backpressure, drain_timer, drain>>

PoolEvent ==
    \E r \in Requests :
        \/ onPoolReady(r)
        \/ DispatcherRuns /\ onPoolFailure(r)
        \/ decodeHeaders(r)
        \/ \E code \in Codes : EndOfStream(r, code)
        \/ DispatcherRuns /\ onResetStream(r)

\* tls_.shutdownThread() destroys the pool on the worker thread.
PoolDestroyed ==
    /\ phase = "terminated"
    /\ \E r \in Requests : onPoolFailure(r) \/ onResetStream(r)

Next ==
    \/ Warmup
    \/ setShouldMeasureLatencies
    \/ tryStartRequest
    \/ PoolEvent
    \/ WorkCompletes
    \/ terminate
    \/ drainConnections
    \/ IdleCallback
    \/ DrainTimeout
    \/ DrainLoopExits
    \/ PoolDestroyed

Spec == Init /\ [][Next]_vars

\* Once terminate() has been called the worker thread proceeds: posted functions, idle
\* callbacks and loop exits happen, and the thread-local pool is destroyed after it.
\* Nothing is assumed of the server, nor yet of the drain timer.
Fairness ==
    /\ WF_vars(drainConnections)
    /\ WF_vars(IdleCallback)
    /\ WF_vars(DrainLoopExits)
    /\ WF_vars(PoolDestroyed)

FairSpec == Spec /\ Fairness

\* An enabled drain timer fires.
TimerFires == WF_vars(DrainTimeout)

-----------------------------------------------------------------------------
(* Properties.                                                             *)

\* The types of the state.
TypeOK ==
    /\ provide_resource_backpressure \in BOOLEAN
    /\ phase \in {"warmup", "measure", "reported", "drain", "terminated"}
    /\ measure_latencies \in BOOLEAN
    /\ requests_initiated \in Nat /\ requests_completed \in Nat
    /\ decoder \in [Requests -> {"none", "pending", "active", "headers", "done", "failed"}]
    /\ decoder_measures \in [Requests -> BOOLEAN]
    /\ called_back \in [Requests -> Nat]
    /\ http \in [Classes -> Nat] /\ latencies \in [Classes -> Nat]
    /\ plugin_saw \in [Requests -> {"nothing", "headers", "empty"}]
    /\ stream_resets \in Nat /\ pool_overflow \in Nat /\ pool_connection_failure \in Nat
    /\ drain_timer \in {"off", "armed"}
    /\ drain \in {"none", "posted", "started"}
    /\ exit_pending \in BOOLEAN

\* The sum of a counter over the status classes.
TotalOf(f) == f["1xx"] + f["2xx"] + f["3xx"] + f["4xx"] + f["5xx"] + f["xxx"]

\* The caller of tryStartRequest() hears about each request exactly once, when its
\* decoder is finished: the sequencer counts on it to balance its own books.
CalledBackExactlyOnce ==
    \A r \in Requests :
        called_back[r] = IF decoder[r] \in {"done", "failed"} THEN 1 ELSE 0

\* In closed-loop mode the requests outstanding never exceed the limit, warm-up,
\* overflows and failures included.
InFlightBounded == provide_resource_backpressure => Cardinality(Live) <= max_in_flight

\* The books of the client agree: every completed request is in exactly one result counter;
\* the gap between the two counters behind the limit is the requests outstanding plus every
\* request the pool failed; and until terminate(), latency is recorded, under the class of the
\* response, for every response but the one to the warm-up request.
ResultsAccountedFor ==
    /\ TotalOf(http) + stream_resets = requests_completed
    /\ requests_initiated - requests_completed
        = Cardinality(Live) + Cardinality(InState({"failed"}))
    /\ phase \in {"warmup", "measure", "reported"} =>
        /\ \A c \in Classes : latencies[c] <= http[c]
        /\ TotalOf(http) - TotalOf(latencies) <= 1
        /\ phase = "warmup" => TotalOf(latencies) = 0

\* terminate() returns: at once when the last stream ends, without waiting for the drain
\* timer, and because of that timer even if the server never answers.
TerminateReturns ==
    /\ phase = "drain" /\ Live = {} ~> phase = "terminated"
    /\ TimerFires => (phase = "drain" ~> phase = "terminated")

\* A request outstanding when terminate() is called reports back nevertheless, if only
\* when the pool is destroyed.
EveryRequestReportsBack ==
    TimerFires => \A r \in Requests : phase = "drain" /\ r \in Live ~> called_back[r] = 1

=============================================================================
