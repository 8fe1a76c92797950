# A TLA+ verification of Nighthawk

Nighthawk is an L7 load generator built on Envoy. This directory holds TLA+
modules translated from its source, TLC configurations that check them on small
instances, and TLAPS proofs of the properties that matter most.

## Running it

    tlc -workers 2 -config SequencerRun.cfg Sequencer       # one run of PROJECT.json
    tlapm WorkerProofs.tla                                  # one proof module

`PROJECT.json` lists the runs, the lines of source behind each definition
(`map`), the hazards the properties were chosen for, the disagreements between
code and documentation that a run shows (`findings`), the theorems, and for each
checked property a mutation of the model that breaks it (`mutants`; the mutated
operators stand in the modules, right before the definition they mutate, under
a comment that begins with "Mutation").

## The system

A process (`process_impl.cc`) starts one worker thread per core plus a flush
worker. Each `ClientWorkerImpl` owns a dispatcher (an event loop), a
`BenchmarkClientHttpImpl`, a request source and a phase with one `Sequencer`.
The sequencer asks a stack of rate limiters for permission and then calls the
client, until a chain of termination predicates tells it to stop. Results of
all workers are merged and reported. Around this core stand a gRPC service
that runs executions for remote callers, a distributor, a sink for results, an
adaptive controller that runs one benchmark after another, and filters for a
test server.

| part | state | what makes it hard | modules |
|---|---|---|---|
| RateLimiter stack | counts, pending timings, burst state | layers give back in their own place; cached counts; unsigned counters | RateLimiterStack |
| Sequencer, TerminationPredicate chain | timers, blocking interval, counts, verdict | callbacks inside run() and after stop(); which timer wakes it; cached time; order of predicates | Sequencer, LoadExecution |
| BenchmarkClient, StreamDecoder | in-flight counters, streams, measuring flags | the pool answers at once or later; drain; counters updated on different paths | BenchmarkClient |
| RequestSource, gRPC request stream, its service and plugins | queue, batches under way, header maps | the stream closes with a queue left; the next batch is asked for while one is under way | RequestSource |
| Worker, Phase, FlushWorker, Process, Main, SignalHandler | threads, locks, promises, subprocess, pipe | cancellation while starting or shutting down; a child that crashes or hangs; signal, callback and destructor race | Process |
| ExecutionService, RemoteProcess | two locks, an event, a future, a stream pointer | a second request while busy; streams that overlap; a client that goes away; error paths that hold a lock | ExecutionService, BenchmarkSession |
| Sink, Distributor | files, calls in progress, fan-out | crash between write and rename; load beside store; one service of several failing | Sink, Distributor, DistributedTest |
| Adaptive load controller | search range, deadline | measurements that do not grow with the load; benchmarks that fail | AdaptiveLoad |
| Test server filters | shared count, stopwatch and its lock, per-stream configuration | concurrent streams, streams that are reset, three filters that judge one configuration | ServerFilters |
| Options, URIs, bootstrap, statistics, merging, output | one pass over data | a remote run must equal a local one; formats recompute what they show | Options, Bootstrap, Statistics, Report |

## What the modules say

### RateLimiterStack

The limiters of `rate_limiter_impl.cc` stacked as `SequencerFactoryImpl::create`
stacks them: a linear pace, or the linear ramping plugin; above it the scheduled
start; above it, optionally, bursts; and on top, optionally, uniform jitter.
Variables carry the names of the members (`acquired_count_`,
`acquireable_count_`, `accumulated_`, `distributed_timings_`...). The actions are
`Tick`, an acquisition that goes through all layers, and a release that does.
Ghost counters say how many acquisitions the caller uses.

The ramping limiter computes with doubles; the model uses the exact integer
quotient of the same formula. Jitter is any integer from 0 to `JitterMax`; the
sampler is uniform over nanoseconds. `MaxTime` bounds the clock.

Properties: no acquisition is lost or duplicated across layers; the stack never
runs ahead of its schedule, not even at the seam between ramp and constant pace;
a refusal after the start means that everything due has been handed out; the
ASSERTs on releasing hold; a burst is whole however often the target pushes back;
pending timings stay sorted.

### Sequencer and LoadExecution

`run()` is split where others act inside it: head, `tryAcquireOne`, the target,
tail. The target is arbitrary: it refuses, accepts, or accepts and reports back
before it returns (`SyncTarget`), as a pool overflow does. The rate limiter is
the contract proved of the stack without jitter, `acquired < Due(cached)`, with
one acquisition due per tick. A dispatcher loop that was told to exit may still
run events that were due. The predicates are evaluated in the order in which
the factory links them. Idle strategy and whether there is a duration are
variables chosen in `Init` and never changed.

A call that is answered before it returns refreshes the cached time, so that the
rate limiter may have one more acquisition to give: a target that answers every
call at once keeps `run()` in its loop, away from the predicates and from the
dispatcher's queue, and the code bounds neither the number of such calls nor their
time. In the model the end of the clock ends the loop. `Terminates` therefore
excepts a `run()` that has been kept in its loop until then (`KeptInTheLoop`).

`LoadExecution` is what the sequencer promises its caller: an execution is
ready, then active, then over; calls are initiated only while it is active; the
verdict is given once. `ImplementsLoadExecution` is the refinement.

### BenchmarkClient

One action per callback of the worker's thread: `tryStartRequest` together with
the pool's immediate answer, `onPoolReady`, `onPoolFailure`, a response, a
reset, the warm-up's end, `terminate()`, the drain timer and the idle callback.
Envoy's pool is external: it attaches or fails a request at once or later, and
an attached stream ends once. Of `Http1PoolImpl::newStream` the outcome is kept,
not which idle connection it takes nor what it prefetches.

### RequestSource

The source that `RequestSourceFactoryImpl::create` chooses: the static one, the
options-list and LLM plugins, or the remote one. For the remote one the module
has both ends of the gRPC stream: `initOnThread` and its rounds of the
dispatcher, `trySendRequest`, `onReceiveMessage`, `onRemoteClose`, `maybeDequeue`
on the client; reading a batch request, writing its answers and failing on the
service. `uplink` and `downlink` are the two directions of the stream. A header
map is a function from names to values, and `messageToRequest` overrides base
headers in the order of the code; `EntryRequest` does so with the method, body and
headers of an entry of the options list. `in_flight_headers_` is taken modulo `Width`,
so that a wrap would show. `MaxMessages` bounds what is yielded or sent.

### ExecutionService and BenchmarkSession

`ServiceImpl` with the threads it has: one of gRPC per stream
(`ExecutionStream`), one of `std::async` per accepted request
(`handleExecutionRequest`). `rpc[s]` and `jobs[j].step` are their program
counters; a step is what happens between two operations on `busy_lock_`,
`accepted_lock_`, the event and the future. A notification wakes one of the waiting
threads and is lost when there is none. Assigning to the future of an unfinished
thread blocks (`Settled`); `finishGrpcStream` waits for what `future_` stands for
when it gets there (`AwaitsFuture`). A client writes up to `MaxRequests` requests of
any kind, half-closes or goes away at any moment, and connects whether or not other
streams are open.

All streams share `stream_`, `future_` and the locks. With two open at a time the
model has what the code then does: an answer goes to the stream that was opened
last (`writeResponse`); it goes through null, and the process dies, once any stream
has finished (`WritesThroughNull`, `crashed`); and threads can wait for each other
for good, one holding `accepted_lock_` while it assigns to a future whose thread
wants that lock. The history variable `shared` holds the streams that were open
together with another one. Not modelled are spurious wake-ups of the event, and
torn reads of `stream_` and `future_`, which threads access without a lock.

`BenchmarkSession` is the service without threads: one execution at a time,
answered before the next one begins and before the stream that asked for it is
closed. In the refinement mapping the session's `executing` is the stream the active
handler was asked on, and a stream's `answers` are its handlers whose answer is out.
This holds however streams overlap; on which stream an answer comes out it does not
say. The other three properties say that, about streams that had the service to
themselves (`Streams \ shared`), also after others overlapped.

### Sink, Distributor and DistributedTest

`Sink` has one step per visible effect of a call: creating the directory, writing
the temporary file, the rename, each of which may fail; and on the other side the
entries of the directory one by one, in any order, while others store. The
service may crash and restart between any two of them. `LateWriteErrors = FALSE`
is an assumption of the run: the code does not look at the result of closing the
temporary file, and with a disk that fails only then a piece need not be whole.
`Distributor` calls the services of a request one after the other and goes on after
a failure.
`DistributedTest` composes the two with testers that distribute, store what each
service answered, and load the whole; testers may belong to one execution and
use one sink at the same time. Testers that name the same service share it
(`Sharers`), and its answer to one of them may be what it ran for another (see
ExecutionService); `ReportIsComplete` allows a report no other foreign results.

### AdaptiveLoad

`PerformAdaptiveLoadSession` from the spec (defaults, validation) to the exit
code of the client's main: adjusting stage, deadline, testing stage; per
benchmark the metrics (all the built-in ones), thresholds, weights and scores, and
the exponential search. The service's answers are arbitrary at every load, monotonic or not. The
code computes loads as doubles; the model as integers in 1/`Scale` requests per
second. With loads so small that their unit exceeds half a percent of them,
integer division would lose a range that doubles keep, so
`SearchBracketsThreshold` is stated for specs whose first load is
`FineGrained`.

### ServerFilters

The dynamic-delay, time-tracking and test-server filters on concurrent streams
of several workers. The count of filters is an atomic. The stopwatch is not one
step: a worker takes its lock, reads the time, and then stores it and gives the lock
up, while others act in between. A stream gets its configuration from its headers,
is delayed, receives a body or trailers, is answered or reset, and is destroyed.

A configuration brings some fields, and each filter makes its own of them:
dynamic-delay and time-tracking pick theirs and ignore what is wrong with the rest,
test-server merges and validates all. The merge is protobuf's (`MergeFrom`): a
scalar replaces the server's unless it is 0 or false, which the wire does not tell
from an absent one, and lists are appended (`HeaderKinds`). Response headers of both
kinds pass the validation and abort the server where they are applied
(`validateResponseOptions`, `Down`); nothing moves after that.

The time is taken when the stream is created. `time_tracking.proto` speaks of the
time between responses; `ReportedDeltasAreGaps` states what the code measures.

### Options, Bootstrap, Statistics and Report

`Options` has both constructors of `OptionsImpl` and `toCommandLineOptions`, for
every option, with defaults and validation in the order of the code; `Bootstrap`
the Envoy configuration built from them; `Statistics` the streaming, HDR and
simple statistics in exact rational arithmetic. `Report` chains them in the steps
of `Main::run`: parse, run here or send to a service, create the bootstrap and
the workers, merge what they measured, print. Texts are opaque: whether one
parses is an input. An output format is the set of lines it prints: counts, the four
moments, sums, percentiles and the counts below them, as far as the format has them.
`ReportReadsAsMeasured` compares lines and their values with the samples: exactly for
sizes, to the microsecond for latencies, and for a latency sum to a microsecond per
sample. Exact arithmetic has no square roots, so a raw standard deviation stands for
its square; a duration's is rounded to nanoseconds as in the code. `MessageUtilValidate`
has the proto's rules on values that change what the program does, such as the range
of an endpoint's port; the text patterns of others are inputs.

### Process

A run of `nighthawk_client` from the construction of the signal handler to its
destruction. `main` is the program counter of the main thread, named after what
it is about to do; `shutdown_thread` that of the signal handler's thread;
`worker[w]` and `flush` those of the worker threads; `child` is the state of the
forked subprocess, which exists with and without a tunnel. `nigthawk_fn` is one
step because it holds `workers_lock_` throughout and waits for nothing;
`initiateShutdown()` is two, because the test and the write race the closing of
the pipe; `TerminateEncapSubProcess(who)` is shared by the two threads that call
it and split into SIGTERM and reaping. Counters are kept per worker: responses,
and the note a cancellation leaves. After `fate` leaves "alive" nothing moves.

Abstractions: a write to a closed descriptor always fails (a reused descriptor
number is not modelled); the unsynchronised accesses to `pid_`, `encap_runner_`
and `destructing_` are atomic; signals go to the process, not to its group;
exceptions that leave `run()` are not modelled; the inside of an execution and
of a drain is in Sequencer and BenchmarkClient. Of Envoy in the child it is only
assumed that SIGTERM stops it once its `run()` has begun.

## Runs

| run | question | bounds, and why they are enough |
|---|---|---|
| StackRun | conservation, whole bursts, releases, refusals, in four stacks | bursts of three for 30 ticks: three bursts fall due, each pushed back at any point; a ramp of 7 ticks that ends well before tick 26; jitter of 3 over an interval of 2, so that timings overlap; jitter over bursts |
| SequencerRun | safety, refinement, termination, for every idle strategy, with and without a duration | the clock outlives the duration; callbacks at once and late; two calls under way |
| ClientRun | counters, callbacks, drain, in closed and open loop | three requests, two connections, nothing pending: the third overflows |
| SourceRun | what is yielded, the buffer, starvation | batches of two and six messages: three batches overlap with what is queued; a list of three entries (a JSON body, a body size, neither) that is gone through more than once |
| ProcessRun | results that line up, lifetimes, cancellation, shutdown | two workers (so that one may lag), one signal at any moment, one response each: enough to tell a snapshot from a later count |
| ServiceRun | the session, follow-up requests, single requests, termination | two streams, overlapping or not, and two requests on one of them or one on each: an execution of an earlier request, or of another stream, can be in the way; answers are misdirected, the process dies, and threads block each other |
| DistributedRun | complete reports, whole pieces, refused merges | two testers of one execution or of two, two services, two versions; crash at any point; both back ends |
| AdaptiveRun | the range of the search, the testing stage, the end of a session | eight specs (growing by 2, by 4, not at all, refused...), nine answers per benchmark; the deadline allows the search to converge, and to fail to |
| ServerRun | delays, deltas, answers | two concurrent streams, enough for one to overtake the other at the stopwatch, to be counted in the other's delay and to bring another configuration; configurations that override, bring defaults, fail to parse or to validate, come twice, or mix both kinds of headers; three ticks |
| ReportRun | remote equals local, traffic, merging, every format | four base command lines, each with every pair of some forty further options; two workers with up to three measurements, one beyond what the histograms record (`HdrSeconds` = 1 and `Kilo` = 10 scale the units down) |
| ProcessLostCancel | violation: a cancellation forgotten | one worker, one signal |
| ReportRoundTrip | violation: the body size lost on the way to a service | as ReportRun |

Runs that say CHECK_DEADLOCK FALSE are of components that are meant to stop.
`DistributedRun` uses the symmetry of the versions, which are only compared with each
other; it checks invariants only. No other run uses symmetry.

## Fairness

Sequencer: time passes, the worker thread keeps running its loop (weak
fairness), and a function posted to the dispatcher runs in one of the next turns
of the loop although timers keep firing (strong fairness). Nothing is assumed of
the target or of whoever cancels.

BenchmarkClient: the worker's loop keeps running once `terminate()` was called.
That the drain timer fires (`TimerFires`) is a premise of
`EveryRequestReportsBack` and of one half of `TerminateReturns`; its other half
shows that the idle callback ends the drain without it.

Process: every thread keeps running, a posted function runs, and a child without
Envoy reaches its exit. Nothing is assumed of Envoy or of the signals. That the
server answers warm-up calls is a premise of the second half of
`ShutdownCompletes`, which is stated for runs without tunnel and stats sinks: with
a tunnel a child that dies while it starts never posts the semaphore, and with
stats sinks the exit of the flush worker's loop can come before the loop; in both
cases the main thread waits for good. Its first half has no such premise.

ExecutionService: every thread of the service goes on, and a benchmark comes to
its end. Nothing is assumed of the clients; `StreamEnds` is about those that
half-closed or went away.

RequestSource: the worker's loop delivers what arrived and the service answers;
`NeverStarves` excuses a stream or a service that is down.

AdaptiveLoad: one thread that waits only for benchmarks, which have a duration.

## Proofs

Eight modules hold proofs. All are for every value of the constants, but for the
assumptions named below.

`RateLimiterStackProofs`: types (no unsigned counter wraps), conservation of
acquisitions, the schedule, acceptance of releases, order of the pending timings;
and without jitter the burst ASSERTs, whole bursts, and that a refusal means
caught up. The inductive invariant adds to these what each pacing limiter keeps
between calls (`PacingInv`: its cached count and what it has acquired never
exceed what is due now, which needs the schedule to be monotonic across the end
of the ramp) and what the layers above know of each other (`LayerInv`,
`BurstInv`).

`WorkerProofs`, about what a worker is made of. Of `Sequencer`: every safety
property of `SequencerRun`, the action properties and the refinement step by step.
The inductive invariant adds that both timers are alive exactly while running,
which timer is owed at each point inside `run()` (without it `AlwaysWokenAgain` is
not inductive: the tail of `run()` only re-arms one of them), and the order of the
time samples.

Of `RequestSource`, in the same module: `BufferBounded` and `YieldsAsSpecified`.
`Books` accounts for every request of a batch (asked for, being sent, on the way,
queued), also after a service failed in the middle of one; without that case a
second batch could not be excluded. `Placed` says where in the order of the
specifiers what is yielded, queued and on the way stands; `Listed` the same for
the options list.

`BenchmarkClientProofs`: every safety property of `ClientRun`, for any set of
requests and any limits. The limit on requests in flight is not inductive, because
the code compares counters and the property counts streams; `Gap` ties the two
(the counters differ by the live streams plus the requests the pool failed).
`Measured` says which of the outstanding requests will record a latency.

`ProcessProofs`: every safety property of `ProcessRun` for any set of workers and
any number of signals and responses. `ControlInv` says who holds which lock where,
that the callback runs only with the default disposition in place, and that no
child is left once the main thread is past `TerminateEncapSubProcess()`.
`CancelInv` says that from the moment the callback has posted to the workers no
executing worker is unaware; the property alone is not inductive, because success
is only reported after the subprocess was dealt with. `ResultInv` says that
snapshots of completed workers stay up to date until the workers are told to
drain, and that nothing counts between the report and that moment.

`ExecutionServiceProofs`: `ServiceImplementsSession` for any number of streams, open
at the same time or not, and of requests. The invariant (`IInv`) says that the
handlers before `future_` are done, and that the last one is in `future_` or kept
waiting by the thread that is about to put it there (`OneHandler`): while a thread is
at the blocking assignment it holds `accepted_lock_`, which the new handler needs. So
no two handlers are at work, although `busy_lock_` is free between the probe and the
handler. `AwaitsOwn` and `OwnersOpen` say that a stream does not finish before the
handlers it started. Each step is then shown to begin, answer or close in the session,
or to stutter.

The second half of the module adds what is known of a stream that has been the only
one open (`RInv`): the position of its thread says how far the last handler is
(`InStep`), and `stream_` is the stream itself (`SoleOpen`).

`ServiceAnswersProofs`, on top of that: `NeverDeclinesFollowUp` and
`OneShotIsAnswered`, for any number of streams of which any may overlap, about those
that do not. Neither is inductive, because what a client has seen says nothing by
itself of what is still to come. `Account` balances every request a stream has
carried: answered, unread, refused, or owed by the thread of the stream or a handler.
A client that waited is owed nothing, so no handler of its stream can still hold the
busy lock (`BusyHeld`) but one that answered with an error.

`DistributedTestProofs`: `StoredPiecesAreWhole` (while closing a file loses no
data, `~LateWriteErrors`), `MergeRefusesDivergence` and `ReportIsComplete`, for any
testers and any services they name. The invariant (`TestInv`) says of every stored
file that it is a piece of an answered request of its own execution (`Genuine`), of
a store in progress that it is for the tester's next piece, and of a load in
progress that the directory it goes through holds all pieces the tester has had
acknowledged (`Loading`), which crashes and the stores of others do not change.
What the merge gives for any number of pieces (`MergedSoFar`) is proved by
induction over its rounds.

`LoadAndServerProofs`, about the two ends of a test. Of `AdaptiveLoad`:
`SearchBracketsThreshold` and `TestingStageIsEarned` for every spec and every
sequence of answers. The range is kept because a range that is narrower than
`MinimalGap` would have converged before it could collapse; while loads still grow,
the last load within the thresholds is the previous one (`RangeFinding`). Of
`ServerFilters`: `DelayFollowsLoad`, `AnsweredByItsOwnConfig` and
`ReportedDeltasAreGaps` for any finite set of streams. The invariant says at which
points a stream may have been answered, and that the count is the number of live
streams; each callback changes one stream and the count together. The deltas need an
invariant of the stopwatch (`GapInv`): one worker at most is between taking the lock
and giving it up (`OneMeasures`), `start_` is the latest of the times taken and none
is in the future (`StartIsLatest`), and each delta taken so far is a gap with no other
stream's time inside (`GapsOnly`).

Induction over data. The library's induction theorems have an operator as
parameter, which the provers cannot instantiate. `DistributedTestProofs`, which needs
induction, derives it for sets instead: a set of naturals that is not empty has a
least element (`LeastElement`, from the well-foundedness of `<`), so a set that
holds the first index and with each index the next holds all (`Inductive`). That a
recursive function exists is proved the same way (`RoundsExist`).

Only model-checked: liveness, which is out of the prover's reach. The three
properties of `StackRun` that begin with the choice of a stack are instances, for
four values of the constants, of what `RateLimiterStackProofs` proves for all.
`Report` with `Options`, `Bootstrap` and `Statistics` has no theorem: it is one pass
over data, and its properties compare whole results (`ReportRun` goes through them
for every pair of options).

## Where code and documentation disagree

Two runs are violations; `findings` quotes the lines. (1) A cancellation that
comes before the workers exist is lost when the subprocess did not exit cleanly.
(2) `toCommandLineOptions` drops the request body size when there are no request
headers, so that a remote run sends other requests than a local one.

Met while modelling, and stated here only:

- Jitter above bursts breaks the burst layer's ASSERTs and its bursts
  (`rate_limiter_impl.cc:58`): the jitter layer hands back one acquisition at a
  time. The burst theorems assume no jitter.
- A callback that comes at once refreshes the time inside `run()`
  (`sequencer_impl.cc:111`), so that calls answered at once keep it from looking at
  its predicates; `Terminates` excepts that.
- A pool failure permanently uses up one of the requests in flight of a closed
  loop (`benchmark_client_impl.cc:257`); `ResultsAccountedFor` states the gap.
- Output plugins are handed empty response headers for streams that had none
  (`benchmark_client_impl.cc:240`).
- `tryStartRequest` may return false in open-loop mode (`benchmark_client.h:42`);
  latencies are recorded during the drain, because each stream has its own copy
  of the flag (`benchmark_client_impl.cc:116`).
- The test and the write in `initiateShutdown()` race the closing of the pipe
  (`signal_handler.cc:86`); the semaphore of the subprocess runner is destroyed
  where `pid_` is 0, which is never the parent (`process_bootstrap.h:95`).
- Streams of the execution service that overlap share `stream_`: the answer to
  one goes to the other, or through null once the other is finished, and the two may
  block each other; the properties say what still holds. The error
  replies are written with `busy_lock_` held (`service_impl.cc:75-77` says it is
  released first), so a follow-up to one may be turned away;
  `NeverDeclinesFollowUp` leaves those out. `execution_id` is never set, against
  `service.proto`.
- `RemoteProcessImpl::run` returns true for an answer with `error_detail`
  (`process.h:18`).
- Besides the body size, `toCommandLineOptions` leaves out the tunnel options and,
  with a request source, method and headers; `RemoteRunIsEquivalent` names these
  cases. It writes the scheduled start's ticks as nanoseconds. The constructor from
  a proto merges the tunnel's TLS context into the value of an empty optional
  (`options_impl.cc:882`), which leaves it empty; the model has it stay empty.
- A request source's URI is validated with one default port and resolved with
  another.
- Merging streaming statistics gives a NaN variance when the first worker
  measured nothing; `GlobalCoversEveryWorker` excepts it, and `ReportReadsAsMeasured`
  expects the report to show that NaN. Two configurations of
  the same output plugin are aggregated together.
- The sink answers "Options divergence" when an error without output is among the
  pieces; the file sink's `LoadExecutionResult` succeeds with nothing for an
  execution whose directory is empty, where other sinks say not found (the merge
  then does); and it does not check that closing the temporary file wrote
  everything (`LateWriteErrors`).
- `yields_left_--` of the static source wraps once it is exhausted.
- The test server echoes request headers only without a body
  (`server/README.md:96`). It reports the time between the creation of streams, where
  `time_tracking.proto` says between responses. A request cannot set a field back to 0
  or false. `configuration.cc:39` says that validation lets only one of the two kinds
  of response headers pass; it lets both pass, and the server aborts.

## Not modelled

- `service_main.cc` and the entry points under `source/exe`: argument parsing and
  the start of a gRPC server, without state of their own. The mains of the client,
  of the output transformer and of the adaptive controller are modelled.
- The parsing of texts (TCLAP, JSON, URI syntax, DNS): reduced to whether it
  succeeds. Console wording, logging and tracing.
- `GraduallyOpeningRateLimiterFilter` and `ZipfRateLimiterImpl`: their result is a
  probability distribution, about which TLC can say nothing.
- The circllhist, in-memory and sinkable statistics and native serialisation of
  histograms; rounding of HdrHistogram: numerical libraries.
- Envoy's connection pools, dispatcher and server, gRPC, and `Http1PoolImpl`'s
  choice of a connection: external, or without effect on the client's state; they
  appear as what they may answer.
- Python integration tests, benchmarks and tools beside the program.
