------------------------------ MODULE Process ------------------------------
(***************************************************************************)
(* One run of nighthawk_client: Main::run (source/client/client.cc), the   *)
(* SignalHandler around it (source/common/signal_handler.cc), ProcessImpl  *)
(* (source/client/process_impl.cc) with the subprocess it forks, tunnel or *)
(* not (source/client/process_bootstrap.h), the client workers             *)
(* (source/client/client_worker_impl.cc, source/common/worker_impl.cc) and *)
(* the flush worker (source/client/flush_worker_impl.cc).                  *)
(*                                                                         *)
(* The actors are the main thread, the signal handler's shutdown thread,   *)
(* the worker threads, the flush worker's thread, the thread a signal      *)
(* interrupts, and the child.  What a thread does under workers_lock_      *)
(* without waiting for another one is a single step.                       *)
(***************************************************************************)
EXTENDS Integers

CONSTANTS
    Workers,        \* the client workers
    MaxSignals,     \* bound on the signals sent to the process
    MaxResponses    \* bound on the responses a worker counts

ASSUME ProcessAssumption ==
    /\ Workers # {}
    /\ MaxSignals \in Nat
    /\ MaxResponses \in Nat

VARIABLES
    tunnel,          \* option: the child runs an encapsulating Envoy
    stats_sinks,     \* option: there is a flush worker
    has_duration,    \* option: executions end by themselves
    main,            \* where the main thread is
    fate,            \* "alive", "killed" by a signal, "aborted" by a RELEASE_ASSERT
    workers_lock,    \* who holds it
    terminate_mutex, \* who holds it
    cancelled,
    worker,          \* where each worker's thread is
    exit_signaled,   \* the workers told to exit
    posted,          \* the workers with a cancellation in their dispatcher's queue
    graceful_stop_requested,
    responses,       \* what each benchmark client has counted
    threadLocalCounterValues,
    global,          \* the live counters reported as the global result
    flush,           \* where the flush worker's thread is
    flush_signaled,  \* the flush worker was told to exit
    loop_exit,       \* an exit is pending in the flush worker's dispatcher
    flushed,         \* the counters in its final flush
    child,           \* the subprocess
    child_on_term,   \* what SIGTERM does to it before Envoy handles signals
    sem,             \* nighthawk_control_sem_
    disposition,     \* of SIGTERM and SIGINT: "handler" or "default"
    pipe_fds,        \* "open", "closed", or "cleared" (the vector is empty)
    written,         \* there is something to read in the pipe
    handler,         \* the signal handler on the thread it interrupted
    shutdown_thread,
    destructing,
    signals          \* signals sent so far

optionVars == <<tunnel, stats_sinks, has_duration>>
threadVars == <<worker, exit_signaled, posted>>
counterVars == <<graceful_stop_requested, responses, threadLocalCounterValues>>
flushVars == <<flush, flush_signaled, loop_exit, flushed>>
loadVars == <<optionVars, threadVars, counterVars, global, flushVars>>
lockVars == <<workers_lock, terminate_mutex, cancelled>>
childVars == <<child, child_on_term, sem>>
signalVars == <<disposition, pipe_fds, written, handler, shutdown_thread, destructing, signals>>
controlVars == <<fate, lockVars, childVars, signalVars>>
vars == <<main, loadVars, controlVars>>

\* The store's counters of one worker: its client's, and the note a cancellation leaves.
Counters == [w \in Workers |-> responses[w] + graceful_stop_requested[w]]

\* The child is there for TerminateEncapSubProcess(): pid_ names it.
HasChild == child \notin {"none", "reaped"}

MainAt(l) == fate = "alive" /\ main = l
MainMoves(from, to) == MainAt(from) /\ main' = to
ThreadAt(l) == fate = "alive" /\ shutdown_thread = l
WorkerIn(w, S) == fate = "alive" /\ worker[w] \in S
FlushAt(l) == fate = "alive" /\ flush = l
ChildIn(S) == fate = "alive" /\ child \in S

Init ==
    /\ tunnel \in BOOLEAN
    /\ stats_sinks \in BOOLEAN
    /\ has_duration \in BOOLEAN
    /\ main = "constructed"
    /\ fate = "alive"
    /\ workers_lock = "free"
    /\ terminate_mutex = "free"
    /\ cancelled = FALSE
    /\ worker = [w \in Workers |-> "none"]
    /\ exit_signaled = {}
    /\ posted = {}
    /\ graceful_stop_requested = [w \in Workers |-> 0]
    /\ responses = [w \in Workers |-> 0]
    /\ threadLocalCounterValues = [w \in Workers |-> 0]
    /\ global = [w \in Workers |-> 0]
    /\ flush = "none"
    /\ flush_signaled = FALSE
    /\ loop_exit = FALSE
    /\ flushed = [w \in Workers |-> 0]
    /\ child = "none"
    /\ child_on_term = "dies"
    /\ sem = 0
    /\ disposition = "default"
    /\ pipe_fds = "open"
    /\ written = FALSE
    /\ handler = "idle"
    /\ shutdown_thread = "none"
    /\ destructing = FALSE
    /\ signals = 0

-----------------------------------------------------------------------------
(* The main thread, up to the report.                                      *)

\* SignalHandler(): the handlers are installed before the shutdown thread starts.
ConstructSignalHandler ==
    /\ MainMoves("constructed", "run")
    /\ disposition' = "handler"
    /\ shutdown_thread' = "reading"
    /\ UNCHANGED <<loadVars, fate, lockVars, childVars, pipe_fds, written, handler,
                   destructing, signals>>

\* run() returns before there is a child: a URI that does not resolve, a scheduled start in
\* the past, no bootstrap for the tunnel, or no fork.
RunFails ==
    /\ MainMoves("run", "shutdown")
    /\ UNCHANGED <<loadVars, controlVars>>

\* RunWithSubprocess(): the child has the parent's dispositions, and its pipe_fds_ as they
\* are now, so a SIGTERM may kill it, wake the parent's shutdown thread, or do nothing.
Fork ==
    /\ MainMoves("run", "sem_wait")
    /\ child' = "starting"
    /\ child_on_term' = CASE disposition = "default" \/ pipe_fds = "closed" -> "dies"
                          [] disposition = "handler" /\ pipe_fds = "open" -> "notifies"
                          [] OTHER -> "ignores"
    /\ UNCHANGED <<loadVars, fate, lockVars, sem, signalVars>>

\* sem_wait() returns.
SemPosted == sem > 0

SemWait ==
    /\ MainMoves("sem_wait", "setup")
    /\ SemPosted
    /\ sem' = sem - 1
    /\ UNCHANGED <<loadVars, fate, lockVars, child, child_on_term, signalVars>>

\* Mutation: cancelled_ is not looked at.
MayStart_Unchecked == TRUE

\* The test of cancelled_ under workers_lock_.
MayStart == ~cancelled

\* nigthawk_fn: cancelled before there were workers.
SetupSkipped ==
    /\ MainMoves("setup", "report")
    /\ workers_lock = "free"
    /\ cancelled
    /\ UNCHANGED <<loadVars, controlVars>>

\* createWorkers() got as far as these: one of their plugins may fail.
createWorkers(created) == [w \in Workers |-> IF w \in created THEN "created" ELSE "none"]

\* nigthawk_fn: one of its steps fails while the workers are created, or after that and
\* before any of them is started.
SetupFails ==
    /\ MainMoves("setup", "shutdown")
    /\ workers_lock = "free"
    /\ MayStart
    /\ \E created \in SUBSET Workers : worker' = createWorkers(created)
    /\ UNCHANGED <<optionVars, exit_signaled, posted, counterVars, global, flushVars,
                   controlVars>>

\* nigthawk_fn: workers and flush worker are created and started.
StartWorkers ==
    /\ MainMoves("setup", "wait")
    /\ workers_lock = "free"
    /\ MayStart
    /\ worker' = [w \in Workers |-> "starting"]
    /\ flush' = IF stats_sinks THEN "starting" ELSE "none"
    /\ UNCHANGED <<optionVars, exit_signaled, posted, counterVars, global, flush_signaled,
                   loop_exit, flushed, controlVars>>

\* Mutation: the first worker to complete is enough.
WorkersComplete_First == \E w \in Workers : worker[w] = "complete"

\* waitForCompletion() on each worker in turn.
WorkersComplete == \A w \in Workers : worker[w] = "complete"

\* All workers have completed; the flush worker's dispatcher is told to exit.
WaitForWorkers ==
    /\ MainAt("wait")
    /\ WorkersComplete
    /\ main' = IF flush = "none" THEN "report" ELSE "wait_flush"
    /\ loop_exit' = (flush # "none")
    /\ UNCHANGED <<optionVars, threadVars, counterVars, global, flush, flush_signaled,
                   flushed, controlVars>>

WaitForFlushWorker ==
    /\ MainMoves("wait_flush", "report")
    /\ flush = "complete"
    /\ UNCHANGED <<loadVars, controlVars>>

\* The global result is read from the live counters, the workers' from their snapshots.
Report ==
    /\ MainMoves("report", "shutdown")
    /\ global' = Counters
    /\ UNCHANGED <<optionVars, threadVars, counterVars, flushVars, controlVars>>

-----------------------------------------------------------------------------
(* TerminateEncapSubProcess(), for the main thread in shutdown() and for   *)
(* the shutdown thread in requestExecutionCancellation().                  *)

\* The caller stands before its call.
Calls(who) ==
    /\ IF who = "main" THEN MainAt("shutdown") ELSE ThreadAt("terminate")
    /\ terminate_mutex = "free"

\* It waits for the child to exit.
Waits(who) == fate = "alive" /\ terminate_mutex = who

\* Mutation: the early return leaves workers_lock_ locked.
LockAfter_Failure(ok) == IF ok THEN "free" ELSE workers_lock

\* The lock guard of requestExecutionCancellation() unlocks on every return.
LockAfter(ok) == "free"

\* What the caller does with the status: shutdown() goes on, the cancellation is complete
\* only if it is ok.
Returns(who, ok) ==
    IF who = "main"
    THEN /\ main' = "lock"
         /\ UNCHANGED <<shutdown_thread, workers_lock, cancelled>>
    ELSE /\ shutdown_thread' = "done"
         /\ workers_lock' = LockAfter(ok)
         /\ cancelled' = (cancelled \/ ok)
         /\ UNCHANGED main

\* Mutation: a child is expected only for a tunnel.
Terminable_Tunnel == HasChild /\ tunnel

\* There is something to terminate and reap, tunnel or not.
Terminable == HasChild

TerminateNothing(who) ==
    /\ Calls(who)
    /\ ~Terminable
    /\ Returns(who, TRUE)
    /\ UNCHANGED <<loadVars, fate, terminate_mutex, childVars, disposition, pipe_fds,
                   written, handler, destructing, signals>>

\* SIGTERM.  Envoy shuts down gracefully once it handles signals; before that, and in a child
\* without Envoy, the inherited disposition decides.
SendTerm(who) ==
    /\ Calls(who)
    /\ Terminable
    /\ terminate_mutex' = who
    /\ child' = CASE child \in {"initializing", "serving"} -> "stopping"
                  [] child \in {"starting", "posted"} /\ child_on_term = "dies" -> "crashed"
                  [] OTHER -> child
    /\ written' = (\/ written
                   \/ child \in {"starting", "posted"} /\ child_on_term = "notifies")
    /\ UNCHANGED <<main, loadVars, fate, workers_lock, cancelled, child_on_term, sem,
                   disposition, pipe_fds, handler, shutdown_thread, destructing, signals>>

\* waitpid() finds the child gone within the 15 seconds.
Reap(who) ==
    /\ Waits(who)
    /\ child \in {"exited", "crashed"}
    /\ child' = "reaped"
    /\ terminate_mutex' = "free"
    /\ Returns(who, child = "exited")
    /\ UNCHANGED <<loadVars, fate, child_on_term, sem, disposition, pipe_fds, written,
                   handler, destructing, signals>>

\* It does not: SIGKILL, and a waitpid() that blocks.
KillAndReap(who) ==
    /\ Waits(who)
    /\ child \notin {"exited", "crashed"}
    /\ child' = "reaped"
    /\ terminate_mutex' = "free"
    /\ Returns(who, FALSE)
    /\ UNCHANGED <<loadVars, fate, child_on_term, sem, disposition, pipe_fds, written,
                   handler, destructing, signals>>

TerminateEncapSubProcess(who) ==
    TerminateNothing(who) \/ SendTerm(who) \/ Reap(who) \/ KillAndReap(who)

-----------------------------------------------------------------------------
(* The rest of shutdown(), and ~SignalHandler().                           *)

\* Under workers_lock_, the flush worker is told to exit first...
ShutdownFlushWorker ==
    /\ MainMoves("lock", "join_flush")
    /\ workers_lock = "free"
    /\ workers_lock' = "main"
    /\ flush_signaled' = TRUE
    /\ UNCHANGED <<optionVars, threadVars, counterVars, global, flush, loop_exit, flushed,
                   fate, terminate_mutex, cancelled, childVars, signalVars>>

\* Mutation: it is told to exit and not joined.
FlushWorkerJoined_NotWaited == TRUE

\* flush_worker_->shutdown() has joined its thread.
FlushWorkerJoined == flush \in {"none", "ended"}

\* ...and joined; then all workers are told to exit...
ShutdownWorkers ==
    /\ MainMoves("join_flush", "join_workers")
    /\ FlushWorkerJoined
    /\ exit_signaled' = Workers
    /\ UNCHANGED <<optionVars, worker, posted, counterVars, global, flushVars, controlVars>>

\* ...and joined, those that were started; workers_ is cleared.
JoinWorkers ==
    /\ MainMoves("join_workers", "destruct")
    /\ \A w \in Workers : worker[w] \in {"none", "created", "ended"}
    /\ worker' = [w \in Workers |-> "none"]
    /\ posted' = {}
    /\ workers_lock' = "free"
    /\ UNCHANGED <<optionVars, exit_signaled, counterVars, global, flushVars, fate,
                   terminate_mutex, cancelled, childVars, signalVars>>

SetDestructing ==
    /\ MainMoves("destruct", "restore")
    /\ destructing' = TRUE
    /\ UNCHANGED <<loadVars, fate, lockVars, childVars, disposition, pipe_fds, written,
                   handler, shutdown_thread, signals>>

RestoreDispositions ==
    /\ MainMoves("restore", "check")
    /\ disposition' = "default"
    /\ UNCHANGED <<loadVars, fate, lockVars, childVars, pipe_fds, written, handler,
                   shutdown_thread, destructing, signals>>

\* initiateShutdown() in two steps: the size of pipe_fds_ is looked at...
DestructorChecks ==
    /\ MainAt("check")
    /\ main' = IF pipe_fds = "cleared" THEN "join" ELSE "write"
    /\ UNCHANGED <<loadVars, controlVars>>

\* ...and then written to.  A write to a closed descriptor fails the RELEASE_ASSERT.
DestructorWrites ==
    /\ MainAt("write")
    /\ IF pipe_fds = "open"
       THEN written' = TRUE /\ main' = "join" /\ UNCHANGED fate
       ELSE fate' = "aborted" /\ UNCHANGED <<written, main>>
    /\ UNCHANGED <<loadVars, lockVars, childVars, disposition, pipe_fds, handler,
                   shutdown_thread, destructing, signals>>

\* join() returns.
ShutdownThreadJoined == shutdown_thread = "done"

\* The handler's scope ends; then ~ProcessImpl() and the end of the program.
JoinShutdownThread ==
    /\ MainMoves("join", "exited")
    /\ ShutdownThreadJoined
    /\ UNCHANGED <<loadVars, controlVars>>

-----------------------------------------------------------------------------
(* Signals and the shutdown thread.                                        *)

SignalArrives ==
    /\ fate = "alive"
    /\ main \notin {"constructed", "exited"}
    /\ signals < MaxSignals
    /\ signals' = signals + 1
    /\ IF disposition = "handler"
       THEN handler = "idle" /\ handler' = "entered" /\ UNCHANGED fate
       ELSE fate' = "killed" /\ UNCHANGED handler
    /\ UNCHANGED <<main, loadVars, lockVars, childVars, disposition, pipe_fds, written,
                   shutdown_thread, destructing>>

\* The handler's initiateShutdown(), after the test of the delegate, which is null at the end.
HandlerChecks ==
    /\ fate = "alive"
    /\ handler = "entered"
    /\ handler' = IF main = "exited" \/ pipe_fds = "cleared" THEN "idle" ELSE "checked"
    /\ UNCHANGED <<main, loadVars, fate, lockVars, childVars, disposition, pipe_fds,
                   written, shutdown_thread, destructing, signals>>

HandlerWrites ==
    /\ fate = "alive"
    /\ handler = "checked"
    /\ handler' = "idle"
    /\ IF pipe_fds = "open"
       THEN written' = TRUE /\ UNCHANGED fate
       ELSE fate' = "aborted" /\ UNCHANGED written
    /\ UNCHANGED <<main, loadVars, lockVars, childVars, disposition, pipe_fds,
                   shutdown_thread, destructing, signals>>

\* The shutdown thread's read() returns and it closes both ends...
ReadAndClose ==
    /\ ThreadAt("reading")
    /\ written
    /\ written' = FALSE
    /\ pipe_fds' = "closed"
    /\ shutdown_thread' = "closed"
    /\ UNCHANGED <<main, loadVars, fate, lockVars, childVars, disposition, handler,
                   destructing, signals>>

\* ...and clears the vector.
ClearPipe ==
    /\ ThreadAt("closed")
    /\ pipe_fds' = "cleared"
    /\ shutdown_thread' = "cleared"
    /\ UNCHANGED <<main, loadVars, fate, lockVars, childVars, disposition, written, handler,
                   destructing, signals>>

\* What SIGTERM and SIGINT do while the callback runs.
DispositionForCallback == "default"

\* Unless the destructor woke it, the previous dispositions come back before the callback.
RestoreBeforeCallback ==
    /\ ThreadAt("cleared")
    /\ shutdown_thread' = IF destructing THEN "done" ELSE "callback"
    /\ disposition' = IF destructing THEN disposition ELSE DispositionForCallback
    /\ UNCHANGED <<main, loadVars, fate, lockVars, childVars, pipe_fds, written, handler,
                   destructing, signals>>

\* workers_, as far as it has been filled.
WorkersToCancel == {w \in Workers : worker[w] # "none"}

\* The callback: a function is posted to each worker there is, then the child is terminated.
requestExecutionCancellation ==
    /\ ThreadAt("callback")
    /\ workers_lock = "free"
    /\ workers_lock' = "shutdown_thread"
    /\ posted' = WorkersToCancel
    /\ shutdown_thread' = "terminate"
    /\ UNCHANGED <<main, optionVars, worker, exit_signaled, counterVars, global, flushVars,
                   fate, terminate_mutex, cancelled, childVars, disposition, pipe_fds,
                   written, handler, destructing, signals>>

-----------------------------------------------------------------------------
(* The workers.                                                            *)

WorkerMoves(w, from, to) ==
    /\ WorkerIn(w, {from})
    /\ worker' = [worker EXCEPT ![w] = to]
    /\ UNCHANGED <<main, optionVars, exit_signaled, posted, global, flushVars, controlVars>>

\* A worker's dispatcher runs what was posted to it.
RunsPosted(w) ==
    /\ posted' = posted \ {w}
    /\ graceful_stop_requested' =
           [graceful_stop_requested EXCEPT ![w] = @ + (IF w \in posted THEN 1 ELSE 0)]

\* The thread starts: one turn of the loop, then work(), with or without a warm-up call.
WorkerStarts(w) ==
    /\ WorkerIn(w, {"starting"})
    /\ \E next \in {"warmup", "executing"} : worker' = [worker EXCEPT ![w] = next]
    /\ RunsPosted(w)
    /\ UNCHANGED <<main, optionVars, exit_signaled, responses, threadLocalCounterValues,
                   global, flushVars, controlVars>>

PostedRuns(w) ==
    /\ WorkerIn(w, {"warmup", "executing", "draining"})
    /\ w \in posted
    /\ RunsPosted(w)
    /\ UNCHANGED <<main, optionVars, worker, exit_signaled, responses,
                   threadLocalCounterValues, global, flushVars, controlVars>>

\* The warm-up's completion leaves its loop; nothing else does.
WarmupEnds(w) ==
    /\ WorkerMoves(w, "warmup", "executing")
    /\ UNCHANGED counterVars

\* The client counts a response, as long as someone runs its dispatcher.
ResponseCounted(w) ==
    /\ WorkerIn(w, {"warmup", "executing", "draining"})
    /\ responses[w] < MaxResponses
    /\ responses' = [responses EXCEPT ![w] = @ + 1]
    /\ UNCHANGED <<main, optionVars, threadVars, graceful_stop_requested,
                   threadLocalCounterValues, global, flushVars, controlVars>>

\* The sequencer stops, at the end of its duration or cancelled, and work() takes its snapshot.
ExecutionEnds(w) ==
    /\ WorkerMoves(w, "executing", "complete")
    /\ has_duration \/ graceful_stop_requested[w] > 0
    /\ threadLocalCounterValues' = [threadLocalCounterValues EXCEPT ![w] = Counters[w]]
    /\ UNCHANGED <<graceful_stop_requested, responses>>

\* shutdownThread() begins: terminate() runs the dispatcher again.
DrainBegins(w) ==
    /\ WorkerMoves(w, "complete", "draining")
    /\ w \in exit_signaled
    /\ UNCHANGED counterVars

DrainEnds(w) ==
    /\ WorkerMoves(w, "draining", "ended")
    /\ UNCHANGED counterVars

-----------------------------------------------------------------------------
(* The flush worker.                                                       *)

\* The one turn of the loop at the start of the thread consumes an exit that is pending.
FlushWorkerStarts ==
    /\ FlushAt("starting")
    /\ flush' = "running"
    /\ loop_exit' = FALSE
    /\ UNCHANGED <<main, optionVars, threadVars, counterVars, global, flush_signaled,
                   flushed, controlVars>>

FlushLoopExits ==
    /\ FlushAt("running")
    /\ loop_exit
    /\ flush' = "complete"
    /\ loop_exit' = FALSE
    /\ UNCHANGED <<main, optionVars, threadVars, counterVars, global, flush_signaled,
                   flushed, controlVars>>

\* shutdownThread(): the final flush.
FinalFlush ==
    /\ FlushAt("complete")
    /\ flush_signaled
    /\ flush' = "ended"
    /\ flushed' = Counters
    /\ UNCHANGED <<main, optionVars, threadVars, counterVars, global, flush_signaled,
                   loop_exit, controlVars>>

-----------------------------------------------------------------------------
(* The child.                                                              *)

ChildMoves(from, to) ==
    /\ ChildIn(from)
    /\ child' = to
    /\ UNCHANGED <<main, loadVars, fate, lockVars, child_on_term, signalVars>>

\* Without a tunnel, or when Envoy throws, it posts the semaphore and exits.
ChildPosts ==
    /\ ChildMoves({"starting", "initializing"}, "posted")
    /\ sem' = sem + 1

ChildExits ==
    /\ ChildMoves({"posted", "stopping"}, "exited")
    /\ UNCHANGED sem

\* With a tunnel: Envoy's run() handles signals from here on...
EnvoyRuns ==
    /\ tunnel
    /\ ChildMoves({"starting"}, "initializing")
    /\ UNCHANGED sem

\* ...and the PostInit callback posts the semaphore.
EnvoyServes ==
    /\ ChildMoves({"initializing"}, "serving")
    /\ sem' = sem + 1

EnvoyCrashes ==
    /\ tunnel
    /\ ChildMoves({"starting", "initializing", "serving", "stopping"}, "crashed")
    /\ UNCHANGED sem

-----------------------------------------------------------------------------
MainStep ==
    \/ ConstructSignalHandler \/ Fork \/ SemWait \/ SetupSkipped \/ StartWorkers
    \/ WaitForWorkers \/ WaitForFlushWorker \/ Report \/ TerminateEncapSubProcess("main")
    \/ ShutdownFlushWorker \/ ShutdownWorkers \/ JoinWorkers \/ SetDestructing
    \/ RestoreDispositions \/ DestructorChecks \/ DestructorWrites \/ JoinShutdownThread

ShutdownThreadStep ==
    \/ ReadAndClose \/ ClearPipe \/ RestoreBeforeCallback \/ requestExecutionCancellation
    \/ TerminateEncapSubProcess("shutdown_thread")

HandlerStep == HandlerChecks \/ HandlerWrites

WorkerStep(w) == WorkerStarts(w) \/ ExecutionEnds(w) \/ DrainBegins(w) \/ DrainEnds(w)

FlushStep == FlushWorkerStarts \/ FlushLoopExits \/ FinalFlush

Next ==
    \/ MainStep \/ RunFails \/ SetupFails \/ ShutdownThreadStep
    \/ SignalArrives \/ HandlerStep
    \/ \E w \in Workers :
           WorkerStep(w) \/ PostedRuns(w) \/ WarmupEnds(w) \/ ResponseCounted(w)
    \/ FlushStep
    \/ ChildPosts \/ ChildExits \/ EnvoyRuns \/ EnvoyServes \/ EnvoyCrashes

Spec == Init /\ [][Next]_vars

\* Every thread keeps running.  A posted function runs in one of the next turns of its loop,
\* and the drain ends by its timer.  Nothing is assumed of a child with Envoy, of the server's
\* answer to a warm-up call, or of the signals.
Fairness ==
    /\ WF_vars(MainStep)
    /\ WF_vars(ShutdownThreadStep)
    /\ WF_vars(HandlerStep)
    /\ WF_vars(FlushStep)
    /\ WF_vars(~tunnel /\ (ChildPosts \/ ChildExits))
    /\ \A w \in Workers : /\ WF_vars(WorkerStep(w))
                          /\ WF_vars(PostedRuns(w))

FairSpec == Spec /\ Fairness

\* The server answers the warm-up calls.
WarmupAnswered == \A w \in Workers : WF_vars(WarmupEnds(w))

-----------------------------------------------------------------------------
(* Properties.                                                             *)

\* The state has its types; the semaphore is never taken more often than it was posted.
TypeOK ==
    /\ tunnel \in BOOLEAN /\ stats_sinks \in BOOLEAN /\ has_duration \in BOOLEAN
    /\ cancelled \in BOOLEAN /\ destructing \in BOOLEAN /\ written \in BOOLEAN
    /\ flush_signaled \in BOOLEAN /\ loop_exit \in BOOLEAN
    /\ main \in {"constructed", "run", "sem_wait", "setup", "wait", "wait_flush", "report",
                 "shutdown", "lock", "join_flush", "join_workers", "destruct", "restore",
                 "check", "write", "join", "exited"}
    /\ fate \in {"alive", "killed", "aborted"}
    /\ workers_lock \in {"free", "main", "shutdown_thread"}
    /\ terminate_mutex \in {"free", "main", "shutdown_thread"}
    /\ worker \in [Workers -> {"none", "created", "starting", "warmup", "executing",
                               "complete", "draining", "ended"}]
    /\ exit_signaled \subseteq Workers
    /\ posted \subseteq Workers
    /\ graceful_stop_requested \in [Workers -> Nat]
    /\ responses \in [Workers -> Nat]
    /\ threadLocalCounterValues \in [Workers -> Nat]
    /\ global \in [Workers -> Nat]
    /\ flushed \in [Workers -> Nat]
    /\ flush \in {"none", "starting", "running", "complete", "ended"}
    /\ child \in {"none", "starting", "initializing", "posted", "serving", "stopping",
                  "exited", "crashed", "reaped"}
    /\ child_on_term \in {"dies", "notifies", "ignores"}
    /\ sem \in Nat
    /\ disposition \in {"handler", "default"}
    /\ pipe_fds \in {"open", "closed", "cleared"}
    /\ handler \in {"idle", "entered", "checked"}
    /\ shutdown_thread \in {"none", "reading", "closed", "cleared", "callback", "terminate",
                            "done"}
    /\ signals \in Nat

\* The main thread has its results.
Reported == main \notin {"constructed", "run", "sem_wait", "setup", "wait", "wait_flush",
                         "report"}

\* The global numbers, read live by the main thread, line up with the snapshots the workers
\* took, whatever is answered or cancelled meanwhile (process_impl.cc:1135).
GlobalMatchesWorkers == Reported => global = threadLocalCounterValues

\* The final flush to the stats sinks has the numbers of the report: nothing that the
\* workers' shutdown counts (process_impl.cc:669).
FinalFlushMatchesReport == flush = "ended" => flushed = global

\* The shutdown thread calls into the process only while there is one (client.cc:90).
CallbackWithinLifetime ==
    shutdown_thread \in {"callback", "terminate"} => main # "exited"

\* While the cancellation callback runs, or waits for a lock that a hanging shutdown holds,
\* another signal ends the program (signal_handler.cc:43).
SecondSignalEscalates ==
    shutdown_thread \in {"callback", "terminate"} => disposition = "default"

\* The program leaves no child behind, however it was started, cancelled or crashed.
ChildIsReaped == main = "exited" => ~HasChild

\* A cancellation that reported success reaches every worker that is not finished, the
\* ones that start up while it comes in included.
CancellationReachesWorkers ==
    cancelled => \A w \in Workers :
        worker[w] \in {"starting", "warmup", "executing"} =>
            w \in posted \/ graceful_stop_requested[w] > 0

\* shutdown() and ~SignalHandler() come to an end, whatever the shutdown thread is doing
\* and however the child behaves: the two locks and the joins never wait for each other.
\* Without a tunnel and stats sinks, a cancellation that reported success ends the run, too.
ShutdownCompletes ==
    /\ main = "shutdown" ~> main = "exited" \/ fate # "alive"
    /\ WarmupAnswered =>
        (cancelled /\ ~tunnel /\ ~stats_sinks ~> main = "exited" \/ fate # "alive")

\* requestExecutionCancellation() "will request all workers to cancel execution asap"
\* (process.h:28): no worker executes, unaware of it, once the callback has returned.
CancellationNotLost ==
    shutdown_thread = "done" /\ ~destructing => \A w \in Workers :
        worker[w] \in {"starting", "warmup", "executing"} =>
            w \in posted \/ graceful_stop_requested[w] > 0

=============================================================================
