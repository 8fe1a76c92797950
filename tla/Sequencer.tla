----------------------------- MODULE Sequencer -----------------------------
(***************************************************************************)
(* SequencerImpl (source/common/sequencer_impl.cc) on the dispatcher of    *)
(* its worker thread, with the chain of termination predicates it consults *)
(* (source/common/termination_predicate_impl.cc, chained by                *)
(* TerminationPredicateFactoryImpl in source/client/factories_impl.cc).    *)
(*                                                                         *)
(* run() is split where other parties act inside it: its head (sample the  *)
(* time, evaluate the predicates, maybe stop), each tryAcquireOne(), each  *)
(* call of the target, and its tail (which timer to re-enable).  Nothing   *)
(* else of this thread runs in between, but real time passes.  The rate    *)
(* limiter is the specification RateLimiterStack establishes for a stack   *)
(* without jitter: an acquisition succeeds exactly when fewer than Due(t)  *)
(* are in use at the cached time t.  The target is arbitrary: it may       *)
(* refuse, start a call that reports back later, or (when SyncTarget) one  *)
(* that reports back before it returns, as a pool overflow does.           *)
(***************************************************************************)
EXTENDS Integers, Sequences

CONSTANTS
    Duration,          \* of the execution, in ticks
    FailureLimit,      \* threshold of the failure predicate
    SuccessLimit,      \* threshold of the termination predicate
    SyncTarget,        \* the target may report back before it returns
    MaxClock,          \* bound on the model's clock
    MaxInFlight        \* bound on the calls under way at a time

ASSUME SequencerAssumption ==
    /\ SyncTarget \in BOOLEAN
    /\ Duration \in Nat
    /\ FailureLimit \in Nat
    /\ SuccessLimit \in Nat
    /\ MaxClock \in Nat
    /\ MaxInFlight \in Nat

VARIABLES
    idle_strategy,             \* "spin", "sleep" or "poll": fixed by the options
    has_duration,              \* FALSE with --no-duration: fixed by the options
    clock,                     \* real time
    cached,                    \* the dispatcher's approximate monotonic time
    pc,                        \* where the worker thread is
    from,                      \* who called run(): "start", "periodic" or "spin"
    run_now,                   \* run()'s local `now`
    running,
    blocked,
    blocked_start,
    periodic_timer,            \* "off", "armed", or "gone" once reset to null
    spin_timer,
    targets_initiated,
    targets_completed,
    last_termination_status,
    failed_terminations,
    acquired,                  \* acquisitions in use, kept by the rate limiter
    failures,                  \* counters the predicates watch
    successes,
    graceful_stop_requested,
    cancel_posted,             \* a cancellation waits in the dispatcher's queue
    exit_pending               \* dispatcher_.exit() was called

optionVars == <<idle_strategy, has_duration>>
predicateVars == <<failures, successes, graceful_stop_requested, cancel_posted>>
blockVars == <<blocked, blocked_start>>
timerVars == <<periodic_timer, spin_timer>>
targetVars == <<targets_initiated, targets_completed>>
stopVars == <<last_termination_status, failed_terminations, exit_pending>>
vars == <<clock, cached, pc, from, run_now, running, acquired,
          optionVars, predicateVars, blockVars, timerVars, targetVars, stopVars>>

Due(t) == t
InFlight == targets_initiated - targets_completed

-----------------------------------------------------------------------------
(* The termination predicates.                                             *)

Verdict(reached, status) == IF reached THEN status ELSE "PROCEED"

\* Mutation: the duration predicate is not linked.
PredicateChain_NoDuration(t) ==
    << Verdict(graceful_stop_requested > 0, "TERMINATE"),
       "PROCEED",
       Verdict(failures > FailureLimit, "FAIL"),
       Verdict(successes > SuccessLimit, "TERMINATE") >>

\* The chain the factory links, root first, as each predicate evaluates at time t.
PredicateChain(t) ==
    << Verdict(graceful_stop_requested > 0, "TERMINATE"),
       Verdict(has_duration /\ t > Duration, "TERMINATE"),
       Verdict(failures > FailureLimit, "FAIL"),
       Verdict(successes > SuccessLimit, "TERMINATE") >>

\* Mutation: the root of the chain has the last word.
evaluateChain_RootFirst(chain) ==
    LET stops == {i \in DOMAIN chain : chain[i] # "PROCEED"}
    IN  IF stops = {} THEN "PROCEED"
        ELSE chain[CHOOSE i \in stops : \A j \in stops : i <= j]

\* evaluateChain() asks the child first: the predicate linked last has the last word.
evaluateChain(chain) ==
    LET stops == {i \in DOMAIN chain : chain[i] # "PROCEED"}
    IN  IF stops = {} THEN "PROCEED"
        ELSE chain[CHOOSE i \in stops : \A j \in stops : j <= i]

-----------------------------------------------------------------------------
Init ==
    /\ idle_strategy \in {"spin", "sleep", "poll"}
    /\ has_duration \in BOOLEAN
    /\ clock = 0
    /\ cached = 0
    /\ pc = "constructed"
    /\ from = "start"
    /\ run_now = 0
    /\ running = FALSE
    /\ blocked = FALSE
    /\ blocked_start = 0
    /\ periodic_timer = "off"
    /\ spin_timer = "off"
    /\ targets_initiated = 0
    /\ targets_completed = 0
    /\ last_termination_status = "PROCEED"
    /\ failed_terminations = 0
    /\ acquired = 0
    /\ failures = 0
    /\ successes = 0
    /\ graceful_stop_requested = 0
    /\ cancel_posted = FALSE
    /\ exit_pending = FALSE

\* Real time passes, also while run() is under way; MaxClock ends the time that is modelled.
Tick ==
    /\ clock < MaxClock
    /\ clock' = clock + 1
    /\ UNCHANGED <<optionVars, cached, pc, from, run_now, running, acquired,
                   predicateVars, blockVars, timerVars, targetVars, stopVars>>

\* Where the thread goes when run() returns.
AfterRun(caller) == IF caller = "start" THEN "started" ELSE "wait"

\* stop(failed), up to the time it reads for the blocking statistic.
stop(failed) ==
    /\ failed_terminations' = failed_terminations + IF failed THEN 1 ELSE 0
    /\ running' = FALSE
    /\ periodic_timer' = "gone"
    /\ spin_timer' = "gone"
    /\ exit_pending' = TRUE
    /\ blocked' = FALSE
    /\ UNCHANGED blocked_start

\* Mutation: run() does not return after stop().
run_NoReturn(caller, periodic, spin) ==
    /\ cached' = clock
    /\ run_now' = clock
    /\ from' = caller
    /\ last_termination_status' =
            IF last_termination_status = "PROCEED"
            THEN evaluateChain(PredicateChain(clock)) ELSE last_termination_status
    /\ pc' = "acquire"
    /\ IF last_termination_status' # "PROCEED"
       THEN stop(last_termination_status' = "FAIL")
       ELSE /\ running' = TRUE
            /\ periodic_timer' = periodic
            /\ spin_timer' = spin
            /\ UNCHANGED <<blockVars, failed_terminations, exit_pending>>
    /\ UNCHANGED <<optionVars, clock, acquired, targetVars, predicateVars>>

\* The head of run(), entered with the timers in the given states.
run(caller, periodic, spin) ==
    /\ cached' = clock
    /\ run_now' = clock
    /\ from' = caller
    /\ last_termination_status' =
            IF last_termination_status = "PROCEED"
            THEN evaluateChain(PredicateChain(clock)) ELSE last_termination_status
    /\ IF last_termination_status' # "PROCEED"
       THEN /\ stop(last_termination_status' = "FAIL")
            /\ pc' = AfterRun(caller)
       ELSE /\ pc' = "acquire"
            /\ running' = TRUE
            /\ periodic_timer' = periodic
            /\ spin_timer' = spin
            /\ UNCHANGED <<blockVars, failed_terminations, exit_pending>>
    /\ UNCHANGED <<optionVars, clock, acquired, targetVars, predicateVars>>

\* start(): mark us running, enable the periodic timer, run at once.
start ==
    /\ pc = "constructed"
    /\ run("start", "armed", spin_timer)

\* waitForCompletion(): enter the dispatcher's loop, unless we have finished already.
waitForCompletion ==
    /\ pc = "started"
    /\ pc' = IF running THEN "wait" ELSE "done"
    /\ UNCHANGED <<optionVars, clock, cached, from, run_now, running, acquired,
                   predicateVars, blockVars, timerVars, targetVars, stopVars>>

PeriodicTimerFires ==
    /\ pc = "wait"
    /\ periodic_timer = "armed"
    /\ run("periodic", "off", spin_timer)

SpinTimerFires ==
    /\ pc = "wait"
    /\ spin_timer = "armed"
    /\ run("spin", periodic_timer, "off")

\* The condition of run()'s loop; the rate limiter reads the cached time.
tryAcquireOne ==
    /\ pc = "acquire"
    /\ \/ /\ acquired < Due(cached)
          /\ acquired' = acquired + 1
          /\ pc' = "target"
       \/ /\ acquired >= Due(cached)
          /\ pc' = "epilogue"
          /\ UNCHANGED acquired
    /\ UNCHANGED <<optionVars, clock, cached, from, run_now, running, predicateVars,
                   blockVars, timerVars, targetVars, stopVars>>

\* Mutation: the callback enables the spin timer also after stop().
CompletionCallback_Unguarded ==
    /\ cached' = clock
    /\ targets_completed' = targets_completed + 1
    /\ spin_timer' = "armed"
    /\ \/ failures' = failures + 1 /\ UNCHANGED successes
       \/ successes' = successes + 1 /\ UNCHANGED failures

\* The completion callback: refresh the cached time for an accurate latency, count,
\* and have run() called again soon unless we have stopped meanwhile.
CompletionCallback ==
    /\ cached' = clock
    /\ targets_completed' = targets_completed + 1
    /\ spin_timer' = IF running THEN "armed" ELSE spin_timer
    /\ \/ failures' = failures + 1 /\ UNCHANGED successes
       \/ successes' = successes + 1 /\ UNCHANGED failures

\* The target accepts the call; when it reports back at once, the callback runs first.
TargetStarts ==
    /\ pc = "target"
    /\ InFlight < MaxInFlight
    /\ \/ /\ SyncTarget
          /\ CompletionCallback
       \/ UNCHANGED <<cached, targets_completed, spin_timer, failures, successes>>
    /\ blocked' = FALSE
    /\ targets_initiated' = targets_initiated + 1
    /\ pc' = "acquire"
    /\ UNCHANGED <<optionVars, clock, from, run_now, running, acquired,
                   graceful_stop_requested, cancel_posted, blocked_start, periodic_timer,
                   stopVars>>

\* Mutation: the acquisition is not handed back.
TargetRefuses_NotReleased ==
    /\ pc = "target"
    /\ blocked' = TRUE
    /\ blocked_start' = IF blocked THEN blocked_start ELSE cached
    /\ pc' = "epilogue"
    /\ UNCHANGED <<optionVars, clock, cached, from, run_now, running, acquired,
                   predicateVars, timerVars, targetVars, stopVars>>

\* The target refuses: note when blocking began, hand the acquisition back, retry later.
TargetRefuses ==
    /\ pc = "target"
    /\ blocked' = TRUE
    /\ blocked_start' = IF blocked THEN blocked_start ELSE cached
    /\ acquired' = acquired - 1
    /\ pc' = "epilogue"
    /\ UNCHANGED <<optionVars, clock, cached, from, run_now, running, predicateVars,
                   timerVars, targetVars, stopVars>>

\* The tail of run(): which timer brings us back.
RunEpilogue ==
    /\ pc = "epilogue"
    /\ \/ /\ from = "periodic"
          /\ periodic_timer' = "armed"
          /\ UNCHANGED spin_timer
       \/ /\ from # "periodic"
          /\ \/ idle_strategy = "spin" /\ targets_initiated = targets_completed
             \/ idle_strategy = "sleep"
          /\ spin_timer' = "armed"
          /\ UNCHANGED periodic_timer
       \/ /\ from # "periodic"
          /\ \/ idle_strategy = "spin" /\ targets_initiated # targets_completed
             \/ idle_strategy = "poll"
          /\ UNCHANGED timerVars
    /\ pc' = AfterRun(from)
    /\ UNCHANGED <<optionVars, clock, cached, from, run_now, running, acquired,
                   predicateVars, blockVars, targetVars, stopVars>>

\* A call reports back from the event loop: the one of waitForCompletion(), or the one
\* the worker's teardown runs after it.
TargetReportsBack ==
    /\ pc \in {"wait", "teardown"}
    /\ InFlight > 0
    /\ CompletionCallback
    /\ UNCHANGED <<optionVars, clock, pc, from, run_now, running, acquired,
                   graceful_stop_requested, cancel_posted, blockVars, periodic_timer,
                   targets_initiated, stopVars>>

\* The dispatcher's loop ends after exit(); events already due may run before that.
LoopExits ==
    /\ pc = "wait"
    /\ exit_pending
    /\ exit_pending' = FALSE
    /\ pc' = "done"
    /\ UNCHANGED <<optionVars, clock, cached, from, run_now, running, acquired,
                   predicateVars, blockVars, timerVars, targetVars,
                   last_termination_status, failed_terminations>>

\* The worker tears down: BenchmarkClient::terminate() runs the dispatcher once more.
Teardown ==
    /\ pc = "done"
    /\ pc' = "teardown"
    /\ UNCHANGED <<optionVars, clock, cached, from, run_now, running, acquired,
                   predicateVars, blockVars, timerVars, targetVars, stopVars>>

\* Another thread asks this worker to stop (ClientWorkerImpl::requestExecutionCancellation
\* posts to the dispatcher) ...
requestExecutionCancellation ==
    /\ ~cancel_posted
    /\ graceful_stop_requested = 0
    /\ cancel_posted' = TRUE
    /\ UNCHANGED <<optionVars, clock, cached, pc, from, run_now, running, acquired,
                   failures, successes, graceful_stop_requested, blockVars, timerVars,
                   targetVars, stopVars>>

\* ... and the dispatcher gets round to it, possibly before start(): the worker's warm-up
\* runs the dispatcher too.
RunPostedCancellation ==
    /\ pc \in {"constructed", "wait", "teardown"}
    /\ cancel_posted
    /\ cancel_posted' = FALSE
    /\ graceful_stop_requested' = graceful_stop_requested + 1
    /\ UNCHANGED <<optionVars, clock, cached, pc, from, run_now, running, acquired,
                   failures, successes, blockVars, timerVars, targetVars, stopVars>>

WorkerStep ==
    \/ start
    \/ waitForCompletion
    \/ PeriodicTimerFires
    \/ SpinTimerFires
    \/ tryAcquireOne
    \/ TargetStarts
    \/ TargetRefuses
    \/ RunEpilogue
    \/ LoopExits

Next ==
    \/ Tick
    \/ WorkerStep
    \/ TargetReportsBack
    \/ RunPostedCancellation
    \/ Teardown
    \/ requestExecutionCancellation

Spec == Init /\ [][Next]_vars

\* Time passes; the worker thread keeps running its event loop, in which an armed timer
\* fires; a function posted to the dispatcher runs in one of the loop's next turns even
\* though timers keep firing.  Nothing is assumed of who cancels, nor of when the target
\* reports back; that the clock stops at MaxClock ends a loop of calls answered at once,
\* which the code would go on with (KeptInTheLoop).
Fairness ==
    /\ WF_vars(Tick)
    /\ WF_vars(WorkerStep)
    /\ SF_vars(RunPostedCancellation)

FairSpec == Spec /\ Fairness

-----------------------------------------------------------------------------
(* Properties.                                                             *)

\* The types of the state.
TypeOK ==
    /\ idle_strategy \in {"spin", "sleep", "poll"} /\ has_duration \in BOOLEAN
    /\ clock \in Nat /\ cached \in Nat /\ run_now \in Nat /\ blocked_start \in Nat
    /\ pc \in {"constructed", "acquire", "target", "epilogue", "started", "wait",
               "done", "teardown"}
    /\ from \in {"start", "periodic", "spin"}
    /\ running \in BOOLEAN /\ blocked \in BOOLEAN
    /\ periodic_timer \in {"off", "armed", "gone"}
    /\ spin_timer \in {"off", "armed", "gone"}
    /\ targets_initiated \in Nat /\ targets_completed \in Nat
    /\ last_termination_status \in {"PROCEED", "TERMINATE", "FAIL"}
    /\ failed_terminations \in Nat
    /\ acquired \in Nat
    /\ failures \in Nat /\ successes \in Nat
    /\ graceful_stop_requested \in Nat
    /\ cancel_posted \in BOOLEAN /\ exit_pending \in BOOLEAN

Stopped == pc # "constructed" /\ ~running

\* Stopping is final and complete: both timers stay destroyed although callbacks of
\* calls under way keep coming in during the worker's teardown (enabling a timer then
\* would dereference null), the blocking interval is closed, and failed_terminations
\* reports the verdict exactly once.
StopIsComplete ==
    Stopped =>
        /\ periodic_timer = "gone"
        /\ spin_timer = "gone"
        /\ ~blocked
        /\ last_termination_status # "PROCEED"
        /\ failed_terminations = IF last_termination_status = "FAIL" THEN 1 ELSE 0

\* A sequencer that waits in the event loop will be woken: the periodic timer is armed,
\* and so is the spin timer whenever the idle strategy asks for it -- for SPIN, as soon
\* as no call is under way, no matter which timer led to the last run().
AlwaysWokenAgain ==
    running /\ pc = "wait" =>
        /\ periodic_timer = "armed"
        /\ idle_strategy = "spin" /\ InFlight = 0 => spin_timer = "armed"
        /\ idle_strategy = "sleep" => spin_timer = "armed"

\* run() and the timers only execute while running, and waitForCompletion() returns only
\* after stop(): the ASSERTs of run(), stop() and waitForCompletion().
RunningAsserted ==
    /\ pc \in {"acquire", "target", "epilogue"} => running
    /\ pc \in {"done", "teardown"} => ~running
    /\ pc = "wait" /\ ~running => exit_pending

\* The rate limiter's books agree with the sequencer's: every acquisition is a call the
\* target accepted, or the one being offered to it, and none is completed twice.
AcquisitionsAccountedFor ==
    /\ acquired = targets_initiated + IF pc = "target" THEN 1 ELSE 0
    /\ targets_completed <= targets_initiated
    /\ failures + successes = targets_completed

\* The blocking interval that run() is about to close, with its own time sample, did not
\* begin after that sample: blocked_statistic never receives a negative duration.
BlockingNeverNegative ==
    blocked =>
        /\ blocked_start <= cached
        /\ pc \in {"acquire", "target"} => blocked_start <= run_now

\* The verdict, once reached, is latched, and nothing is initiated after it.
VerdictIsLatched ==
    [][ last_termination_status # "PROCEED" =>
            /\ last_termination_status' = last_termination_status
            /\ targets_initiated' = targets_initiated
            /\ ~running' ]_vars

\* A failure that was counted when the execution stops is reported as such, even if the
\* duration has expired or a cancellation arrived too; only an explicit termination
\* predicate takes precedence.
FailureIsNotMasked ==
    [][ (running /\ ~running' /\ failures > FailureLimit /\ successes <= SuccessLimit)
            => failed_terminations' = 1 ]_vars

\* One run() has been carried from its time sample to the end of the model's time without
\* leaving its loop.  Only calls answered before they return do that: each refreshes the
\* cached time, so the rate limiter may always have one more acquisition to give.  The code
\* bounds neither their number nor their time, and consults no predicate in between.
KeptInTheLoop == pc \in {"acquire", "target"} /\ run_now < cached /\ cached = MaxClock

\* An execution that has a reason to end ends: its duration expires, or a cancellation is
\* posted to the worker.  That holds of a target that refuses, delays or loses any of its
\* calls, and not of one that answers at once for as long as it is asked: such a target
\* keeps run() in its loop, away from the predicates and from the dispatcher's queue.
Terminates ==
    /\ has_duration /\ pc = "started" ~> pc = "done" \/ KeptInTheLoop
    /\ cancel_posted /\ running ~> ~running \/ KeptInTheLoop

\* Each step of the sequencer is a step of the execution it promises.
Execution == INSTANCE LoadExecution WITH
    phase <- IF pc = "constructed" THEN "ready" ELSE IF running THEN "active" ELSE "over",
    initiated <- targets_initiated,
    completed <- targets_completed,
    verdict <- last_termination_status

\* The sequencer implements LoadExecution.
ImplementsLoadExecution == Execution!Spec

=============================================================================
