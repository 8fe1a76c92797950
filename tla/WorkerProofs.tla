---------------------------- MODULE WorkerProofs ----------------------------
(***************************************************************************)
(* Proofs about what runs inside a worker: its sequencer, for every idle   *)
(* strategy, duration, threshold, kind of target and bound (Sequencer),    *)
(* and its request source, for every batch size, every set of specifiers a *)
(* service may send, and every options list (RequestSource).               *)
(***************************************************************************)
EXTENDS Sequencer, RequestSource, TLAPS

LEMMA Predecessor == \A n \in Nat : (n + 1) - 1 = n
  OBVIOUS

-----------------------------------------------------------------------------
(* The sequencer.                                                          *)

Statuses == {"PROCEED", "TERMINATE", "FAIL"}

\* A nonempty set of positions in a chain of four has a last one.
LEMMA LastPosition ==
    ASSUME NEW S, S \subseteq 1..4, S # {}
    PROVE  \E i \in S : \A j \in S : j <= i
<1>1. CASE 4 \in S
  BY <1>1
<1>2. CASE 4 \notin S /\ 3 \in S
  BY <1>2
<1>3. CASE 4 \notin S /\ 3 \notin S /\ 2 \in S
  BY <1>3
<1>4. CASE 4 \notin S /\ 3 \notin S /\ 2 \notin S
  <2>1. \A j \in S : j = 1
    BY <1>4
  <2>2. PICK i \in S : TRUE
    BY Zenon
  <2>3. \A j \in S : j <= i
    BY <2>1, <2>2
  <2> QED
    BY <2>2, <2>3
<1> QED
  BY <1>1, <1>2, <1>3, <1>4

\* evaluateChain() on the factory's chain yields a status, and PROCEED only if every
\* predicate proceeds.
LEMMA EvaluateChainYieldsStatus ==
    \A t : evaluateChain(PredicateChain(t)) \in Statuses
<1> TAKE t
<1> DEFINE chain == PredicateChain(t)
           stops == {i \in DOMAIN chain : chain[i] # "PROCEED"}
<1>1. /\ DOMAIN chain = 1..4
      /\ \A i \in 1..4 : chain[i] \in Statuses
  BY DEF PredicateChain, Verdict, Statuses
<1>2. CASE stops = {}
  BY <1>2 DEF evaluateChain, Statuses
<1>3. CASE stops # {}
  <2>1. \E i \in stops : \A j \in stops : j <= i
    <3>1. stops \subseteq 1..4
      BY <1>1
    <3> HIDE DEF stops
    <3> QED
      BY <1>3, <3>1, LastPosition, Zenon
  <2>2. PICK i \in stops : evaluateChain(chain) = chain[i]
    BY <1>3, <2>1, Zenon DEF evaluateChain
  <2> QED
    BY <1>1, <2>2
<1> QED
  BY <1>2, <1>3

\* A failure predicate that has tripped decides, unless a termination predicate does.
LEMMA FailurePredicateDecides ==
    ASSUME failures > FailureLimit, ~(successes > SuccessLimit)
    PROVE  \A t : evaluateChain(PredicateChain(t)) = "FAIL"
<1> TAKE t
<1> DEFINE chain == PredicateChain(t)
           stops == {i \in DOMAIN chain : chain[i] # "PROCEED"}
<1>1. DOMAIN chain = 1..4 /\ chain[3] = "FAIL" /\ chain[4] = "PROCEED"
  BY DEF PredicateChain, Verdict
<1>2. stops \subseteq 1..3 /\ 3 \in stops
  BY <1>1
<1>3. (CHOOSE i \in stops : \A j \in stops : j <= i) = 3
  <2> HIDE DEF stops
  <2>1. \A j \in stops : j <= 3
    BY <1>2
  <2>2. \A i \in stops : (\A j \in stops : j <= i) => i = 3
    BY <1>2
  <2> QED
    BY <1>2, <2>1, <2>2, Zenon
<1> QED
  BY <1>1, <1>2, <1>3 DEF evaluateChain

-----------------------------------------------------------------------------
InRun == pc \in {"acquire", "target", "epilogue"}

\* How the control state, running_ and the verdict hang together.
ControlInv ==
    /\ pc = "constructed" => /\ ~running
                             /\ ~exit_pending
                             /\ last_termination_status = "PROCEED"
                             /\ failed_terminations = 0
                             /\ targets_initiated = 0
                             /\ periodic_timer = "off"
                             /\ spin_timer = "off"
    /\ running => last_termination_status = "PROCEED" /\ failed_terminations = 0
    /\ exit_pending => ~running

\* What holds of the timers in the middle of run(), so that AlwaysWokenAgain holds after it.
SpinAsNeeded ==
    /\ idle_strategy = "spin" /\ InFlight = 0 => spin_timer = "armed"
    /\ idle_strategy = "sleep" => spin_timer = "armed"
TimerInv ==
    running =>
        /\ periodic_timer # "gone" /\ spin_timer # "gone"
        /\ InRun /\ from = "periodic" => SpinAsNeeded
        /\ InRun /\ from # "periodic" => periodic_timer = "armed"
        /\ ~InRun => periodic_timer = "armed" /\ SpinAsNeeded

\* The order of the time samples.
TimeInv == run_now <= cached /\ cached <= clock

IInv ==
    /\ TypeOK
    /\ RunningAsserted
    /\ StopIsComplete
    /\ AcquisitionsAccountedFor
    /\ BlockingNeverNegative
    /\ ControlInv
    /\ TimerInv
    /\ TimeInv

\* The invariant holds in a freshly constructed sequencer.
LEMMA InitIInv == Init => IInv
<1> SUFFICES ASSUME Init PROVE IInv
  OBVIOUS
<1> USE DEF Init
<1>1. TypeOK
  BY Zenon DEF TypeOK
<1>2. RunningAsserted /\ StopIsComplete /\ AcquisitionsAccountedFor /\ BlockingNeverNegative
  BY DEF RunningAsserted, StopIsComplete, Stopped, AcquisitionsAccountedFor,
         BlockingNeverNegative
<1>3. ControlInv /\ TimerInv /\ TimeInv
  BY DEF ControlInv, TimerInv, TimeInv
<1> QED
  BY <1>1, <1>2, <1>3 DEF IInv

-----------------------------------------------------------------------------
\* The head of run() preserves the invariant, whoever calls it: the caller finds the
\* sequencer constructed (start) or running in the event loop, and passes timers that
\* will do if the run goes on.
LEMMA RunPreservesIInv ==
    ASSUME IInv,
           NEW caller \in {"start", "periodic", "spin"},
           NEW periodic \in {"off", "armed"},
           NEW spin \in {"off", "armed"},
           \/ pc = "constructed"
           \/ pc = "wait" /\ running,
           caller = "periodic" =>
              /\ idle_strategy = "spin" /\ InFlight = 0 => spin = "armed"
              /\ idle_strategy = "sleep" => spin = "armed",
           caller # "periodic" => periodic = "armed",
           run(caller, periodic, spin)
    PROVE  IInv'
<1> USE DEF run, optionVars, predicateVars, blockVars, timerVars, targetVars, stopVars
<1>1. last_termination_status = "PROCEED" /\ failed_terminations = 0
  BY DEF IInv, ControlInv
<1>2. last_termination_status' \in Statuses
  BY <1>1, EvaluateChainYieldsStatus
<1>3. CASE last_termination_status' = "PROCEED"
  <2>1. /\ pc' = "acquire" /\ running' = TRUE
        /\ periodic_timer' = periodic /\ spin_timer' = spin
        /\ UNCHANGED <<blocked, blocked_start, failed_terminations, exit_pending>>
    BY <1>3
  <2>2. TypeOK'
    BY <1>2, <2>1 DEF IInv, TypeOK, Statuses
  <2>3. exit_pending = FALSE
    BY DEF IInv, TypeOK, ControlInv, RunningAsserted
  <2>4. RunningAsserted' /\ StopIsComplete'
    BY <2>1 DEF RunningAsserted, StopIsComplete, Stopped
  <2>5. AcquisitionsAccountedFor'
    BY <2>1 DEF IInv, AcquisitionsAccountedFor
  <2>6. BlockingNeverNegative' /\ TimeInv'
    BY <2>1 DEF IInv, TypeOK, BlockingNeverNegative, TimeInv
  <2>7. ControlInv'
    BY <1>1, <1>3, <2>1, <2>3 DEF ControlInv
  <2>8. TimerInv'
    BY <2>1 DEF TimerInv, SpinAsNeeded, InRun, InFlight
  <2> QED
    BY <2>2, <2>4, <2>5, <2>6, <2>7, <2>8 DEF IInv
<1>4. CASE last_termination_status' # "PROCEED"
  <2>1. /\ stop(last_termination_status' = "FAIL")
        /\ pc' = AfterRun(caller)
    BY <1>4
  <2>2. /\ running' = FALSE /\ periodic_timer' = "gone" /\ spin_timer' = "gone"
        /\ exit_pending' = TRUE /\ blocked' = FALSE /\ blocked_start' = blocked_start
        /\ failed_terminations' = IF last_termination_status' = "FAIL" THEN 1 ELSE 0
        /\ pc' \in {"started", "wait"}
    BY <1>1, <2>1 DEF stop, AfterRun
  <2>3. TypeOK'
    BY <1>2, <2>2, Zenon DEF IInv, TypeOK, Statuses
  <2>4. RunningAsserted'
    BY <2>2 DEF RunningAsserted
  <2>5. StopIsComplete'
    BY <1>4, <2>2 DEF StopIsComplete, Stopped
  <2>6. AcquisitionsAccountedFor'
    BY <2>2 DEF IInv, AcquisitionsAccountedFor
  <2>7. BlockingNeverNegative' /\ TimeInv'
    BY <2>2 DEF IInv, TypeOK, BlockingNeverNegative, TimeInv
  <2>8. ControlInv' /\ TimerInv'
    BY <2>2 DEF ControlInv, TimerInv
  <2> QED
    BY <2>3, <2>4, <2>5, <2>6, <2>7, <2>8 DEF IInv
<1> QED
  BY <1>3, <1>4

\* Every step preserves the invariant: one step per action.
LEMMA NextIInv == IInv /\ [Next]_vars => IInv'
<1> SUFFICES ASSUME IInv, [Next]_vars PROVE IInv'
  OBVIOUS
<1> USE DEF optionVars, predicateVars, blockVars, timerVars, targetVars, stopVars
<1>t. TypeOK /\ TimerInv /\ ControlInv /\ RunningAsserted /\ StopIsComplete
  BY DEF IInv
<1>1. CASE start
  <2>1. spin_timer = "off" /\ pc = "constructed"
    BY <1>1, <1>t DEF start, ControlInv
  <2> QED
    BY <1>1, <2>1, RunPreservesIInv DEF start
<1>2. CASE PeriodicTimerFires
  <2>1. pc = "wait" /\ running
    BY <1>2, <1>t DEF PeriodicTimerFires, StopIsComplete, Stopped
  <2>2. spin_timer \in {"off", "armed"} /\ SpinAsNeeded
    BY <2>1, <1>t DEF TypeOK, TimerInv, InRun
  <2> QED
    BY <1>2, <2>1, <2>2, RunPreservesIInv DEF PeriodicTimerFires, SpinAsNeeded
<1>3. CASE SpinTimerFires
  <2>1. pc = "wait" /\ running
    BY <1>3, <1>t DEF SpinTimerFires, StopIsComplete, Stopped
  <2>2. periodic_timer = "armed"
    BY <2>1, <1>t DEF TimerInv, InRun
  <2> QED
    BY <1>3, <2>1, <2>2, RunPreservesIInv DEF SpinTimerFires
<1> USE DEF IInv, TypeOK, RunningAsserted, StopIsComplete, Stopped,
            AcquisitionsAccountedFor, BlockingNeverNegative, ControlInv, TimerInv,
            SpinAsNeeded, InRun, InFlight, TimeInv
<1>4. CASE Tick
  BY <1>4 DEF Tick
<1>5. CASE waitForCompletion
  BY <1>5 DEF waitForCompletion
<1>6. CASE tryAcquireOne
  BY <1>6 DEF tryAcquireOne
<1>7. CASE TargetStarts
  <2>1. running /\ acquired = targets_initiated + 1
    BY <1>7 DEF TargetStarts
  <2>2. /\ spin_timer' \in {spin_timer, "armed"}
        /\ targets_completed' = targets_completed => spin_timer' = spin_timer
        /\ targets_completed' # targets_completed => spin_timer' = "armed"
        /\ targets_completed' \in {targets_completed, targets_completed + 1}
    BY <1>7, <2>1 DEF TargetStarts, CompletionCallback
  <2>a. failures' \in Nat /\ successes' \in Nat /\ cached' \in Nat
    BY <1>7 DEF TargetStarts, CompletionCallback
  <2>b. targets_completed' = targets_completed => InFlight' # 0
    BY <1>7, <2>1 DEF TargetStarts
  <2>3. TypeOK'
    <3>1. targets_initiated' \in Nat /\ targets_completed' \in Nat
      BY <1>7, <2>2 DEF TargetStarts
    <3>2. blocked' = FALSE /\ spin_timer' \in {"off", "armed", "gone"} /\ pc' = "acquire"
      BY <1>7, <2>2, Zenon DEF TargetStarts
    <3> QED
      BY <1>7, <2>a, <3>1, <3>2, Zenon DEF TargetStarts
  <2>8. RunningAsserted' /\ StopIsComplete'
    BY <1>7, <2>1 DEF TargetStarts
  <2>4. AcquisitionsAccountedFor'
    BY <1>7, <2>1 DEF TargetStarts, CompletionCallback
  <2>5. BlockingNeverNegative' /\ TimeInv'
    BY <1>7 DEF TargetStarts, CompletionCallback
  <2>6. ControlInv'
    BY <1>7, <2>1 DEF TargetStarts
  <2>7. TimerInv'
    <3>1. running' /\ InRun' /\ from' = from /\ periodic_timer' = periodic_timer
      BY <1>7, <2>1 DEF TargetStarts
    <3>2. InRun
      BY <1>7 DEF TargetStarts
    <3>4. idle_strategy' = idle_strategy
      BY <1>7 DEF TargetStarts
    <3>3. from = "periodic" => SpinAsNeeded'
      BY <2>1, <2>2, <2>b, <3>2, <3>4, Zenon
    <3> QED
      BY <2>1, <2>2, <3>1, <3>2, <3>3, Zenon
  <2> QED
    BY <2>3, <2>4, <2>5, <2>6, <2>7, <2>8, Zenon
<1>8. CASE TargetRefuses
  BY <1>8 DEF TargetRefuses
<1>9. CASE RunEpilogue
  BY <1>9 DEF RunEpilogue, AfterRun
<1>10. CASE LoopExits
  BY <1>10, Zenon DEF LoopExits
<1>11. CASE TargetReportsBack
  BY <1>11 DEF TargetReportsBack, CompletionCallback
<1>12. CASE RunPostedCancellation
  <2>1. TypeOK'
    <3>1. graceful_stop_requested' \in Nat
      BY <1>12 DEF RunPostedCancellation
    <3>2. cancel_posted' = FALSE
      BY <1>12, Zenon DEF RunPostedCancellation
    <3> QED
      BY <1>12, <3>1, <3>2, Zenon DEF RunPostedCancellation
  <2>2. RunningAsserted' /\ StopIsComplete' /\ AcquisitionsAccountedFor'
    BY <1>12 DEF RunPostedCancellation
  <2>3. BlockingNeverNegative' /\ TimeInv' /\ ControlInv' /\ TimerInv'
    BY <1>12, Zenon DEF RunPostedCancellation
  <2> QED
    BY <2>1, <2>2, <2>3, Zenon
<1>13. CASE Teardown
  BY <1>13 DEF Teardown
<1>14. CASE requestExecutionCancellation
  BY <1>14 DEF requestExecutionCancellation
<1>15. CASE UNCHANGED vars
  BY <1>15 DEF vars
<1> QED
  BY <1>1, <1>2, <1>3, <1>4, <1>5, <1>6, <1>7, <1>8, <1>9, <1>10, <1>11, <1>12, <1>13, Zenon,
     <1>14, <1>15 DEF Next, WorkerStep

\* The invariant holds in every reachable state.
THEOREM SequencerInvariant == Spec => []IInv
<1>1. Init => IInv
  BY InitIInv
<1>2. IInv /\ [Next]_vars => IInv'
  BY NextIInv
<1> QED
  BY <1>1, <1>2, PTL DEF Spec

\* The state keeps its types.
THEOREM SequencerTypes == Spec => []TypeOK
<1>1. IInv => TypeOK
  BY DEF IInv
<1> QED
  BY <1>1, SequencerInvariant, PTL

\* stop() is final: no callback that comes in after it brings a timer back.
THEOREM StopIsFinal == Spec => []StopIsComplete
<1>1. IInv => StopIsComplete
  BY DEF IInv
<1> QED
  BY <1>1, SequencerInvariant, PTL

\* A sequencer waiting in its event loop has a timer armed that its idle strategy wants.
THEOREM NeverLeftAsleep == Spec => []AlwaysWokenAgain
<1>1. IInv => AlwaysWokenAgain
  BY DEF IInv, TimerInv, SpinAsNeeded, InRun, AlwaysWokenAgain
<1> QED
  BY <1>1, SequencerInvariant, PTL

\* The ASSERTs on running_ hold.
THEOREM RunningAssertsHold == Spec => []RunningAsserted
<1>1. IInv => RunningAsserted
  BY DEF IInv
<1> QED
  BY <1>1, SequencerInvariant, PTL

\* Rate limiter and sequencer keep the same books.
THEOREM AcquisitionsBalance == Spec => []AcquisitionsAccountedFor
<1>1. IInv => AcquisitionsAccountedFor
  BY DEF IInv
<1> QED
  BY <1>1, SequencerInvariant, PTL

\* No blocking interval is reported with a negative length.
THEOREM BlockingIntervalsOrdered == Spec => []BlockingNeverNegative
<1>1. IInv => BlockingNeverNegative
  BY DEF IInv
<1> QED
  BY <1>1, SequencerInvariant, PTL

-----------------------------------------------------------------------------
\* Nothing starts, and the verdict stays, once there is one.
THEOREM VerdictLatches == Spec => VerdictIsLatched
<1> DEFINE A == last_termination_status # "PROCEED" =>
                    /\ last_termination_status' = last_termination_status
                    /\ targets_initiated' = targets_initiated
                    /\ ~running'
<1>1. IInv /\ [Next]_vars => [A]_vars
  <2> SUFFICES ASSUME IInv, Next, last_termination_status # "PROCEED"
               PROVE  A
    OBVIOUS
  <2> USE DEF optionVars, predicateVars, blockVars, timerVars, targetVars, stopVars
  <2>1. /\ ~running /\ pc # "constructed"
        /\ periodic_timer = "gone" /\ spin_timer = "gone"
    BY DEF IInv, ControlInv, StopIsComplete, Stopped
  <2>2. pc \notin {"acquire", "target", "epilogue"}
    BY <2>1 DEF IInv, RunningAsserted
  <2>3. ~start /\ ~PeriodicTimerFires /\ ~SpinTimerFires /\ ~TargetStarts
    BY <2>1, <2>2 DEF start, PeriodicTimerFires, SpinTimerFires, TargetStarts
  <2> QED
    BY <2>1, <2>2, <2>3, Zenon
    DEF Next, WorkerStep, Tick, waitForCompletion, tryAcquireOne, TargetRefuses, RunEpilogue,
        LoopExits, TargetReportsBack, CompletionCallback, RunPostedCancellation, Teardown,
        requestExecutionCancellation
<1> QED
  BY <1>1, SequencerInvariant, PTL DEF Spec, VerdictIsLatched

\* A counted failure is the verdict, whatever else has come to an end by then.
THEOREM FailureDecides == Spec => FailureIsNotMasked
<1> DEFINE A == (running /\ ~running' /\ failures > FailureLimit /\ successes <= SuccessLimit)
                    => failed_terminations' = 1
<1>1. IInv /\ [Next]_vars => [A]_vars
  <2> SUFFICES ASSUME IInv, Next, running, ~running',
                      failures > FailureLimit, successes <= SuccessLimit
               PROVE  failed_terminations' = 1
    OBVIOUS
  <2>1. last_termination_status = "PROCEED" /\ failed_terminations = 0
    BY DEF IInv, ControlInv
  <2>2. ASSUME NEW c, NEW p, NEW s, run(c, p, s)
        PROVE  failed_terminations' = 1
    <3>1. ~(successes > SuccessLimit)
      BY SequencerAssumption DEF IInv, TypeOK
    <3>2. evaluateChain(PredicateChain(clock)) = "FAIL"
      BY <3>1, FailurePredicateDecides
    <3>3. last_termination_status' = "FAIL"
      BY <2>1, <2>2, <3>2 DEF run
    <3>4. stop(TRUE)
      BY <2>2, <3>3, Zenon DEF run
    <3> QED
      BY <2>1, <3>4 DEF stop
  <2>3. CASE start \/ PeriodicTimerFires \/ SpinTimerFires
    BY <2>2, <2>3 DEF start, PeriodicTimerFires, SpinTimerFires
  <2>4. CASE ~(start \/ PeriodicTimerFires \/ SpinTimerFires)
    <3>1. running' = running
      BY <2>4, Zenon DEF Next, WorkerStep, Tick, waitForCompletion, tryAcquireOne, TargetStarts,
            TargetRefuses, RunEpilogue, LoopExits, TargetReportsBack,
            RunPostedCancellation, Teardown, requestExecutionCancellation
    <3> QED
      BY <3>1
  <2> QED
    BY <2>3, <2>4
<1> QED
  BY <1>1, SequencerInvariant, PTL DEF Spec, FailureIsNotMasked

-----------------------------------------------------------------------------
\* The head of run() maps to the beginning of the execution, to its end, or to nothing.
LEMMA RunRefines ==
    ASSUME IInv,
           NEW caller, NEW periodic, NEW spin,
           \/ pc = "constructed"
           \/ pc = "wait" /\ running,
           run(caller, periodic, spin)
    PROVE  [Execution!Next]_(Execution!execution)
<1> DEFINE abstract == IF pc = "constructed" THEN "ready"
                    ELSE IF running THEN "active" ELSE "over"
<1>1. last_termination_status = "PROCEED"
  BY DEF IInv, ControlInv
<1>2. last_termination_status' \in Statuses
  BY <1>1, EvaluateChainYieldsStatus DEF run
<1>3. UNCHANGED <<targets_initiated, targets_completed>>
  BY DEF run, targetVars
<1>4. abstract = "ready" \/ abstract = "active"
  BY DEF IInv, ControlInv
<1>5. CASE last_termination_status' = "PROCEED"
  <2>1. abstract' = "active"
    BY <1>5 DEF run
  <2>2. CASE abstract = "ready"
    <3>1. Execution!Begin
      BY <1>1, <1>3, <1>5, <2>1, <2>2 DEF Execution!Begin
    <3> QED
      BY <3>1 DEF Execution!Next
  <2>3. CASE abstract = "active"
    BY <1>1, <1>3, <1>5, <2>1, <2>3 DEF Execution!execution
  <2> QED
    BY <1>4, <2>2, <2>3
<1>6. CASE last_termination_status' # "PROCEED"
  <2>1. abstract' = "over"
    BY <1>6 DEF run, stop, AfterRun
  <2>2. Execution!Finish
    BY <1>2, <1>3, <1>4, <1>6, <2>1 DEF Execution!Finish, Statuses
  <2> QED
    BY <2>2 DEF Execution!Next
<1> QED
  BY <1>5, <1>6

\* Each step of the sequencer is a step of LoadExecution, or leaves its state alone.
LEMMA NextRefines == IInv /\ [Next]_vars => [Execution!Next]_(Execution!execution)
<1> SUFFICES ASSUME IInv, [Next]_vars PROVE [Execution!Next]_(Execution!execution)
  OBVIOUS
<1> USE DEF optionVars, predicateVars, blockVars, timerVars, targetVars, stopVars
<1>1. CASE start
  BY <1>1, RunRefines DEF start
<1>2. CASE PeriodicTimerFires \/ SpinTimerFires
  <2>1. pc = "wait" /\ running
    BY <1>2 DEF PeriodicTimerFires, SpinTimerFires, IInv, StopIsComplete, Stopped
  <2> QED
    BY <1>2, <2>1, RunRefines DEF PeriodicTimerFires, SpinTimerFires
<1>3. CASE TargetStarts
  <2>1. running /\ pc # "constructed"
    BY <1>3 DEF TargetStarts, IInv, RunningAsserted
  <2>2. targets_completed' \in {targets_completed, targets_completed + 1}
    BY <1>3 DEF TargetStarts, CompletionCallback
  <2>3. Execution!Initiate
    BY <1>3, <2>1, <2>2 DEF TargetStarts, Execution!Initiate
  <2> QED
    BY <2>3 DEF Execution!Next
<1>4. CASE TargetReportsBack
  <2>1. targets_completed < targets_initiated
    BY <1>4 DEF TargetReportsBack, InFlight, IInv, TypeOK
  <2>2. Execution!Complete
    BY <1>4, <2>1, Zenon DEF TargetReportsBack, CompletionCallback, Execution!Complete
  <2> QED
    BY <2>2 DEF Execution!Next
<1>5. CASE Tick \/ waitForCompletion \/ tryAcquireOne \/ TargetRefuses \/ RunEpilogue
  BY <1>5 DEF Tick, waitForCompletion, tryAcquireOne, TargetRefuses, RunEpilogue, AfterRun,
              Execution!execution
<1>6. CASE LoopExits \/ RunPostedCancellation \/ Teardown \/ requestExecutionCancellation
  BY <1>6 DEF LoopExits, RunPostedCancellation, Teardown, requestExecutionCancellation,
              Execution!execution
<1>7. CASE UNCHANGED vars
  BY <1>7 DEF vars, Execution!execution
<1> QED
  BY <1>1, <1>2, <1>3, <1>4, <1>5, <1>6, <1>7 DEF Next, WorkerStep

\* SequencerImpl implements the execution it promises, for every choice of the constants.
THEOREM SequencerRefinesLoadExecution == Spec => ImplementsLoadExecution
<1>1. Init => Execution!Init
  BY DEF Init, Execution!Init
<1>2. IInv /\ [Next]_vars => [Execution!Next]_(Execution!execution)
  BY NextRefines
<1> QED
  BY <1>1, <1>2, SequencerInvariant, PTL DEF Spec, ImplementsLoadExecution, Execution!Spec

-----------------------------------------------------------------------------
(* The request sources.                                                    *)

\* What can be yielded, by any kind of source.
Yieldable ==
    {messageToRequest(m) : m \in Specifiers}
    \cup {EntryRequest(OptionsList[(n % Len(OptionsList)) + 1]) : n \in Nat}
    \cup {BaseHeader, LlmRequest}

SourceTyped ==
    /\ phase \in {"created", "setup", "ready", "destroyed"}
    /\ stream_ \in BOOLEAN /\ serving \in BOOLEAN
    /\ in_flight_headers_ \in 0..Buffer
    /\ messages_ \in Seq(Specifiers) /\ downlink \in Seq(Specifiers)
    /\ uplink \in {<<>>, <<Buffer>>}
    /\ yields_left_ = <<>> \/ \E n \in 0..Buffer : yields_left_ = <<n>>

\* What the service has left of the batch it is sending, and of the batch it was asked for.
Left == IF yields_left_ = <<>> THEN 0 ELSE Head(yields_left_)
AskedFor == IF uplink = <<>> THEN 0 ELSE Head(uplink)

\* The stream's books.  A service that failed did so in the middle of a batch, so that the
\* count of the client stays above what still comes in and no other batch is asked for.
Books ==
    /\ stream_ /\ serving => in_flight_headers_ = AskedFor + Left + Len(downlink)
    /\ stream_ /\ ~serving => in_flight_headers_ > Len(downlink)
    /\ Len(messages_) + in_flight_headers_ < 2 * Buffer
    /\ phase = "created" =>
        /\ ~stream_ /\ serving
        /\ in_flight_headers_ = 0 /\ messages_ = <<>>
        /\ uplink = <<>> /\ downlink = <<>> /\ yields_left_ = <<>>

LEMMA LeftAndAskedFor ==
    ASSUME SourceTyped
    PROVE  /\ Left \in 0..Buffer
           /\ AskedFor \in {0, Buffer}
           /\ Buffer \in Nat /\ Buffer > 0
           /\ Len(downlink) \in Nat /\ Len(messages_) \in Nat
           /\ in_flight_headers_ \in Nat
BY SourceAssumption DEF SourceTyped, Left, AskedFor

\* Everything but the stream is left alone by the generators that need no service.
LEMMA BooksKept ==
    ASSUME SourceTyped, Books, [SourceNext]_sourceVars
    PROVE  SourceTyped' /\ Books'
<1>0. /\ Left \in 0..Buffer
      /\ AskedFor \in {0, Buffer}
      /\ Buffer \in Nat /\ Buffer > 0
      /\ Len(downlink) \in Nat /\ Len(messages_) \in Nat
      /\ in_flight_headers_ \in Nat
  BY LeftAndAskedFor, Zenon
<1>1. CASE initOnThread
  <2>1. /\ stream_' \in BOOLEAN /\ serving' \in BOOLEAN
        /\ serving
    BY <1>1, Zenon DEF initOnThread, SourceTyped, Books, service
  <2>2. CASE uplink' = <<Buffer>> /\ in_flight_headers_' = Buffer /\ stream_'
    <3>1. /\ phase' \in {"setup", "ready"} /\ serving'
          /\ messages_' = <<>> /\ downlink' = <<>> /\ yields_left_' = <<>>
      BY <1>1, <2>1 DEF initOnThread, Books, service
    <3>2. AskedFor' = Buffer /\ Left' = 0 /\ Len(messages_') = 0 /\ Len(downlink') = 0
      BY <2>2, <3>1 DEF AskedFor, Left
    <3>3. SourceTyped'
      BY <1>0, <2>1, <2>2, <3>1 DEF SourceTyped
    <3>4. Books'
      BY <1>0, <2>2, <3>1, <3>2 DEF Books
    <3> QED
      BY <3>3, <3>4
  <2>3. CASE UNCHANGED <<uplink, in_flight_headers_>> /\ ~stream_'
    BY <1>0, <1>1, <2>1, <2>3, Zenon
    DEF initOnThread, SourceTyped, Books, Left, AskedFor, service
  <2> QED
    BY <1>1, <2>1, <2>2, <2>3 DEF initOnThread, trySendRequest, Books
<1>2. CASE SetupRound
  BY <1>0, <1>2 DEF SetupRound, SourceTyped, Books, Left, AskedFor, remote, service
<1>3. CASE destroyOnThread
  <2>1. stream_' \in BOOLEAN /\ serving' \in BOOLEAN
    BY <1>3, Zenon DEF destroyOnThread, SourceTyped, service
  <2>2. SourceTyped'
    BY <1>3, <2>1 DEF destroyOnThread, SourceTyped, service
  <2>3. Len(messages_') = 0 /\ ~stream_' /\ phase' = "destroyed"
        /\ in_flight_headers_' = in_flight_headers_
    BY <1>3 DEF destroyOnThread
  <2>4. Books'
    BY <1>0, <2>3 DEF Books, SourceTyped
  <2> QED
    BY <2>2, <2>4
<1>4. CASE onReceiveMessage
  <2>1. /\ messages_' \in Seq(Specifiers) /\ downlink' \in Seq(Specifiers)
        /\ Len(messages_') = Len(messages_) + 1
        /\ Len(downlink') = Len(downlink) - 1 /\ Len(downlink) > 0
    BY <1>4 DEF onReceiveMessage, SourceTyped
  <2>2. in_flight_headers_ >= Len(downlink)
    BY <1>0, <1>4 DEF onReceiveMessage, Books, SourceTyped
  <2>3. in_flight_headers_' = in_flight_headers_ - 1
    BY <1>0, <1>4, <2>1, <2>2 DEF onReceiveMessage, Decrement
  <2>4. Left' = Left /\ AskedFor' = AskedFor
    BY <1>4 DEF onReceiveMessage, Left, AskedFor
  <2>5. SourceTyped'
    BY <1>0, <1>4, <2>1, <2>2, <2>3 DEF onReceiveMessage, SourceTyped
  <2>6. Books'
    BY <1>0, <1>4, <2>1, <2>2, <2>3, <2>4 DEF onReceiveMessage, Books
  <2> QED
    BY <2>5, <2>6
<1>5. CASE onRemoteClose
  <2>1. stream_' \in BOOLEAN /\ serving' \in BOOLEAN
    BY <1>5, Zenon DEF onRemoteClose
  <2>2. SourceTyped'
    BY <1>5, <2>1 DEF onRemoteClose, SourceTyped
  <2>3. ~stream_' /\ phase' # "created" /\ UNCHANGED <<messages_, in_flight_headers_>>
    BY <1>5 DEF onRemoteClose
  <2>4. Books'
    BY <2>3 DEF Books
  <2> QED
    BY <2>2, <2>4
<1>6. CASE maybeDequeue
  <2>1. /\ messages_' \in Seq(Specifiers)
        /\ Len(messages_') = Len(messages_) - 1 /\ Len(messages_) > 0
    BY <1>6 DEF maybeDequeue, SourceTyped
  <2>2. Left' = Left /\ UNCHANGED <<phase, stream_, serving, downlink, yields_left_>>
    BY <1>6 DEF maybeDequeue, Left, service
  <2>3. CASE UNCHANGED <<uplink, in_flight_headers_>>
    <3>1. AskedFor' = AskedFor
      BY <2>3 DEF AskedFor
    <3>2. SourceTyped'
      BY <2>1, <2>2, <2>3 DEF SourceTyped
    <3>3. Books'
      BY <1>0, <1>6, <2>1, <2>2, <2>3, <3>1 DEF Books, maybeDequeue
    <3> QED
      BY <3>2, <3>3
  <2>4. CASE ~UNCHANGED <<uplink, in_flight_headers_>>
    <3>1. /\ stream_ /\ in_flight_headers_ = 0 /\ Len(messages_') < Buffer
          /\ uplink' = Append(uplink, Buffer) /\ in_flight_headers_' = Buffer
      BY <1>6, <2>4 DEF maybeDequeue, trySendRequest
    <3>2. serving /\ AskedFor = 0 /\ Left = 0 /\ Len(downlink) = 0
      BY <1>0, <3>1 DEF Books, SourceTyped
    <3>3. uplink = <<>>
      BY <1>0, <3>2 DEF AskedFor, SourceTyped
    <3>4. uplink' = <<Buffer>> /\ AskedFor' = Buffer
      BY <3>1, <3>3 DEF AskedFor
    <3>5. SourceTyped'
      BY <1>0, <2>1, <2>2, <3>1, <3>4 DEF SourceTyped
    <3>6. Books'
      BY <1>0, <1>6, <2>1, <2>2, <3>1, <3>2, <3>4 DEF Books, maybeDequeue
    <3> QED
      BY <3>5, <3>6
  <2> QED
    BY <2>3, <2>4
<1>7. CASE ServiceReads
  <2>1. /\ uplink = <<Buffer>> /\ yields_left_ = <<>>
        /\ uplink' = <<>> /\ yields_left_' = <<Buffer>>
        /\ UNCHANGED <<phase, stream_, serving, downlink, messages_, in_flight_headers_>>
    <3>1. uplink = <<Buffer>>
      BY <1>7, Zenon DEF ServiceReads, SourceTyped
    <3>2. Head(<<Buffer>>) = Buffer /\ Tail(<<Buffer>>) = <<>>
      OBVIOUS
    <3>3. /\ yields_left_ = <<>> /\ uplink' = Tail(uplink) /\ yields_left_' = <<Head(uplink)>>
          /\ UNCHANGED <<phase, stream_, serving, downlink, messages_, in_flight_headers_>>
      BY <1>7 DEF ServiceReads, remote
    <3> QED
      BY <3>1, <3>2, <3>3, Zenon
  <2>2. AskedFor = Buffer /\ Left = 0 /\ AskedFor' = 0 /\ Left' = Buffer
    BY <2>1 DEF AskedFor, Left
  <2>3. SourceTyped'
    BY <1>0, <2>1 DEF SourceTyped
  <2>4. phase # "created"
    BY <2>1, Zenon DEF Books
  <2>5. Books'
    BY <1>0, <2>1, <2>2, <2>4 DEF Books
  <2> QED
    BY <2>3, <2>5
<1>8. ASSUME NEW m \in Specifiers, ServiceWrites(m)
      PROVE  SourceTyped' /\ Books'
  <2>1. /\ UNCHANGED <<phase, stream_, serving, uplink, messages_, in_flight_headers_>>
        /\ serving /\ AskedFor' = AskedFor
        /\ yields_left_ # <<>>
    BY <1>8 DEF ServiceWrites, remote, AskedFor
  <2>2. PICK n \in 0..Buffer : yields_left_ = <<n>>
    BY <2>1 DEF SourceTyped
  <2>3. CASE n = 0
    <3>1. yields_left_' = <<>> /\ downlink' = downlink
      <4>1. Head(yields_left_) = 0
        BY <2>2, <2>3
      <4>2. StaticYields(0).request = FALSE
        BY Zenon DEF StaticYields
      <4> QED
        BY <1>8, <4>1, <4>2, Zenon DEF ServiceWrites
    <3>2. Left = 0 /\ Left' = 0
      BY <2>2, <2>3, <3>1 DEF Left
    <3>3. SourceTyped'
      BY <2>1, <3>1, Zenon DEF SourceTyped
    <3>4. Books'
      BY <1>0, <2>1, <3>1, <3>2 DEF Books
    <3> QED
      BY <3>3, <3>4
  <2>4. CASE n # 0
    <3>1. yields_left_' = <<n - 1>> /\ downlink' = Append(downlink, m)
      <4>1. Head(yields_left_) = n
        BY <2>2
      <4>2. StaticYields(n).request = TRUE /\ StaticYields(n).left = n - 1
        BY <2>4, Zenon DEF StaticYields, Decrement
      <4> QED
        BY <1>8, <4>1, <4>2, Zenon DEF ServiceWrites
    <3>2. /\ downlink' \in Seq(Specifiers) /\ Len(downlink') = Len(downlink) + 1
      BY <3>1 DEF SourceTyped
    <3>3. Left = n /\ Left' = n - 1
      BY <2>2, <3>1 DEF Left
    <3>4. n - 1 \in 0..Buffer
      BY <1>0, <2>4
    <3>5. SourceTyped'
      BY <2>1, <3>1, <3>2, <3>4 DEF SourceTyped
    <3>6. Books'
      BY <1>0, <2>1, <2>2, <3>2, <3>3 DEF Books
    <3> QED
      BY <3>5, <3>6
  <2> QED
    BY <2>3, <2>4
<1>9. CASE ServiceFails
  <2>1. PICK n \in 0..Buffer : yields_left_ = <<n>>
    BY <1>9 DEF ServiceFails, SourceTyped
  <2>2. n # 0 /\ Left = n
    BY <1>9, <2>1 DEF ServiceFails, Left
  <2>3. /\ UNCHANGED <<phase, stream_, uplink, downlink, yields_left_, messages_,
                       in_flight_headers_>>
        /\ serving /\ serving' = FALSE
    BY <1>9 DEF ServiceFails, remote
  <2>4. serving' \in BOOLEAN
    BY <2>3, Zenon
  <2> QED
    BY <1>0, <2>1, <2>2, <2>3, <2>4 DEF SourceTyped, Books
<1>10. CASE ListYields \/ LlmYields \/ StaticYieldsBase
  <2>1. UNCHANGED <<phase, remote, uplink, service>>
    BY <1>10, Zenon DEF ListYields, LlmYields, StaticYieldsBase
  <2> QED
    BY <2>1 DEF SourceTyped, Books, Left, AskedFor, remote, service
<1>11. CASE UNCHANGED sourceVars
  BY <1>11 DEF sourceVars, SourceTyped, Books, Left, AskedFor, remote, service
<1> QED
  BY <1>1, <1>2, <1>3, <1>4, <1>5, <1>6, <1>7, <1>8, <1>9, <1>10, <1>11
  DEF SourceNext, ClientEvent, ServiceStep

LEMMA BooksHold == SourceSpec => [](SourceTyped /\ Books)
<1>1. SourceInit => SourceTyped /\ Books
  <2> SUFFICES ASSUME SourceInit PROVE SourceTyped /\ Books
    OBVIOUS
  <2>1. stream_ \in BOOLEAN /\ serving \in BOOLEAN
    BY Zenon DEF SourceInit
  <2> QED
    BY <2>1, SourceAssumption DEF SourceInit, SourceTyped, Books, Left, AskedFor
<1>2. (SourceTyped /\ Books) /\ [SourceNext]_sourceVars => (SourceTyped /\ Books)'
  BY BooksKept
<1> QED
  BY <1>1, <1>2, PTL DEF SourceSpec

\* The stream client never asks for a batch before the service has begun the last, its count
\* of requests in flight is the number really in flight and cannot wrap, and it holds less
\* than two batches, whatever the service and the network do.
THEOREM BufferIsBounded == SourceSpec => []BufferBounded
<1>1. SourceTyped /\ Books => BufferBounded
  <2> SUFFICES ASSUME SourceTyped, Books PROVE BufferBounded
    OBVIOUS
  <2>1. Outstanding = AskedFor + Left + Len(downlink)
    BY Zenon DEF Outstanding, AskedFor, Left
  <2>2. Len(uplink) <= 1
    <3>1. uplink = <<>> => Len(uplink) = 0
      OBVIOUS
    <3>2. uplink = <<Buffer>> => Len(uplink) = 1
      OBVIOUS
    <3>3. uplink = <<>> \/ uplink = <<Buffer>>
      BY Zenon DEF SourceTyped
    <3> QED
      BY <3>1, <3>2, <3>3
  <2> QED
    BY <2>1, <2>2, SourceAssumption DEF BufferBounded, Books, SourceTyped
<1> QED
  BY <1>1, BooksHold, PTL

-----------------------------------------------------------------------------
(* What is yielded.                                                        *)

\* Where the specifiers the service has sent are: yielded, queued, or on the way, in order.
\* What was on the way is lost when the stream goes down, and the service then sends no more
\* that would reach this client.
Placed ==
    /\ specified \in Seq(Specifiers) /\ yielded \in Seq(Yieldable)
    /\ lambda_counter \in Nat
    /\ source # "remote" => ~stream_ /\ uplink = <<>> /\ yields_left_ = <<>>
    /\ source = "remote" =>
        /\ Len(yielded) + Len(messages_) <= Len(specified)
        /\ \A i \in 1..Len(yielded) : yielded[i] = messageToRequest(specified[i])
        /\ \A i \in 1..Len(messages_) : messages_[i] = specified[Len(yielded) + i]
        /\ stream_ =>
            /\ Len(yielded) + Len(messages_) + Len(downlink) = Len(specified)
            /\ \A i \in 1..Len(downlink) :
                downlink[i] = specified[Len(yielded) + Len(messages_) + i]
    /\ phase = "created" => specified = <<>> /\ yielded = <<>>

LEMMA PlacedKept ==
    ASSUME SourceTyped, Books, SourceTyped', Placed, [SourceNext]_sourceVars
    PROVE  Placed'
<1>0. /\ messages_ \in Seq(Specifiers) /\ downlink \in Seq(Specifiers)
      /\ specified \in Seq(Specifiers) /\ yielded \in Seq(Yieldable)
      /\ Len(messages_) \in Nat /\ Len(downlink) \in Nat
      /\ Len(specified) \in Nat /\ Len(yielded) \in Nat
  BY DEF SourceTyped, Placed
<1>1. CASE initOnThread
  <2>1. /\ messages_ = <<>> /\ downlink = <<>> /\ yields_left_ = <<>> /\ uplink = <<>>
        /\ specified = <<>> /\ yielded = <<>>
    BY <1>1 DEF initOnThread, Books, Placed
  <2>2. /\ UNCHANGED <<source, messages_, downlink, yields_left_, specified, yielded>>
        /\ source # "remote" => stream_' = stream_ /\ uplink' = uplink
        /\ lambda_counter' = lambda_counter
        /\ phase' # "created"
    BY <1>1 DEF initOnThread, service
  <2> QED
    BY <1>0, <2>1, <2>2 DEF Placed
<1>2. CASE SetupRound
  <2>1. UNCHANGED <<source, stream_, messages_, uplink, downlink, yields_left_, specified,
                    yielded, lambda_counter>> /\ phase' # "created"
    BY <1>2, Zenon DEF SetupRound, remote, service
  <2> QED
    BY <2>1, Zenon DEF Placed
<1>3. CASE destroyOnThread
  <2>1. /\ UNCHANGED <<source, uplink, yields_left_, specified, yielded, lambda_counter>>
        /\ ~stream_' /\ messages_' = <<>> /\ phase' # "created"
    BY <1>3, Zenon DEF destroyOnThread, service
  <2> QED
    BY <1>0, <2>1 DEF Placed
<1>4. CASE onReceiveMessage
  <2>1. /\ UNCHANGED <<source, phase, stream_, uplink, yields_left_, specified, yielded,
                       lambda_counter>>
        /\ stream_ /\ downlink # <<>>
        /\ messages_' = Append(messages_, Head(downlink))
        /\ downlink' = Tail(downlink)
    BY <1>4, Zenon DEF onReceiveMessage
  <2>2. /\ Len(messages_') = Len(messages_) + 1 /\ Len(downlink') = Len(downlink) - 1
        /\ \A i \in 1..Len(messages_) : messages_'[i] = messages_[i]
        /\ messages_'[Len(messages_) + 1] = downlink[1]
        /\ \A i \in 1..(Len(downlink) - 1) : downlink'[i] = downlink[i + 1]
        /\ Len(downlink) >= 1
    BY <1>0, <2>1
  <2>3. source = "remote" /\ phase # "created"
    BY <1>4, <2>1 DEF Placed, onReceiveMessage
  <2>4. \A i \in 1..Len(messages_') : messages_'[i] = specified[Len(yielded) + i]
    <3>1. downlink[1] = specified[Len(yielded) + Len(messages_) + 1]
      BY <1>0, <2>1, <2>2, <2>3 DEF Placed
    <3>2. \A i \in 1..Len(messages_) : messages_[i] = specified[Len(yielded) + i]
      BY <2>3 DEF Placed
    <3>3. \A i \in 1..Len(messages_') : i \in 1..Len(messages_) \/ i = Len(messages_) + 1
      BY <1>0, <2>2
    <3>4. ASSUME NEW i \in 1..Len(messages_')
          PROVE  messages_'[i] = specified[Len(yielded) + i]
      <4>1. CASE i \in 1..Len(messages_)
        BY <2>2, <3>2, <4>1, Zenon
      <4>2. CASE i = Len(messages_) + 1
        <5>1. Len(yielded) + i = Len(yielded) + Len(messages_) + 1
          BY <1>0, <4>2
        <5> QED
          BY <2>2, <3>1, <4>2, <5>1, Zenon
      <4> QED
        BY <3>3, <4>1, <4>2
    <3> QED
      BY <3>4, Zenon
  <2>5. \A i \in 1..Len(downlink') :
            downlink'[i] = specified[Len(yielded) + Len(messages_') + i]
    BY <1>0, <2>1, <2>2, <2>3 DEF Placed
  <2> QED
    BY <1>0, <2>1, <2>2, <2>3, <2>4, <2>5 DEF Placed
<1>5. CASE onRemoteClose
  <2>1. /\ UNCHANGED <<source, messages_, yields_left_, specified, yielded, phase,
                       lambda_counter>>
        /\ ~stream_' /\ uplink' = <<>> /\ phase # "created"
    BY <1>5, Zenon DEF onRemoteClose
  <2> QED
    BY <1>0, <2>1 DEF Placed
<1>6. CASE maybeDequeue
  <2>1. /\ UNCHANGED <<source, phase, stream_, downlink, yields_left_, specified,
                       lambda_counter>>
        /\ messages_ # <<>> /\ source = "remote" /\ phase = "ready"
        /\ messages_' = Tail(messages_)
        /\ yielded' = Append(yielded, messageToRequest(Head(messages_)))
    BY <1>6 DEF maybeDequeue, service
  <2>2. messageToRequest(Head(messages_)) \in Yieldable
    BY <1>0, <2>1 DEF Yieldable
  <2>3. /\ Len(messages_') = Len(messages_) - 1 /\ Len(messages_) >= 1
        /\ \A i \in 1..(Len(messages_) - 1) : messages_'[i] = messages_[i + 1]
        /\ Head(messages_) = messages_[1]
    BY <1>0, <2>1
  <2>4. /\ yielded' \in Seq(Yieldable) /\ Len(yielded') = Len(yielded) + 1
        /\ \A i \in 1..Len(yielded) : yielded'[i] = yielded[i]
        /\ yielded'[Len(yielded) + 1] = messageToRequest(Head(messages_))
    <3> DEFINE q == messageToRequest(Head(messages_))
    <3>1. q \in Yieldable /\ yielded' = Append(yielded, q)
      BY <2>1, <2>2
    <3> HIDE DEF q
    <3>2. /\ yielded' \in Seq(Yieldable) /\ Len(yielded') = Len(yielded) + 1
          /\ \A i \in 1..Len(yielded) : yielded'[i] = yielded[i]
          /\ yielded'[Len(yielded) + 1] = q
      BY <1>0, <3>1
    <3> QED
      BY <3>2 DEF q
  <2>5. Head(messages_) = specified[Len(yielded) + 1]
    BY <1>0, <2>1, <2>3 DEF Placed
  <2>6. yielded'[Len(yielded) + 1] = messageToRequest(specified[Len(yielded) + 1])
    BY <2>4, <2>5, Zenon
  <2>7. \A i \in 1..Len(yielded') : yielded'[i] = messageToRequest(specified[i])
    <3> SUFFICES ASSUME NEW i \in 1..Len(yielded')
                 PROVE  yielded'[i] = messageToRequest(specified[i])
      OBVIOUS
    <3>1. CASE i = Len(yielded) + 1
      BY <2>6, <3>1, Zenon
    <3>2. CASE i \in 1..Len(yielded)
      BY <2>1, <2>4, <3>2, Zenon DEF Placed
    <3> QED
      BY <1>0, <2>4, <3>1, <3>2
  <2>8. \A i \in 1..Len(messages_') : messages_'[i] = specified[Len(yielded') + i]
    BY <1>0, <2>1, <2>3, <2>4 DEF Placed
  <2>9. stream_ => /\ Len(yielded') + Len(messages_') + Len(downlink) = Len(specified)
                   /\ \A i \in 1..Len(downlink) :
                        downlink[i] = specified[Len(yielded') + Len(messages_') + i]
    BY <1>0, <2>1, <2>3, <2>4 DEF Placed
  <2>10. Len(yielded') + Len(messages_') <= Len(specified)
    BY <1>0, <2>1, <2>3, <2>4 DEF Placed
  <2> QED
    BY <1>0, <2>1, <2>4, <2>7, <2>8, <2>9, <2>10 DEF Placed
<1>7. CASE ServiceReads
  <2>1. /\ UNCHANGED <<source, phase, stream_, messages_, downlink, specified, yielded,
                       lambda_counter>>
        /\ uplink # <<>>
    BY <1>7 DEF ServiceReads, remote
  <2>2. source = "remote"
    BY <2>1 DEF Placed
  <2> QED
    BY <2>1, <2>2, Zenon DEF Placed
<1>8. ASSUME NEW m \in Specifiers, ServiceWrites(m)
      PROVE  Placed'
  <2>1. /\ UNCHANGED <<source, phase, stream_, messages_, yielded, lambda_counter, uplink>>
        /\ yields_left_ # <<>>
        /\ \/ UNCHANGED <<downlink, specified>>
           \/ downlink' = Append(downlink, m) /\ specified' = Append(specified, m)
    BY <1>8 DEF ServiceWrites, remote
  <2>2. source = "remote" /\ phase # "created"
    BY <2>1 DEF Placed, Books
  <2>3. CASE UNCHANGED <<downlink, specified>>
    BY <2>1, <2>2, <2>3, Zenon DEF Placed
  <2>4. CASE downlink' = Append(downlink, m) /\ specified' = Append(specified, m)
    <3>0. /\ Len(messages_) \in Nat /\ Len(downlink) \in Nat
          /\ Len(specified) \in Nat /\ Len(yielded) \in Nat
      BY <1>0, Zenon
    <3>1. /\ specified' \in Seq(Specifiers)
          /\ Len(specified') = Len(specified) + 1 /\ Len(downlink') = Len(downlink) + 1
          /\ \A i \in 1..Len(specified) : specified'[i] = specified[i]
          /\ \A i \in 1..Len(downlink) : downlink'[i] = downlink[i]
          /\ specified'[Len(specified) + 1] = m /\ downlink'[Len(downlink) + 1] = m
      BY <1>0, <2>4
    <3>2. \A i \in 1..Len(yielded) : yielded[i] = messageToRequest(specified'[i])
      <4> SUFFICES ASSUME NEW i \in 1..Len(yielded)
                   PROVE  yielded[i] = messageToRequest(specified'[i])
        OBVIOUS
      <4>1. i \in 1..Len(specified)
        BY <1>0, <2>2 DEF Placed
      <4> QED
        BY <2>2, <3>1, <4>1, Zenon DEF Placed
    <3>3. \A i \in 1..Len(messages_) : messages_[i] = specified'[Len(yielded) + i]
      <4> SUFFICES ASSUME NEW i \in 1..Len(messages_)
                   PROVE  messages_[i] = specified'[Len(yielded) + i]
        OBVIOUS
      <4>1. Len(yielded) + i \in 1..Len(specified)
        BY <1>0, <2>2 DEF Placed
      <4>2. messages_[i] = specified[Len(yielded) + i]
        BY <2>2, Zenon DEF Placed
      <4> QED
        BY <3>1, <4>1, <4>2, Zenon
    <3>4. stream_ => /\ Len(yielded) + Len(messages_) + Len(downlink') = Len(specified')
                     /\ \A i \in 1..Len(downlink') :
                            downlink'[i] = specified'[Len(yielded) + Len(messages_) + i]
      <4> SUFFICES ASSUME stream_
                   PROVE  /\ Len(yielded) + Len(messages_) + Len(downlink') = Len(specified')
                          /\ \A i \in 1..Len(downlink') :
                              downlink'[i] = specified'[Len(yielded) + Len(messages_) + i]
        OBVIOUS
      <4>0. Len(yielded) + Len(messages_) + Len(downlink) = Len(specified)
        BY <2>2, Zenon DEF Placed
      <4>1. \A i \in 1..Len(downlink) :
                downlink[i] = specified[Len(yielded) + Len(messages_) + i]
        BY <2>2, Zenon DEF Placed
      <4>2. ASSUME NEW i \in 1..Len(downlink')
            PROVE  downlink'[i] = specified'[Len(yielded) + Len(messages_) + i]
        <5>1. CASE i \in 1..Len(downlink)
          <6>1. Len(yielded) + Len(messages_) + i \in 1..Len(specified)
            BY <1>0, <4>0, <5>1
          <6> QED
            BY <3>1, <4>1, <5>1, <6>1, Zenon
        <5>2. CASE i = Len(downlink) + 1
          <6>1. Len(yielded) + Len(messages_) + i = Len(specified) + 1
            BY <3>0, <4>0, <5>2
          <6>2. downlink'[i] = m
            BY <3>1, <5>2, Zenon
          <6>3. specified'[Len(yielded) + Len(messages_) + i] = m
            BY <3>1, <6>1, Zenon
          <6> QED
            BY <6>2, <6>3, Zenon
        <5> QED
          BY <1>0, <3>1, <5>1, <5>2
      <4>3. Len(yielded) + Len(messages_) + Len(downlink') = Len(specified')
        <5>1. Len(specified') = Len(specified) + 1 /\ Len(downlink') = Len(downlink) + 1
          BY <3>1, Zenon
        <5> QED
          BY <3>0, <4>0, <5>1
      <4> QED
        BY <4>2, <4>3, Zenon
    <3>5. Len(yielded) + Len(messages_) <= Len(specified')
      BY <1>0, <2>2, <3>1 DEF Placed
    <3> QED
      BY <1>0, <2>1, <2>2, <3>1, <3>2, <3>3, <3>4, <3>5, Zenon DEF Placed
  <2> QED
    BY <2>1, <2>3, <2>4
<1>9. CASE ServiceFails
  <2>1. UNCHANGED <<source, phase, stream_, messages_, uplink, downlink, yields_left_,
                    specified, yielded, lambda_counter>>
    BY <1>9 DEF ServiceFails, remote
  <2> QED
    BY <2>1, Zenon DEF Placed
<1>10. CASE ListYields \/ LlmYields \/ StaticYieldsBase
  <2>1. /\ UNCHANGED <<source, phase, stream_, messages_, uplink, downlink, yields_left_,
                       specified>>
        /\ source # "remote" /\ phase # "created"
    BY <1>10 DEF ListYields, LlmYields, StaticYieldsBase, remote, service
  <2>2. PICK q \in Yieldable : yielded' = Append(yielded, q)
    BY <1>10, Zenon DEF ListYields, LlmYields, StaticYieldsBase, Yieldable, Placed
  <2>3. yielded' \in Seq(Yieldable)
    BY <1>0, <2>2
  <2>4. lambda_counter' \in Nat
    BY <1>10 DEF ListYields, LlmYields, StaticYieldsBase, Placed
  <2> QED
    BY <2>1, <2>3, <2>4, Zenon DEF Placed
<1>11. CASE UNCHANGED sourceVars
  <2>1. UNCHANGED <<source, phase, stream_, messages_, uplink, downlink, yields_left_,
                    specified, yielded, lambda_counter>>
    BY <1>11 DEF sourceVars, remote, service
  <2> QED
    BY <2>1, Zenon DEF Placed
<1> QED
  BY <1>1, <1>2, <1>3, <1>4, <1>5, <1>6, <1>7, <1>8, <1>9, <1>10, <1>11, Zenon
  DEF SourceNext, ClientEvent, ServiceStep

\* The entries of an options list are yielded in turn.
Listed ==
    source = "list" /\ OptionsList # <<>> =>
        /\ lambda_counter = Len(yielded)
        /\ NumRequests # 0 => Len(yielded) <= NumRequests
        /\ \A i \in 1..Len(yielded) :
            yielded[i] = EntryRequest(OptionsList[((i - 1) % Len(OptionsList)) + 1])

LEMMA ListedKept ==
    ASSUME Placed, Listed, [SourceNext]_sourceVars
    PROVE  Listed'
<1>1. ASSUME source = "list", OptionsList # <<>>, ListYields
      PROVE  Listed'
  <2> DEFINE Entry(n) == EntryRequest(OptionsList[(n % Len(OptionsList)) + 1])
  <2>1. /\ lambda_counter \in Nat /\ lambda_counter = Len(yielded)
        /\ \A i \in 1..Len(yielded) : yielded[i] = Entry(i - 1)
        /\ NumRequests \in Nat /\ yielded \in Seq(Yieldable)
    BY <1>1, SourceAssumption DEF Listed, Placed
  <2>2. Entry(lambda_counter) \in Yieldable
    BY <2>1, Zenon DEF Yieldable
  <2>3. /\ yielded' = Append(yielded, Entry(lambda_counter))
        /\ lambda_counter' = lambda_counter + 1
        /\ NumRequests # 0 => lambda_counter < NumRequests
    BY <1>1, Zenon DEF ListYields
  <2> HIDE DEF Entry
  <2>4. /\ Len(yielded') = Len(yielded) + 1
        /\ \A i \in 1..Len(yielded) : yielded'[i] = yielded[i]
        /\ yielded'[Len(yielded) + 1] = Entry(lambda_counter)
    <3>1. PICK before, after, entry :
              before = yielded /\ after = yielded' /\ entry = Entry(lambda_counter)
      BY Zenon
    <3>2. before \in Seq(Yieldable) /\ entry \in Yieldable /\ after = Append(before, entry)
      BY <2>1, <2>2, <2>3, <3>1, Zenon
    <3>3. /\ Len(after) = Len(before) + 1
          /\ \A i \in 1..Len(before) : after[i] = before[i]
          /\ after[Len(before) + 1] = entry
      BY <3>2
    <3> QED
      BY <3>1, <3>3, Zenon
  <2>5. \A i \in 1..Len(yielded') : yielded'[i] = Entry(i - 1)
    <3> SUFFICES ASSUME NEW i \in 1..Len(yielded') PROVE yielded'[i] = Entry(i - 1)
      OBVIOUS
    <3>1. CASE i \in 1..Len(yielded)
      BY <2>1, <2>4, <3>1, Zenon
    <3>2. CASE i = Len(yielded) + 1
      <4>1. i - 1 = lambda_counter
        BY <2>1, <3>2, Predecessor, Zenon
      <4> QED
        BY <2>4, <3>2, <4>1, Zenon
    <3> QED
      BY <2>1, <2>4, <3>1, <3>2
  <2>6. lambda_counter' = Len(yielded') /\ (NumRequests # 0 => Len(yielded') <= NumRequests)
    BY <2>1, <2>3, <2>4
  <2> QED
    BY <2>5, <2>6, Zenon DEF Listed, Entry
<1>2. source' = source
  BY Zenon DEF SourceNext, ClientEvent, ServiceStep, initOnThread, SetupRound, destroyOnThread,
         onReceiveMessage, onRemoteClose, ServiceReads, ServiceWrites, ServiceFails,
         maybeDequeue, ListYields, LlmYields, StaticYieldsBase, sourceVars
<1>3. source = "list" => ListYields \/ UNCHANGED <<lambda_counter, yielded>>
  BY Zenon DEF SourceNext, ClientEvent, ServiceStep, initOnThread, SetupRound, destroyOnThread,
         onReceiveMessage, onRemoteClose, ServiceReads, ServiceWrites, ServiceFails,
         maybeDequeue, LlmYields, StaticYieldsBase, sourceVars
<1> QED
  BY <1>1, <1>2, <1>3, Zenon DEF Listed

\* A request made from a specifier has, for each header, the value that was asked for.
LEMMA RequestIsAsAsked ==
    ASSUME NEW m
    PROVE  \A h \in DOMAIN messageToRequest(m) : messageToRequest(m)[h] = Asked(m, h)
<1> DEFINE list == IF m.v3 # NoHeaders THEN m.v3 ELSE m.v2
           fields == m.fields
<1> TAKE h \in DOMAIN messageToRequest(m)
<1>1. messageToRequest(m) = Override(fields, Override(list, BaseHeader))
  BY Zenon DEF messageToRequest
<1>2. DOMAIN NoHeaders = {}
  BY DEF NoHeaders
<1>3. messageToRequest(m)[h] = IF h \in DOMAIN fields THEN fields[h]
                               ELSE IF h \in DOMAIN list THEN list[h] ELSE BaseHeader[h]
  <2> DEFINE base == BaseHeader
  <2>1. messageToRequest(m) = Override(fields, Override(list, base))
    BY <1>1, Zenon
  <2> HIDE DEF list, fields, base
  <2>2. h \in DOMAIN Override(fields, Override(list, base))
    BY <2>1, Zenon
  <2>3. Override(fields, Override(list, base))[h] =
            IF h \in DOMAIN fields THEN fields[h]
            ELSE IF h \in DOMAIN list THEN list[h] ELSE base[h]
    BY <2>2, Zenon DEF Override
  <2> QED
    BY <2>1, <2>3, Zenon DEF base
<1>4. CASE m.v3 # NoHeaders
  BY <1>3, <1>4 DEF Asked
<1>5. CASE m.v3 = NoHeaders
  BY <1>2, <1>3, <1>5 DEF Asked
<1> QED
  BY <1>4, <1>5

\* What a request made from an entry of the options list has to have (as YieldsAsSpecified).
EntryServed(entry, yields) ==
    /\ \A h \in DOMAIN entry.headers : yields[h] = entry.headers[h]
    /\ ":method" \notin DOMAIN entry.headers => yields[":method"] = entry.method
    /\ ~entry.json /\ entry.body_size = 0 =>
          \A h \in DOMAIN BaseHeader \ ({":method"} \cup DOMAIN entry.headers) :
              yields[h] = BaseHeader[h]

\* Such a request has what the entry gives, and what the command line gave where the entry
\* gives nothing.
LEMMA EntryIsServed ==
    ASSUME NEW entry
    PROVE  EntryServed(entry, EntryRequest(entry))
<1> DEFINE headers == entry.headers
           fields == EntryFields(entry)
           base == BaseHeader
<1>1. /\ ":method" \in DOMAIN fields /\ fields[":method"] = entry.method
      /\ ~entry.json /\ entry.body_size = 0 => DOMAIN fields = {":method"}
  BY DEF EntryFields
<1>2. EntryRequest(entry) = Override(headers, Override(fields, base))
  BY Zenon DEF EntryRequest
<1> HIDE DEF headers, fields, base
<1>3. /\ DOMAIN Override(fields, base) = DOMAIN fields \cup DOMAIN base
      /\ \A h \in DOMAIN fields : Override(fields, base)[h] = fields[h]
      /\ \A h \in DOMAIN base \ DOMAIN fields : Override(fields, base)[h] = base[h]
  BY Zenon DEF Override
<1> DEFINE inner == Override(fields, base)
<1> HIDE DEF inner
<1>4. /\ \A h \in DOMAIN headers : Override(headers, inner)[h] = headers[h]
      /\ \A h \in DOMAIN inner \ DOMAIN headers : Override(headers, inner)[h] = inner[h]
  BY Zenon DEF Override
<1>5. EntryRequest(entry) = Override(headers, inner)
  BY <1>2, Zenon DEF inner
<1>6. \A h \in DOMAIN headers : EntryRequest(entry)[h] = headers[h]
  BY <1>4, <1>5, Zenon
<1>7. ASSUME ":method" \notin DOMAIN headers PROVE EntryRequest(entry)[":method"] = entry.method
  BY <1>1, <1>3, <1>4, <1>5, <1>7 DEF inner
<1>8. ASSUME ~entry.json, entry.body_size = 0, NEW h \in DOMAIN base \ ({":method"} \cup DOMAIN headers)
      PROVE  EntryRequest(entry)[h] = base[h]
  BY <1>1, <1>3, <1>4, <1>5, <1>8 DEF inner
<1> QED
  BY <1>6, <1>7, <1>8, Zenon DEF EntryServed, headers, base

\* The benchmark client gets exactly the requests specified, in order: those of the remote
\* service with the headers it asked for over the base header, across batches, queueing and a
\* stream that breaks; those of an options list in turn and not more than asked for.
THEOREM SourceYieldsAsSpecified == SourceSpec => []YieldsAsSpecified
<1>1. SourceInit => Placed /\ Listed
  <2> SUFFICES ASSUME SourceInit PROVE Placed /\ Listed
    OBVIOUS
  <2>1. Placed
    BY DEF SourceInit, Placed
  <2>2. Listed
    BY SourceAssumption DEF SourceInit, Listed
  <2> QED
    BY <2>1, <2>2
<1>2. /\ SourceTyped /\ Books /\ (SourceTyped /\ Books)' /\ (Placed /\ Listed) /\ [SourceNext]_sourceVars
      => (Placed /\ Listed)'
  BY PlacedKept, ListedKept
<1>3. Placed /\ Listed => YieldsAsSpecified
  <2> SUFFICES ASSUME Placed, Listed PROVE YieldsAsSpecified
    OBVIOUS
  <2>1. DOMAIN yielded = 1..Len(yielded)
    BY DEF Placed
  <2>2. ASSUME source = "remote", NEW i \in DOMAIN yielded, NEW h \in DOMAIN yielded[i]
        PROVE  yielded[i][h] = Asked(specified[i], h)
    <3>1. yielded[i] = messageToRequest(specified[i])
      BY <2>1, <2>2, Zenon DEF Placed
    <3> QED
      BY <3>1, RequestIsAsAsked, Zenon
  <2>3. ASSUME source = "list", OptionsList # <<>>
        PROVE  /\ NumRequests # 0 => Len(yielded) <= NumRequests
               /\ \A i \in DOMAIN yielded :
                    EntryServed(OptionsList[((i - 1) % Len(OptionsList)) + 1], yielded[i])
    <3>1. NumRequests # 0 => Len(yielded) <= NumRequests
      BY <2>3, Zenon DEF Listed
    <3>2. ASSUME NEW i \in DOMAIN yielded
          PROVE  EntryServed(OptionsList[((i - 1) % Len(OptionsList)) + 1], yielded[i])
      <4> DEFINE entry == OptionsList[((i - 1) % Len(OptionsList)) + 1]
      <4>1. yielded[i] = EntryRequest(entry)
        BY <2>1, <2>3, Zenon DEF Listed
      <4> HIDE DEF entry
      <4>2. EntryServed(entry, yielded[i])
        BY <4>1, EntryIsServed, Zenon
      <4> QED
        BY <4>2 DEF entry
    <3> QED
      BY <3>1, <3>2
  <2> QED
    BY <2>2, <2>3, Zenon DEF YieldsAsSpecified, EntryServed
<1> QED
  BY <1>1, <1>2, <1>3, BooksHold, PTL DEF SourceSpec
=============================================================================
