--------------------------- MODULE ProcessProofs ---------------------------
(***************************************************************************)
(* Proofs about Process, for every set of workers and every bound.         *)
(***************************************************************************)
EXTENDS Process, TLAPS

\* The main thread is past its call of TerminateEncapSubProcess().
PastTerminate == {"lock", "join_flush", "join_workers", "destruct", "restore", "check",
                  "write", "join", "exited"}

\* shutdown() has joined the flush worker.
PastFlush == {"join_workers", "destruct", "restore", "check", "write", "join", "exited"}

Active == {"starting", "warmup", "executing"}

\* Who holds which lock where, what the callback may rely on, and when the child is gone.
ControlInv ==
    /\ main = "constructed" => shutdown_thread = "none"
    /\ main = "exited" => shutdown_thread = "done"
    /\ shutdown_thread \in {"callback", "terminate"} => disposition = "default"
    /\ terminate_mutex = "main" => main = "shutdown"
    /\ terminate_mutex = "shutdown_thread" => shutdown_thread = "terminate"
    /\ shutdown_thread = "terminate" => workers_lock = "shutdown_thread"
    /\ main \in {"join_flush", "join_workers"} => workers_lock = "main"
    /\ main \in PastTerminate => ~HasChild

\* From the moment the callback has posted to the workers there are, no worker is unaware.
CancelInv ==
    shutdown_thread = "terminate" \/ cancelled =>
        \A w \in Workers : worker[w] \in Active =>
            w \in posted \/ graceful_stop_requested[w] > 0

\* The types the arguments about counters need.
CounterTypes ==
    /\ worker \in [Workers -> {"none", "created", "starting", "warmup", "executing",
                               "complete", "draining", "ended"}]
    /\ graceful_stop_requested \in [Workers -> Nat]
    /\ responses \in [Workers -> Nat]
    /\ threadLocalCounterValues \in [Workers -> Nat]
    /\ global \in [Workers -> Nat]
    /\ flushed \in [Workers -> Nat]

\* Where the counters agree: snapshots of completed workers are up to date until the workers
\* are told to drain, and nothing counts between the report and that moment.
ResultInv ==
    /\ main \notin PastFlush => exit_signaled = {}
    /\ main \notin PastFlush => \A w \in Workers : worker[w] \notin {"draining", "ended"}
    /\ main \in {"constructed", "run", "sem_wait", "setup"} =>
           /\ \A w \in Workers : worker[w] = "none"
           /\ global = threadLocalCounterValues
           /\ global = Counters
           /\ flush = "none"
    /\ \A w \in Workers : worker[w] = "complete" =>
           main \in PastFlush \/ threadLocalCounterValues[w] = Counters[w]
    /\ main \in {"wait_flush", "report"} =>
           \A w \in Workers : /\ worker[w] \in {"none", "complete"}
                              /\ threadLocalCounterValues[w] = Counters[w]
    /\ Reported => \A w \in Workers : worker[w] \notin Active
    /\ Reported => global = threadLocalCounterValues
    /\ Reported /\ main \notin PastFlush => global = Counters
    /\ flush_signaled => main \in PastFlush \cup {"join_flush"}
    /\ main \in PastFlush => flush \in {"none", "ended"}
    /\ flush = "ended" => Reported
    /\ flush = "ended" => flushed = global

-----------------------------------------------------------------------------
\* Every step preserves TypeOK.
LEMMA TypeStep ==
  ASSUME TypeOK, [Next]_vars
  PROVE  TypeOK'
<1> USE ProcessAssumption DEF TypeOK, Counters, vars, loadVars, controlVars, optionVars,
            threadVars, counterVars, flushVars, lockVars, childVars, signalVars, MainAt,
            ThreadAt, WorkerIn, FlushAt, ChildIn
<1>1. CASE ConstructSignalHandler
  BY <1>1 DEF ConstructSignalHandler, MainMoves
<1>2. CASE RunFails
  BY <1>2 DEF RunFails, MainMoves
<1>3. CASE Fork
  BY <1>3 DEF Fork, MainMoves
<1>4. CASE SemWait
  BY <1>4 DEF SemWait, MainMoves, SemPosted
<1>5. CASE SetupSkipped
  BY <1>5 DEF SetupSkipped, MainMoves
<1>6. CASE SetupFails
  BY <1>6 DEF SetupFails, MainMoves, MayStart, createWorkers
<1>7. CASE StartWorkers
  BY <1>7 DEF StartWorkers, MainMoves, MayStart
<1>8. CASE WaitForWorkers
  BY <1>8 DEF WaitForWorkers, WorkersComplete
<1>9. CASE WaitForFlushWorker
  BY <1>9 DEF WaitForFlushWorker, MainMoves
<1>10. CASE Report
  BY <1>10 DEF Report, MainMoves
<1>11. CASE ShutdownFlushWorker
  BY <1>11 DEF ShutdownFlushWorker, MainMoves
<1>12. CASE ShutdownWorkers
  BY <1>12 DEF ShutdownWorkers, MainMoves, FlushWorkerJoined
<1>13. CASE JoinWorkers
  BY <1>13 DEF JoinWorkers, MainMoves
<1>14. CASE SetDestructing
  BY <1>14 DEF SetDestructing, MainMoves
<1>15. CASE RestoreDispositions
  BY <1>15 DEF RestoreDispositions, MainMoves
<1>16. CASE DestructorChecks
  BY <1>16 DEF DestructorChecks
<1>17. CASE DestructorWrites
  <2>1. written' \in BOOLEAN
    BY <1>17, Zenon DEF DestructorWrites
  <2>2. QED
    BY <1>17, <2>1 DEF DestructorWrites
<1>18. CASE JoinShutdownThread
  BY <1>18 DEF JoinShutdownThread, MainMoves, ShutdownThreadJoined
<1>19. CASE SignalArrives
  BY <1>19 DEF SignalArrives
<1>20. CASE HandlerChecks
  BY <1>20 DEF HandlerChecks
<1>21. CASE HandlerWrites
  <2>1. written' \in BOOLEAN
    BY <1>21, Zenon DEF HandlerWrites
  <2>2. QED
    BY <1>21, <2>1 DEF HandlerWrites
<1>22. CASE ReadAndClose
  <2>1. written' \in BOOLEAN
    BY <1>22, Zenon DEF ReadAndClose
  <2>2. QED
    BY <1>22, <2>1 DEF ReadAndClose
<1>23. CASE ClearPipe
  BY <1>23 DEF ClearPipe
<1>24. CASE RestoreBeforeCallback
  BY <1>24 DEF RestoreBeforeCallback, DispositionForCallback
<1>25. CASE requestExecutionCancellation
  BY <1>25 DEF requestExecutionCancellation, WorkersToCancel
<1>26. CASE FlushWorkerStarts
  <2>1. loop_exit' \in BOOLEAN
    BY <1>26, Zenon DEF FlushWorkerStarts
  <2>2. QED
    BY <1>26, <2>1 DEF FlushWorkerStarts
<1>27. CASE FlushLoopExits
  <2>1. loop_exit' \in BOOLEAN
    BY <1>27, Zenon DEF FlushLoopExits
  <2>2. QED
    BY <1>27, <2>1 DEF FlushLoopExits
<1>28. CASE FinalFlush
  BY <1>28 DEF FinalFlush
<1>29. CASE ChildPosts
  BY <1>29 DEF ChildPosts, ChildMoves
<1>30. CASE ChildExits
  BY <1>30 DEF ChildExits, ChildMoves
<1>31. CASE EnvoyRuns
  BY <1>31 DEF EnvoyRuns, ChildMoves
<1>32. CASE EnvoyServes
  BY <1>32 DEF EnvoyServes, ChildMoves
<1>33. CASE EnvoyCrashes
  BY <1>33 DEF EnvoyCrashes, ChildMoves
<1>34. ASSUME NEW who \in {"main", "shutdown_thread"}, TerminateNothing(who)
      PROVE  TypeOK'
  <2>1. cancelled' \in BOOLEAN
    BY <1>34, Zenon DEF TerminateNothing, Calls, Terminable, Returns, LockAfter
  <2>2. QED
    BY <1>34, <2>1 DEF TerminateNothing, Calls, Terminable, Returns, LockAfter
<1>35. ASSUME NEW who \in {"main", "shutdown_thread"}, SendTerm(who)
      PROVE  TypeOK'
  BY <1>35 DEF SendTerm, Calls, Terminable
<1>36. ASSUME NEW who \in {"main", "shutdown_thread"}, Reap(who)
      PROVE  TypeOK'
  <2>1. cancelled' \in BOOLEAN
    BY <1>36, Zenon DEF Reap, Waits, Returns, LockAfter
  <2>2. QED
    BY <1>36, <2>1 DEF Reap, Waits, Returns, LockAfter
<1>37. ASSUME NEW who \in {"main", "shutdown_thread"}, KillAndReap(who)
      PROVE  TypeOK'
  BY <1>37 DEF KillAndReap, Waits, Returns, LockAfter
<1>38. ASSUME NEW w \in Workers, WorkerStarts(w)
      PROVE  TypeOK'
  BY <1>38 DEF WorkerStarts, RunsPosted
<1>39. ASSUME NEW w \in Workers, PostedRuns(w)
      PROVE  TypeOK'
  BY <1>39 DEF PostedRuns, RunsPosted
<1>40. ASSUME NEW w \in Workers, WarmupEnds(w)
      PROVE  TypeOK'
  BY <1>40 DEF WarmupEnds, WorkerMoves
<1>41. ASSUME NEW w \in Workers, ResponseCounted(w)
      PROVE  TypeOK'
  BY <1>41 DEF ResponseCounted
<1>42. ASSUME NEW w \in Workers, ExecutionEnds(w)
      PROVE  TypeOK'
  BY <1>42 DEF ExecutionEnds, WorkerMoves
<1>43. ASSUME NEW w \in Workers, DrainBegins(w)
      PROVE  TypeOK'
  BY <1>43 DEF DrainBegins, WorkerMoves
<1>44. ASSUME NEW w \in Workers, DrainEnds(w)
      PROVE  TypeOK'
  BY <1>44 DEF DrainEnds, WorkerMoves
<1>45. CASE UNCHANGED vars
  BY <1>45
<1>46. QED
  BY <1>1, <1>2, <1>3, <1>4, <1>5, <1>6, <1>7, <1>8, <1>9, <1>10, <1>11, <1>12, <1>13,
     <1>14, <1>15, <1>16, <1>17, <1>18, <1>19, <1>20, <1>21, <1>22, <1>23, <1>24, <1>25,
     <1>26, <1>27, <1>28, <1>29, <1>30, <1>31, <1>32, <1>33, <1>34, <1>35, <1>36, <1>37,
     <1>38, <1>39, <1>40, <1>41, <1>42, <1>43, <1>44, <1>45, Zenon DEF Next, MainStep,
     ShutdownThreadStep, HandlerStep, WorkerStep, FlushStep, TerminateEncapSubProcess


\* The state of a run keeps its types, the semaphore of the subprocess included, which is
\* never taken more often than it was posted.
THEOREM ProcessTypes == Spec => []TypeOK
<1>1. ASSUME Init PROVE TypeOK
  <2>1. /\ cancelled \in BOOLEAN /\ destructing \in BOOLEAN /\ written \in BOOLEAN
        /\ flush_signaled \in BOOLEAN /\ loop_exit \in BOOLEAN
    BY <1>1, Zenon DEF Init
  <2>2. QED
    BY <1>1, <2>1 DEF Init, TypeOK
<1>2. QED
  BY <1>1, TypeStep, PTL DEF Spec

\* What TypeOK says of the counters.
LEMMA CounterTypesInvariant == Spec => []CounterTypes
<1>1. TypeOK => CounterTypes
  BY DEF TypeOK, CounterTypes
<1>2. QED
  BY <1>1, ProcessTypes, PTL

\* Every step preserves ControlInv.
LEMMA ControlStep ==
  ASSUME ControlInv, [Next]_vars
  PROVE  ControlInv'
<1> USE DEF ControlInv, HasChild, PastTerminate, vars, loadVars, controlVars, optionVars,
            threadVars, counterVars, flushVars, lockVars, childVars, signalVars, MainAt,
            ThreadAt, WorkerIn, FlushAt, ChildIn
<1>1. CASE ConstructSignalHandler
  BY <1>1 DEF ConstructSignalHandler, MainMoves
<1>2. CASE RunFails
  BY <1>2 DEF RunFails, MainMoves
<1>3. CASE Fork
  BY <1>3 DEF Fork, MainMoves
<1>4. CASE SemWait
  BY <1>4 DEF SemWait, MainMoves, SemPosted
<1>5. CASE SetupSkipped
  BY <1>5 DEF SetupSkipped, MainMoves
<1>6. CASE SetupFails
  BY <1>6 DEF SetupFails, MainMoves, MayStart, createWorkers
<1>7. CASE StartWorkers
  BY <1>7 DEF StartWorkers, MainMoves, MayStart
<1>8. CASE WaitForWorkers
  BY <1>8 DEF WaitForWorkers, WorkersComplete
<1>9. CASE WaitForFlushWorker
  BY <1>9 DEF WaitForFlushWorker, MainMoves
<1>10. CASE Report
  BY <1>10 DEF Report, MainMoves
<1>11. CASE ShutdownFlushWorker
  BY <1>11 DEF ShutdownFlushWorker, MainMoves
<1>12. CASE ShutdownWorkers
  BY <1>12 DEF ShutdownWorkers, MainMoves, FlushWorkerJoined
<1>13. CASE JoinWorkers
  BY <1>13 DEF JoinWorkers, MainMoves
<1>14. CASE SetDestructing
  BY <1>14 DEF SetDestructing, MainMoves
<1>15. CASE RestoreDispositions
  BY <1>15 DEF RestoreDispositions, MainMoves
<1>16. CASE DestructorChecks
  BY <1>16 DEF DestructorChecks
<1>17. CASE DestructorWrites
  BY <1>17 DEF DestructorWrites
<1>18. CASE JoinShutdownThread
  BY <1>18 DEF JoinShutdownThread, MainMoves, ShutdownThreadJoined
<1>19. CASE SignalArrives
  BY <1>19 DEF SignalArrives
<1>20. CASE HandlerChecks
  BY <1>20 DEF HandlerChecks
<1>21. CASE HandlerWrites
  BY <1>21 DEF HandlerWrites
<1>22. CASE ReadAndClose
  BY <1>22 DEF ReadAndClose
<1>23. CASE ClearPipe
  BY <1>23 DEF ClearPipe
<1>24. CASE RestoreBeforeCallback
  BY <1>24 DEF RestoreBeforeCallback, DispositionForCallback
<1>25. CASE requestExecutionCancellation
  BY <1>25 DEF requestExecutionCancellation, WorkersToCancel
<1>26. CASE FlushWorkerStarts
  BY <1>26 DEF FlushWorkerStarts
<1>27. CASE FlushLoopExits
  BY <1>27 DEF FlushLoopExits
<1>28. CASE FinalFlush
  BY <1>28 DEF FinalFlush
<1>29. CASE ChildPosts
  BY <1>29 DEF ChildPosts, ChildMoves
<1>30. CASE ChildExits
  BY <1>30 DEF ChildExits, ChildMoves
<1>31. CASE EnvoyRuns
  BY <1>31 DEF EnvoyRuns, ChildMoves
<1>32. CASE EnvoyServes
  BY <1>32 DEF EnvoyServes, ChildMoves
<1>33. CASE EnvoyCrashes
  BY <1>33 DEF EnvoyCrashes, ChildMoves
<1>34. ASSUME NEW who \in {"main", "shutdown_thread"}, TerminateNothing(who)
      PROVE  ControlInv'
  BY <1>34 DEF TerminateNothing, Calls, Terminable, Returns, LockAfter
<1>35. ASSUME NEW who \in {"main", "shutdown_thread"}, SendTerm(who)
      PROVE  ControlInv'
  BY <1>35 DEF SendTerm, Calls, Terminable
<1>36. ASSUME NEW who \in {"main", "shutdown_thread"}, Reap(who)
      PROVE  ControlInv'
  BY <1>36 DEF Reap, Waits, Returns, LockAfter
<1>37. ASSUME NEW who \in {"main", "shutdown_thread"}, KillAndReap(who)
      PROVE  ControlInv'
  BY <1>37 DEF KillAndReap, Waits, Returns, LockAfter
<1>38. ASSUME NEW w \in Workers, WorkerStarts(w)
      PROVE  ControlInv'
  BY <1>38 DEF WorkerStarts, RunsPosted
<1>39. ASSUME NEW w \in Workers, PostedRuns(w)
      PROVE  ControlInv'
  BY <1>39 DEF PostedRuns, RunsPosted
<1>40. ASSUME NEW w \in Workers, WarmupEnds(w)
      PROVE  ControlInv'
  BY <1>40 DEF WarmupEnds, WorkerMoves
<1>41. ASSUME NEW w \in Workers, ResponseCounted(w)
      PROVE  ControlInv'
  BY <1>41 DEF ResponseCounted
<1>42. ASSUME NEW w \in Workers, ExecutionEnds(w)
      PROVE  ControlInv'
  BY <1>42 DEF ExecutionEnds, WorkerMoves
<1>43. ASSUME NEW w \in Workers, DrainBegins(w)
      PROVE  ControlInv'
  BY <1>43 DEF DrainBegins, WorkerMoves
<1>44. ASSUME NEW w \in Workers, DrainEnds(w)
      PROVE  ControlInv'
  BY <1>44 DEF DrainEnds, WorkerMoves
<1>45. CASE UNCHANGED vars
  BY <1>45
<1>46. QED
  BY <1>1, <1>2, <1>3, <1>4, <1>5, <1>6, <1>7, <1>8, <1>9, <1>10, <1>11, <1>12, <1>13,
     <1>14, <1>15, <1>16, <1>17, <1>18, <1>19, <1>20, <1>21, <1>22, <1>23, <1>24, <1>25,
     <1>26, <1>27, <1>28, <1>29, <1>30, <1>31, <1>32, <1>33, <1>34, <1>35, <1>36, <1>37,
     <1>38, <1>39, <1>40, <1>41, <1>42, <1>43, <1>44, <1>45, Zenon DEF Next, MainStep,
     ShutdownThreadStep, HandlerStep, WorkerStep, FlushStep, TerminateEncapSubProcess


\* Locks, dispositions and the child are where ControlInv says, always.
LEMMA ControlInvariant == Spec => []ControlInv
<1>1. Init => ControlInv
  BY DEF Init, ControlInv, HasChild, PastTerminate
<1>2. QED
  BY <1>1, ControlStep, PTL DEF Spec

\* Every step preserves CancelInv.
LEMMA CancelStep ==
  ASSUME CounterTypes, ControlInv, CancelInv, [Next]_vars
  PROVE  CancelInv'
<1> USE DEF CounterTypes, ControlInv, CancelInv, Active, vars, loadVars, controlVars,
            optionVars, threadVars, counterVars, flushVars, lockVars, childVars, signalVars,
            MainAt, ThreadAt, WorkerIn, FlushAt, ChildIn
<1>1. CASE ConstructSignalHandler
  BY <1>1 DEF ConstructSignalHandler, MainMoves
<1>2. CASE RunFails
  BY <1>2 DEF RunFails, MainMoves
<1>3. CASE Fork
  BY <1>3 DEF Fork, MainMoves
<1>4. CASE SemWait
  BY <1>4 DEF SemWait, MainMoves, SemPosted
<1>5. CASE SetupSkipped
  BY <1>5 DEF SetupSkipped, MainMoves
<1>6. CASE SetupFails
  BY <1>6 DEF SetupFails, MainMoves, MayStart, createWorkers
<1>7. CASE StartWorkers
  BY <1>7 DEF StartWorkers, MainMoves, MayStart
<1>8. CASE WaitForWorkers
  BY <1>8 DEF WaitForWorkers, WorkersComplete
<1>9. CASE WaitForFlushWorker
  BY <1>9 DEF WaitForFlushWorker, MainMoves
<1>10. CASE Report
  BY <1>10 DEF Report, MainMoves
<1>11. CASE ShutdownFlushWorker
  BY <1>11 DEF ShutdownFlushWorker, MainMoves
<1>12. CASE ShutdownWorkers
  BY <1>12 DEF ShutdownWorkers, MainMoves, FlushWorkerJoined
<1>13. CASE JoinWorkers
  BY <1>13 DEF JoinWorkers, MainMoves
<1>14. CASE SetDestructing
  BY <1>14 DEF SetDestructing, MainMoves
<1>15. CASE RestoreDispositions
  BY <1>15 DEF RestoreDispositions, MainMoves
<1>16. CASE DestructorChecks
  BY <1>16 DEF DestructorChecks
<1>17. CASE DestructorWrites
  BY <1>17 DEF DestructorWrites
<1>18. CASE JoinShutdownThread
  BY <1>18 DEF JoinShutdownThread, MainMoves, ShutdownThreadJoined
<1>19. CASE SignalArrives
  BY <1>19 DEF SignalArrives
<1>20. CASE HandlerChecks
  BY <1>20 DEF HandlerChecks
<1>21. CASE HandlerWrites
  BY <1>21 DEF HandlerWrites
<1>22. CASE ReadAndClose
  BY <1>22 DEF ReadAndClose
<1>23. CASE ClearPipe
  BY <1>23 DEF ClearPipe
<1>24. CASE RestoreBeforeCallback
  BY <1>24 DEF RestoreBeforeCallback, DispositionForCallback
<1>25. CASE requestExecutionCancellation
  BY <1>25 DEF requestExecutionCancellation, WorkersToCancel
<1>26. CASE FlushWorkerStarts
  BY <1>26 DEF FlushWorkerStarts
<1>27. CASE FlushLoopExits
  BY <1>27 DEF FlushLoopExits
<1>28. CASE FinalFlush
  BY <1>28 DEF FinalFlush
<1>29. CASE ChildPosts
  BY <1>29 DEF ChildPosts, ChildMoves
<1>30. CASE ChildExits
  BY <1>30 DEF ChildExits, ChildMoves
<1>31. CASE EnvoyRuns
  BY <1>31 DEF EnvoyRuns, ChildMoves
<1>32. CASE EnvoyServes
  BY <1>32 DEF EnvoyServes, ChildMoves
<1>33. CASE EnvoyCrashes
  BY <1>33 DEF EnvoyCrashes, ChildMoves
<1>34. ASSUME NEW who \in {"main", "shutdown_thread"}, TerminateNothing(who)
      PROVE  CancelInv'
  BY <1>34 DEF TerminateNothing, Calls, Terminable, Returns, LockAfter
<1>35. ASSUME NEW who \in {"main", "shutdown_thread"}, SendTerm(who)
      PROVE  CancelInv'
  BY <1>35 DEF SendTerm, Calls, Terminable
<1>36. ASSUME NEW who \in {"main", "shutdown_thread"}, Reap(who)
      PROVE  CancelInv'
  BY <1>36 DEF Reap, Waits, Returns, LockAfter
<1>37. ASSUME NEW who \in {"main", "shutdown_thread"}, KillAndReap(who)
      PROVE  CancelInv'
  BY <1>37 DEF KillAndReap, Waits, Returns, LockAfter
<1>38. ASSUME NEW w \in Workers, WorkerStarts(w)
      PROVE  CancelInv'
  BY <1>38 DEF WorkerStarts, RunsPosted
<1>39. ASSUME NEW w \in Workers, PostedRuns(w)
      PROVE  CancelInv'
  BY <1>39 DEF PostedRuns, RunsPosted
<1>40. ASSUME NEW w \in Workers, WarmupEnds(w)
      PROVE  CancelInv'
  BY <1>40 DEF WarmupEnds, WorkerMoves
<1>41. ASSUME NEW w \in Workers, ResponseCounted(w)
      PROVE  CancelInv'
  BY <1>41 DEF ResponseCounted
<1>42. ASSUME NEW w \in Workers, ExecutionEnds(w)
      PROVE  CancelInv'
  BY <1>42 DEF ExecutionEnds, WorkerMoves
<1>43. ASSUME NEW w \in Workers, DrainBegins(w)
      PROVE  CancelInv'
  BY <1>43 DEF DrainBegins, WorkerMoves
<1>44. ASSUME NEW w \in Workers, DrainEnds(w)
      PROVE  CancelInv'
  BY <1>44 DEF DrainEnds, WorkerMoves
<1>45. CASE UNCHANGED vars
  BY <1>45
<1>46. QED
  BY <1>1, <1>2, <1>3, <1>4, <1>5, <1>6, <1>7, <1>8, <1>9, <1>10, <1>11, <1>12, <1>13,
     <1>14, <1>15, <1>16, <1>17, <1>18, <1>19, <1>20, <1>21, <1>22, <1>23, <1>24, <1>25,
     <1>26, <1>27, <1>28, <1>29, <1>30, <1>31, <1>32, <1>33, <1>34, <1>35, <1>36, <1>37,
     <1>38, <1>39, <1>40, <1>41, <1>42, <1>43, <1>44, <1>45, Zenon DEF Next, MainStep,
     ShutdownThreadStep, HandlerStep, WorkerStep, FlushStep, TerminateEncapSubProcess

\* Every step preserves ResultInv.
LEMMA ResultStep ==
  ASSUME CounterTypes, ControlInv, ResultInv, [Next]_vars
  PROVE  ResultInv'
<1> USE DEF CounterTypes, ControlInv, ResultInv, Counters, Reported, PastFlush, Active,
            vars, loadVars, controlVars, optionVars, threadVars, counterVars, flushVars,
            lockVars, childVars, signalVars, MainAt, ThreadAt, WorkerIn, FlushAt, ChildIn
<1>1. CASE ConstructSignalHandler
  BY <1>1 DEF ConstructSignalHandler, MainMoves
<1>2. CASE RunFails
  BY <1>2 DEF RunFails, MainMoves
<1>3. CASE Fork
  BY <1>3 DEF Fork, MainMoves
<1>4. CASE SemWait
  BY <1>4 DEF SemWait, MainMoves, SemPosted
<1>5. CASE SetupSkipped
  BY <1>5 DEF SetupSkipped, MainMoves
<1>6. CASE SetupFails
  BY <1>6 DEF SetupFails, MainMoves, MayStart, createWorkers
<1>7. CASE StartWorkers
  BY <1>7 DEF StartWorkers, MainMoves, MayStart
<1>8. CASE WaitForWorkers
  BY <1>8 DEF WaitForWorkers, WorkersComplete
<1>9. CASE WaitForFlushWorker
  BY <1>9 DEF WaitForFlushWorker, MainMoves
<1>10. CASE Report
  BY <1>10 DEF Report, MainMoves
<1>11. CASE ShutdownFlushWorker
  BY <1>11 DEF ShutdownFlushWorker, MainMoves
<1>12. CASE ShutdownWorkers
  BY <1>12 DEF ShutdownWorkers, MainMoves, FlushWorkerJoined
<1>13. CASE JoinWorkers
  BY <1>13 DEF JoinWorkers, MainMoves
<1>14. CASE SetDestructing
  BY <1>14 DEF SetDestructing, MainMoves
<1>15. CASE RestoreDispositions
  BY <1>15 DEF RestoreDispositions, MainMoves
<1>16. CASE DestructorChecks
  BY <1>16 DEF DestructorChecks
<1>17. CASE DestructorWrites
  BY <1>17 DEF DestructorWrites
<1>18. CASE JoinShutdownThread
  BY <1>18 DEF JoinShutdownThread, MainMoves, ShutdownThreadJoined
<1>19. CASE SignalArrives
  BY <1>19 DEF SignalArrives
<1>20. CASE HandlerChecks
  BY <1>20 DEF HandlerChecks
<1>21. CASE HandlerWrites
  BY <1>21 DEF HandlerWrites
<1>22. CASE ReadAndClose
  BY <1>22 DEF ReadAndClose
<1>23. CASE ClearPipe
  BY <1>23 DEF ClearPipe
<1>24. CASE RestoreBeforeCallback
  BY <1>24 DEF RestoreBeforeCallback, DispositionForCallback
<1>25. CASE requestExecutionCancellation
  BY <1>25 DEF requestExecutionCancellation, WorkersToCancel
<1>26. CASE FlushWorkerStarts
  BY <1>26 DEF FlushWorkerStarts
<1>27. CASE FlushLoopExits
  BY <1>27 DEF FlushLoopExits
<1>28. CASE FinalFlush
  BY <1>28 DEF FinalFlush
<1>29. CASE ChildPosts
  BY <1>29 DEF ChildPosts, ChildMoves
<1>30. CASE ChildExits
  BY <1>30 DEF ChildExits, ChildMoves
<1>31. CASE EnvoyRuns
  BY <1>31 DEF EnvoyRuns, ChildMoves
<1>32. CASE EnvoyServes
  BY <1>32 DEF EnvoyServes, ChildMoves
<1>33. CASE EnvoyCrashes
  BY <1>33 DEF EnvoyCrashes, ChildMoves
<1>34. ASSUME NEW who \in {"main", "shutdown_thread"}, TerminateNothing(who)
      PROVE  ResultInv'
  BY <1>34 DEF TerminateNothing, Calls, Terminable, Returns, LockAfter
<1>35. ASSUME NEW who \in {"main", "shutdown_thread"}, SendTerm(who)
      PROVE  ResultInv'
  BY <1>35 DEF SendTerm, Calls, Terminable
<1>36. ASSUME NEW who \in {"main", "shutdown_thread"}, Reap(who)
      PROVE  ResultInv'
  BY <1>36 DEF Reap, Waits, Returns, LockAfter
<1>37. ASSUME NEW who \in {"main", "shutdown_thread"}, KillAndReap(who)
      PROVE  ResultInv'
  BY <1>37 DEF KillAndReap, Waits, Returns, LockAfter
<1>38. ASSUME NEW w \in Workers, WorkerStarts(w)
      PROVE  ResultInv'
  BY <1>38 DEF WorkerStarts, RunsPosted
<1>39. ASSUME NEW w \in Workers, PostedRuns(w)
      PROVE  ResultInv'
  BY <1>39 DEF PostedRuns, RunsPosted
<1>40. ASSUME NEW w \in Workers, WarmupEnds(w)
      PROVE  ResultInv'
  BY <1>40 DEF WarmupEnds, WorkerMoves
<1>41. ASSUME NEW w \in Workers, ResponseCounted(w)
      PROVE  ResultInv'
  BY <1>41 DEF ResponseCounted
<1>42. ASSUME NEW w \in Workers, ExecutionEnds(w)
      PROVE  ResultInv'
  BY <1>42 DEF ExecutionEnds, WorkerMoves
<1>43. ASSUME NEW w \in Workers, DrainBegins(w)
      PROVE  ResultInv'
  BY <1>43 DEF DrainBegins, WorkerMoves
<1>44. ASSUME NEW w \in Workers, DrainEnds(w)
      PROVE  ResultInv'
  BY <1>44 DEF DrainEnds, WorkerMoves
<1>45. CASE UNCHANGED vars
  BY <1>45
<1>46. QED
  BY <1>1, <1>2, <1>3, <1>4, <1>5, <1>6, <1>7, <1>8, <1>9, <1>10, <1>11, <1>12, <1>13,
     <1>14, <1>15, <1>16, <1>17, <1>18, <1>19, <1>20, <1>21, <1>22, <1>23, <1>24, <1>25,
     <1>26, <1>27, <1>28, <1>29, <1>30, <1>31, <1>32, <1>33, <1>34, <1>35, <1>36, <1>37,
     <1>38, <1>39, <1>40, <1>41, <1>42, <1>43, <1>44, <1>45, Zenon DEF Next, MainStep,
     ShutdownThreadStep, HandlerStep, WorkerStep, FlushStep, TerminateEncapSubProcess


\* The shutdown thread never calls into a process that is gone.
THEOREM CallbackIsSafe == Spec => []CallbackWithinLifetime
<1>1. ControlInv => CallbackWithinLifetime
  BY DEF ControlInv, CallbackWithinLifetime
<1>2. QED
  BY <1>1, ControlInvariant, PTL

\* While the callback runs or waits for a lock, a second signal has its default effect.
THEOREM EscalationWorks == Spec => []SecondSignalEscalates
<1>1. ControlInv => SecondSignalEscalates
  BY DEF ControlInv, SecondSignalEscalates
<1>2. QED
  BY <1>1, ControlInvariant, PTL

\* The program never ends with a child that was not reaped.
THEOREM NoChildLeft == Spec => []ChildIsReaped
<1>1. ControlInv => ChildIsReaped
  BY DEF ControlInv, ChildIsReaped, PastTerminate
<1>2. QED
  BY <1>1, ControlInvariant, PTL

\* A cancellation that reported success has reached every worker that executes, for any
\* number of workers and wherever the signal came in.
THEOREM CancellationReaches == Spec => []CancellationReachesWorkers
<1>1. Init => CancelInv
  BY DEF Init, CancelInv, Active
<1>2. CancelInv => CancellationReachesWorkers
  BY DEF CancelInv, CancellationReachesWorkers, Active
<1>3. QED
  BY <1>1, <1>2, CancelStep, ControlInvariant, CounterTypesInvariant, PTL DEF Spec

\* ResultInv holds always.
LEMMA ResultInvariant == Spec => []ResultInv
<1>1. Init => ResultInv
  BY DEF Init, ResultInv, Reported, PastFlush, Active, Counters
<1>2. QED
  BY <1>1, ResultStep, ControlInvariant, CounterTypesInvariant, PTL DEF Spec

\* The global result is made of the workers' snapshots, whatever was answered or cancelled
\* meanwhile.
THEOREM ResultsLineUp == Spec => []GlobalMatchesWorkers
<1>1. ResultInv => GlobalMatchesWorkers
  BY DEF ResultInv, GlobalMatchesWorkers
<1>2. QED
  BY <1>1, ResultInvariant, PTL

\* The final flush to the stats sinks has the numbers of the report.
THEOREM FlushLinesUp == Spec => []FinalFlushMatchesReport
<1>1. ResultInv => FinalFlushMatchesReport
  BY DEF ResultInv, FinalFlushMatchesReport
<1>2. QED
  BY <1>1, ResultInvariant, PTL

=============================================================================
