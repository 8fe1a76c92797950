----------------------- MODULE BenchmarkClientProofs -----------------------
(***************************************************************************)
(* Proofs about BenchmarkClient, for any number of requests, any limits    *)
(* and any status codes, in closed- and in open-loop mode.                 *)
(***************************************************************************)
EXTENDS BenchmarkClient, FiniteSetTheorems, TLAPS

States == {"none", "pending", "active", "headers", "done", "failed"}
LiveStates == {"pending", "active", "headers"}

\* The requests whose decoder, in d, is in one of the given states.
In(d, states) == {r \in Requests : d[r] \in states}

LEMMA LiveIsIn ==
    /\ Live = In(decoder, LiveStates)
    /\ InState({"failed"}) = In(decoder, {"failed"})
BY DEF Live, Pending, Active, InState, In, LiveStates

LEMMA InIsCounted ==
    ASSUME NEW d, NEW states
    PROVE  IsFiniteSet(In(d, states)) /\ Cardinality(In(d, states)) \in Nat
<1>1. IsFiniteSet(In(d, states))
  BY ClientAssumption, FS_Subset DEF In
<1> QED
  BY <1>1, FS_CardinalityType

\* How the number of decoders in the given states differs between d and e, when the decoder
\* of r went to state x.
Counts(d, e, r, x, states) ==
    LET before == Cardinality(In(d, states))
        after == Cardinality(In(e, states))
    IN  /\ x \in states /\ d[r] \notin states => after = before + 1
        /\ x \notin states /\ d[r] \in states => after = before - 1
        /\ x \in states /\ d[r] \in states => after = before
        /\ x \notin states /\ d[r] \notin states => after = before

LEMMA MoveCounts ==
    ASSUME NEW d \in [Requests -> States], NEW r \in Requests, NEW x \in States,
           NEW states, NEW e, e = [d EXCEPT ![r] = x]
    PROVE  Counts(d, e, r, x, states)
<1> DEFINE S == In(d, states)
<1>0. IsFiniteSet(S)
  BY InIsCounted
<1>1. ASSUME x \in states, d[r] \notin states
      PROVE  Cardinality(In(e, states)) = Cardinality(S) + 1
  <2>1. In(e, states) = S \cup {r} /\ r \notin S
    BY <1>1 DEF In
  <2> QED
    BY <1>0, <2>1, FS_AddElement, Zenon
<1>2. ASSUME x \notin states, d[r] \in states
      PROVE  Cardinality(In(e, states)) = Cardinality(S) - 1
  <2>1. In(e, states) = S \ {r} /\ r \in S
    BY <1>2 DEF In
  <2> QED
    BY <1>0, <2>1, FS_RemoveElement, Zenon
<1>3. ASSUME x \in states, d[r] \in states
      PROVE  In(e, states) = S
  BY <1>3 DEF In
<1>4. ASSUME x \notin states, d[r] \notin states
      PROVE  In(e, states) = S
  BY <1>4 DEF In
<1> HIDE DEF S
<1> QED
  BY <1>1, <1>2, <1>3, <1>4, Zenon DEF S, Counts

LEMMA StatusClassIsClass ==
    ASSUME NEW code \in Nat
    PROVE  StatusClass(code) \in Classes
BY DEF StatusClass, Classes

\* Counting one more in a class adds one to the total.
LEMMA TotalOfNext ==
    ASSUME NEW f \in [Classes -> Nat], NEW c \in Classes
    PROVE  /\ TotalOf(f) \in Nat
           /\ [f EXCEPT ![c] = @ + 1] \in [Classes -> Nat]
           /\ TotalOf([f EXCEPT ![c] = @ + 1]) = TotalOf(f) + 1
BY DEF TotalOf, Classes

\* What CountCompletion() and exportLatency() do to the counters.
LEMMA CompletionCounts ==
    ASSUME TypeOK, NEW r \in Requests, NEW success \in BOOLEAN, NEW code \in Nat,
           CountCompletion(success, code), exportLatency(r, success, code)
    PROVE  /\ requests_completed' = requests_completed + 1
           /\ http' \in [Classes -> Nat] /\ latencies' \in [Classes -> Nat]
           /\ stream_resets' \in Nat
           /\ TotalOf(http') + stream_resets' = TotalOf(http) + stream_resets + 1
<1>1. StatusClass(code) \in Classes
  BY StatusClassIsClass
<1>2. /\ http \in [Classes -> Nat] /\ latencies \in [Classes -> Nat]
      /\ stream_resets \in Nat /\ requests_completed \in Nat
  BY DEF TypeOK
<1>3. TotalOf(http) \in Nat
  BY <1>1, <1>2, TotalOfNext, Zenon
<1>4. latencies' \in [Classes -> Nat]
  BY <1>1, <1>2 DEF exportLatency
<1>5. CASE success
  <2> DEFINE f == [http EXCEPT ![StatusClass(code)] = @ + 1]
  <2>1. http' = f /\ stream_resets' = stream_resets + 0
    BY <1>5 DEF CountCompletion
  <2>2. f \in [Classes -> Nat] /\ TotalOf(f) = TotalOf(http) + 1
    BY <1>1, <1>2, TotalOfNext, Zenon
  <2>3. http' \in [Classes -> Nat] /\ TotalOf(http') = TotalOf(http) + 1
    BY <2>1, <2>2, Zenon
  <2>4. requests_completed' = requests_completed + 1
    BY DEF CountCompletion
  <2> QED
    BY <1>2, <1>3, <1>4, <2>1, <2>3, <2>4
<1>6. CASE ~success
  BY <1>2, <1>3, <1>4, <1>6 DEF CountCompletion
<1> QED
  BY <1>5, <1>6

-----------------------------------------------------------------------------
\* The types of the state are kept by every callback of client and decoder.
THEOREM TypeCorrect == Spec => []TypeOK
<1>1. Init => TypeOK
  <2>1. Init => /\ measure_latencies \in BOOLEAN /\ exit_pending \in BOOLEAN
                /\ decoder_measures \in [Requests -> BOOLEAN]
    BY Zenon DEF Init
  <2> QED
    BY <2>1 DEF Init, TypeOK
<1>2. TypeOK /\ [Next]_vars => TypeOK'
  <2> SUFFICES ASSUME TypeOK, [Next]_vars PROVE TypeOK'
    OBVIOUS
  <2>1. ASSUME NEW r \in Requests, StartRequest(r), UNCHANGED phase
        PROVE  TypeOK'
    <3>1. decoder_measures' \in [Requests -> BOOLEAN]
      BY <2>1, Zenon DEF StartRequest, TypeOK
    <3> QED
      BY <2>1, <3>1 DEF StartRequest, newStream, CallBack, TypeOK, drainVars
  <2>2. ASSUME NEW r \in Requests, onPoolFailure(r)
        PROVE  TypeOK'
    BY <2>2 DEF onPoolFailure, CountPoolFailure, CallBack, TypeOK, drainVars
  <2>3. ASSUME NEW r \in Requests, NEW success \in BOOLEAN, NEW code \in Nat,
               onComplete(r, success, code)
        PROVE  TypeOK'
    <3>1. /\ requests_completed' \in Nat /\ stream_resets' \in Nat
          /\ http' \in [Classes -> Nat] /\ latencies' \in [Classes -> Nat]
      BY <2>3, CompletionCounts DEF onComplete, TypeOK
    <3> QED
      BY <2>3, <3>1 DEF onComplete, handleResponseHeaders, CallBack, TypeOK, drainVars
  <2>4. CASE Warmup
    BY <2>1, <2>4 DEF Warmup
  <2>5. CASE setShouldMeasureLatencies
    BY <2>5 DEF setShouldMeasureLatencies, TypeOK, requestVars, counterVars, drainVars
  <2>6. CASE tryStartRequest
    BY <2>1, <2>6 DEF tryStartRequest
  <2>7. CASE PoolEvent
    <3>1. ASSUME NEW r \in Requests, onPoolReady(r) PROVE TypeOK'
      BY <3>1 DEF onPoolReady, TypeOK, counterVars, drainVars
    <3>2. ASSUME NEW r \in Requests, decodeHeaders(r) PROVE TypeOK'
      BY <3>2 DEF decodeHeaders, TypeOK, counterVars, drainVars
    <3> QED
      BY <2>2, <2>3, <2>7, <3>1, <3>2, ClientAssumption, Zenon
      DEF PoolEvent, EndOfStream, onResetStream
  <2>8. CASE WorkCompletes
    BY <2>8 DEF WorkCompletes, TypeOK, requestVars, counterVars, drainVars
  <2>9. CASE terminate
    BY <2>9, Zenon DEF terminate, TypeOK, requestVars, counterVars
  <2>10. CASE drainConnections
    BY <2>10 DEF drainConnections, TypeOK, requestVars, counterVars
  <2>11. CASE IdleCallback
    BY <2>11 DEF IdleCallback, TypeOK, requestVars, counterVars
  <2>12. CASE DrainTimeout
    BY <2>12 DEF DrainTimeout, TypeOK, requestVars, counterVars
  <2>13. CASE DrainLoopExits
    BY <2>13, Zenon DEF DrainLoopExits, TypeOK, requestVars, counterVars
  <2>14. CASE PoolDestroyed
    BY <2>2, <2>3, <2>14, Zenon DEF PoolDestroyed, onResetStream
  <2>15. CASE UNCHANGED vars
    BY <2>15 DEF vars, TypeOK, requestVars, counterVars, drainVars
  <2> QED
    BY <2>4, <2>5, <2>6, <2>7, <2>8, <2>9, <2>10, <2>11, <2>12, <2>13, <2>14, <2>15
    DEF Next
<1> QED
  BY <1>1, <1>2, PTL DEF Spec

-----------------------------------------------------------------------------
(* Every step is one of five, as far as requests and counters go.          *)

Starts(r) ==
    /\ StartRequest(r)
    /\ UNCHANGED phase
    /\ \/ phase = "measure"
       \/ phase = "warmup" /\ requests_initiated = 0

Fails(r) == onPoolFailure(r)

Ends(r, success, code) ==
    /\ r \in Active
    /\ phase # "reported"
    /\ onComplete(r, success, code)

\* The decoder of r stays live.
Advances(r) ==
    /\ r \in Live
    /\ \E x \in {"active", "headers"} : decoder' = [decoder EXCEPT ![r] = x]
    /\ UNCHANGED <<phase, measure_latencies, requests_initiated, requests_completed,
                   decoder_measures, called_back, counterVars,
                   provide_resource_backpressure>>

ChangesPhase ==
    /\ UNCHANGED <<requestVars, counterVars, provide_resource_backpressure>>
    /\ \/ UNCHANGED <<phase, measure_latencies>>
       \/ phase = "warmup" /\ Live = {} /\ phase' = "measure" /\ measure_latencies' = TRUE
       \/ phase = "measure" /\ phase' = "reported" /\ UNCHANGED measure_latencies
       \/ phase' \in {"drain", "terminated"}

LEMMA StepKinds ==
    ASSUME [Next]_vars
    PROVE  \/ \E r \in Requests : Starts(r) \/ Fails(r) \/ Advances(r)
           \/ \E r \in Requests, success \in BOOLEAN, code \in Nat : Ends(r, success, code)
           \/ ChangesPhase
<1>1. CASE Warmup \/ tryStartRequest
  BY <1>1 DEF Warmup, tryStartRequest, Starts
<1>2. CASE PoolEvent
  <2>1. PICK r \in Requests :
            \/ onPoolReady(r)
            \/ onPoolFailure(r)
            \/ decodeHeaders(r)
            \/ \E code \in Codes : EndOfStream(r, code)
            \/ DispatcherRuns /\ onResetStream(r)
    BY <1>2 DEF PoolEvent
  <2>2. CASE onPoolReady(r)
    <3>1. Advances(r)
      BY <2>2 DEF onPoolReady, Advances, Live
    <3> QED
      BY <3>1
  <2>3. CASE decodeHeaders(r)
    <3>1. Advances(r)
      BY <2>3 DEF decodeHeaders, Advances, Live, Active, InState
    <3> QED
      BY <3>1
  <2>4. CASE onPoolFailure(r)
    BY <2>4 DEF Fails
  <2>5. CASE \E code \in Codes : EndOfStream(r, code)
    <3>1. PICK code \in Codes : EndOfStream(r, code)
      BY <2>5
    <3>2. code \in Nat /\ Ends(r, TRUE, code)
      BY <3>1, ClientAssumption, Zenon DEF EndOfStream, Ends, DispatcherRuns
    <3> QED
      BY <3>2, Zenon
  <2>6. CASE DispatcherRuns /\ onResetStream(r)
    <3>1. Ends(r, FALSE, 0)
      BY <2>6, Zenon DEF onResetStream, Ends, DispatcherRuns
    <3> QED
      BY <3>1, Zenon
  <2> QED
    BY <2>1, <2>2, <2>3, <2>4, <2>5, <2>6
<1>3. CASE PoolDestroyed
  <2>1. PICK r \in Requests : onPoolFailure(r) \/ onResetStream(r)
    BY <1>3 DEF PoolDestroyed
  <2>2. onResetStream(r) => Ends(r, FALSE, 0)
    BY <1>3, Zenon DEF PoolDestroyed, onResetStream, Ends
  <2> QED
    BY <2>1, <2>2, Zenon DEF Fails
<1>4. CASE setShouldMeasureLatencies
  <2>1. ChangesPhase
    BY <1>4 DEF setShouldMeasureLatencies, ChangesPhase
  <2> QED
    BY <2>1
<1>5. CASE WorkCompletes
  <2>1. ChangesPhase
    BY <1>5 DEF WorkCompletes, ChangesPhase
  <2> QED
    BY <2>1
<1>6. CASE terminate
  <2>1. ChangesPhase
    BY <1>6 DEF terminate, ChangesPhase
  <2> QED
    BY <2>1
<1>7. CASE drainConnections \/ IdleCallback \/ DrainTimeout \/ DrainLoopExits
  <2>1. ChangesPhase
    BY <1>7 DEF drainConnections, IdleCallback, DrainTimeout, DrainLoopExits, ChangesPhase
  <2> QED
    BY <2>1
<1>8. CASE UNCHANGED vars
  <2>1. ChangesPhase
    BY <1>8 DEF vars, ChangesPhase
  <2> QED
    BY <2>1
<1> QED
  BY <1>1, <1>2, <1>3, <1>4, <1>5, <1>6, <1>7, <1>8 DEF Next

-----------------------------------------------------------------------------
\* The caller of tryStartRequest() is called back exactly once per request, when its decoder
\* is finished, on every path through pool and decoder: success, reset, pool failure,
\* overflow before newStream() has returned, and destruction of the pool.
THEOREM CallbackExactlyOnce == Spec => []CalledBackExactlyOnce
<1>1. Init => CalledBackExactlyOnce
  BY DEF Init, CalledBackExactlyOnce
<1>2. TypeOK /\ CalledBackExactlyOnce /\ [Next]_vars => CalledBackExactlyOnce'
  <2> SUFFICES ASSUME TypeOK, CalledBackExactlyOnce, [Next]_vars
               PROVE  CalledBackExactlyOnce'
    OBVIOUS
  <2>1. /\ decoder \in [Requests -> States] /\ called_back \in [Requests -> Nat]
        /\ \A q \in Requests :
            called_back[q] = IF decoder[q] \in {"done", "failed"} THEN 1 ELSE 0
    BY DEF TypeOK, States, CalledBackExactlyOnce
  <2>2. ASSUME NEW r \in Requests, Starts(r) PROVE CalledBackExactlyOnce'
    BY <2>1, <2>2 DEF Starts, StartRequest, newStream, CallBack, CalledBackExactlyOnce
  <2>3. ASSUME NEW r \in Requests, Fails(r) PROVE CalledBackExactlyOnce'
    BY <2>1, <2>3 DEF Fails, onPoolFailure, Pending, InState, CallBack, CalledBackExactlyOnce
  <2>4. ASSUME NEW r \in Requests, Advances(r) PROVE CalledBackExactlyOnce'
    BY <2>1, <2>4 DEF Advances, Live, Pending, Active, InState, CalledBackExactlyOnce
  <2>5. ASSUME NEW r \in Requests, NEW success \in BOOLEAN, NEW code \in Nat,
               Ends(r, success, code)
        PROVE  CalledBackExactlyOnce'
    BY <2>1, <2>5 DEF Ends, onComplete, Active, InState, CallBack, CalledBackExactlyOnce
  <2>6. ASSUME ChangesPhase PROVE CalledBackExactlyOnce'
    BY <2>1, <2>6 DEF ChangesPhase, requestVars, CalledBackExactlyOnce
  <2> QED
    BY <2>2, <2>3, <2>4, <2>5, <2>6, StepKinds
<1> QED
  BY <1>1, <1>2, TypeCorrect, PTL DEF Spec

-----------------------------------------------------------------------------
(* The two counters behind the limit.                                      *)

LiveCount == Cardinality(Live)
FailedCount == Cardinality(InState({"failed"}))

\* What separates requests_initiated_ from requests_completed_.
Gap == requests_initiated - requests_completed = LiveCount + FailedCount

LEMMA CountsAreNat == LiveCount \in Nat /\ FailedCount \in Nat
BY LiveIsIn, InIsCounted DEF LiveCount, FailedCount

\* The sizes of the two sets after the decoder of r went to state x.
LEMMA LiveMoves ==
    ASSUME TypeOK, NEW r \in Requests, NEW x \in States,
           decoder' = [decoder EXCEPT ![r] = x]
    PROVE  /\ x \in LiveStates /\ decoder[r] \notin LiveStates => LiveCount' = LiveCount + 1
           /\ x \notin LiveStates /\ decoder[r] \in LiveStates => LiveCount' = LiveCount - 1
           /\ x \in LiveStates /\ decoder[r] \in LiveStates => LiveCount' = LiveCount
           /\ x \notin LiveStates /\ decoder[r] \notin LiveStates => LiveCount' = LiveCount
           /\ x = "failed" /\ decoder[r] # "failed" => FailedCount' = FailedCount + 1
           /\ x # "failed" /\ decoder[r] # "failed" => FailedCount' = FailedCount
<1> DEFINE e == decoder'
<1>1. decoder \in [Requests -> States] /\ e = [decoder EXCEPT ![r] = x]
  BY DEF TypeOK, States
<1>2. Live' = In(e, LiveStates) /\ InState({"failed"})' = In(e, {"failed"})
  BY DEF Live, Pending, Active, InState, In, LiveStates
<1> HIDE DEF e
<1>3. /\ LiveCount = Cardinality(In(decoder, LiveStates))
      /\ FailedCount = Cardinality(In(decoder, {"failed"}))
      /\ LiveCount' = Cardinality(In(e, LiveStates))
      /\ FailedCount' = Cardinality(In(e, {"failed"}))
  BY <1>2, LiveIsIn, Zenon DEF LiveCount, FailedCount
<1>4. /\ x \in LiveStates /\ decoder[r] \notin LiveStates => LiveCount' = LiveCount + 1
      /\ x \notin LiveStates /\ decoder[r] \in LiveStates => LiveCount' = LiveCount - 1
      /\ x \in LiveStates /\ decoder[r] \in LiveStates => LiveCount' = LiveCount
      /\ x \notin LiveStates /\ decoder[r] \notin LiveStates => LiveCount' = LiveCount
  <2>1. Counts(decoder, e, r, x, LiveStates)
    BY <1>1, MoveCounts, Zenon
  <2> QED
    BY <1>3, <2>1, Zenon DEF Counts
<1>5. /\ x \in {"failed"} /\ decoder[r] \notin {"failed"} => FailedCount' = FailedCount + 1
      /\ x \notin {"failed"} /\ decoder[r] \notin {"failed"} => FailedCount' = FailedCount
  <2>1. Counts(decoder, e, r, x, {"failed"})
    BY <1>1, MoveCounts, Zenon
  <2> QED
    BY <1>3, <2>1, Zenon DEF Counts
<1> QED
  BY <1>4, <1>5, Zenon

\* Gap and the bound are kept together: the guard of tryStartRequest() compares the two
\* counters, and Gap says what that comparison means for the requests outstanding.
LEMMA GapAndBoundKept ==
    ASSUME TypeOK, Gap, InFlightBounded, [Next]_vars
    PROVE  Gap' /\ InFlightBounded'
<1>1. /\ requests_initiated \in Nat /\ requests_completed \in Nat
      /\ decoder \in [Requests -> States] /\ max_in_flight \in Nat
  BY ClientAssumption DEF TypeOK, States, max_in_flight
<1>2. LiveCount \in Nat /\ FailedCount \in Nat
  BY CountsAreNat
<1>3. requests_initiated - requests_completed = LiveCount + FailedCount
  BY DEF Gap
<1>4. provide_resource_backpressure => LiveCount <= max_in_flight
  BY DEF InFlightBounded, LiveCount
<1>5. SUFFICES /\ requests_initiated' - requests_completed' = LiveCount' + FailedCount'
               /\ provide_resource_backpressure' => LiveCount' <= max_in_flight
  BY DEF Gap, InFlightBounded, LiveCount, max_in_flight
<1>6. ASSUME NEW r \in Requests, Starts(r)
      PROVE  /\ requests_initiated' - requests_completed' = LiveCount' + FailedCount'
             /\ provide_resource_backpressure' => LiveCount' <= max_in_flight
  <2>1. PICK x \in {"active", "pending", "failed"} : decoder' = [decoder EXCEPT ![r] = x]
    BY <1>6 DEF Starts, StartRequest, newStream
  <2>2. /\ decoder[r] = "none"
        /\ requests_initiated' = requests_initiated + 1
        /\ requests_completed' = requests_completed
        /\ provide_resource_backpressure' = provide_resource_backpressure
        /\ provide_resource_backpressure =>
                ~(requests_initiated - requests_completed >= max_in_flight)
    BY <1>6 DEF Starts, StartRequest, Refuses
  <2>3. \/ LiveCount' = LiveCount + 1 /\ FailedCount' = FailedCount
        \/ LiveCount' = LiveCount /\ FailedCount' = FailedCount + 1
    <3>1. x \in States
      BY DEF States
    <3> QED
      BY <1>2, LiveMoves, <2>1, <2>2, <3>1, Zenon DEF LiveStates
  <2> QED
    BY <1>1, <1>2, <1>3, <2>2, <2>3
<1>7. ASSUME NEW r \in Requests, Fails(r)
      PROVE  /\ requests_initiated' - requests_completed' = LiveCount' + FailedCount'
             /\ provide_resource_backpressure' => LiveCount' <= max_in_flight
  <2>1. /\ decoder[r] = "pending" /\ decoder' = [decoder EXCEPT ![r] = "failed"]
        /\ UNCHANGED <<requests_initiated, requests_completed,
                       provide_resource_backpressure>>
    BY <1>7 DEF Fails, onPoolFailure, Pending, InState
  <2>2. LiveCount' = LiveCount - 1 /\ FailedCount' = FailedCount + 1
    BY <1>2, LiveMoves, <2>1, Zenon DEF LiveStates, States
  <2> QED
    BY <1>1, <1>2, <1>3, <1>4, <2>1, <2>2
<1>8. ASSUME NEW r \in Requests, Advances(r)
      PROVE  /\ requests_initiated' - requests_completed' = LiveCount' + FailedCount'
             /\ provide_resource_backpressure' => LiveCount' <= max_in_flight
  <2>1. PICK x \in {"active", "headers"} : decoder' = [decoder EXCEPT ![r] = x]
    BY <1>8, Zenon DEF Advances
  <2>2. /\ decoder[r] \in LiveStates
        /\ UNCHANGED <<requests_initiated, requests_completed,
                       provide_resource_backpressure>>
    BY <1>8 DEF Advances, Live, Pending, Active, InState, LiveStates
  <2>3. LiveCount' = LiveCount /\ FailedCount' = FailedCount
    BY <1>2, LiveMoves, <2>1, <2>2, Zenon DEF LiveStates, States
  <2> QED
    BY <1>1, <1>2, <1>3, <1>4, <2>2, <2>3
<1>9. ASSUME NEW r \in Requests, NEW success \in BOOLEAN, NEW code \in Nat,
              Ends(r, success, code)
       PROVE  /\ requests_initiated' - requests_completed' = LiveCount' + FailedCount'
              /\ provide_resource_backpressure' => LiveCount' <= max_in_flight
  <2>1. /\ decoder[r] \in {"active", "headers"}
        /\ decoder' = [decoder EXCEPT ![r] = "done"]
        /\ requests_completed' = requests_completed + 1
        /\ UNCHANGED <<requests_initiated, provide_resource_backpressure>>
    BY <1>9 DEF Ends, onComplete, CountCompletion, Active, InState
  <2>2. LiveCount' = LiveCount - 1 /\ FailedCount' = FailedCount
    BY <1>2, LiveMoves, <2>1, Zenon DEF LiveStates, States
  <2> QED
    BY <1>1, <1>2, <1>3, <1>4, <2>1, <2>2
<1>10. ASSUME ChangesPhase
       PROVE  /\ requests_initiated' - requests_completed' = LiveCount' + FailedCount'
              /\ provide_resource_backpressure' => LiveCount' <= max_in_flight
  <2>1. /\ UNCHANGED <<requests_initiated, requests_completed,
                       provide_resource_backpressure>>
        /\ LiveCount' = LiveCount /\ FailedCount' = FailedCount
    BY <1>10 DEF ChangesPhase, requestVars, LiveCount, FailedCount, Live, Pending, Active,
                 InState
  <2> QED
    BY <1>3, <1>4, <2>1
<1> QED
  BY <1>6, <1>7, <1>8, <1>9, <1>10, StepKinds

LEMMA GapAndBound == Spec => [](Gap /\ InFlightBounded)
<1>1. Init => Gap /\ InFlightBounded
  <2> SUFFICES ASSUME Init PROVE Gap /\ InFlightBounded
    OBVIOUS
  <2>1. Live = {} /\ InState({"failed"}) = {}
    BY DEF Init, Live, Pending, Active, InState
  <2>2. LiveCount = 0 /\ FailedCount = 0
    BY <2>1, FS_EmptySet DEF LiveCount, FailedCount
  <2> QED
    BY <2>2, ClientAssumption DEF Init, Gap, InFlightBounded, LiveCount, max_in_flight
<1>2. TypeOK /\ (Gap /\ InFlightBounded) /\ [Next]_vars => (Gap /\ InFlightBounded)'
  BY GapAndBoundKept
<1> QED
  BY <1>1, <1>2, TypeCorrect, PTL DEF Spec

\* In closed-loop mode tryStartRequest() never lets the requests outstanding exceed the
\* connections (or active requests) plus the pending requests allowed, although it compares
\* two counters that are updated on different paths and the pool's failures update neither.
THEOREM BoundedInFlight == Spec => []InFlightBounded
BY GapAndBound, PTL

-----------------------------------------------------------------------------
(* Results and latencies.                                                  *)

Sums == TotalOf(http) + stream_resets = requests_completed

Reporting == {"warmup", "measure", "reported"}

\* Before terminate(): the one request that may have been sent before setShouldMeasure-
\* Latencies() was not measured, and every request outstanding after it is.
Measured ==
    /\ phase = "warmup" =>
        /\ requests_initiated <= 1
        /\ measure_latencies = FALSE
        /\ \A r \in Requests : decoder_measures[r] = FALSE
        /\ TotalOf(latencies) = 0
    /\ phase \in {"measure", "reported"} =>
        /\ measure_latencies = TRUE
        /\ \A r \in Live : decoder_measures[r] = TRUE
    /\ phase \in Reporting =>
        /\ \A c \in Classes : latencies[c] <= http[c]
        /\ TotalOf(http) - TotalOf(latencies) <= 1

LEMMA CountersAreNat ==
    ASSUME TypeOK
    PROVE  /\ TotalOf(http) \in Nat /\ TotalOf(latencies) \in Nat
           /\ stream_resets \in Nat /\ requests_completed \in Nat /\ requests_initiated \in Nat
BY DEF TypeOK, TotalOf, Classes

LEMMA SumsKept ==
    ASSUME TypeOK, Sums, [Next]_vars
    PROVE  Sums'
<1>1. ASSUME NEW r \in Requests, NEW success \in BOOLEAN, NEW code \in Nat,
             Ends(r, success, code)
      PROVE  Sums'
  <2>1. CountCompletion(success, code) /\ exportLatency(r, success, code)
    BY <1>1 DEF Ends, onComplete
  <2>2. /\ requests_completed' = requests_completed + 1
        /\ TotalOf(http') + stream_resets' = TotalOf(http) + stream_resets + 1
    BY <2>1, CompletionCounts
  <2>3. TotalOf(http)' = TotalOf(http')
    BY DEF TotalOf
  <2> QED
    BY <2>2, <2>3, Zenon DEF Sums
<1>2. ASSUME UNCHANGED <<http, stream_resets, requests_completed>>
      PROVE  Sums'
  BY <1>2, Zenon DEF Sums, TotalOf
<1>3. ASSUME NEW r \in Requests, Starts(r) \/ Fails(r) \/ Advances(r)
      PROVE  UNCHANGED <<http, stream_resets, requests_completed>>
  BY <1>3 DEF Starts, StartRequest, Fails, onPoolFailure, Advances, counterVars
<1>4. ASSUME ChangesPhase
      PROVE  UNCHANGED <<http, stream_resets, requests_completed>>
  BY <1>4 DEF ChangesPhase, requestVars, counterVars
<1> QED
  BY <1>1, <1>2, <1>3, <1>4, StepKinds

\* Gap bounds what can have completed in the warm-up by what was sent in it.
LEMMA MeasuredKept ==
    ASSUME TypeOK, Gap, Gap', Sums, Sums', Measured, TypeOK', [Next]_vars
    PROVE  Measured'
<1>0. /\ TotalOf(http) \in Nat /\ TotalOf(latencies) \in Nat
      /\ stream_resets \in Nat /\ requests_completed \in Nat /\ requests_initiated \in Nat
      /\ LiveCount \in Nat /\ FailedCount \in Nat
  BY CountersAreNat, CountsAreNat
<1>1. ASSUME NEW r \in Requests, Starts(r)
      PROVE  Measured'
  <2>1. /\ UNCHANGED <<phase, measure_latencies, http, latencies>>
        /\ decoder_measures' = [decoder_measures EXCEPT ![r] = measure_latencies]
        /\ \E x \in States : decoder' = [decoder EXCEPT ![r] = x]
        /\ requests_initiated' = requests_initiated + 1
        /\ phase = "warmup" => requests_initiated = 0
    BY <1>1 DEF Starts, StartRequest, newStream, States
  <2>2. \A q \in Live' : q = r \/ q \in Live
    BY <2>1 DEF TypeOK, Live, Pending, Active, InState
  <2>3. TotalOf(http)' = TotalOf(http) /\ TotalOf(latencies)' = TotalOf(latencies)
    BY <2>1, Zenon DEF TotalOf
  <2>4. decoder_measures \in [Requests -> BOOLEAN] /\ Live' \subseteq Requests
    BY DEF TypeOK, Live, Pending, Active, InState
  <2>5. \A q \in Requests : decoder_measures'[q] = IF q = r THEN measure_latencies
                                                   ELSE decoder_measures[q]
    BY <2>1, <2>4, Zenon
  <2>6. phase = "warmup" => \A q \in Requests : decoder_measures'[q] = FALSE
    BY <2>5, Zenon DEF Measured
  <2>7. phase \in {"measure", "reported"} => \A q \in Live' : decoder_measures'[q] = TRUE
    BY <2>2, <2>4, <2>5, Zenon DEF Measured
  <2>8. phase \in Reporting => \A c \in Classes : latencies'[c] <= http'[c]
    BY <2>1, Zenon DEF Measured
  <2> QED
    BY <1>0, <2>1, <2>3, <2>6, <2>7, <2>8 DEF Measured
<1>2. ASSUME NEW r \in Requests, Fails(r) \/ Advances(r)
      PROVE  Measured'
  <2>1. /\ UNCHANGED <<phase, measure_latencies, http, latencies, decoder_measures,
                       requests_initiated>>
        /\ r \in Live
        /\ \E x \in States : decoder' = [decoder EXCEPT ![r] = x]
    BY <1>2 DEF Fails, onPoolFailure, Advances, Live, counterVars, States
  <2>2. Live' \subseteq Live
    BY <2>1 DEF TypeOK, Live, Pending, Active, InState
  <2> QED
    BY <2>1, <2>2, Zenon DEF Measured, TotalOf
<1>3. ASSUME NEW r \in Requests, NEW success \in BOOLEAN, NEW code \in Nat,
             Ends(r, success, code)
      PROVE  Measured'
  <2>1. /\ UNCHANGED <<phase, measure_latencies, decoder_measures, requests_initiated>>
        /\ r \in Live /\ phase # "reported"
        /\ decoder' = [decoder EXCEPT ![r] = "done"]
        /\ CountCompletion(success, code)
        /\ exportLatency(r, success, code)
    BY <1>3 DEF Ends, onComplete, Live
  <2>2. Live' \subseteq Live
    BY <2>1 DEF TypeOK, Live, Pending, Active, InState
  <2>3. StatusClass(code) \in Classes
    BY StatusClassIsClass
  <2>4. http \in [Classes -> Nat] /\ latencies \in [Classes -> Nat]
    BY DEF TypeOK
  <2>5. TotalOf(http)' = TotalOf(http') /\ TotalOf(latencies)' = TotalOf(latencies')
    BY DEF TotalOf
  <2>6. CASE phase = "warmup"
    <3>1. latencies' = latencies
      BY <2>1, <2>6, Zenon DEF exportLatency, Measured, Live, Pending, Active, InState
    <3>2. \A c \in Classes : latencies'[c] <= http'[c]
      BY <2>1, <2>3, <2>4, <2>6, <3>1 DEF CountCompletion, Measured, Reporting
    <3>3. TotalOf(latencies)' = 0
      BY <2>5, <2>6, <3>1, Zenon DEF Measured
    <3>4. TotalOf(http)' <= 1
      <4>1. /\ TotalOf(http)' \in Nat /\ stream_resets' \in Nat /\ requests_completed' \in Nat
        BY DEF TypeOK, TotalOf, Classes
      <4>2. requests_initiated <= 1
        BY <2>6 DEF Measured
      <4>3. LiveCount' \in Nat /\ FailedCount' \in Nat
        <5>1. /\ Live' = In(decoder', LiveStates)
              /\ InState({"failed"})' = In(decoder', {"failed"})
          BY DEF Live, Pending, Active, InState, In, LiveStates
        <5>2. /\ LiveCount' = Cardinality(In(decoder', LiveStates))
              /\ FailedCount' = Cardinality(In(decoder', {"failed"}))
          BY <5>1, Zenon DEF LiveCount, FailedCount
        <5> QED
          BY <5>2, InIsCounted
      <4> QED
        BY <1>0, <2>1, <4>1, <4>2, <4>3 DEF Sums, Gap
    <3>5. TotalOf(http)' - TotalOf(latencies)' <= 1
      <4>1. TotalOf(http)' \in Nat
        BY DEF TypeOK, TotalOf, Classes
      <4> QED
        BY <3>3, <3>4, <4>1
    <3> QED
      BY <2>1, <2>6, <3>2, <3>3, <3>5 DEF Measured
  <2>7. CASE phase = "measure"
    <3>1. decoder_measures[r] = TRUE
      BY <2>1, <2>7 DEF Measured
    <3>2. CASE success
      <4> DEFINE k == StatusClass(code)
      <4>1. /\ http' = [http EXCEPT ![k] = @ + 1]
            /\ latencies' = [latencies EXCEPT ![k] = @ + 1]
        BY <2>1, <3>1, <3>2 DEF CountCompletion, exportLatency
      <4>2. \A c \in Classes : latencies[c] <= http[c]
        BY <2>7 DEF Measured, Reporting
      <4>3. \A c \in Classes : latencies'[c] <= http'[c]
        BY <2>3, <2>4, <4>1, <4>2
      <4>4. /\ TotalOf([http EXCEPT ![k] = @ + 1]) = TotalOf(http) + 1
            /\ TotalOf([latencies EXCEPT ![k] = @ + 1]) = TotalOf(latencies) + 1
        BY <2>3, <2>4, TotalOfNext, Zenon
      <4>5. TotalOf(http)' = TotalOf(http) + 1 /\ TotalOf(latencies)' = TotalOf(latencies) + 1
        BY <2>5, <4>1, <4>4, Zenon
      <4>6. TotalOf(http)' - TotalOf(latencies)' <= 1
        BY <1>0, <2>7, <4>5 DEF Measured, Reporting
      <4> QED
        BY <2>1, <2>2, <2>7, <4>3, <4>6 DEF Measured
    <3>3. CASE ~success
      <4>1. http' = http /\ latencies' = latencies
        BY <2>1, <3>3 DEF CountCompletion, exportLatency
      <4> QED
        BY <2>1, <2>2, <4>1, Zenon DEF Measured, TotalOf
    <3> QED
      BY <3>2, <3>3
  <2>8. CASE phase \notin Reporting
    BY <2>1, <2>8 DEF Measured, Reporting
  <2> QED
    BY <2>1, <2>6, <2>7, <2>8 DEF Reporting
<1>4. ASSUME ChangesPhase
      PROVE  Measured'
  <2>1. /\ UNCHANGED <<http, latencies, decoder_measures, requests_initiated>>
        /\ Live' = Live
        /\ TotalOf(http)' = TotalOf(http) /\ TotalOf(latencies)' = TotalOf(latencies)
    BY <1>4 DEF ChangesPhase, requestVars, counterVars, Live, Pending, Active, InState, TotalOf
  <2>2. CASE UNCHANGED <<phase, measure_latencies>>
    BY <2>1, <2>2, Zenon DEF Measured
  <2>3. CASE phase = "warmup" /\ Live = {} /\ phase' = "measure" /\ measure_latencies' = TRUE
    BY <2>1, <2>3 DEF Measured, Reporting
  <2>4. CASE phase = "measure" /\ phase' = "reported" /\ UNCHANGED measure_latencies
    BY <2>1, <2>4 DEF Measured, Reporting
  <2>5. CASE phase' \in {"drain", "terminated"}
    BY <2>5 DEF Measured, Reporting
  <2> QED
    BY <1>4, <2>2, <2>3, <2>4, <2>5, Zenon DEF ChangesPhase
<1> QED
  BY <1>1, <1>2, <1>3, <1>4, StepKinds

\* The books of the client agree at every moment: each completed request is in exactly one
\* result counter; the two counters behind the limit differ by the requests outstanding and
\* those the pool failed; and up to terminate() a latency is recorded, in the class it was
\* counted in, for each response but at most one, the warm-up's.
THEOREM BooksAgree == Spec => []ResultsAccountedFor
<1>1. Init => Sums /\ Measured
  <2> SUFFICES ASSUME Init PROVE Sums /\ Measured
    OBVIOUS
  <2>1. TotalOf(http) = 0 /\ TotalOf(latencies) = 0
    BY DEF Init, TotalOf, Classes
  <2>2. Sums
    BY <2>1 DEF Init, Sums
  <2> QED
    BY <2>1, <2>2 DEF Init, Measured
<1>2. /\ TypeOK /\ TypeOK' /\ (Gap /\ InFlightBounded) /\ (Gap /\ InFlightBounded)'
      /\ (Sums /\ Measured) /\ [Next]_vars
      => (Sums /\ Measured)'
  BY SumsKept, MeasuredKept
<1>3. TypeOK /\ (Gap /\ InFlightBounded) /\ (Sums /\ Measured) => ResultsAccountedFor
  <2> SUFFICES ASSUME TypeOK, Gap, Sums, Measured PROVE ResultsAccountedFor
    OBVIOUS
  <2>1. phase \in {"warmup", "measure", "reported"} =>
          /\ \A c \in Classes : latencies[c] <= http[c]
          /\ TotalOf(http) - TotalOf(latencies) <= 1
          /\ phase = "warmup" => TotalOf(latencies) = 0
    BY DEF Measured, Reporting
  <2> QED
    BY <2>1, Zenon DEF Sums, Gap, LiveCount, FailedCount, ResultsAccountedFor
<1> QED
  BY <1>1, <1>2, <1>3, TypeCorrect, GapAndBound, PTL DEF Spec
=============================================================================
