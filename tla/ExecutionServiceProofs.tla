----------------------- MODULE ExecutionServiceProofs -----------------------
(***************************************************************************)
(* Proofs about ExecutionService, for any number of streams, of requests   *)
(* and of streams open at a time.                                          *)
(***************************************************************************)
EXTENDS ExecutionService, TLAPS

-----------------------------------------------------------------------------
(* The inductive invariant: where the threads of the streams and of their  *)
(* handlers can be at the same time.                                       *)

Steps == {"accept", "lock", "create", "release", "reply", "replyLocked", "unlock", "done"}
JobRecord == [owner : Streams, step : Steps, reply : Replies \union {"none"}]
Assigning == \E s \in Streams : rpc[s] = "assign"
Latest == Len(jobs)

Typed ==
    /\ jobs \in Seq(JobRecord)
    /\ DOMAIN rpc = Streams /\ DOMAIN awaited = Streams
    /\ future_ \in Nat

\* A stream is not done before the handlers it started.
OwnersOpen == \A j \in 1..Latest : jobs[j].step # "done" => Open(jobs[j].owner)

\* The handlers before future_ are done.  The last handler is in future_ already, or the
\* thread that started it is about to put it there; until then that thread keeps the handler
\* from going on, with accepted_lock_.
OneHandler ==
    /\ \A j \in 1..Latest : j < future_ => jobs[j].step = "done"
    /\ ~Assigning => future_ = Latest
    /\ \A s \in Streams : rpc[s] = "assign" =>
           /\ Latest > 0 /\ future_ = Latest - 1
           /\ jobs[Latest].step = "accept" /\ jobs[Latest].owner = s
           /\ accepted_lock_ = Server(s)

LockHeld == \A j \in 1..Latest : jobs[j].step = "lock" => accepted_lock_ = Job(j)

\* A stream that waits for its end waits for the handler it started last, if that is at work.
AwaitsOwn ==
    \A s \in Streams : rpc[s] = "awaiting" =>
        \A j \in 1..Latest : jobs[j].owner = s /\ jobs[j].step # "done" => j = awaited[s]

IInv == Typed /\ OwnersOpen /\ OneHandler /\ LockHeld /\ AwaitsOwn

\* The jobs by position.
LEMMA JobFacts ==
    ASSUME Typed
    PROVE  /\ Latest \in Nat /\ DOMAIN jobs = 1..Latest
           /\ \A j \in 1..Latest : jobs[j] \in JobRecord
           /\ \A j \in 1..Latest : jobs[j].owner \in Streams /\ jobs[j].step \in Steps
<1>1. Latest \in Nat /\ DOMAIN jobs = 1..Latest /\ \A j \in 1..Latest : jobs[j] \in JobRecord
  BY DEF Typed, Latest
<1>2. \A j \in 1..Latest : jobs[j].owner \in Streams /\ jobs[j].step \in Steps
  BY <1>1, Zenon DEF JobRecord
<1> QED
  BY <1>1, <1>2

\* A handler that is not done is the one in future_, or the one about to be put there.
LEMMA NotDone ==
    ASSUME IInv, NEW j \in 1..Latest, jobs[j].step # "done"
    PROVE  \/ j = future_ /\ (j = Latest <=> ~Assigning)
           \/ j = Latest /\ Assigning /\ jobs[j].step = "accept"
<1>1. Latest \in Nat /\ future_ \in Nat
  BY JobFacts DEF IInv, Typed
<1>2. ~(j < future_)
  BY DEF IInv, OneHandler
<1>3. CASE ~Assigning
  BY <1>1, <1>2, <1>3 DEF IInv, OneHandler
<1>4. CASE Assigning
  <2>1. future_ = Latest - 1 /\ jobs[Latest].step = "accept"
    BY <1>4 DEF IInv, OneHandler, Assigning
  <2> QED
    BY <1>1, <1>2, <1>4, <2>1
<1> QED
  BY <1>3, <1>4

\* A handler that has gone beyond its acceptance is the one in future_.
LEMMA AtWorkIsFuture ==
    ASSUME IInv, NEW j \in 1..Latest, jobs[j].step \notin {"done", "accept"}
    PROVE  j = future_
BY NotDone

\* Whoever holds accepted_lock_ otherwise, nobody is about to assign a handler.
LEMMA FreeOfAssigning ==
    ASSUME IInv, accepted_lock_ = Nobody \/ \E j \in 1..Latest : jobs[j].step = "lock"
    PROVE  ~Assigning
<1>1. \A s, j : Server(s) # Nobody /\ Server(s) # Job(j)
  BY DEF Server, Nobody, Job
<1> QED
  BY <1>1 DEF IInv, OneHandler, LockHeld, Assigning

-----------------------------------------------------------------------------
(* Steps of a stream.                                                      *)

\* The streams other than the one that moves.
LEMMA RpcMoves ==
    ASSUME DOMAIN rpc = Streams, NEW s \in Streams, NEW x, rpc' = [rpc EXCEPT ![s] = x]
    PROVE  /\ DOMAIN rpc' = Streams /\ rpc'[s] = x
           /\ \A t \in Streams \ {s} : rpc'[t] = rpc[t]
OBVIOUS

\* The handlers stand still: their owners stay open as long as no stream that has one left
\* is done.
LEMMA OwnersStayOpen ==
    ASSUME IInv, jobs' = jobs,
           \A t \in Streams : Open(t) /\ ~Open(t)' =>
               \A j \in 1..Latest : jobs[j].owner = t => jobs[j].step = "done"
    PROVE  OwnersOpen'
<1>1. Latest' = Latest
  BY DEF Latest
<1>2. ASSUME NEW j \in 1..Latest, jobs[j].step # "done" PROVE Open(jobs[j].owner)'
  <2>1. Open(jobs[j].owner) /\ jobs[j].owner \in Streams
    BY <1>2, JobFacts DEF IInv, OwnersOpen
  <2>2. PICK t \in Streams : t = jobs[j].owner
    BY <2>1
  <2>3. Open(t)'
    BY <1>2, <2>1, <2>2
  <2> QED
    BY <2>2, <2>3 DEF Open
<1> QED
  BY <1>1, <1>2 DEF OwnersOpen, Open

\* A move of a stream's thread that has nothing to do with the future.
LEMMA StreamMoves ==
    ASSUME IInv, NEW s \in Streams, rpc[s] # "assign",
           NEW x, rpc' = [rpc EXCEPT ![s] = x], x \notin {"unopened", "done", "assign", "awaiting"},
           UNCHANGED <<jobs, future_, awaited, accepted_lock_>>
    PROVE  IInv'
<1>1. /\ DOMAIN rpc' = Streams /\ rpc'[s] = x
      /\ \A t \in Streams \ {s} : rpc'[t] = rpc[t]
  BY RpcMoves DEF IInv, Typed
<1>2. Latest' = Latest
  BY DEF Latest
<1>3. \A t \in Streams : rpc'[t] = "assign" <=> rpc[t] = "assign"
  BY <1>1
<1>4. Assigning' <=> Assigning
  BY <1>3 DEF Assigning
<1>5. Typed'
  BY <1>1 DEF IInv, Typed
<1>6. OwnersOpen'
  <2>1. \A t \in Streams : Open(t) => Open(t)'
    BY <1>1 DEF Open
  <2> QED
    BY <2>1, OwnersStayOpen
<1>7. OneHandler'
  BY <1>2, <1>3, <1>4 DEF IInv, OneHandler
<1>8. LockHeld' /\ AwaitsOwn'
  <2>1. \A t \in Streams : rpc'[t] = "awaiting" => rpc[t] = "awaiting"
    BY <1>1
  <2> QED
    BY <1>2, <2>1 DEF IInv, LockHeld, AwaitsOwn
<1> QED
  BY <1>5, <1>6, <1>7, <1>8 DEF IInv

\* Steps of the clients, a crash, and steps that do not happen.
LEMMA NothingMoves ==
    ASSUME IInv, UNCHANGED <<rpc, jobs, future_, accepted_lock_, awaited>>
    PROVE  IInv'
<1>1. Latest' = Latest
  BY DEF Latest
<1>2. Typed' /\ OwnersOpen'
  BY <1>1 DEF IInv, Typed, OwnersOpen, Open
<1>3. Assigning' = Assigning
  BY DEF Assigning
<1>4. OneHandler' /\ LockHeld' /\ AwaitsOwn'
  BY <1>1, <1>3 DEF IInv, OneHandler, LockHeld, AwaitsOwn
<1> QED
  BY <1>2, <1>4 DEF IInv

\* A client connects, whatever the others do.
LEMMA OpensIInv ==
    ASSUME IInv, NEW s \in Streams, ClientOpens(s)
    PROVE  IInv'
<1>1. /\ rpc[s] = "unopened" /\ rpc' = [rpc EXCEPT ![s] = "read"]
      /\ UNCHANGED <<jobs, future_, accepted_lock_, awaited>>
  BY DEF ClientOpens
<1> QED
  BY <1>1, StreamMoves

\* A handler is started, when the last one is in future_.
LEMMA LaunchesIInv ==
    ASSUME IInv, NEW s \in Streams, Launches(s)
    PROVE  IInv'
<1> DEFINE new == [owner |-> s, step |-> "accept", reply |-> "none"]
<1>1. /\ rpc[s] = "accept" /\ accepted_lock_ = Nobody /\ accepted_lock_' = Server(s)
      /\ jobs' = Append(jobs, new)
      /\ rpc' = [rpc EXCEPT ![s] = "assign"]
      /\ UNCHANGED <<future_, awaited>>
  BY DEF Launches, endVars
<1>2. new \in JobRecord
  BY DEF JobRecord, Steps
<1>3. /\ jobs' \in Seq(JobRecord) /\ Latest' = Latest + 1 /\ Latest \in Nat
      /\ \A j \in 1..Latest : jobs'[j] = jobs[j]
      /\ jobs'[Latest + 1] = new
  BY <1>1, <1>2 DEF IInv, Typed, Latest
<1>4. new.owner = s /\ new.step = "accept"
  OBVIOUS
<1> HIDE DEF new
<1>5. /\ DOMAIN rpc' = Streams /\ rpc'[s] = "assign"
      /\ \A t \in Streams \ {s} : rpc'[t] = rpc[t]
  BY <1>1, RpcMoves DEF IInv, Typed
<1>6. ~Assigning
  BY <1>1, FreeOfAssigning
<1>7. future_ = Latest
  BY <1>6 DEF IInv, OneHandler
<1>8. \A j \in 1..Latest' : \/ j = Latest + 1 /\ jobs'[j] = new
                            \/ j \in 1..Latest /\ jobs'[j] = jobs[j]
  BY <1>3
<1>9. Typed'
  BY <1>1, <1>3, <1>5 DEF IInv, Typed
<1>10. OwnersOpen'
  <2>1. ASSUME NEW j \in 1..Latest', jobs'[j].step # "done"
        PROVE  rpc'[jobs'[j].owner] \notin {"unopened", "done"}
    <3>1. CASE j = Latest + 1 /\ jobs'[j] = new
      BY <1>4, <1>5, <3>1
    <3>2. CASE j \in 1..Latest /\ jobs'[j] = jobs[j]
      <4>1. jobs[j].owner \in Streams /\ Open(jobs[j].owner)
        BY <2>1, <3>2, JobFacts DEF IInv, OwnersOpen
      <4> QED
        BY <1>5, <3>2, <4>1 DEF Open
    <3> QED
      BY <1>8, <3>1, <3>2
  <2> QED
    BY <2>1 DEF OwnersOpen, Open
<1>11. OneHandler'
  <2>1. Assigning' /\ \A t \in Streams : rpc'[t] = "assign" => t = s
    BY <1>5, <1>6 DEF Assigning
  <2>2. future_' = Latest' - 1 /\ Latest' > 0
    BY <1>1, <1>3, <1>7
  <2>3. jobs'[Latest'].step = "accept" /\ jobs'[Latest'].owner = s
    BY <1>3, <1>4
  <2>4. ASSUME NEW j \in 1..Latest', j < future_' PROVE jobs'[j].step = "done"
    <3>1. j \in 1..Latest /\ j < future_
      BY <1>1, <1>3, <1>7, <2>4
    <3>2. jobs[j].step = "done"
      BY <3>1 DEF IInv, OneHandler
    <3> QED
      BY <1>3, <3>1, <3>2
  <2> QED
    BY <1>1, <2>1, <2>2, <2>3, <2>4 DEF OneHandler
<1>12. LockHeld'
  <2>1. ASSUME NEW j \in 1..Latest', jobs'[j].step = "lock" PROVE FALSE
    <3>1. j \in 1..Latest /\ jobs[j].step = "lock"
      BY <1>4, <1>8, <2>1
    <3> QED
      BY <1>1, <3>1 DEF IInv, LockHeld, Nobody, Job
  <2> QED
    BY <2>1 DEF LockHeld
<1>13. AwaitsOwn'
  <2>1. ASSUME NEW t \in Streams, rpc'[t] = "awaiting",
               NEW j \in 1..Latest', jobs'[j].owner = t, jobs'[j].step # "done"
        PROVE  j = awaited[t]
    <3>1. t # s /\ rpc[t] = "awaiting"
      BY <1>5, <2>1
    <3>2. j \in 1..Latest /\ jobs'[j] = jobs[j]
      BY <1>4, <1>8, <2>1, <3>1
    <3> QED
      BY <2>1, <3>1, <3>2 DEF IInv, AwaitsOwn
  <2> QED
    BY <1>1, <2>1 DEF AwaitsOwn
<1> QED
  BY <1>9, <1>10, <1>11, <1>12, <1>13 DEF IInv

\* The handler is assigned once the one before is done.
LEMMA WaitsIInv ==
    ASSUME IInv, NEW s \in Streams, Waits(s)
    PROVE  IInv'
<1>1. /\ rpc[s] = "assign" /\ Settled(future_) /\ future_' = Latest
      /\ rpc' = [rpc EXCEPT ![s] = "waiting"]
      /\ UNCHANGED <<jobs, awaited>>
  BY DEF Waits, Latest, endVars
<1>2. Latest' = Latest /\ Latest \in Nat /\ future_ \in Nat /\ DOMAIN jobs = 1..Latest
  BY <1>1, JobFacts DEF Latest, IInv, Typed
<1>3. /\ DOMAIN rpc' = Streams /\ rpc'[s] = "waiting"
      /\ \A t \in Streams \ {s} : rpc'[t] = rpc[t]
  BY <1>1, RpcMoves DEF IInv, Typed
<1>4. /\ Latest > 0 /\ future_ = Latest - 1 /\ jobs[Latest].step = "accept" /\ jobs[Latest].owner = s
      /\ \A j \in 1..Latest : j < future_ => jobs[j].step = "done"
  BY <1>1 DEF IInv, OneHandler
<1>5. ~Assigning'
  <2>1. ASSUME NEW t \in Streams \ {s}, rpc[t] = "assign" PROVE FALSE
    <3>1. jobs[Latest].owner = t
      BY <2>1 DEF IInv, OneHandler
    <3> QED
      BY <1>4, <3>1
  <2> QED
    BY <1>3, <2>1 DEF Assigning
<1>6. \A j \in 1..Latest : j < Latest => jobs[j].step = "done"
  <2>1. ASSUME NEW j \in 1..Latest, j < Latest PROVE jobs[j].step = "done"
    <3>1. j < future_ \/ j = future_
      BY <1>2, <1>4, <2>1
    <3>2. CASE j = future_
      BY <1>1, <1>2, <3>2 DEF Settled
    <3> QED
      BY <1>4, <3>1, <3>2
  <2> QED
    BY <2>1
<1>7. Typed'
  BY <1>1, <1>2, <1>3 DEF IInv, Typed
<1>8. OwnersOpen'
  <2>1. \A t \in Streams : Open(t) => Open(t)'
    BY <1>3 DEF Open
  <2> QED
    BY <1>1, <2>1, OwnersStayOpen
<1>9. OneHandler'
  <2>1. \A t \in Streams : rpc'[t] # "assign"
    BY <1>5 DEF Assigning
  <2> QED
    BY <1>1, <1>2, <1>5, <1>6, <2>1 DEF OneHandler
<1>10. LockHeld'
  <2>1. \A j \in 1..Latest : jobs[j].step # "lock"
    BY <1>2, <1>4, <1>6
  <2> QED
    BY <1>1, <1>2, <2>1 DEF LockHeld
<1>11. AwaitsOwn'
  <2>1. \A t \in Streams : rpc'[t] = "awaiting" => rpc[t] = "awaiting"
    BY <1>3
  <2> QED
    BY <1>1, <1>2, <2>1 DEF IInv, AwaitsOwn
<1> QED
  BY <1>7, <1>8, <1>9, <1>10, <1>11 DEF IInv

\* The handler that future_ stands for is the last one of the stream that finishes: the one
\* that may not be there yet was started by another stream.
LEMMA AwaitsIInv ==
    ASSUME IInv, NEW s \in Streams, AwaitsFuture(s)
    PROVE  IInv'
<1>1. /\ rpc[s] = "finishing" /\ rpc' = [rpc EXCEPT ![s] = "awaiting"]
      /\ awaited' = [awaited EXCEPT ![s] = future_]
      /\ UNCHANGED <<jobs, future_, accepted_lock_>>
  BY DEF AwaitsFuture
<1>2. /\ DOMAIN rpc' = Streams /\ rpc'[s] = "awaiting"
      /\ \A t \in Streams \ {s} : rpc'[t] = rpc[t]
  BY <1>1, RpcMoves DEF IInv, Typed
<1>3. /\ DOMAIN awaited' = Streams /\ awaited'[s] = future_
      /\ \A t \in Streams \ {s} : awaited'[t] = awaited[t]
  BY <1>1 DEF IInv, Typed
<1>4. Latest' = Latest
  BY <1>1 DEF Latest
<1>5. \A t \in Streams : rpc'[t] = "assign" <=> rpc[t] = "assign"
  BY <1>1, <1>2
<1>6. Typed'
  BY <1>1, <1>2, <1>3 DEF IInv, Typed
<1>7. OwnersOpen'
  <2>1. \A t \in Streams : Open(t) => Open(t)'
    BY <1>2 DEF Open
  <2> QED
    BY <1>1, <2>1, OwnersStayOpen
<1>8. OneHandler' /\ LockHeld'
  <2>1. Assigning' <=> Assigning
    BY <1>5 DEF Assigning
  <2> QED
    BY <1>1, <1>4, <1>5, <2>1 DEF IInv, OneHandler, LockHeld
<1>9. AwaitsOwn'
  <2>1. ASSUME NEW t \in Streams, rpc'[t] = "awaiting",
               NEW j \in 1..Latest, jobs[j].owner = t, jobs[j].step # "done"
        PROVE  j = awaited'[t]
    <3>1. CASE t = s
      <4>1. j = future_ \/ (j = Latest /\ Assigning)
        BY <2>1, NotDone
      <4>2. CASE j = Latest /\ Assigning
        <5>1. PICK u \in Streams : rpc[u] = "assign"
          BY <4>2 DEF Assigning
        <5>2. jobs[Latest].owner = u
          BY <5>1 DEF IInv, OneHandler
        <5> QED
          BY <1>1, <2>1, <3>1, <4>2, <5>1, <5>2
      <4> QED
        BY <1>3, <3>1, <4>1, <4>2
    <3>2. CASE t # s
      BY <1>2, <1>3, <2>1, <3>2 DEF IInv, AwaitsOwn
    <3> QED
      BY <3>1, <3>2
  <2> QED
    BY <1>1, <1>4, <2>1 DEF AwaitsOwn
<1> QED
  BY <1>6, <1>7, <1>8, <1>9 DEF IInv

\* A stream that may be finished has no handler at work.
LEMMA FinishingMeansDone ==
    ASSUME IInv, NEW s \in Streams, finishGrpcStream(s)
    PROVE  \A j \in 1..Latest : jobs[j].owner = s => jobs[j].step = "done"
<1>1. rpc[s] = "awaiting" /\ Settled(awaited[s])
  BY DEF finishGrpcStream
<1>2. DOMAIN jobs = 1..Latest
  BY JobFacts DEF IInv
<1> QED
  BY <1>1, <1>2 DEF IInv, AwaitsOwn, Settled

LEMMA FinishIInv ==
    ASSUME IInv, NEW s \in Streams, finishGrpcStream(s)
    PROVE  IInv'
<1>1. /\ rpc[s] = "awaiting" /\ rpc' = [rpc EXCEPT ![s] = "done"]
      /\ UNCHANGED <<jobs, accepted_lock_, future_, awaited>>
  BY DEF finishGrpcStream, endVars
<1>2. Latest' = Latest
  BY <1>1 DEF Latest
<1>3. /\ DOMAIN rpc' = Streams /\ rpc'[s] = "done"
      /\ \A t \in Streams \ {s} : rpc'[t] = rpc[t]
  BY <1>1, RpcMoves DEF IInv, Typed
<1>4. \A t \in Streams : rpc'[t] = "assign" <=> rpc[t] = "assign"
  BY <1>1, <1>3
<1>5. Typed'
  BY <1>1, <1>3 DEF IInv, Typed
<1>6. OwnersOpen'
  <2>1. \A t \in Streams : Open(t) /\ ~Open(t)' => t = s
    BY <1>3 DEF Open
  <2> QED
    BY <1>1, <2>1, FinishingMeansDone, OwnersStayOpen
<1>7. OneHandler' /\ LockHeld'
  <2>1. Assigning' <=> Assigning
    BY <1>4 DEF Assigning
  <2> QED
    BY <1>1, <1>2, <1>4, <2>1 DEF IInv, OneHandler, LockHeld
<1>8. AwaitsOwn'
  <2>1. \A t \in Streams : rpc'[t] = "awaiting" => rpc[t] = "awaiting"
    BY <1>3
  <2> QED
    BY <1>1, <1>2, <2>1 DEF IInv, AwaitsOwn
<1> QED
  BY <1>5, <1>6, <1>7, <1>8 DEF IInv

-----------------------------------------------------------------------------
(* Steps of a handler.                                                     *)

\* What a step of handler j to another step of its work changes.
Moves(j, to) ==
    /\ jobs' \in Seq(JobRecord)
    /\ Latest' = Latest
    /\ jobs'[j].step = to
    /\ jobs'[j].owner = jobs[j].owner
    /\ \A i \in 1..Latest \ {j} : jobs'[i] = jobs[i]

LEMMA StepMoves ==
    ASSUME Typed, NEW j \in DOMAIN jobs, NEW from, NEW to \in Steps, Step(j, from, to)
    PROVE  j \in 1..Latest /\ jobs[j].step = from /\ Moves(j, to)
<1>1. jobs[j].step = from /\ jobs' = [jobs EXCEPT ![j].step = to]
  BY DEF Step
<1>2. j \in 1..Latest /\ DOMAIN jobs = 1..Latest /\ Latest \in Nat /\ jobs[j] \in JobRecord
  BY JobFacts
<1> DEFINE next == [jobs[j] EXCEPT !.step = to]
<1>3. next \in JobRecord /\ next.step = to /\ next.owner = jobs[j].owner
  BY <1>2 DEF JobRecord
<1>4. jobs' = [jobs EXCEPT ![j] = next]
  BY <1>1
<1> HIDE DEF next
<1>5. jobs' \in Seq(JobRecord) /\ Len(jobs') = Len(jobs)
  BY <1>3, <1>4 DEF Typed
<1>6. jobs'[j] = next /\ \A i \in 1..Latest \ {j} : jobs'[i] = jobs[i]
  BY <1>2, <1>4
<1> QED
  BY <1>1, <1>2, <1>3, <1>5, <1>6 DEF Moves, Latest

EndsWith(j, to, reply) == jobs' = [jobs EXCEPT ![j].step = to, ![j].reply = reply]

\* The benchmark ends, with a reply.
LEMMA ReplyMoves ==
    ASSUME Typed, NEW j \in DOMAIN jobs, NEW to \in Steps, NEW reply \in Replies,
           EndsWith(j, to, reply)
    PROVE  j \in 1..Latest /\ Moves(j, to)
<1>1. j \in 1..Latest /\ DOMAIN jobs = 1..Latest /\ Latest \in Nat /\ jobs[j] \in JobRecord
  BY JobFacts
<1> DEFINE next == [[jobs[j] EXCEPT !.step = to] EXCEPT !.reply = reply]
<1>2. next \in JobRecord /\ next.step = to /\ next.owner = jobs[j].owner
  BY <1>1, Zenon DEF JobRecord
<1>3. jobs' = [jobs EXCEPT ![j] = next]
  BY <1>1, Zenon DEF Typed, EndsWith
<1> HIDE DEF next
<1>4. jobs' \in Seq(JobRecord) /\ Len(jobs') = Len(jobs)
  <2>1. jobs \in Seq(JobRecord) /\ j \in 1..Len(jobs)
    BY <1>1 DEF Typed, Latest
  <2> QED
    BY <1>2, <1>3, <2>1
<1>5. jobs'[j] = next /\ \A i \in 1..Latest \ {j} : jobs'[i] = jobs[i]
  BY <1>1, <1>3
<1> QED
  BY <1>1, <1>2, <1>4, <1>5 DEF Moves, Latest

\* notifyOne() moves one of the waiting threads at most.
Notified(t) == rpc'[t] = rpc[t] \/ (rpc[t] = "waiting" /\ rpc'[t] = "woken")

LEMMA NotifiesOne ==
    ASSUME Typed, rpc' = rpc \/ notifyOne
    PROVE  DOMAIN rpc' = Streams /\ \A t \in Streams : Notified(t)
<1>1. CASE rpc' = rpc
  BY <1>1 DEF Typed, Notified
<1>2. ASSUME NEW s \in Streams, rpc[s] = "waiting", rpc' = [rpc EXCEPT ![s] = "woken"]
      PROVE  DOMAIN rpc' = Streams /\ \A t \in Streams : Notified(t)
  <2>1. /\ DOMAIN rpc' = Streams /\ rpc'[s] = "woken"
        /\ \A t \in Streams \ {s} : rpc'[t] = rpc[t]
    BY <1>2, RpcMoves DEF Typed
  <2> QED
    BY <1>2, <2>1 DEF Notified
<1> QED
  BY <1>1, <1>2 DEF notifyOne

\* A step of a handler: it is accepted when nobody is about to assign, and after that it is
\* the handler in future_.
LEMMA HandlerMoves ==
    ASSUME IInv, NEW j \in 1..Latest, NEW to \in Steps, Moves(j, to),
           jobs[j].step # "done", to # "accept", jobs[j].step = "accept" => ~Assigning,
           rpc' = rpc \/ notifyOne, UNCHANGED <<future_, awaited>>,
           accepted_lock_' = accepted_lock_ \/ ~Assigning,
           LockHeld'
    PROVE  IInv'
<1>1. Latest' = Latest /\ jobs'[j].step = to /\ \A i \in 1..Latest \ {j} : jobs'[i] = jobs[i]
  BY DEF Moves
<1>2. \A i \in 1..Latest : jobs'[i].owner = jobs[i].owner
  BY DEF Moves
<1>3. DOMAIN rpc' = Streams /\ \A t \in Streams : Notified(t)
  BY NotifiesOne DEF IInv
<1>4. Latest \in Nat /\ future_ \in Nat
  BY JobFacts DEF IInv, Typed
<1>5. j = future_
  BY NotDone
<1>6. Typed'
  BY <1>3 DEF IInv, Typed, Moves
<1>7. \A i \in 1..Latest : jobs'[i].step # "done" => jobs[i].step # "done"
  BY <1>1
<1>8. OwnersOpen'
  <2>1. ASSUME NEW i \in 1..Latest, jobs'[i].step # "done"
        PROVE  rpc'[jobs'[i].owner] \notin {"unopened", "done"}
    <3>1. Open(jobs[i].owner) /\ jobs[i].owner \in Streams
      BY <1>7, <2>1, JobFacts DEF IInv, OwnersOpen
    <3> QED
      BY <1>2, <1>3, <3>1 DEF Open, Notified
  <2> QED
    BY <1>1, <2>1 DEF OwnersOpen, Open
<1>9. \A t \in Streams : rpc'[t] = "assign" <=> rpc[t] = "assign"
  BY <1>3 DEF Notified
<1>10. Assigning' <=> Assigning
  BY <1>9 DEF Assigning
<1>11. OneHandler'
  <2>1. ASSUME NEW i \in 1..Latest, i < future_ PROVE jobs'[i].step = "done"
    <3>1. jobs[i].step = "done" /\ i # j
      BY <1>4, <1>5, <2>1 DEF IInv, OneHandler
    <3> QED
      BY <1>1, <3>1
  <2>2. ASSUME NEW s \in Streams, rpc[s] = "assign"
        PROVE  /\ Latest > 0 /\ future_ = Latest - 1
               /\ jobs'[Latest].step = "accept" /\ jobs'[Latest].owner = s
               /\ accepted_lock_' = Server(s)
    <3>1. /\ Latest > 0 /\ future_ = Latest - 1
          /\ jobs[Latest].step = "accept" /\ jobs[Latest].owner = s
          /\ accepted_lock_ = Server(s)
      BY <2>2 DEF IInv, OneHandler
    <3>2. Assigning
      BY <2>2 DEF Assigning
    <3>3. Latest \in 1..Latest \ {j}
      BY <1>4, <1>5, <3>1
    <3>4. jobs'[Latest] = jobs[Latest]
      BY <1>1, <3>3
    <3> QED
      BY <3>1, <3>2, <3>4
  <2>3. ~Assigning => future_ = Latest
    BY DEF IInv, OneHandler
  <2> QED
    BY <1>1, <1>9, <1>10, <2>1, <2>2, <2>3 DEF OneHandler
<1>12. AwaitsOwn'
  <2>1. \A t \in Streams : rpc'[t] = "awaiting" => rpc[t] = "awaiting"
    BY <1>3 DEF Notified
  <2> QED
    BY <1>1, <1>2, <1>7, <2>1 DEF IInv, AwaitsOwn
<1> QED
  BY <1>6, <1>8, <1>11, <1>12 DEF IInv

LEMMA TakesAcceptedIInv ==
    ASSUME IInv, NEW j \in DOMAIN jobs, TakesAcceptedLock(j)
    PROVE  IInv'
<1>1. /\ Step(j, "accept", "lock") /\ accepted_lock_ = Nobody /\ accepted_lock_' = Job(j)
      /\ UNCHANGED <<rpc, future_, awaited>>
  BY DEF TakesAcceptedLock, endVars
<1>2. j \in 1..Latest /\ jobs[j].step = "accept" /\ Moves(j, "lock") /\ "lock" \in Steps
  BY <1>1, StepMoves DEF IInv, Steps
<1>3. ~Assigning
  BY <1>1, FreeOfAssigning
<1>4. LockHeld'
  <2>1. Latest' = Latest /\ \A i \in 1..Latest \ {j} : jobs'[i] = jobs[i]
    BY <1>2 DEF Moves
  <2>2. \A i \in 1..Latest : jobs[i].step # "lock"
    BY <1>1 DEF IInv, LockHeld, Nobody, Job
  <2> QED
    BY <1>1, <2>1, <2>2 DEF LockHeld
<1> QED
  BY <1>1, <1>2, <1>3, <1>4, HandlerMoves

\* The handler takes the busy lock, and a stream that waits goes on.
LEMMA TakesBusyIInv ==
    ASSUME IInv, NEW j \in DOMAIN jobs, TakesBusyLock(j)
    PROVE  IInv'
<1>1. /\ Step(j, "lock", "create") /\ notifyOne /\ UNCHANGED <<future_, awaited>>
  BY DEF TakesBusyLock, endVars
<1>2. j \in 1..Latest /\ jobs[j].step = "lock" /\ Moves(j, "create") /\ "create" \in Steps
  BY <1>1, StepMoves DEF IInv, Steps
<1>3. ~Assigning
  BY <1>2, FreeOfAssigning
<1>4. LockHeld'
  <2>1. Latest' = Latest /\ jobs'[j].step = "create" /\ \A i \in 1..Latest \ {j} : jobs'[i] = jobs[i]
    BY <1>2 DEF Moves
  <2>2. j = future_ /\ \A i \in 1..Latest : jobs[i].step = "lock" => i = future_
    BY <1>2, AtWorkIsFuture
  <2>3. \A i \in 1..Latest : jobs'[i].step # "lock"
    BY <2>1, <2>2
  <2> QED
    BY <2>1, <2>3 DEF LockHeld
<1> QED
  BY <1>1, <1>2, <1>3, <1>4, HandlerMoves

\* The steps of a handler that is past the acceptance.
LEMMA WorkMoves ==
    ASSUME IInv, NEW j \in 1..Latest, NEW to \in Steps, Moves(j, to),
           jobs[j].step \notin {"done", "accept", "lock"}, to \notin {"accept", "lock"},
           UNCHANGED <<rpc, future_, accepted_lock_, awaited>>
    PROVE  IInv'
<1>1. Latest' = Latest /\ jobs'[j].step = to /\ \A i \in 1..Latest \ {j} : jobs'[i] = jobs[i]
  BY DEF Moves
<1>2. LockHeld'
  BY <1>1 DEF IInv, LockHeld
<1> QED
  BY <1>2, HandlerMoves

-----------------------------------------------------------------------------
(* All steps.                                                              *)

LEMMA ServerStepIInv ==
    ASSUME IInv, NEW s \in Streams, ServerStep(s)
    PROVE  IInv'
<1>1. CASE ReadsStart(s) \/ ReadsOther(s) \/ ReadsEnd(s)
  <2>1. /\ rpc[s] = "read" /\ UNCHANGED <<jobs, future_, awaited, accepted_lock_>>
        /\ \/ rpc' = [rpc EXCEPT ![s] = "probed"]
           \/ rpc' = [rpc EXCEPT ![s] = "finishing"]
    BY <1>1 DEF ReadsStart, ReadsOther, ReadsEnd, Finishing, endVars
  <2> QED
    BY <2>1, StreamMoves
<1>2. CASE Unlocks(s)
  <2>1. /\ rpc[s] = "probed" /\ UNCHANGED <<jobs, future_, awaited, accepted_lock_>>
        /\ rpc' = [rpc EXCEPT ![s] = "accept"]
    BY <1>2 DEF Unlocks, endVars
  <2> QED
    BY <2>1, StreamMoves
<1>3. CASE Wakes(s)
  <2>1. /\ rpc[s] = "woken" /\ UNCHANGED <<jobs, future_, awaited, accepted_lock_>>
        /\ rpc' = [rpc EXCEPT ![s] = "read"]
    BY <1>3 DEF Wakes, endVars
  <2> QED
    BY <2>1, StreamMoves
<1> QED
  BY <1>1, <1>2, <1>3, LaunchesIInv, WaitsIInv, AwaitsIInv, FinishIInv DEF ServerStep

\* What a handler past its acceptance does, and what it leaves alone.
LEMMA WorkSteps ==
    ASSUME Typed, NEW j \in DOMAIN jobs,
           \/ CreateFails(j) \/ Runs(j, "output") \/ Runs(j, "failed")
           \/ Releases(j) \/ Answers(j) \/ Leaves(j)
    PROVE  /\ UNCHANGED <<rpc, future_, accepted_lock_, awaited, shared, stream_>>
           /\ \/ jobs[j].step = "create" /\ Moves(j, "replyLocked")
              \/ jobs[j].step = "create" /\ Moves(j, "release")
              \/ jobs[j].step = "release" /\ Moves(j, "reply")
              \/ jobs[j].step = "reply" /\ Moves(j, "done") /\ Answers(j)
              \/ jobs[j].step = "replyLocked" /\ Moves(j, "unlock") /\ Answers(j)
              \/ jobs[j].step = "unlock" /\ Moves(j, "done")
<1> USE DEF Steps
<1>1. UNCHANGED <<rpc, future_, accepted_lock_, awaited, shared, stream_>>
  BY DEF CreateFails, Runs, Releases, Answers, Leaves, endVars
<1>2. CASE CreateFails(j)
  <2>1. jobs[j].step = "create"
    BY <1>2 DEF CreateFails
  <2>2. Moves(j, "replyLocked")
    BY <1>2, ReplyMoves, Zenon DEF CreateFails, Replies, EndsWith
  <2> QED
    BY <1>1, <2>1, <2>2
<1>3. CASE Runs(j, "output") \/ Runs(j, "failed")
  <2>1. jobs[j].step = "create"
    BY <1>3 DEF Runs
  <2>2. Moves(j, "release")
    BY <1>3, ReplyMoves, Zenon DEF Runs, Replies, EndsWith
  <2> QED
    BY <1>1, <2>1, <2>2
<1>4. CASE Releases(j)
  <2>1. jobs[j].step = "release" /\ Moves(j, "reply")
    BY <1>4, StepMoves DEF Releases
  <2> QED
    BY <1>1, <2>1
<1>5. CASE Answers(j)
  <2>1. CASE Step(j, "reply", "done")
    BY <1>1, <1>5, <2>1, StepMoves
  <2>2. CASE Step(j, "replyLocked", "unlock")
    BY <1>1, <1>5, <2>2, StepMoves
  <2> QED
    BY <1>5, <2>1, <2>2 DEF Answers
<1>6. CASE Leaves(j)
  <2>1. jobs[j].step = "unlock" /\ Moves(j, "done")
    BY <1>6, StepMoves DEF Leaves
  <2> QED
    BY <1>1, <2>1
<1> QED
  BY <1>2, <1>3, <1>4, <1>5, <1>6

LEMMA JobStepIInv ==
    ASSUME IInv, NEW j \in DOMAIN jobs, JobStep(j)
    PROVE  IInv'
<1>1. Typed /\ j \in 1..Latest
  BY JobFacts DEF IInv
<1>2. CASE WritesThroughNull(j)
  BY <1>2, NothingMoves DEF WritesThroughNull
<1>3. CASE \/ CreateFails(j) \/ Runs(j, "output") \/ Runs(j, "failed")
           \/ Releases(j) \/ Answers(j) \/ Leaves(j)
  <2>1. \E to \in Steps : Moves(j, to) /\ to \notin {"accept", "lock"}
    BY <1>1, <1>3, WorkSteps DEF Steps
  <2>2. jobs[j].step \notin {"done", "accept", "lock"}
    BY <1>1, <1>3, WorkSteps
  <2>3. UNCHANGED <<rpc, future_, accepted_lock_, awaited>>
    BY <1>1, <1>3, WorkSteps
  <2> QED
    BY <1>1, <2>1, <2>2, <2>3, WorkMoves
<1> QED
  BY <1>2, <1>3, TakesAcceptedIInv, TakesBusyIInv DEF JobStep

LEMMA InitIInv == Init => IInv
<1> SUFFICES ASSUME Init PROVE IInv
  OBVIOUS
<1>1. /\ jobs = <<>> /\ future_ = 0 /\ rpc = [s \in Streams |-> "unopened"]
      /\ awaited = [s \in Streams |-> 0]
  BY DEF Init
<1>2. Latest = 0
  BY <1>1 DEF Latest
<1>3. Typed
  BY <1>1 DEF Typed
<1>4. \A s \in Streams : rpc[s] = "unopened"
  BY <1>1
<1>5. OwnersOpen /\ LockHeld
  BY <1>2 DEF OwnersOpen, LockHeld
<1>6. OneHandler /\ AwaitsOwn
  BY <1>1, <1>2, <1>4 DEF OneHandler, AwaitsOwn, Assigning
<1> QED
  BY <1>3, <1>5, <1>6 DEF IInv

LEMMA NextIInv == ASSUME IInv, [Next]_vars PROVE IInv'
<1>1. ASSUME NEW s \in Streams, NEW kind,
             ClientWritesDone(s) \/ ClientBreaks(s) \/ ClientWrites(s, kind) PROVE IInv'
  BY <1>1, NothingMoves DEF ClientWritesDone, ClientBreaks, ClientWrites, endVars
<1>2. CASE UNCHANGED vars
  BY <1>2, NothingMoves DEF vars, endVars
<1> QED
  BY <1>1, <1>2, OpensIInv, ServerStepIInv, JobStepIInv DEF Next

\* However many streams are open at a time, the threads of the service stay in step.
THEOREM ServiceInvariant == Spec => []IInv
<1>1. IInv /\ [Next]_vars => IInv'
  BY NextIInv
<1> QED
  BY <1>1, InitIInv, PTL DEF Spec

-----------------------------------------------------------------------------
(* What a step of the service is to its clients.                           *)

AtWork == {"create", "release", "reply", "replyLocked"}
Over == {"unlock", "done"}

LEMMA AnsweredBy ==
    /\ \A s : Answered(s) = {j \in DOMAIN jobs : jobs[j].owner = s /\ jobs[j].step \in Over}
    /\ \A s : Answered(s)' = {j \in DOMAIN jobs' : jobs'[j].owner = s /\ jobs'[j].step \in Over}
BY DEF Answered, Over

LEMMA ExecutingNone ==
    /\ (\A j \in DOMAIN jobs : jobs[j].step \notin AtWork) => Executing = 0
    /\ (\A j \in DOMAIN jobs' : jobs'[j].step \notin AtWork) => Executing' = 0
BY DEF Executing, Active, AtWork

\* The handler that is the only one at work stands for the execution.
LEMMA ExecutingOne ==
    /\ \A j \in DOMAIN jobs :
           /\ jobs[j].step \in AtWork
           /\ \A i \in DOMAIN jobs : jobs[i].step \in AtWork => i = j
           => Executing = jobs[j].owner
    /\ \A j \in DOMAIN jobs' :
           /\ jobs'[j].step \in AtWork
           /\ \A i \in DOMAIN jobs' : jobs'[i].step \in AtWork => i = j
           => Executing' = jobs'[j].owner
<1>1. Executing = IF \E j \in DOMAIN jobs : jobs[j].step \in AtWork
                  THEN jobs[CHOOSE j \in DOMAIN jobs : jobs[j].step \in AtWork].owner ELSE 0
  BY DEF Executing, Active, AtWork
<1>2. Executing' = IF \E j \in DOMAIN jobs' : jobs'[j].step \in AtWork
                   THEN jobs'[CHOOSE j \in DOMAIN jobs' : jobs'[j].step \in AtWork].owner ELSE 0
  BY DEF Executing, Active, AtWork
<1>3. ASSUME NEW j \in DOMAIN jobs, jobs[j].step \in AtWork,
             \A i \in DOMAIN jobs : jobs[i].step \in AtWork => i = j
      PROVE  Executing = jobs[j].owner
  BY <1>1, <1>3
<1>4. ASSUME NEW j \in DOMAIN jobs', jobs'[j].step \in AtWork,
             \A i \in DOMAIN jobs' : jobs'[i].step \in AtWork => i = j
      PROVE  Executing' = jobs'[j].owner
  BY <1>2, <1>4
<1> QED
  BY <1>3, <1>4

\* At most one handler is at work, and its stream is open.
LEMMA OneAtWork ==
    ASSUME IInv, NEW j \in 1..Latest, jobs[j].step \in AtWork
    PROVE  /\ \A i \in 1..Latest \ {j} : jobs[i].step \notin AtWork
           /\ jobs[j].owner \in Streams /\ Open(jobs[j].owner)
           /\ Executing = jobs[j].owner
<1>1. \A i \in 1..Latest : jobs[i].step \in AtWork => i = future_
  BY AtWorkIsFuture DEF AtWork
<1>2. DOMAIN jobs = 1..Latest
  BY JobFacts DEF IInv
<1>3. Executing = jobs[j].owner
  BY <1>1, <1>2, ExecutingOne
<1>4. jobs[j].owner \in Streams /\ Open(jobs[j].owner)
  BY JobFacts DEF IInv, OwnersOpen, AtWork
<1> QED
  BY <1>1, <1>3, <1>4

Stutters ==
    /\ Executing' = Executing
    /\ \A s \in Streams : Answered(s)' = Answered(s)
    /\ Closed' = Closed

Begins(s) ==
    /\ Executing = 0 /\ s \notin Closed /\ Executing' = s
    /\ \A t \in Streams : Answered(t)' = Answered(t)
    /\ Closed' = Closed

AnswersFor(s) ==
    /\ Executing = s /\ Executing' = 0
    /\ \E j \in Answered(s)' \ Answered(s) : Answered(s)' = Answered(s) \union {j}
    /\ \A t \in Streams \ {s} : Answered(t)' = Answered(t)
    /\ Closed' = Closed

Closes(s) ==
    /\ Executing # s /\ s \notin Closed /\ Closed' = Closed \union {s}
    /\ Executing' = Executing
    /\ \A t \in Streams : Answered(t)' = Answered(t)

\* No handler moves and no stream is closed.
LEMMA NoHandlerMoves ==
    ASSUME jobs' = jobs, Closed' = Closed
    PROVE  Stutters
BY DEF Stutters, Executing, Answered, Active

\* The same handlers are at work, for the same streams.
LEMMA SameAtWork ==
    ASSUME IInv, 1..Latest \subseteq DOMAIN jobs',
           \A i \in DOMAIN jobs' : jobs'[i].step \in AtWork => i \in 1..Latest,
           \A i \in 1..Latest : /\ jobs'[i].owner = jobs[i].owner
                                /\ jobs'[i].step \in AtWork <=> jobs[i].step \in AtWork
    PROVE  Executing' = Executing
<1>1. DOMAIN jobs = 1..Latest
  BY JobFacts DEF IInv
<1>2. CASE \A i \in 1..Latest : jobs[i].step \notin AtWork
  <2>1. \A i \in DOMAIN jobs' : jobs'[i].step \notin AtWork
    BY <1>2
  <2> QED
    BY <1>1, <1>2, <2>1, ExecutingNone
<1>3. ASSUME NEW j \in 1..Latest, jobs[j].step \in AtWork PROVE Executing' = Executing
  <2>1. /\ \A i \in 1..Latest \ {j} : jobs[i].step \notin AtWork
        /\ Executing = jobs[j].owner
    BY <1>3, OneAtWork
  <2>2. \A i \in DOMAIN jobs' : jobs'[i].step \in AtWork => i = j
    BY <2>1
  <2>3. j \in DOMAIN jobs' /\ jobs'[j].step \in AtWork
    BY <1>3
  <2>4. Executing' = jobs'[j].owner
    BY <2>2, <2>3, ExecutingOne
  <2> QED
    BY <2>1, <2>4
<1> QED
  BY <1>2, <1>3

\* A handler moves without beginning its work or answering.
LEMMA MovesStutter ==
    ASSUME IInv, NEW j \in 1..Latest, NEW to, Moves(j, to),
           jobs[j].step \in AtWork <=> to \in AtWork,
           jobs[j].step \in Over <=> to \in Over,
           Closed' = Closed
    PROVE  Stutters
<1>1. DOMAIN jobs = 1..Latest /\ DOMAIN jobs' = 1..Latest
  BY JobFacts DEF Moves, Latest, IInv
<1>2. \A i \in 1..Latest : /\ jobs'[i].owner = jobs[i].owner
                           /\ jobs'[i].step \in AtWork <=> jobs[i].step \in AtWork
                           /\ jobs'[i].step \in Over <=> jobs[i].step \in Over
  BY DEF Moves
<1>3. Executing' = Executing
  BY <1>1, <1>2, SameAtWork
<1>4. \A s \in Streams : Answered(s)' = Answered(s)
  BY <1>1, <1>2, AnsweredBy, Zenon
<1> QED
  BY <1>3, <1>4 DEF Stutters

\* A handler is started: its work has not begun.
LEMMA LaunchStutters ==
    ASSUME IInv, NEW s \in Streams, Launches(s)
    PROVE  Stutters
<1> DEFINE new == [owner |-> s, step |-> "accept", reply |-> "none"]
<1>1. /\ jobs' = Append(jobs, new) /\ rpc' = [rpc EXCEPT ![s] = "assign"] /\ rpc[s] = "accept"
  BY DEF Launches
<1>2. new \in JobRecord
  BY DEF JobRecord, Steps
<1>3. /\ jobs' \in Seq(JobRecord) /\ Len(jobs') = Latest + 1 /\ Latest \in Nat
      /\ \A j \in 1..Latest : jobs'[j] = jobs[j]
      /\ jobs'[Latest + 1] = new
  BY <1>1, <1>2 DEF IInv, Typed, Latest
<1>4. new.step \notin AtWork /\ new.step \notin Over
  BY DEF AtWork, Over
<1> HIDE DEF new
<1>5. DOMAIN jobs' = 1..(Latest + 1) /\ DOMAIN jobs = 1..Latest
  BY <1>3, JobFacts DEF IInv
<1>6. \A j \in DOMAIN jobs' : j \in 1..Latest \/ j = Latest + 1
  BY <1>3, <1>5
<1>7. 1..Latest \subseteq DOMAIN jobs' /\ \A j \in 1..Latest : jobs'[j] = jobs[j]
  BY <1>3, <1>5
<1>8. Executing' = Executing
  <2>1. \A j \in DOMAIN jobs' : jobs'[j].step \in AtWork => j \in 1..Latest
    BY <1>3, <1>4, <1>6
  <2> QED
    BY <1>7, <2>1, SameAtWork
<1>9. \A t \in Streams : Answered(t)' = Answered(t)
  BY <1>3, <1>4, <1>5, <1>6, <1>7, AnsweredBy, Zenon
<1>10. Closed' = Closed
  BY <1>1, RpcMoves DEF Closed, IInv, Typed
<1> QED
  BY <1>8, <1>9, <1>10 DEF Stutters

\* Of the steps of a stream's thread, only its last is one of the session.
LEMMA ServerStepRefines ==
    ASSUME IInv, NEW s \in Streams, ServerStep(s)
    PROVE  Stutters \/ Closes(s)
<1>1. DOMAIN rpc = Streams /\ DOMAIN jobs = 1..Latest /\ s # 0
  BY JobFacts DEF IInv, Typed, Streams
<1>2. CASE finishGrpcStream(s)
  <2>1. /\ rpc' = [rpc EXCEPT ![s] = "done"] /\ rpc[s] = "awaiting" /\ jobs' = jobs
    BY <1>2 DEF finishGrpcStream
  <2>2. \A j \in 1..Latest : jobs[j].owner = s => jobs[j].step = "done"
    BY <1>2, FinishingMeansDone
  <2>3. Executing # s
    <3>1. CASE \A j \in 1..Latest : jobs[j].step \notin AtWork
      BY <1>1, <3>1, ExecutingNone
    <3>2. ASSUME NEW j \in 1..Latest, jobs[j].step \in AtWork PROVE Executing # s
      BY <2>2, <3>2, OneAtWork DEF AtWork
    <3> QED
      BY <3>1, <3>2
  <2>4. Executing' = Executing /\ \A t \in Streams : Answered(t)' = Answered(t)
    BY <2>1 DEF Executing, Active, Answered
  <2>5. s \notin Closed /\ Closed' = Closed \union {s}
    BY <1>1, <2>1 DEF Closed
  <2> QED
    BY <2>3, <2>4, <2>5 DEF Closes
<1>3. CASE ~finishGrpcStream(s) /\ ~Launches(s)
  <2>1. jobs' = jobs
    BY <1>3, Zenon DEF ServerStep, ReadsStart, ReadsOther, ReadsEnd, Unlocks, Waits, Wakes, AwaitsFuture
  <2>2. rpc[s] \in {"read", "probed", "assign", "woken", "finishing"}
    BY <1>3, Zenon DEF ServerStep, ReadsStart, ReadsOther, ReadsEnd, Unlocks, Waits, Wakes, AwaitsFuture
  <2>3. \E x : rpc' = [rpc EXCEPT ![s] = x] /\ x # "done"
    BY <1>3, Zenon DEF ServerStep, ReadsStart, ReadsOther, ReadsEnd, Unlocks, Waits, Wakes, AwaitsFuture,
                       Finishing
  <2>4. Closed' = Closed
    BY <1>1, <2>2, <2>3 DEF Closed
  <2> QED
    BY <2>1, <2>4, NoHandlerMoves
<1> QED
  BY <1>2, <1>3, LaunchStutters

\* The handler that takes the busy lock begins an execution.
LEMMA TakingBegins ==
    ASSUME IInv, NEW j \in DOMAIN jobs, TakesBusyLock(j)
    PROVE  \E s \in Streams : Begins(s)
<1>1. /\ j \in 1..Latest /\ jobs[j].step = "lock" /\ Moves(j, "create")
  BY StepMoves DEF TakesBusyLock, Steps, IInv
<1>2. DOMAIN jobs = 1..Latest /\ DOMAIN jobs' = 1..Latest /\ Typed
  BY <1>1, JobFacts DEF Moves, Latest, IInv, Typed
<1>3. \A i \in 1..Latest \ {j} : jobs[i].step \notin AtWork /\ jobs'[i] = jobs[i]
  <2>1. j = future_ /\ \A i \in 1..Latest : jobs[i].step \in AtWork => i = future_
    BY <1>1, AtWorkIsFuture DEF AtWork
  <2> QED
    BY <1>1, <2>1 DEF Moves
<1>4. PICK s \in Streams : s = jobs[j].owner
  BY <1>1, JobFacts DEF IInv
<1>5. jobs'[j].step = "create" /\ jobs'[j].owner = s
  BY <1>1, <1>4 DEF Moves
<1>6. Open(s)
  BY <1>1, <1>4 DEF IInv, OwnersOpen
<1>7. Executing = 0
  <2>1. \A i \in DOMAIN jobs : jobs[i].step \notin AtWork
    BY <1>1, <1>2, <1>3 DEF AtWork
  <2> QED
    BY <2>1, ExecutingNone
<1>8. Executing' = s
  <2>1. jobs'[j].step \in AtWork
    BY <1>5 DEF AtWork
  <2>2. \A i \in DOMAIN jobs' : jobs'[i].step \in AtWork => i = j
    BY <1>2, <1>3
  <2> QED
    BY <1>1, <1>2, <1>5, <2>1, <2>2, ExecutingOne
<1>9. \A t \in Streams : Answered(t)' = Answered(t)
  <2>1. jobs[j].step \notin Over /\ jobs'[j].step \notin Over
    BY <1>1, <1>5 DEF Over
  <2> QED
    BY <1>2, <1>3, <2>1, AnsweredBy, Zenon
<1>10. Closed' = Closed
  <2>1. \A t \in Streams : Notified(t)
    BY <1>2, NotifiesOne DEF TakesBusyLock
  <2> QED
    BY <2>1 DEF Closed, Notified
<1>11. s \notin Closed
  BY <1>6 DEF Open, Closed
<1>12. Begins(s)
  BY <1>7, <1>8, <1>9, <1>10, <1>11 DEF Begins
<1> QED
  BY <1>4, <1>12

\* The answers given so far, as the session keeps them.
Given == [s \in Streams |-> Answered(s)]

LEMMA SessionStep ==
    ASSUME Stutters \/ \E s \in Streams : Begins(s) \/ AnswersFor(s) \/ Closes(s)
    PROVE  [Session!Next]_(Session!session)
<1>1. ASSUME \A t \in Streams : Answered(t)' = Answered(t) PROVE Given' = Given
  BY <1>1 DEF Given
<1>2. CASE Stutters
  BY <1>1, <1>2 DEF Stutters, Given, Session!session
<1>3. ASSUME NEW s \in Streams, Begins(s) PROVE Session!Begin(s)
  BY <1>1, <1>3 DEF Begins, Given, Session!Begin
<1>4. ASSUME NEW s \in Streams, AnswersFor(s) PROVE Session!Answer(s)
  <2>1. PICK j \in Answered(s)' \ Answered(s) : Answered(s)' = Answered(s) \union {j}
    BY <1>4 DEF AnswersFor
  <2>2. /\ \A t \in Streams : Given[t] = Answered(t) /\ Given'[t] = Answered(t)'
        /\ Given' = [t \in Streams |-> Given'[t]] /\ DOMAIN Given = Streams
    BY Zenon DEF Given
  <2>3. Given' = [Given EXCEPT ![s] = @ \union {j}]
    <3>1. Given'[s] = Given[s] \union {j}
      BY <2>1, <2>2, Zenon
    <3>2. \A t \in Streams \ {s} : Given'[t] = Given[t]
      BY <1>4, <2>2, Zenon DEF AnswersFor
    <3>3. PICK now, next : now = Given /\ next = Given'
      OBVIOUS
    <3> QED
      BY <2>2, <3>1, <3>2, <3>3
  <2>4. \E e \in Given'[s] \ Given[s] : Given' = [Given EXCEPT ![s] = @ \union {e}]
    BY <2>1, <2>2, <2>3, Zenon
  <2> QED
    BY <1>4, <2>4, Zenon DEF AnswersFor, Given, Session!Answer
<1>5. ASSUME NEW s \in Streams, Closes(s) PROVE Session!Close(s)
  BY <1>1, <1>5 DEF Closes, Given, Session!Close
<1> QED
  BY <1>2, <1>3, <1>4, <1>5 DEF Session!Next

\* The answer, wherever it is written, is the one of the execution.
LEMMA AnsweringAnswers ==
    ASSUME IInv, NEW j \in DOMAIN jobs, Answers(j)
    PROVE  \E s \in Streams : AnswersFor(s)
<1>1. /\ j \in 1..Latest /\ jobs[j].step \in {"reply", "replyLocked"}
      /\ \E to \in Over : Moves(j, to)
  BY StepMoves DEF Answers, Steps, IInv, Over
<1>2. UNCHANGED rpc
  BY DEF Answers
<1>3. PICK to \in Over : Moves(j, to)
  BY <1>1
<1>4. DOMAIN jobs = 1..Latest /\ DOMAIN jobs' = 1..Latest /\ Latest \in Nat
  BY <1>3, JobFacts DEF Moves, Latest, IInv, Typed
<1>5. PICK s \in Streams : s = jobs[j].owner
  BY <1>1, JobFacts DEF IInv
<1>6. /\ jobs'[j].step = to /\ jobs'[j].owner = s
      /\ \A i \in 1..Latest \ {j} : jobs'[i] = jobs[i]
  BY <1>3, <1>5 DEF Moves
<1>9. \A i \in 1..Latest \ {j} : jobs[i].step \notin AtWork
  BY <1>1, OneAtWork DEF AtWork
<1>10. jobs[j].owner = s
  BY <1>5
<1>11. Executing = s
  BY <1>1, <1>5, OneAtWork DEF AtWork
<1>12. Executing' = 0
  <2>1. jobs'[j].step \notin AtWork
    BY <1>6 DEF AtWork, Over
  <2>2. \A i \in DOMAIN jobs' : jobs'[i].step \notin AtWork
    BY <1>4, <1>6, <1>9, <2>1
  <2> QED
    BY <2>2, ExecutingNone
<1>13. jobs[j].step \notin Over
  BY <1>1 DEF Over
<1>14. \A t \in Streams \ {s} : Answered(t)' = Answered(t)
  BY <1>4, <1>6, <1>10, <1>13, AnsweredBy, Zenon
<1>15. Answered(s)' = Answered(s) \union {j} /\ j \notin Answered(s)
  <2>0. /\ \A i : i \in Answered(s) <=>
                 i \in 1..Latest /\ jobs[i].owner = s /\ jobs[i].step \in Over
        /\ \A i : i \in Answered(s)' <=>
                 i \in 1..Latest /\ jobs'[i].owner = s /\ jobs'[i].step \in Over
    <3>1. /\ Answered(s) = {i \in DOMAIN jobs : jobs[i].owner = s /\ jobs[i].step \in Over}
          /\ Answered(s)' = {i \in DOMAIN jobs' : jobs'[i].owner = s /\ jobs'[i].step \in Over}
      BY AnsweredBy
    <3> QED
      BY <1>4, <3>1
  <2>1. j \notin Answered(s) /\ j \in Answered(s)'
    BY <1>1, <1>3, <1>6, <1>13, <2>0
  <2>2. \A i \in 1..Latest \ {j} : i \in Answered(s)' <=> i \in Answered(s)
    BY <1>6, <2>0
  <2>3. Answered(s) \subseteq 1..Latest /\ Answered(s)' \subseteq 1..Latest
    BY <1>4, AnsweredBy
  <2> QED
    BY <1>1, <2>1, <2>2, <2>3
<1>16. \E i \in Answered(s)' \ Answered(s) : Answered(s)' = Answered(s) \union {i}
  BY <1>15
<1>17. Closed' = Closed
  BY <1>2 DEF Closed
<1>18. AnswersFor(s)
  BY <1>11, <1>12, <1>14, <1>16, <1>17 DEF AnswersFor
<1> QED
  BY <1>5, <1>18

LEMMA JobStepRefines ==
    ASSUME IInv, NEW j \in DOMAIN jobs, JobStep(j)
    PROVE  Stutters \/ \E s \in Streams : Begins(s) \/ AnswersFor(s)
<1>1. Typed /\ j \in 1..Latest
  BY JobFacts DEF IInv
<1>2. ASSUME NEW to, Moves(j, to), UNCHANGED rpc,
             \/ jobs[j].step = "accept" /\ to = "lock"
             \/ jobs[j].step = "create" /\ to \in {"replyLocked", "release"}
             \/ jobs[j].step = "release" /\ to = "reply"
             \/ jobs[j].step = "unlock" /\ to = "done"
      PROVE  Stutters
  <2>1. /\ jobs[j].step \in AtWork <=> to \in AtWork
        /\ jobs[j].step \in Over <=> to \in Over
    BY <1>2 DEF AtWork, Over
  <2>2. Closed' = Closed
    BY <1>2 DEF Closed
  <2> QED
    BY <1>1, <1>2, <2>1, <2>2, MovesStutter
<1>3. CASE TakesAcceptedLock(j)
  <2>1. jobs[j].step = "accept" /\ Moves(j, "lock") /\ UNCHANGED rpc
    BY <1>1, <1>3, StepMoves DEF TakesAcceptedLock, Steps
  <2> QED
    BY <1>2, <2>1
<1>4. CASE \/ CreateFails(j) \/ Runs(j, "output") \/ Runs(j, "failed")
           \/ Releases(j) \/ Leaves(j)
  <2>1. CASE Answers(j)
    BY <2>1, AnsweringAnswers
  <2>2. CASE ~Answers(j)
    <3>1. /\ UNCHANGED rpc
          /\ \/ jobs[j].step = "create" /\ Moves(j, "replyLocked")
             \/ jobs[j].step = "create" /\ Moves(j, "release")
             \/ jobs[j].step = "release" /\ Moves(j, "reply")
             \/ jobs[j].step = "unlock" /\ Moves(j, "done")
      BY <1>1, <1>4, <2>2, WorkSteps
    <3> QED
      BY <1>2, <3>1
  <2> QED
    BY <2>1, <2>2
<1>5. CASE WritesThroughNull(j)
  <2>1. UNCHANGED <<jobs, rpc>>
    BY <1>5 DEF WritesThroughNull
  <2> QED
    BY <2>1, NoHandlerMoves DEF Closed
<1> QED
  BY <1>3, <1>4, <1>5, TakingBegins, AnsweringAnswers DEF JobStep

LEMMA ClientRefines ==
    ASSUME IInv, NEW s \in Streams, NEW kind,
           ClientOpens(s) \/ ClientWritesDone(s) \/ ClientBreaks(s) \/ ClientWrites(s, kind)
    PROVE  Stutters
<1>1. CASE ClientOpens(s)
  <2>1. rpc' = [rpc EXCEPT ![s] = "read"] /\ rpc[s] = "unopened" /\ jobs' = jobs
    BY <1>1 DEF ClientOpens
  <2>2. Closed' = Closed
    BY <2>1 DEF Closed, IInv, Typed
  <2> QED
    BY <2>1, <2>2, NoHandlerMoves
<1>2. CASE ClientWritesDone(s) \/ ClientBreaks(s) \/ ClientWrites(s, kind)
  <2>1. UNCHANGED <<jobs, rpc>>
    BY <1>2 DEF ClientWritesDone, ClientBreaks, ClientWrites
  <2> QED
    BY <2>1, NoHandlerMoves DEF Closed
<1> QED
  BY <1>1, <1>2

LEMMA NextRefines ==
    ASSUME IInv, [Next]_vars
    PROVE  Stutters \/ \E s \in Streams : Begins(s) \/ AnswersFor(s) \/ Closes(s)
<1>1. CASE UNCHANGED vars
  <2>1. UNCHANGED <<jobs, rpc>>
    BY <1>1 DEF vars
  <2> QED
    BY <2>1, NoHandlerMoves DEF Closed
<1> QED
  BY <1>1, ClientRefines, ServerStepRefines, JobStepRefines DEF Next

LEMMA SessionInit == Init => Session!Init
<1> SUFFICES ASSUME Init PROVE Session!Init
  OBVIOUS
<1>1. jobs = <<>> /\ rpc = [s \in Streams |-> "unopened"]
  BY DEF Init
<1>2. Executing = 0
  BY <1>1, ExecutingNone
<1>3. \A s \in Streams : Answered(s) = {}
  BY <1>1 DEF Answered
<1>4. Given = [s \in Streams |-> {}]
  BY <1>3 DEF Given
<1>5. Closed = {}
  BY <1>1 DEF Closed
<1> QED
  BY <1>2, <1>4, <1>5 DEF Given, Session!Init

\* For any number of streams, of requests and of streams open at a time, the locks, the event
\* and the future of ServiceImpl keep what BenchmarkSession promises: the handlers execute
\* one at a time, each puts its answer out before the next one executes, and no stream is
\* closed with an execution of its own unanswered.
THEOREM ServiceImplementsSession == Spec => ImplementsSession
<1>1. IInv /\ [Next]_vars => [Session!Next]_(Session!session)
  BY NextRefines, SessionStep
<1> QED
  BY <1>1, SessionInit, ServiceInvariant, PTL DEF Spec, ImplementsSession, Session!Spec

-----------------------------------------------------------------------------
(* Streams that have had the service to themselves.                        *)

Alone == Streams \ shared
Locked == {"create", "release", "replyLocked", "unlock"}

\* Nothing else is open while such a stream is, and stream_ points at it.
SoleOpen ==
    /\ \A s \in Alone, t \in Streams : Open(s) /\ Open(t) => s = t
    /\ \A s \in Alone : stream_ = s <=> Open(s)

\* What the position of the stream says of the last handler, and of the one before it.
Fits(position) ==
    /\ position \in {"read", "woken", "finishing", "awaiting"} /\ Latest > 0 =>
           jobs[Latest].step \notin {"accept", "lock"}
    /\ position \in {"probed", "accept"} /\ Latest > 0 => jobs[Latest].step \in {"reply", "done"}
    /\ position = "assign" /\ future_ > 0 => jobs[future_].step \in {"reply", "done"}
    /\ position = "waiting" => Latest > 0 /\ jobs[Latest].step \in {"accept", "lock"}

InStep == \A s \in Alone : Fits(rpc[s])

\* Who holds the busy lock, on whatever stream.
BusyBy ==
    /\ \A s \in Streams : rpc[s] = "probed" => busy_lock_ = Server(s)
    /\ \A j \in 1..Latest : jobs[j].step \in Locked => busy_lock_ = Job(j)

RInv == IInv /\ SoleOpen /\ InStep /\ BusyBy

\* Handlers at work on such a stream belong to it.
LEMMA OwnerIsAlone ==
    ASSUME RInv, NEW j \in 1..Latest, jobs[j].step # "done", NEW t \in Alone, Open(t)
    PROVE  jobs[j].owner = t
<1>1. jobs[j].owner \in Streams /\ Open(jobs[j].owner)
  BY JobFacts DEF RInv, IInv, OwnersOpen
<1> QED
  BY <1>1 DEF RInv, SoleOpen

\* A handler in the middle of its work for such a stream is the only one that is not done.
LEMMA AloneAtWork ==
    ASSUME RInv, NEW j \in 1..Latest, jobs[j].step \notin {"done", "accept", "reply"},
           jobs[j].owner \in Alone
    PROVE  /\ ~Assigning /\ j = Latest /\ future_ = Latest
           /\ \A i \in 1..Latest \ {j} : jobs[i].step = "done"
<1>1. j = future_ /\ future_ > 0
  BY AtWorkIsFuture DEF RInv
<1>2. ~Assigning
  <2> SUFFICES ASSUME NEW s \in Streams, rpc[s] = "assign" PROVE FALSE
    BY DEF Assigning
  <2>1. Open(s) /\ Open(jobs[j].owner)
    BY DEF Open, RInv, IInv, OwnersOpen
  <2>2. s \in Alone
    BY <2>1 DEF RInv, SoleOpen
  <2> QED
    BY <1>1, <2>2 DEF RInv, InStep, Fits
<1>3. future_ = Latest
  BY <1>2 DEF RInv, IInv, OneHandler
<1>4. \A i \in 1..Latest \ {j} : jobs[i].step = "done"
  BY <1>1, <1>2, NotDone DEF RInv
<1> QED
  BY <1>1, <1>2, <1>3, <1>4

\* No stream is opened or closed.
LEMMA StillSole ==
    ASSUME SoleOpen, \A t \in Streams : Open(t)' <=> Open(t), UNCHANGED <<stream_, shared>>
    PROVE  SoleOpen'
BY DEF SoleOpen, Alone

\* The streams other than one that is open stand still.
LEMMA StreamInStep ==
    ASSUME RInv, NEW s \in Streams, Open(s), NEW x, rpc' = [rpc EXCEPT ![s] = x],
           shared' = shared, s \in Alone => Fits(x)'
    PROVE  InStep'
<1>1. rpc'[s] = x /\ \A t \in Streams \ {s} : rpc'[t] = rpc[t]
  BY RpcMoves DEF RInv, IInv, Typed
<1>2. Alone' = Alone
  BY DEF Alone
<1>3. ASSUME NEW t \in Alone PROVE Fits(rpc[t])'
  <2>1. CASE t = s
    BY <1>1, <2>1 DEF Fits
  <2>2. CASE t # s
    <3>1. rpc[t] \in {"unopened", "done"} /\ rpc'[t] = rpc[t]
      BY <1>1, <2>2 DEF RInv, SoleOpen, Open, Alone
    <3> QED
      BY <3>1 DEF Fits
  <2> QED
    BY <2>1, <2>2
<1> QED
  BY <1>2, <1>3 DEF InStep

\* A thread that does not touch the busy lock, and is not the one that holds it.
LEMMA StillBusyBy ==
    ASSUME BusyBy, UNCHANGED <<jobs, busy_lock_>>,
           \A t \in Streams : rpc'[t] = "probed" => rpc[t] = "probed"
    PROVE  BusyBy'
<1>1. Latest' = Latest
  BY DEF Latest
<1> QED
  BY <1>1 DEF BusyBy

\* A move of a stream's thread between two reads.
LEMMA StreamMovesRInv ==
    ASSUME RInv, NEW s \in Streams, Open(s), NEW x, rpc' = [rpc EXCEPT ![s] = x],
           x \notin {"unopened", "done"}, UNCHANGED <<jobs, stream_, shared>>,
           s \in Alone => Fits(x)', BusyBy'
    PROVE  SoleOpen' /\ InStep' /\ BusyBy'
<1>1. rpc'[s] = x /\ \A t \in Streams \ {s} : rpc'[t] = rpc[t]
  BY RpcMoves DEF RInv, IInv, Typed
<1>2. \A t \in Streams : Open(t)' <=> Open(t)
  BY <1>1 DEF Open
<1> QED
  BY <1>2, StillSole, StreamInStep DEF RInv

\* The thread of a stream reads, unlocks or wakes.
LEMMA ReadsRInv ==
    ASSUME RInv, NEW s \in Streams,
           \/ ReadsStart(s) \/ ReadsOther(s) \/ ReadsEnd(s)
           \/ Unlocks(s) \/ Wakes(s) \/ AwaitsFuture(s)
    PROVE  SoleOpen' /\ InStep' /\ BusyBy'
<1>1. UNCHANGED <<jobs, stream_, shared, future_>>
  BY DEF ReadsStart, ReadsOther, ReadsEnd, Unlocks, Wakes, AwaitsFuture, endVars
<1>2. /\ Latest' = Latest /\ Latest \in Nat /\ BusyBy /\ DOMAIN rpc = Streams
      /\ Latest > 0 => jobs[Latest].step \in Steps
  <2>1. Typed /\ BusyBy
    BY DEF RInv, IInv
  <2>2. Latest \in Nat /\ \A j \in 1..Latest : jobs[j].step \in Steps
    BY <2>1, JobFacts, Zenon
  <2>3. Latest' = Latest
    BY <1>1 DEF Latest
  <2>4. Latest > 0 => jobs[Latest].step \in Steps
    BY <2>2
  <2> QED
    BY <2>1, <2>2, <2>3, <2>4 DEF Typed
<1>3. s \in Alone => Fits(rpc[s])
  BY DEF RInv, InStep
<1>4. ASSUME NEW x, x \in {"read", "finishing", "awaiting", "accept"},
             rpc' = [rpc EXCEPT ![s] = x], busy_lock_' = busy_lock_
      PROVE  BusyBy'
  <2>1. \A t \in Streams : rpc'[t] = "probed" => rpc[t] = "probed"
    BY <1>2, <1>4
  <2> QED
    BY <1>1, <1>2, <1>4, <2>1, StillBusyBy
<1>5. CASE ReadsStart(s) /\ busy_lock_ = Nobody
  <2>1. rpc[s] = "read" /\ rpc' = [rpc EXCEPT ![s] = "probed"] /\ busy_lock_' = Server(s)
    BY <1>5 DEF ReadsStart
  <2>2. /\ \A t \in Streams : rpc[t] # "probed"
        /\ \A j \in 1..Latest : jobs[j].step \notin Locked
    BY <1>2, <1>5 DEF BusyBy, Nobody, Server, Job
  <2>3. \A t \in Streams : rpc'[t] = "probed" => t = s
    BY <1>2, <2>1, <2>2
  <2>4. BusyBy'
    BY <1>1, <1>2, <2>1, <2>2, <2>3 DEF BusyBy
  <2>5. s \in Alone => Fits("probed")'
    <3>1. Latest > 0 => jobs[Latest].step \notin Locked
      BY <1>2, <2>2
    <3>2. s \in Alone /\ Latest > 0 => jobs[Latest].step \notin {"accept", "lock"}
      BY <1>3, <2>1 DEF Fits
    <3> QED
      BY <1>1, <1>2, <3>1, <3>2 DEF Fits, Steps, Locked
  <2> QED
    BY <1>1, <2>1, <2>4, <2>5, StreamMovesRInv DEF Open
<1>6. CASE (ReadsStart(s) /\ busy_lock_ # Nobody) \/ ReadsOther(s) \/ ReadsEnd(s)
  <2>1. rpc[s] = "read" /\ rpc' = [rpc EXCEPT ![s] = "finishing"] /\ busy_lock_' = busy_lock_
    BY <1>6 DEF ReadsStart, ReadsOther, ReadsEnd, Finishing
  <2>2. s \in Alone => Fits("finishing")'
    BY <1>1, <1>2, <1>3, <2>1 DEF Fits
  <2> QED
    BY <1>1, <1>4, <2>1, <2>2, StreamMovesRInv DEF Open
<1>7. CASE Unlocks(s)
  <2>1. rpc[s] = "probed" /\ rpc' = [rpc EXCEPT ![s] = "accept"]
    BY <1>7 DEF Unlocks
  <2>2. s \in Alone => Fits("accept")'
    BY <1>1, <1>2, <1>3, <2>1 DEF Fits
  <2>3. busy_lock_ = Server(s)
    BY <1>2, <2>1 DEF BusyBy
  <2>4. /\ \A t \in Streams \ {s} : rpc[t] # "probed"
        /\ \A j \in 1..Latest : jobs[j].step \notin Locked
    BY <1>2, <2>3 DEF BusyBy, Server, Job
  <2>5. \A t \in Streams : rpc'[t] # "probed"
    BY <1>2, <2>1, <2>4
  <2>6. BusyBy'
    BY <1>1, <1>2, <2>4, <2>5 DEF BusyBy
  <2> QED
    BY <1>1, <2>1, <2>2, <2>6, StreamMovesRInv DEF Open
<1>8. CASE Wakes(s)
  <2>1. rpc[s] = "woken" /\ rpc' = [rpc EXCEPT ![s] = "read"] /\ busy_lock_' = busy_lock_
    BY <1>8 DEF Wakes
  <2>2. s \in Alone => Fits("read")'
    BY <1>1, <1>2, <1>3, <2>1 DEF Fits
  <2> QED
    BY <1>1, <1>4, <2>1, <2>2, StreamMovesRInv DEF Open
<1>9. CASE AwaitsFuture(s)
  <2>1. rpc[s] = "finishing" /\ rpc' = [rpc EXCEPT ![s] = "awaiting"] /\ busy_lock_' = busy_lock_
    BY <1>9 DEF AwaitsFuture
  <2>2. s \in Alone => Fits("awaiting")'
    BY <1>1, <1>2, <1>3, <2>1 DEF Fits
  <2> QED
    BY <1>1, <1>4, <2>1, <2>2, StreamMovesRInv DEF Open
<1> QED
  BY <1>5, <1>6, <1>7, <1>8, <1>9

LEMMA LaunchRInv ==
    ASSUME RInv, NEW s \in Streams, Launches(s)
    PROVE  SoleOpen' /\ InStep' /\ BusyBy'
<1> DEFINE new == [owner |-> s, step |-> "accept", reply |-> "none"]
<1>1. /\ rpc[s] = "accept" /\ accepted_lock_ = Nobody /\ jobs' = Append(jobs, new)
      /\ rpc' = [rpc EXCEPT ![s] = "assign"]
      /\ UNCHANGED <<future_, stream_, shared, busy_lock_>>
  BY DEF Launches, endVars
<1>2. new \in JobRecord
  BY DEF JobRecord, Steps
<1>3. /\ Latest' = Latest + 1 /\ Latest \in Nat /\ jobs'[Latest + 1] = new
      /\ \A j \in 1..Latest : jobs'[j] = jobs[j]
  BY <1>1, <1>2 DEF RInv, IInv, Typed, Latest
<1>4. new.step \notin Locked
  BY DEF Locked
<1> HIDE DEF new
<1>5. rpc'[s] = "assign" /\ \A t \in Streams \ {s} : rpc'[t] = rpc[t]
  BY <1>1, RpcMoves DEF RInv, IInv, Typed
<1>6. future_ = Latest
  BY <1>1, FreeOfAssigning DEF RInv, IInv, OneHandler
<1>7. SoleOpen'
  <2>1. \A t \in Streams : Open(t)' <=> Open(t)
    BY <1>1, <1>5 DEF Open
  <2> QED
    BY <1>1, <2>1, StillSole DEF RInv
<1>8. InStep'
  <2>1. Latest > 0 => jobs'[Latest] = jobs[Latest]
    BY <1>3
  <2>2. s \in Alone => Fits("assign")'
    BY <1>1, <1>6, <2>1, Zenon DEF RInv, InStep, Fits
  <2> QED
    BY <1>1, <2>2, StreamInStep DEF Open
<1>9. BusyBy'
  <2>1. ASSUME NEW j \in 1..Latest', jobs'[j].step \in Locked PROVE busy_lock_' = Job(j)
    <3>1. j # Latest + 1
      BY <1>3, <1>4, <2>1
    <3>2. j \in 1..Latest /\ jobs'[j] = jobs[j]
      BY <1>3, <3>1
    <3> QED
      BY <1>1, <2>1, <3>2 DEF RInv, BusyBy
  <2>2. \A t \in Streams : rpc'[t] = "probed" => rpc[t] = "probed"
    BY <1>5
  <2> QED
    BY <1>1, <2>1, <2>2 DEF RInv, BusyBy
<1> QED
  BY <1>7, <1>8, <1>9

LEMMA WaitsRInv ==
    ASSUME RInv, NEW s \in Streams, Waits(s)
    PROVE  SoleOpen' /\ InStep' /\ BusyBy'
<1>1. /\ rpc[s] = "assign" /\ rpc' = [rpc EXCEPT ![s] = "waiting"]
      /\ UNCHANGED <<jobs, stream_, shared, busy_lock_>>
  BY DEF Waits, endVars
<1>2. Latest' = Latest
  BY <1>1 DEF Latest
<1>3. Fits("waiting")'
  BY <1>1, <1>2 DEF RInv, IInv, OneHandler, Fits
<1>4. BusyBy'
  <2>1. \A t \in Streams : rpc'[t] = "probed" => rpc[t] = "probed"
    BY <1>1 DEF RInv, IInv, Typed
  <2> QED
    BY <1>1, <2>1, StillBusyBy DEF RInv
<1> QED
  BY <1>1, <1>3, <1>4, StreamMovesRInv DEF Open

LEMMA FinishRInv ==
    ASSUME RInv, NEW s \in Streams, finishGrpcStream(s)
    PROVE  SoleOpen' /\ InStep' /\ BusyBy'
<1>1. /\ rpc[s] = "awaiting" /\ rpc' = [rpc EXCEPT ![s] = "done"] /\ stream_' = 0
      /\ UNCHANGED <<jobs, shared, busy_lock_>>
  BY DEF finishGrpcStream, endVars
<1>2. rpc'[s] = "done" /\ \A t \in Streams \ {s} : rpc'[t] = rpc[t]
  BY <1>1, RpcMoves DEF RInv, IInv, Typed
<1>3. Open(s) /\ ~Open(s)' /\ \A t \in Streams \ {s} : Open(t)' <=> Open(t)
  BY <1>1, <1>2 DEF Open
<1>4. \A t \in Alone : ~Open(t)'
  BY <1>3 DEF RInv, SoleOpen, Alone
<1>5. SoleOpen'
  <2>1. Alone' = Alone /\ 0 \notin Alone
    BY <1>1 DEF Alone, Streams
  <2> QED
    BY <1>1, <1>4, <2>1 DEF SoleOpen
<1>6. InStep'
  BY <1>1, <1>3, StreamInStep DEF Fits
<1>7. BusyBy'
  <2>1. \A t \in Streams : rpc'[t] = "probed" => rpc[t] = "probed"
    BY <1>2
  <2> QED
    BY <1>1, <2>1, StillBusyBy DEF RInv
<1> QED
  BY <1>5, <1>6, <1>7

\* A client connects: it has the service to itself if no other stream is open.
LEMMA OpensRInv ==
    ASSUME RInv, NEW s \in Streams, ClientOpens(s)
    PROVE  SoleOpen' /\ InStep' /\ BusyBy'
<1>1. /\ rpc[s] = "unopened" /\ rpc' = [rpc EXCEPT ![s] = "read"] /\ stream_' = s
      /\ shared' = IF OpenStreams = {} THEN shared ELSE shared \union OpenStreams \union {s}
      /\ UNCHANGED <<jobs, busy_lock_, future_>>
  BY DEF ClientOpens
<1>2. rpc'[s] = "read" /\ \A t \in Streams \ {s} : rpc'[t] = rpc[t]
  BY <1>1, RpcMoves DEF RInv, IInv, Typed
<1>3. Open(s)' /\ \A t \in Streams \ {s} : Open(t)' <=> Open(t)
  BY <1>2 DEF Open
<1>4. /\ \A t \in Alone' \ {s} : ~Open(t)'
      /\ s \in Alone' => \A t \in Streams : ~Open(t)
  BY <1>1, <1>3 DEF Alone, OpenStreams
<1>5. SoleOpen'
  BY <1>1, <1>3, <1>4 DEF SoleOpen, Alone
<1>6. InStep'
  <2>1. ASSUME NEW t \in Alone' PROVE Fits(rpc[t])'
    <3>1. CASE t # s
      BY <1>4, <3>1 DEF Fits, Open
    <3>2. CASE t = s
      <4>1. \A j \in 1..Latest : jobs[j].step = "done"
        BY <1>4, <3>2, JobFacts DEF RInv, IInv, OwnersOpen
      <4>2. Latest' = Latest /\ Latest \in Nat
        BY <1>1, JobFacts DEF Latest, RInv, IInv
      <4>3. Latest > 0 => jobs'[Latest].step = "done"
        BY <1>1, <4>1, <4>2
      <4> QED
        BY <1>2, <3>2, <4>2, <4>3 DEF Fits
    <3> QED
      BY <3>1, <3>2
  <2> QED
    BY <2>1 DEF InStep
<1>7. BusyBy'
  <2>1. \A t \in Streams : rpc'[t] = "probed" => rpc[t] = "probed"
    BY <1>2
  <2> QED
    BY <1>1, <2>1, StillBusyBy DEF RInv
<1> QED
  BY <1>5, <1>6, <1>7

\* A handler moves: the busy lock is with it from "create" to "release" or "unlock".
LEMMA HandlerBusyBy ==
    ASSUME RInv, NEW j \in 1..Latest, NEW to, Moves(j, to), \A t \in Streams : Notified(t),
           \/ jobs[j].step \in Locked /\ busy_lock_' = busy_lock_
           \/ to \notin Locked /\ busy_lock_' = busy_lock_
           \/ busy_lock_ = Nobody /\ busy_lock_' = Job(j)
           \/ jobs[j].step \in Locked /\ to \notin Locked /\ busy_lock_' = Nobody
    PROVE  BusyBy'
<1>1. Latest' = Latest /\ jobs'[j].step = to /\ \A i \in 1..Latest \ {j} : jobs'[i] = jobs[i]
  BY DEF Moves
<1>2. \A t \in Streams : rpc'[t] = "probed" => rpc[t] = "probed"
  BY DEF Notified
<1>3. BusyBy /\ \A s, i : Nobody # Job(i) /\ Nobody # Server(s) /\ Server(s) # Job(i)
  BY DEF RInv, Nobody, Job, Server
<1>4. \A i \in 1..Latest : Job(i) = Job(j) => i = j
  BY DEF Job
<1>5. CASE jobs[j].step \in Locked /\ busy_lock_' = busy_lock_
  BY <1>1, <1>2, <1>3, <1>5 DEF BusyBy
<1>6. CASE to \notin Locked /\ busy_lock_' = busy_lock_
  BY <1>1, <1>2, <1>3, <1>6 DEF BusyBy
<1>7. CASE busy_lock_ = Nobody /\ busy_lock_' = Job(j)
  BY <1>1, <1>2, <1>3, <1>7 DEF BusyBy
<1>8. CASE jobs[j].step \in Locked /\ to \notin Locked /\ busy_lock_' = Nobody
  <2>1. busy_lock_ = Job(j)
    BY <1>3, <1>8 DEF BusyBy
  <2>2. /\ \A t \in Streams : rpc[t] # "probed"
        /\ \A i \in 1..Latest \ {j} : jobs[i].step \notin Locked
    BY <1>3, <1>4, <2>1 DEF BusyBy
  <2> QED
    BY <1>1, <1>2, <1>8, <2>2 DEF BusyBy
<1> QED
  BY <1>5, <1>6, <1>7, <1>8

\* A handler moves, and the stream it works for fits its new step.
LEMMA HandlerInStep ==
    ASSUME RInv, NEW j \in 1..Latest, jobs[j].step # "done", shared' = shared,
           \A t \in Streams : Notified(t),
           \A t \in Alone : jobs[j].owner = t /\ Open(t) => Fits(rpc[t])'
    PROVE  InStep'
<1>1. Alone' = Alone
  BY DEF Alone
<1>2. ASSUME NEW t \in Alone PROVE Fits(rpc[t])'
  <2>1. CASE Open(t)
    BY <2>1, OwnerIsAlone
  <2>2. CASE ~Open(t)
    <3>1. rpc'[t] \in {"unopened", "done"}
      BY <2>2 DEF Notified, Open, Alone
    <3> QED
      BY <3>1 DEF Fits
  <2> QED
    BY <2>1, <2>2
<1> QED
  BY <1>1, <1>2 DEF InStep

LEMMA TakesAcceptedRInv ==
    ASSUME RInv, NEW j \in DOMAIN jobs, TakesAcceptedLock(j)
    PROVE  SoleOpen' /\ InStep' /\ BusyBy'
<1>1. /\ Step(j, "accept", "lock") /\ accepted_lock_ = Nobody
      /\ UNCHANGED <<rpc, future_, stream_, shared, busy_lock_>>
  BY DEF TakesAcceptedLock, endVars
<1>2. j \in 1..Latest /\ jobs[j].step = "accept" /\ Moves(j, "lock")
  BY <1>1, StepMoves DEF RInv, IInv, Steps
<1>3. ~Assigning
  BY <1>1, FreeOfAssigning DEF RInv
<1>4. j = Latest /\ Latest > 0 /\ Latest' = Latest /\ jobs'[j].step = "lock"
  BY <1>2, <1>3, NotDone DEF RInv, Moves
<1>5. \A t \in Streams : Notified(t)
  BY <1>1 DEF Notified
<1>6. SoleOpen'
  BY <1>1, StillSole DEF RInv, Open
<1>7. InStep'
  <2>1. ASSUME NEW t \in Alone PROVE Fits(rpc[t])'
    <3>1. rpc[t] \notin {"read", "woken", "finishing", "awaiting", "probed", "accept"}
      BY <1>2, <1>4 DEF RInv, InStep, Fits
    <3>2. rpc[t] # "assign"
      BY <1>3 DEF Assigning, Alone
    <3> QED
      BY <1>1, <1>4, <3>1, <3>2 DEF Fits
  <2> QED
    BY <1>1, <1>2, <1>5, <2>1, HandlerInStep
<1>8. BusyBy'
  BY <1>1, <1>2, <1>5, HandlerBusyBy DEF Locked
<1> QED
  BY <1>6, <1>7, <1>8

LEMMA TakesBusyRInv ==
    ASSUME RInv, NEW j \in DOMAIN jobs, TakesBusyLock(j)
    PROVE  SoleOpen' /\ InStep' /\ BusyBy'
<1>1. /\ Step(j, "lock", "create") /\ busy_lock_ = Nobody /\ busy_lock_' = Job(j) /\ notifyOne
      /\ UNCHANGED <<future_, stream_, shared>>
  BY DEF TakesBusyLock, endVars
<1>2. j \in 1..Latest /\ jobs[j].step = "lock" /\ Moves(j, "create")
  BY <1>1, StepMoves DEF RInv, IInv, Steps
<1>3. ~Assigning
  BY <1>2, FreeOfAssigning DEF RInv
<1>4. j = Latest /\ Latest > 0 /\ Latest' = Latest /\ jobs'[j].step = "create"
  BY <1>2, <1>3, NotDone DEF RInv, Moves
<1>5. \A t \in Streams : Notified(t)
  BY <1>1, NotifiesOne DEF RInv, IInv
<1>6. SoleOpen'
  <2>1. \A t \in Streams : Open(t)' <=> Open(t)
    BY <1>5 DEF Notified, Open
  <2> QED
    BY <1>1, <2>1, StillSole DEF RInv
<1>7. InStep'
  <2>1. ASSUME NEW t \in Alone, Open(t) PROVE Fits(rpc[t])'
    <3>1. rpc[t] \notin {"read", "woken", "finishing", "awaiting", "probed", "accept", "assign"}
      BY <1>2, <1>3, <1>4 DEF RInv, InStep, Fits, Assigning, Alone
    <3>2. rpc[t] = "waiting" => rpc'[t] = "woken"
      <4>1. \A s \in Streams : rpc[s] = "waiting" => s = t
        BY <2>1 DEF RInv, SoleOpen, Open
      <4>2. t \in Streams /\ DOMAIN rpc = Streams
        BY DEF Alone, RInv, IInv, Typed
      <4> QED
        BY <1>1, <4>1, <4>2 DEF notifyOne
    <3>3. rpc'[t] \notin {"probed", "accept", "assign", "waiting"}
      BY <1>5, <3>1, <3>2 DEF Notified, Alone
    <3> QED
      BY <1>4, <3>3 DEF Fits
  <2> QED
    BY <1>1, <1>2, <1>5, <2>1, HandlerInStep
<1>8. BusyBy'
  BY <1>1, <1>2, <1>5, HandlerBusyBy
<1> QED
  BY <1>6, <1>7, <1>8

\* The steps of a handler that is past its acceptance.
LEMMA WorkRInv ==
    ASSUME RInv, NEW j \in 1..Latest, NEW to, Moves(j, to),
           jobs[j].step \in Locked \union {"reply"}, to \notin {"accept", "lock"},
           jobs[j].step = "reply" => to = "done",
           UNCHANGED <<rpc, future_, stream_, shared>>, BusyBy'
    PROVE  SoleOpen' /\ InStep' /\ BusyBy'
<1>1. Latest' = Latest /\ jobs'[j].step = to /\ \A i \in 1..Latest \ {j} : jobs'[i] = jobs[i]
  BY DEF Moves
<1>2. jobs[j].step \notin {"done", "accept", "lock"}
  BY DEF Locked
<1>3. SoleOpen'
  BY StillSole DEF RInv, Open
<1>4. InStep'
  <2>1. \A t \in Streams : Notified(t)
    BY DEF Notified
  <2>2. ASSUME NEW t \in Alone, Open(t), jobs[j].owner = t PROVE Fits(rpc[t])'
    <3>1. Fits(rpc[t]) /\ Latest \in Nat /\ j \in Nat /\ j > 0
      BY JobFacts DEF RInv, InStep, IInv
    <3>2. CASE jobs[j].step = "reply"
      <4>1. to = "done"
        BY <3>2
      <4>2. CASE j = Latest
        <5>1. rpc[t] # "waiting"
          BY <1>2, <3>1, <4>2 DEF Fits
        <5>2. future_ > 0 /\ rpc[t] = "assign" => jobs'[future_].step \in {"reply", "done"}
          BY <1>1, <3>1, <4>1, <1>2, AtWorkIsFuture DEF RInv
        <5> QED
          BY <1>1, <4>1, <4>2, <5>1, <5>2 DEF Fits
      <4>3. CASE j # Latest
        <5>1. Latest > 0 => jobs'[Latest] = jobs[Latest]
          BY <1>1, <3>1, <4>3
        <5>2. future_ > 0 /\ rpc[t] = "assign" => jobs'[future_].step \in {"reply", "done"}
          BY <1>1, <3>1, <4>1, <1>2, AtWorkIsFuture DEF RInv
        <5> QED
          BY <1>1, <3>1, <5>1, <5>2 DEF Fits
      <4> QED
        BY <4>2, <4>3
    <3>3. CASE jobs[j].step # "reply"
      <4>1. ~Assigning /\ j = Latest
        BY <1>2, <2>2, <3>3, AloneAtWork
      <4>2. rpc[t] \notin {"assign", "waiting", "probed", "accept"}
        BY <1>2, <3>1, <3>3, <4>1 DEF Fits, Assigning, Alone
      <4> QED
        BY <1>1, <4>1, <4>2 DEF Fits
    <3> QED
      BY <3>2, <3>3
  <2> QED
    BY <1>2, <2>1, <2>2, HandlerInStep
<1> QED
  BY <1>3, <1>4

\* What the steps of a handler that is past its acceptance do to the busy lock.
LEMMA WorkStepsRInv ==
    ASSUME RInv, NEW j \in DOMAIN jobs,
           \/ CreateFails(j) \/ Runs(j, "output") \/ Runs(j, "failed")
           \/ Releases(j) \/ Answers(j) \/ Leaves(j)
    PROVE  SoleOpen' /\ InStep' /\ BusyBy'
<1>1. /\ UNCHANGED <<rpc, future_, stream_, shared>>
      /\ \/ jobs[j].step = "create" /\ Moves(j, "replyLocked")
         \/ jobs[j].step = "create" /\ Moves(j, "release")
         \/ jobs[j].step = "release" /\ Moves(j, "reply")
         \/ jobs[j].step = "reply" /\ Moves(j, "done") /\ Answers(j)
         \/ jobs[j].step = "replyLocked" /\ Moves(j, "unlock") /\ Answers(j)
         \/ jobs[j].step = "unlock" /\ Moves(j, "done")
  BY WorkSteps DEF RInv, IInv
<1>2. \/ busy_lock_' = busy_lock_
      \/ jobs[j].step \in {"release", "unlock"} /\ busy_lock_' = Nobody
  BY DEF CreateFails, Runs, Releases, Answers, Leaves, Step
<1>3. \A t \in Streams : Notified(t)
  BY <1>1 DEF Notified
<1>4. j \in 1..Latest
  BY JobFacts DEF RInv, IInv
<1>5. PICK to : /\ Moves(j, to) /\ to \notin {"accept", "lock"}
                /\ jobs[j].step \in Locked \union {"reply"}
                /\ jobs[j].step = "reply" => to = "done"
                /\ jobs[j].step \in {"release", "unlock"} => to \notin Locked
  BY <1>1 DEF Locked
<1>6. BusyBy'
  BY <1>2, <1>3, <1>4, <1>5, HandlerBusyBy DEF Locked
<1> QED
  BY <1>1, <1>4, <1>5, <1>6, WorkRInv

\* Steps of the clients, a crash, and steps that do not happen.
LEMMA NothingRInv ==
    ASSUME RInv, UNCHANGED <<rpc, jobs, future_, stream_, shared, busy_lock_>>
    PROVE  SoleOpen' /\ InStep' /\ BusyBy'
<1>1. Latest' = Latest
  BY DEF Latest
<1> QED
  BY <1>1 DEF RInv, SoleOpen, Alone, InStep, Fits, BusyBy, Open

LEMMA NextRInv == ASSUME RInv, [Next]_vars PROVE RInv'
<1>1. IInv'
  BY NextIInv DEF RInv
<1>2. ASSUME NEW s \in Streams, NEW kind,
             ClientWritesDone(s) \/ ClientBreaks(s) \/ ClientWrites(s, kind)
      PROVE  SoleOpen' /\ InStep' /\ BusyBy'
  BY <1>2, NothingRInv DEF ClientWritesDone, ClientBreaks, ClientWrites, endVars
<1>3. CASE UNCHANGED vars
  BY <1>1, <1>3, NothingRInv DEF vars, endVars, RInv
<1>4. ASSUME NEW s \in Streams, ServerStep(s) PROVE SoleOpen' /\ InStep' /\ BusyBy'
  BY <1>4, ReadsRInv, LaunchRInv, WaitsRInv, FinishRInv DEF ServerStep
<1>5. ASSUME NEW j \in DOMAIN jobs, JobStep(j) PROVE SoleOpen' /\ InStep' /\ BusyBy'
  <2>1. CASE WritesThroughNull(j)
    BY <2>1, NothingRInv DEF WritesThroughNull
  <2> QED
    BY <1>5, <2>1, TakesAcceptedRInv, TakesBusyRInv, WorkStepsRInv DEF JobStep
<1> QED
  BY <1>1, <1>2, <1>3, <1>4, <1>5, OpensRInv DEF Next, RInv

LEMMA InitRInv == Init => RInv
<1> SUFFICES ASSUME Init PROVE RInv
  OBVIOUS
<1>1. jobs = <<>> /\ stream_ = 0 /\ \A s \in Streams : rpc[s] = "unopened" /\ s # 0
  BY DEF Init, Streams
<1>2. Latest = 0
  BY <1>1 DEF Latest
<1>3. SoleOpen /\ InStep /\ BusyBy
  BY <1>1, <1>2 DEF SoleOpen, InStep, Fits, BusyBy, Open, Alone
<1> QED
  BY <1>3, InitIInv DEF RInv
=============================================================================
