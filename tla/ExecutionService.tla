-------------------------- MODULE ExecutionService --------------------------
(***************************************************************************)
(* ServiceImpl, the gRPC service that runs benchmarks for its clients, and *)
(* the client that PerformNighthawkBenchmark() is.  A stream is served by  *)
(* a thread of the gRPC server (ExecutionStream); an accepted request is   *)
(* handled by a thread of its own (handleExecutionRequest), started with   *)
(* std::async.  The threads share two mutexes, a condition variable, the   *)
(* pointer stream_ and the future future_ -- one of each for all streams,  *)
(* however many are open at a time.                                        *)
(***************************************************************************)
EXTENDS Naturals, Sequences, FiniteSets

CONSTANTS
    NumStreams,    \* streams that clients open during the life of the service
    MaxRequests,   \* bound on the requests a client writes to one stream
    MaxTotal       \* bound on the requests written to all streams together

ASSUME ServiceAssumption ==
    /\ NumStreams \in Nat \ {0}
    /\ MaxRequests \in Nat \ {0}
    /\ MaxTotal \in Nat \ {0}

Streams == 1..NumStreams

VARIABLES
    client,      \* per stream: "absent", "writing", "halfclosed" (WritesDone) or "gone"
    inbox,       \* per stream: requests written and not yet read
    sent,        \* per stream: number of requests written
    outbox,      \* per stream: replies that reached the client
    rpc,         \* per stream: where its ExecutionStream() is
    request,     \* per stream: the request read last
    status,      \* per stream: the status it is, or will be, finished with
    jobs,        \* the handlers started so far: stream asked on, step, reply
    accepted_lock_, busy_lock_,   \* who holds each mutex
    stream_,     \* the stream replies are written to, 0 for nullptr
    future_,     \* the handler of the last accepted request, 0 for none
    awaited,     \* per stream: the value of future_ that finishing it waits for
    crashed,     \* the process died of a write through the null stream_
    shared       \* history: the streams that were open while another one was

\* What only some of the steps below touch.
endVars == <<awaited, crashed, shared>>
vars == <<client, inbox, sent, outbox, rpc, request, status, jobs,
          accepted_lock_, busy_lock_, stream_, future_, endVars>>

Nobody == <<"nobody", 0>>
Server(s) == <<"server", s>>
Job(j) == <<"job", j>>

NoRequest == [kind |-> "none", after |-> "nothing"]

\* The replies of the two early returns carry only an error; the others carry the output,
\* with an error as well when run() reports failure.
Replies == {"invalid", "output", "failed"}

\* What the client knew when it wrote a start request: it is "pressed" while an earlier
\* request of its stream is unanswered; otherwise what the last answer was.
Known(s) ==
    IF Len(outbox[s]) < sent[s] THEN "pressed"
    ELSE IF sent[s] = 0 THEN "nothing"
    ELSE outbox[s][Len(outbox[s])]

Init ==
    /\ client = [s \in Streams |-> "absent"]
    /\ inbox = [s \in Streams |-> <<>>]
    /\ sent = [s \in Streams |-> 0]
    /\ outbox = [s \in Streams |-> <<>>]
    /\ rpc = [s \in Streams |-> "unopened"]
    /\ request = [s \in Streams |-> NoRequest]
    /\ status = [s \in Streams |-> "none"]
    /\ jobs = <<>>
    /\ accepted_lock_ = Nobody
    /\ busy_lock_ = Nobody
    /\ stream_ = 0
    /\ future_ = 0
    /\ awaited = [s \in Streams |-> 0]
    /\ crashed = FALSE
    /\ shared = {}

(***************************************************************************)
(* The client.                                                             *)
(***************************************************************************)
Open(s) == rpc[s] \notin {"unopened", "done"}
OpenStreams == {s \in Streams : Open(s)}

\* A client connects, and the thread that serves it claims stream_.
ClientOpens(s) ==
    /\ rpc[s] = "unopened"
    /\ \A t \in 1..(s - 1) : rpc[t] # "unopened"
    /\ client' = [client EXCEPT ![s] = "writing"]
    /\ rpc' = [rpc EXCEPT ![s] = "read"]
    /\ stream_' = s
    /\ shared' = IF OpenStreams = {} THEN shared ELSE shared \union OpenStreams \union {s}
    /\ UNCHANGED <<inbox, sent, outbox, request, status, jobs, accepted_lock_, busy_lock_, future_,
                   awaited, crashed>>

ClientWrites(s, kind) ==
    /\ client[s] = "writing"
    /\ sent[s] < MaxRequests
    /\ Cardinality({w \in Streams \X (1..MaxRequests) : w[2] <= sent[w[1]]}) < MaxTotal
    /\ sent' = [sent EXCEPT ![s] = @ + 1]
    /\ inbox' = [inbox EXCEPT ![s] = Append(@, [kind |-> kind, after |-> Known(s)])]
    /\ UNCHANGED <<client, outbox, rpc, request, status, jobs,
                   accepted_lock_, busy_lock_, stream_, future_, endVars>>

ClientWritesDone(s) ==
    /\ client[s] = "writing"
    /\ client' = [client EXCEPT ![s] = "halfclosed"]
    /\ UNCHANGED <<inbox, sent, outbox, rpc, request, status, jobs,
                   accepted_lock_, busy_lock_, stream_, future_, endVars>>

\* The client goes away; what it wrote may still be read, nothing reaches it any more.
ClientBreaks(s) ==
    /\ client[s] \in {"writing", "halfclosed"}
    /\ rpc[s] # "done"
    /\ client' = [client EXCEPT ![s] = "gone"]
    /\ UNCHANGED <<inbox, sent, outbox, rpc, request, status, jobs,
                   accepted_lock_, busy_lock_, stream_, future_, endVars>>

(***************************************************************************)
(* ExecutionStream(), the thread that serves a stream.                     *)
(***************************************************************************)
Finishing(s, verdict) ==
    /\ rpc' = [rpc EXCEPT ![s] = "finishing"]
    /\ status' = [status EXCEPT ![s] = verdict]

\* A start request: tryLock() on the busy lock tells whether a benchmark is active.
ReadsStart(s) ==
    /\ rpc[s] = "read"
    /\ inbox[s] # <<>>
    /\ Head(inbox[s]).kind = "start"
    /\ request' = [request EXCEPT ![s] = Head(inbox[s])]
    /\ inbox' = [inbox EXCEPT ![s] = Tail(@)]
    /\ \/ /\ busy_lock_ = Nobody
          /\ busy_lock_' = Server(s)
          /\ rpc' = [rpc EXCEPT ![s] = "probed"]
          /\ UNCHANGED status
       \/ /\ busy_lock_ # Nobody
          /\ Finishing(s, "busy")
          /\ UNCHANGED busy_lock_
    /\ UNCHANGED <<client, sent, outbox, jobs, accepted_lock_, stream_, future_, endVars>>

\* An update or a cancellation: not supported yet.
ReadsOther(s) ==
    /\ rpc[s] = "read"
    /\ inbox[s] # <<>>
    /\ Head(inbox[s]).kind = "other"
    /\ request' = [request EXCEPT ![s] = Head(inbox[s])]
    /\ inbox' = [inbox EXCEPT ![s] = Tail(@)]
    /\ Finishing(s, "unsupported")
    /\ UNCHANGED <<client, sent, outbox, jobs, accepted_lock_, busy_lock_, stream_, future_, endVars>>

\* Read() fails: the client is done writing, or is gone.
ReadsEnd(s) ==
    /\ rpc[s] = "read"
    /\ \/ inbox[s] = <<>> /\ client[s] = "halfclosed"
       \/ client[s] = "gone"
    /\ Finishing(s, "ok")
    /\ UNCHANGED <<client, inbox, sent, outbox, request, jobs,
                   accepted_lock_, busy_lock_, stream_, future_, endVars>>

Unlocks(s) ==
    /\ rpc[s] = "probed"
    /\ busy_lock_' = Nobody
    /\ rpc' = [rpc EXCEPT ![s] = "accept"]
    /\ UNCHANGED <<client, inbox, sent, outbox, request, status, jobs,
                   accepted_lock_, stream_, future_, endVars>>

\* std::async starts the handler right away.
Launches(s) ==
    /\ rpc[s] = "accept"
    /\ accepted_lock_ = Nobody
    /\ accepted_lock_' = Server(s)
    /\ jobs' = Append(jobs, [owner |-> s, step |-> "accept", reply |-> "none"])
    /\ rpc' = [rpc EXCEPT ![s] = "assign"]
    /\ UNCHANGED <<client, inbox, sent, outbox, request, status, busy_lock_, stream_, future_,
                   endVars>>

\* A future of std::async that is not ready blocks whoever destroys or overwrites it.
Settled(f) == \A j \in DOMAIN jobs : j = f => jobs[j].step = "done"

\* Mutation: the thread of an earlier request is not waited for.
Waits_DoesNotBlock(s) ==
    /\ rpc[s] = "assign"
    /\ future_' = Len(jobs)
    /\ accepted_lock_' = Nobody
    /\ rpc' = [rpc EXCEPT ![s] = "waiting"]
    /\ UNCHANGED <<client, inbox, sent, outbox, request, status, jobs, busy_lock_, stream_, endVars>>

\* future_ = ..., then accepted_event_.wait(), which gives accepted_lock_ up.
Waits(s) ==
    /\ rpc[s] = "assign"
    /\ Settled(future_)
    /\ future_' = Len(jobs)
    /\ accepted_lock_' = Nobody
    /\ rpc' = [rpc EXCEPT ![s] = "waiting"]
    /\ UNCHANGED <<client, inbox, sent, outbox, request, status, jobs, busy_lock_, stream_, endVars>>

\* Woken up, wait() takes accepted_lock_ again, and the guard gives it up.
Wakes(s) ==
    /\ rpc[s] = "woken"
    /\ accepted_lock_ = Nobody
    /\ rpc' = [rpc EXCEPT ![s] = "read"]
    /\ UNCHANGED <<client, inbox, sent, outbox, request, status, jobs,
                   accepted_lock_, busy_lock_, stream_, future_, endVars>>

\* finishGrpcStream() waits for the handler that future_ stands for by now, if any ...
AwaitsFuture(s) ==
    /\ rpc[s] = "finishing"
    /\ awaited' = [awaited EXCEPT ![s] = future_]
    /\ rpc' = [rpc EXCEPT ![s] = "awaiting"]
    /\ UNCHANGED <<client, inbox, sent, outbox, request, status, jobs,
                   accepted_lock_, busy_lock_, stream_, future_, crashed, shared>>

\* Mutation: the stream is finished without waiting for the execution under way.
finishGrpcStream_DoesNotWait(s) ==
    /\ rpc[s] = "awaiting"
    /\ stream_' = 0
    /\ rpc' = [rpc EXCEPT ![s] = "done"]
    /\ UNCHANGED <<client, inbox, sent, outbox, request, status, jobs,
                   accepted_lock_, busy_lock_, future_, endVars>>

\* ... and takes stream_ away, whichever stream it stands for.
finishGrpcStream(s) ==
    /\ rpc[s] = "awaiting"
    /\ Settled(awaited[s])
    /\ stream_' = 0
    /\ rpc' = [rpc EXCEPT ![s] = "done"]
    /\ UNCHANGED <<client, inbox, sent, outbox, request, status, jobs,
                   accepted_lock_, busy_lock_, future_, endVars>>

(***************************************************************************)
(* handleExecutionRequest(), the thread of an accepted request.            *)
(***************************************************************************)
Step(j, from, to) ==
    /\ jobs[j].step = from
    /\ jobs' = [jobs EXCEPT ![j].step = to]

\* Mutation: the handler does not make sure that the stream's thread is waiting.
TakesAcceptedLock_NotTaken(j) ==
    /\ Step(j, "accept", "lock")
    /\ UNCHANGED <<client, inbox, sent, outbox, rpc, request, status, accepted_lock_, busy_lock_,
                   stream_, future_, endVars>>

TakesAcceptedLock(j) ==
    /\ Step(j, "accept", "lock")
    /\ accepted_lock_ = Nobody
    /\ accepted_lock_' = Job(j)
    /\ UNCHANGED <<client, inbox, sent, outbox, rpc, request, status, busy_lock_, stream_, future_,
                   endVars>>

\* notifyOne() wakes one of the waiting threads, and is lost when there is none.
notifyOne ==
    \/ \E s \in Streams : rpc[s] = "waiting" /\ rpc' = [rpc EXCEPT ![s] = "woken"]
    \/ /\ \A s \in Streams : rpc[s] # "waiting"
       /\ UNCHANGED rpc

\* Takes the busy lock, tells the waiting thread, and gives accepted_lock_ up.
TakesBusyLock(j) ==
    /\ Step(j, "lock", "create")
    /\ busy_lock_ = Nobody
    /\ busy_lock_' = Job(j)
    /\ notifyOne
    /\ accepted_lock_' = Nobody
    /\ UNCHANGED <<client, inbox, sent, outbox, request, status, stream_, future_, endVars>>

\* The options are malformed, or the process cannot be created.
CreateFails(j) ==
    /\ jobs[j].step = "create"
    /\ jobs' = [jobs EXCEPT ![j].step = "replyLocked", ![j].reply = "invalid"]
    /\ UNCHANGED <<client, inbox, sent, outbox, rpc, request, status,
                   accepted_lock_, busy_lock_, stream_, future_, endVars>>

\* The benchmark runs to its end, well or not, and the process is shut down.
Runs(j, reply) ==
    /\ jobs[j].step = "create"
    /\ jobs' = [jobs EXCEPT ![j].step = "release", ![j].reply = reply]
    /\ UNCHANGED <<client, inbox, sent, outbox, rpc, request, status,
                   accepted_lock_, busy_lock_, stream_, future_, endVars>>

\* Mutation: the answer is written first and the busy lock released after it.
Releases_AfterAnswer(j) ==
    /\ Step(j, "release", "replyLocked")
    /\ UNCHANGED <<client, inbox, sent, outbox, rpc, request, status,
                   accepted_lock_, busy_lock_, stream_, future_, endVars>>

Releases(j) ==
    /\ Step(j, "release", "reply")
    /\ busy_lock_' = Nobody
    /\ UNCHANGED <<client, inbox, sent, outbox, rpc, request, status,
                   accepted_lock_, stream_, future_, endVars>>

\* The reply goes to whatever stream_ points at by now; a client that is gone does not get it.
writeResponse(reply) ==
    outbox' = IF client[stream_] # "gone"
              THEN [outbox EXCEPT ![stream_] = Append(@, reply)]
              ELSE outbox

Answers(j) ==
    /\ stream_ # 0
    /\ \/ Step(j, "reply", "done")
       \/ Step(j, "replyLocked", "unlock")
    /\ writeResponse(jobs[j].reply)
    /\ UNCHANGED <<client, inbox, sent, rpc, request, status,
                   accepted_lock_, busy_lock_, stream_, future_, endVars>>

\* A stream that finished meanwhile has taken stream_ away: the process dies.
WritesThroughNull(j) ==
    /\ jobs[j].step \in {"reply", "replyLocked"}
    /\ stream_ = 0
    /\ crashed' = TRUE
    /\ UNCHANGED <<client, inbox, sent, outbox, rpc, request, status, jobs,
                   accepted_lock_, busy_lock_, stream_, future_, awaited, shared>>

\* The early returns hold the busy lock until the function is left.
Leaves(j) ==
    /\ Step(j, "unlock", "done")
    /\ busy_lock_' = Nobody
    /\ UNCHANGED <<client, inbox, sent, outbox, rpc, request, status,
                   accepted_lock_, stream_, future_, endVars>>

ServerStep(s) ==
    \/ ReadsStart(s) \/ ReadsOther(s) \/ ReadsEnd(s)
    \/ Unlocks(s) \/ Launches(s) \/ Waits(s) \/ Wakes(s)
    \/ AwaitsFuture(s) \/ finishGrpcStream(s)

JobStep(j) ==
    \/ TakesAcceptedLock(j) \/ TakesBusyLock(j)
    \/ CreateFails(j) \/ Runs(j, "output") \/ Runs(j, "failed")
    \/ Releases(j) \/ Answers(j) \/ WritesThroughNull(j) \/ Leaves(j)

Next ==
    /\ ~crashed
    /\ \/ \E s \in Streams : ClientOpens(s) \/ ClientWritesDone(s) \/ ClientBreaks(s)
       \/ \E s \in Streams, kind \in {"start", "other"} : ClientWrites(s, kind)
       \/ \E s \in Streams : ServerStep(s)
       \/ \E j \in DOMAIN jobs : JobStep(j)

Spec == Init /\ [][Next]_vars

\* Every thread goes on; a benchmark comes to its end (see Process).
FairSpec ==
    /\ Spec
    /\ \A s \in Streams : WF_vars(~crashed /\ ServerStep(s))
    /\ \A j \in 1..MaxTotal :
           WF_vars(~crashed /\ j \in DOMAIN jobs /\ JobStep(j))

(***************************************************************************)
(* The client that source/common/nighthawk_service_client_impl.cc is: one  *)
(* start request, WritesDone(), read everything, Finish().                 *)
(***************************************************************************)
OneShot(s) == /\ client[s] = "halfclosed" /\ sent[s] = 1
              /\ request[s].kind = "start" /\ rpc[s] = "done"

PerformNighthawkBenchmark(s) ==
    CASE Len(outbox[s]) > 1 -> "RELEASE_ASSERT"
      [] outbox[s] = <<>> -> "no response"
      [] Len(outbox[s]) = 1 /\ status[s] # "ok" -> "bad status"
      [] OTHER -> outbox[s][1]

\* RemoteProcessImpl::run() looks at the status of the call only.
RemoteRunSucceeds(s) == PerformNighthawkBenchmark(s) \in Replies

(***************************************************************************)
(* Properties.                                                             *)
(***************************************************************************)
\* The steps between the moment a handler holds the busy lock and its answer is out.
Active(j) == jobs[j].step \in {"create", "release", "reply", "replyLocked"}

\* The stream the active handler was asked on, 0 without one; the handlers that have
\* answered a request of a stream; the streams with their final status.
Executing ==
    IF \E j \in DOMAIN jobs : Active(j)
    THEN jobs[CHOOSE j \in DOMAIN jobs : Active(j)].owner ELSE 0
Answered(s) == {j \in DOMAIN jobs : jobs[j].owner = s /\ jobs[j].step \in {"unlock", "done"}}
Closed == {s \in Streams : rpc[s] = "done"}

Session == INSTANCE BenchmarkSession WITH
    executing <- Executing,
    answers <- [s \in Streams |-> Answered(s)],
    closed <- Closed

\* However many streams are open at a time, the service keeps the promise of
\* BenchmarkSession: the threads that std::async starts execute one at a time, each puts its
\* answer out before the next one executes, and finishGrpcStream() closes no stream with an
\* execution of its own unanswered (accepted_lock_, busy_lock_ and the blocking assignment
\* to future_ taken together).  It does not say on which stream the answer comes out.
ImplementsSession == Session!Spec

\* The properties below are about a stream that had the service to itself.  The others
\* share stream_ and accepted_lock_ with it: their answers may come out on another stream or
\* kill the process, and their threads may wait for each other for ever.

\* A client that waits for its results before it asks for the next benchmark is never
\* turned away as busy: the busy lock is released before the results are written
\* (service_impl.cc:75-79).
NeverDeclinesFollowUp ==
    \A s \in Streams \ shared :
        status[s] = "busy" => request[s].after \notin {"nothing", "output", "failed"}

\* While no other stream is open, PerformNighthawkBenchmark() gets exactly one answer to its
\* one request, also when streams before it overlapped: it neither trips its RELEASE_ASSERT
\* nor reports that the service did not answer.
OneShotIsAnswered ==
    \A s \in Streams \ shared : OneShot(s) => PerformNighthawkBenchmark(s) \in Replies

\* Once its client is done writing, or gone, a stream is served to its end, unless another
\* one is opened before that: no thread waits for ever on accepted_lock_, the busy lock,
\* the event or the future.
StreamEnds ==
    \A s \in Streams :
        client[s] \in {"halfclosed", "gone"} /\ s \notin shared ~> rpc[s] = "done" \/ s \in shared
=============================================================================
