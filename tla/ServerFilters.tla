--------------------------- MODULE ServerFilters ---------------------------
(***************************************************************************)
(* The test server: the dynamic-delay, time-tracking and test-server       *)
(* filters, in this order, on requests that worker threads handle          *)
(* concurrently.  The filters of all requests share the count of live      *)
(* dynamic-delay filters, an atomic, and the stopwatch of time-tracking,   *)
(* which has a lock.  The fault filter that delays, and the filter after   *)
(* test-server, are Envoy's.                                               *)
(***************************************************************************)
EXTENDS Integers, Sequences, FiniteSets

CONSTANTS
    Requests,
    Configs,     \* what a request may bring in the header x-nighthawk-test-server-config
    Startup,     \* the configuration the server was started with
    MaxTime,     \* bound on the clock
    UInt64       \* how many values a uint64_t has

ASSUME ServerAssumption ==
    IsFiniteSet(Requests) /\ MaxTime \in Nat \ {0} /\ UInt64 \in Nat /\ MaxTime < UInt64

NoTime == 0      \* MonotonicTime::min()

VARIABLES
    now,
    instances,   \* of HttpDynamicDelayDecoderFilter
    start_,      \* of the stopwatch
    lock_,       \* of the stopwatch: the request whose worker holds it, if any
    request      \* per request, its stream

vars == <<now, instances, start_, lock_, request>>

Idle == [pc |-> "idle"]
Init ==
    /\ now = 1
    /\ instances = 0
    /\ start_ = NoTime
    /\ lock_ = {}
    /\ request = [r \in Requests |-> Idle]

To(r, next) == request' = [request EXCEPT ![r] = next]
Live(r) == request[r].pc \notin {"idle", "destroyed"}
Starting == {"constructed", "locked", "timed"}

(***************************************************************************)
(* The effective configuration of a request, in each filter.  A config is  *)
(* [copies, parses, valid, options]: the number of headers, whether the    *)
(* value is JSON for ResponseOptions, whether the merged result passes     *)
(* validation, and the fields that the JSON has.                           *)
(***************************************************************************)
\* dynamic-delay and time-tracking pick single fields and do not validate the rest.
CherryPicks(c) == c.copies = 0 \/ (c.copies = 1 /\ c.parses)

\* test-server merges all of it, and validates the result.
mergeJsonConfig(c) == c.copies = 0 \/ (c.copies = 1 /\ c.parses /\ c.valid)

Brings(c, field) == c.copies = 1 /\ field \in DOMAIN c.options

\* Mutation: the startup configuration wins.
MergeFrom_StartupFirst(c, field, default) ==
    IF Startup[field] # default \/ ~Brings(c, field) THEN Startup[field] ELSE c.options[field]

\* A scalar that the request brings replaces the one of the startup configuration, unless it
\* is the field's default: proto3 does not tell that from a field that is not there.
\* (time-tracking, too, replaces only by a header name that is not empty.)
MergeFrom(c, field, default) ==
    IF Brings(c, field) /\ c.options[field] # default THEN c.options[field] ELSE Startup[field]

\* MergeFrom() appends lists: the kinds of response headers in the merged configuration.
HeaderKinds(c) ==
    Startup["headers"] \union (IF Brings(c, "headers") THEN c.options["headers"] ELSE {})

\* validateResponseOptions() dies of both kinds, which validation lets pass.
validateResponseOptions(c) == HeaderKinds(c) # {"v2", "v3"}

\* A delay of the request replaces a delay of the startup configuration of either kind, also
\* by none.  (computeDelayMs; milliseconds.)
computeDelayMs(c, concurrency) ==
    LET delay == IF Brings(c, "delay") THEN c.options["delay"] ELSE Startup["delay"]
    IN IF delay.kind = "static" THEN delay.ms
       ELSE IF delay.kind = "linear" THEN delay.minimal + concurrency * delay.factor
       ELSE 0

(***************************************************************************)
(* The life of a stream.                                                   *)
(***************************************************************************)
\* The filters are constructed.
Constructs(r, c, body) ==
    /\ request[r] = Idle
    /\ instances' = instances + 1
    /\ To(r, [pc |-> "constructed", config |-> c, body |-> body, delay |-> 0, tracked |-> FALSE,
              at |-> 0, delta |-> 0, replies |-> <<>>])
    /\ UNCHANGED <<now, start_, lock_>>

\* Mutation: the lock is taken after the time has been read.
LocksStopwatch_Later(r) ==
    /\ request[r].pc = "constructed"
    /\ To(r, [request[r] EXCEPT !.pc = "locked"])
    /\ UNCHANGED <<now, instances, start_, lock_>>

\* setDecoderFilterCallbacks of time-tracking asks the stopwatch, getElapsedNsAndReset():
\* take the lock, ...
LocksStopwatch(r) ==
    /\ request[r].pc = "constructed"
    /\ lock_ = {}
    /\ lock_' = {r}
    /\ To(r, [request[r] EXCEPT !.pc = "locked"])
    /\ UNCHANGED <<now, instances, start_>>

\* ... read the time, ...
ReadsTime(r) ==
    /\ request[r].pc = "locked"
    /\ To(r, [request[r] EXCEPT !.pc = "timed", !.at = now])
    /\ UNCHANGED <<now, instances, start_, lock_>>

\* ... and take the time since start_, as a uint64_t, and put the new time there.
ResetsStopwatch(r) ==
    /\ request[r].pc = "timed"
    /\ LET new_time == request[r].at
           elapsed_ns == IF start_ = NoTime THEN 0 ELSE (new_time - start_) % UInt64
       IN /\ start_' = new_time
          /\ To(r, [request[r] EXCEPT !.pc = "created", !.delta = elapsed_ns])
    /\ lock_' = {}
    /\ UNCHANGED <<now, instances>>

\* The reply, with what encodeHeaders of time-tracking adds on the way out.  The request
\* headers are echoed only where test-server saw the end of the request with them.
WithDelta(q, code) ==
    [code |-> code,
     echo |-> /\ code = 200 /\ q.body = "none"
              /\ MergeFrom(q.config, "echo_request_headers", FALSE),
     size |-> IF code = 200 THEN MergeFrom(q.config, "response_body_size", 0) ELSE 0,
     delta |-> IF /\ q.tracked /\ CherryPicks(q.config)
                  /\ MergeFrom(q.config, "emit", FALSE) /\ q.delta > 0
               THEN q.delta ELSE 0]

\* A local reply ends the request.
Reply(q, code) == [q EXCEPT !.pc = "replied", !.replies = Append(@, WithDelta(q, code))]

\* The reply of test-server; the headers it adds are checked while it is put together.
sendReply(q) ==
    IF validateResponseOptions(q.config) THEN Reply(q, 200) ELSE [q EXCEPT !.pc = "aborted"]

\* test-server has seen the end of the request: validateOrSendError, then sendReply.
Answers(q) == IF mergeJsonConfig(q.config) THEN sendReply(q) ELSE Reply(q, 500)

\* decodeHeaders of time-tracking and test-server; they wait for the end of the request.
AfterDelay(q) ==
    LET t == [q EXCEPT !.tracked = TRUE]
    IN IF q.body # "none" THEN [t EXCEPT !.pc = "receiving"]
       ELSE IF CherryPicks(q.config) THEN Answers(t)
       ELSE Reply(t, 500)

\* decodeHeaders of dynamic-delay, with the count of filters at this moment.
DecodesHeaders(r) ==
    /\ request[r].pc = "created"
    /\ LET q == request[r]
           delay == computeDelayMs(q.config, instances)
       IN To(r, IF ~CherryPicks(q.config)
                THEN IF q.body = "none" THEN Reply(q, 500) ELSE AfterDelay(q)
                ELSE IF delay > 0 THEN [q EXCEPT !.pc = "delayed", !.delay = delay]
                ELSE AfterDelay(q))
    /\ UNCHANGED <<now, instances, start_, lock_>>

DelayEnds(r) ==
    /\ request[r].pc = "delayed"
    /\ To(r, AfterDelay(request[r]))
    /\ UNCHANGED <<now, instances, start_, lock_>>

\* The last data arrives: the first filter that objects replies, or test-server does.  With
\* trailers the filters never see the end of the data, and the next filter answers.
DecodesEnd(r) ==
    /\ request[r].pc = "receiving"
    /\ LET q == request[r]
       IN To(r, IF q.body = "trailers" THEN [q EXCEPT !.pc = "passed on"]
                ELSE IF CherryPicks(q.config) THEN Answers(q)
                ELSE Reply(q, 500))
    /\ UNCHANGED <<now, instances, start_, lock_>>

NextFilterReplies(r) ==
    /\ request[r].pc = "passed on"
    /\ To(r, Reply(request[r], 404))
    /\ UNCHANGED <<now, instances, start_, lock_>>

\* Mutation: a stream that is reset while delayed keeps its place in the count.
onDestroy_NotWhenDelayed(r) ==
    /\ Live(r) /\ request[r].pc \notin Starting
    /\ instances' = IF request[r].pc = "delayed" THEN instances ELSE instances - 1
    /\ To(r, [request[r] EXCEPT !.pc = "destroyed"])
    /\ UNCHANGED <<now, start_, lock_>>

\* The stream ends, after its reply or because the client reset it.
onDestroy(r) ==
    /\ Live(r) /\ request[r].pc \notin Starting
    /\ instances' = instances - 1
    /\ To(r, [request[r] EXCEPT !.pc = "destroyed"])
    /\ UNCHANGED <<now, start_, lock_>>

Tick == now < MaxTime /\ now' = now + 1 /\ UNCHANGED <<instances, start_, lock_, request>>

\* The RELEASE_ASSERT of validateResponseOptions() takes the server down.
Down == \E r \in Requests : request[r].pc = "aborted"

Next ==
    /\ ~Down
    /\ \/ \E r \in Requests :
              \/ \E c \in Configs, body \in {"none", "data", "trailers"} : Constructs(r, c, body)
              \/ LocksStopwatch(r) \/ ReadsTime(r) \/ ResetsStopwatch(r)
              \/ DecodesHeaders(r) \/ DelayEnds(r) \/ DecodesEnd(r) \/ NextFilterReplies(r)
              \/ onDestroy(r)
       \/ Tick

Spec == Init /\ [][Next]_vars

(***************************************************************************)
(* Properties.                                                             *)
(***************************************************************************)
Created == {r \in Requests : request[r].pc # "idle"}
LiveStreams == {r \in Requests : Live(r)}

\* A delay is the one of the configuration at a number of requests there can be.
DelayedByLoad(q) ==
    q.delay > 0 => \E n \in 1..Cardinality(Requests) : q.delay = computeDelayMs(q.config, n)

\* The delay of a request follows the number of requests being served: the count is that of
\* the live streams, whichever way they ended (incrementFilterInstanceCount, onDestroy), so a
\* linear delay is one for at least the request itself and at most all of them.
DelayFollowsLoad ==
    /\ instances = Cardinality(LiveStreams)
    /\ \A r \in Created : DelayedByLoad(request[r])

Measured == {r \in Requests : request[r].pc \notin Starting \union {"idle"}}
Reported == {r \in Measured : request[r].replies # <<>> /\ Head(request[r].replies).delta > 0}

\* Every delta that a reply reports is the time between the creation of its stream and of the
\* one before it, whatever worker that was on and however it ended, and no two replies report
\* the same one: a delta is never negative (it would wrap), the reported ones do not overlap,
\* and so they add up to no more than the time that passed
\* (ThreadSafeMontonicTimeStopwatch::getElapsedNsAndReset, encodeHeaders).
ReportedDeltasAreGaps ==
    \A r \in Reported :
        /\ \E s \in Measured :
               /\ request[s].at + Head(request[r].replies).delta = request[r].at
               /\ \A t \in Measured :
                      request[t].at <= request[s].at \/ request[t].at >= request[r].at
        /\ \A t \in Reported \ {r} : request[t].at # request[r].at

\* A stream has one reply at most, and that one is for its own configuration.
AnsweredOnce(replies, c, body) ==
    replies # <<>> =>
        /\ Len(replies) = 1
        /\ LET reply == Head(replies)
               asks == c.copies = 1 /\ "response_body_size" \in DOMAIN c.options
           IN /\ reply.code = 200 => mergeJsonConfig(c) /\ body # "trailers"
              /\ reply.code = 200 /\ asks =>
                     \/ reply.size = c.options["response_body_size"]
                     \/ c.options["response_body_size"] = 0
              /\ reply.code = 200 /\ (asks => c.options["response_body_size"] = 0) =>
                     reply.size = Startup["response_body_size"]
              /\ reply.code = 500 => ~mergeJsonConfig(c)

\* No request is answered twice, or by the configuration of another: it gets the body size
\* it asks for, or that of the server when it asks for none or for 0, and an error just when
\* its own configuration is refused.  The server goes down only over a request whose
\* configuration was accepted and makes for response headers of both kinds
\* (validateOrSendError, sendReply, computeEffectiveConfiguration, validateResponseOptions).
AnsweredByItsOwnConfig ==
    \A r \in Created :
        LET q == request[r]
        IN /\ AnsweredOnce(q.replies, q.config, q.body)
           /\ q.pc = "aborted" =>
                  /\ q.replies = <<>> /\ mergeJsonConfig(q.config)
                  /\ {"v2", "v3"} \subseteq HeaderKinds(q.config)
=============================================================================
