--------------------------- MODULE RequestSource ---------------------------
(***************************************************************************)
(* Where a worker's requests come from: the source that                    *)
(* RequestSourceFactoryImpl::create chooses, and for a remote source the   *)
(* gRPC stream client, the stream, and the service at its other end        *)
(* (RequestSourceServiceImpl, or one like it).  The worker's event loop    *)
(* runs the stream's callbacks; the benchmark client calls the generator.  *)
(*                                                                         *)
(* A header map is a function from header names to values.                 *)
(***************************************************************************)
EXTENDS Naturals, Sequences, TLC

CONSTANTS
    Sources,        \* the kinds of source explored, of {"remote", "list", "llm", "static"}
    Uri,            \* whether the target is a URI, or else a multi-target path
    OptionHeaders,  \* headers given on the command line
    BodySize,       \* request body size given on the command line, 0 for none
    Buffer,         \* header_buffer_length_, the requests per second
    Specifiers,     \* what a remote service may send: headers, v2 headers, single fields
    OptionsList,    \* the entries of the options list: method, body size, JSON body, headers
    NumRequests,    \* num_requests of the options list, 0 for no limit
    SetupTimeout,   \* the time allowed for setting up the stream
    MaxMessages,    \* bound on the requests yielded or sent
    Width           \* unsigned integers are taken modulo this

ASSUME SourceAssumption ==
    /\ Buffer \in Nat \ {0}
    /\ BodySize \in Nat /\ NumRequests \in Nat
    /\ SetupTimeout \in Nat /\ MaxMessages \in Nat
    /\ Width \in Nat /\ Width > 2 * Buffer + MaxMessages
    /\ Len(OptionsList) \in Nat

VARIABLES
    source,          \* the kind of this source
    phase,           \* "created", "setup" (stream being established), "ready", "destroyed"
    elapsed,         \* time since the setup began
    stream_,         \* whether the client has a stream
    in_flight_headers_, total_messages_received_,
    messages_,       \* the client's queue of specifiers
    uplink,          \* quantities asked for, on their way to the service
    downlink,        \* specifiers on their way to the client
    serving,         \* whether the service's end of the stream is open
    yields_left_,    \* <<n>>, n left of the batch the service is sending; <<>> between batches
    lambda_counter,  \* requests the options list has yielded
    specified,       \* (history) the specifiers the service sent
    yielded          \* (history) the headers of the requests handed to the benchmark client

remote == <<stream_, in_flight_headers_, total_messages_received_, messages_>>
service == <<downlink, serving, yields_left_, specified>>
sourceVars == <<source, phase, elapsed, remote, uplink, service, lambda_counter, yielded>>

NoHeaders == [h \in {} |-> ""]

\* remove() followed by addCopy(), or setCopy(), of each header of f on a map g.
Override(f, g) ==
    [h \in DOMAIN f \cup DOMAIN g |-> IF h \in DOMAIN f THEN f[h] ELSE g[h]]

\* RequestSourceFactoryImpl::create: headers of the command line come last and override.
BaseHeader ==
    OptionHeaders
    @@ (IF BodySize > 0 THEN "content-length" :> "option" ELSE NoHeaders)
    @@ (":method" :> "option")
    @@ (IF Uri THEN (":path" :> "uri") @@ (":authority" :> "uri") @@ (":scheme" :> "uri")
        ELSE (":path" :> "multi") @@ (":authority" :> "unsupported") @@ (":scheme" :> "multi"))

\* Mutation: headers that are set already are kept.
messageToRequest_KeepsBase(m) ==
    Override(m.fields, Override(BaseHeader, IF m.v3 # NoHeaders THEN m.v3 ELSE m.v2))

\* ProtoRequestHelper::messageToRequest: single fields over listed headers over the base;
\* the deprecated list counts only when there is no v3 list.
messageToRequest(m) ==
    Override(m.fields, Override(IF m.v3 # NoHeaders THEN m.v3 ELSE m.v2, BaseHeader))

SourceInit ==
    /\ source \in Sources
    /\ phase = "created"
    /\ elapsed = 0
    /\ stream_ = FALSE
    /\ in_flight_headers_ = 0 /\ total_messages_received_ = 0
    /\ messages_ = <<>>
    /\ uplink = <<>> /\ downlink = <<>>
    /\ serving = TRUE
    /\ yields_left_ = <<>>
    /\ lambda_counter = 0
    /\ specified = <<>> /\ yielded = <<>>

\* x-- on an unsigned integer.
Decrement(n) == IF n = 0 THEN Width - 1 ELSE n - 1

(***************************************************************************)
(* The stream client.                                                      *)
(***************************************************************************)
trySendRequest(connected) ==
    IF connected
    THEN /\ uplink' = Append(uplink, Buffer)
         /\ in_flight_headers_' = Buffer
    ELSE UNCHANGED <<uplink, in_flight_headers_>>

\* initOnThread(): only a remote source has anything to do.
initOnThread ==
    /\ phase = "created"
    /\ \/ /\ source = "remote"
          /\ phase' = "setup"
          /\ stream_' \in BOOLEAN
          /\ trySendRequest(stream_')
       \/ /\ source # "remote"
          /\ phase' = "ready"
          /\ UNCHANGED <<stream_, uplink, in_flight_headers_>>
    /\ UNCHANGED <<source, elapsed, total_messages_received_, messages_, service,
                   lambda_counter, yielded>>

streamStatusKnown == ~stream_ \/ total_messages_received_ > 0

\* One round of the loop that waits for the setup.
SetupRound ==
    /\ phase = "setup"
    /\ elapsed' \in {elapsed, elapsed + 1}
    /\ phase' = IF streamStatusKnown \/ elapsed' > SetupTimeout THEN "ready" ELSE "setup"
    /\ phase' = "setup" => elapsed' > elapsed
    /\ UNCHANGED <<source, remote, uplink, service, lambda_counter, yielded>>

onReceiveMessage ==
    /\ phase \in {"setup", "ready"}
    /\ stream_
    /\ downlink # <<>>
    /\ in_flight_headers_' = Decrement(in_flight_headers_)
    /\ total_messages_received_' = (total_messages_received_ + 1) % Width
    /\ messages_' = Append(messages_, Head(downlink))
    /\ downlink' = Tail(downlink)
    /\ UNCHANGED <<source, phase, elapsed, stream_, uplink, serving, yields_left_, specified,
                   lambda_counter, yielded>>

\* The service closed the stream, or the connection broke and what was under way is lost.
onRemoteClose ==
    /\ phase \in {"setup", "ready"}
    /\ stream_
    /\ stream_' = FALSE
    /\ serving' = FALSE
    /\ downlink' = <<>> /\ uplink' = <<>>
    /\ UNCHANGED <<source, phase, elapsed, in_flight_headers_, total_messages_received_, messages_,
                   yields_left_, specified, lambda_counter, yielded>>

\* Mutation: the next batch is asked for although one is under way.
maybeDequeue_IgnoresInFlight ==
    /\ source = "remote" /\ phase = "ready"
    /\ messages_ # <<>>
    /\ Len(yielded) < MaxMessages
    /\ yielded' = Append(yielded, messageToRequest(Head(messages_)))
    /\ messages_' = Tail(messages_)
    /\ IF Len(messages_') < Buffer
       THEN trySendRequest(stream_)
       ELSE UNCHANGED <<uplink, in_flight_headers_>>
    /\ UNCHANGED <<source, phase, elapsed, stream_, total_messages_received_, service,
                   lambda_counter>>

\* Mutation: a batch is asked for only when the queue passes the mark.
maybeDequeue_OnlyAtMark ==
    /\ source = "remote" /\ phase = "ready"
    /\ messages_ # <<>>
    /\ Len(yielded) < MaxMessages
    /\ yielded' = Append(yielded, messageToRequest(Head(messages_)))
    /\ messages_' = Tail(messages_)
    /\ IF in_flight_headers_ = 0 /\ Len(messages_') = Buffer - 1
       THEN trySendRequest(stream_)
       ELSE UNCHANGED <<uplink, in_flight_headers_>>
    /\ UNCHANGED <<source, phase, elapsed, stream_, total_messages_received_, service,
                   lambda_counter>>

\* (An empty queue yields nullptr and changes nothing.)
maybeDequeue ==
    /\ source = "remote" /\ phase = "ready"
    /\ messages_ # <<>>
    /\ Len(yielded) < MaxMessages
    /\ yielded' = Append(yielded, messageToRequest(Head(messages_)))
    /\ messages_' = Tail(messages_)
    /\ IF in_flight_headers_ = 0 /\ Len(messages_') < Buffer
       THEN trySendRequest(stream_)
       ELSE UNCHANGED <<uplink, in_flight_headers_>>
    /\ UNCHANGED <<source, phase, elapsed, stream_, total_messages_received_, service,
                   lambda_counter>>

\* destroyOnThread() drops the client, its stream and its queue.
destroyOnThread ==
    /\ phase = "ready"
    /\ phase' = "destroyed"
    /\ stream_' = FALSE
    /\ messages_' = <<>>
    /\ UNCHANGED <<source, elapsed, in_flight_headers_, total_messages_received_, uplink, service,
                   lambda_counter, yielded>>

(***************************************************************************)
(* RequestSourceServiceImpl::RequestStream.                                *)
(***************************************************************************)
\* StaticRequestSourceImpl::get: "while (yields_left_--)", which also decrements a zero.
StaticYields(left) == [request |-> left # 0, left |-> Decrement(left)]

ServiceReads ==
    /\ serving
    /\ yields_left_ = <<>>
    /\ uplink # <<>>
    /\ yields_left_' = <<Head(uplink)>>
    /\ uplink' = Tail(uplink)
    /\ UNCHANGED <<source, phase, elapsed, remote, downlink, serving, specified,
                   lambda_counter, yielded>>

ServiceWrites(m) ==
    /\ serving
    /\ yields_left_ # <<>>
    /\ Len(specified) < MaxMessages
    /\ LET answer == StaticYields(Head(yields_left_))
       IN IF answer.request
          THEN /\ yields_left_' = <<answer.left>>
               /\ downlink' = Append(downlink, m)
               /\ specified' = Append(specified, m)
          ELSE /\ yields_left_' = <<>>
               /\ UNCHANGED <<downlink, specified>>
    /\ UNCHANGED <<source, phase, elapsed, remote, uplink, serving, lambda_counter, yielded>>

\* A write fails: the service finishes the stream with an error.
ServiceFails ==
    /\ serving
    /\ yields_left_ \notin {<<>>, <<0>>}
    /\ serving' = FALSE
    /\ UNCHANGED <<source, phase, elapsed, remote, uplink, downlink, yields_left_, specified,
                   lambda_counter, yielded>>

(***************************************************************************)
(* The generators that need no service.                                    *)
(***************************************************************************)
\* The request of an entry of the list; a JSON body comes before a body size.
EntryFields(entry) ==
    [h \in {":method"} \cup (IF entry.json THEN {"content-length", "content-type"}
                             ELSE IF entry.body_size > 0 THEN {"content-length"} ELSE {}) |->
        IF h = ":method" THEN entry.method ELSE IF entry.json THEN "json" ELSE "entry"]
EntryRequest(entry) == Override(entry.headers, Override(EntryFields(entry), BaseHeader))

\* OptionsListRequestSource::get; the counter stays put when the list is empty.
ListYields ==
    /\ source = "list" /\ phase = "ready"
    /\ NumRequests # 0 => lambda_counter < NumRequests
    /\ Len(yielded) < MaxMessages
    /\ IF OptionsList = <<>>
       THEN /\ yielded' = Append(yielded, BaseHeader)
            /\ UNCHANGED lambda_counter
       ELSE /\ yielded' = Append(yielded,
                   EntryRequest(OptionsList[(lambda_counter % Len(OptionsList)) + 1]))
            /\ lambda_counter' = lambda_counter + 1
    /\ UNCHANGED <<source, phase, elapsed, remote, uplink, service>>

\* The factory folds the headers of all entries of its list into the base header; every
\* request then gets method, type, length and path of its own.
LlmRequest ==
    LET fold[i \in 0..Len(OptionsList)] ==
            IF i = 0 THEN BaseHeader ELSE Override(OptionsList[i].headers, fold[i - 1])
    IN (":method" :> "POST") @@ ("content-type" :> "json") @@ ("content-length" :> "body")
       @@ (":path" :> "completions") @@ fold[Len(OptionsList)]

LlmYields ==
    /\ source = "llm" /\ phase = "ready"
    /\ Len(yielded) < MaxMessages
    /\ yielded' = Append(yielded, LlmRequest)
    /\ UNCHANGED <<source, phase, elapsed, remote, uplink, service, lambda_counter>>

StaticYieldsBase ==
    /\ source = "static" /\ phase = "ready"
    /\ Len(yielded) < MaxMessages
    /\ yielded' = Append(yielded, BaseHeader)
    /\ UNCHANGED <<source, phase, elapsed, remote, uplink, service, lambda_counter>>

ServiceStep == ServiceReads \/ (\E m \in Specifiers : ServiceWrites(m))
ClientEvent == onReceiveMessage \/ onRemoteClose

SourceNext ==
    \/ initOnThread \/ SetupRound \/ destroyOnThread
    \/ ClientEvent \/ ServiceStep \/ ServiceFails
    \/ maybeDequeue \/ ListYields \/ LlmYields \/ StaticYieldsBase

SourceSpec == SourceInit /\ [][SourceNext]_sourceVars

\* The worker's loop delivers what arrived and the service answers; nothing makes the
\* benchmark client ask, or a connection break.
FairSourceSpec ==
    /\ SourceSpec
    /\ WF_sourceVars(SetupRound) /\ WF_sourceVars(onReceiveMessage) /\ WF_sourceVars(ServiceStep)

(***************************************************************************)
(* Properties.                                                             *)
(***************************************************************************)
\* The value of header h in what a specifier asks for, from the comment of
\* messageToRequest's base_header: "Any headers in request specifiers yielded by the remote
\* request source service will override what is specified here".
Asked(m, h) ==
    CASE h \in DOMAIN m.fields -> m.fields[h]
      [] h \notin DOMAIN m.fields /\ h \in DOMAIN m.v3 -> m.v3[h]
      [] h \notin DOMAIN m.fields /\ m.v3 = NoHeaders /\ h \in DOMAIN m.v2 -> m.v2[h]
      [] OTHER -> BaseHeader[h]

\* The benchmark client gets exactly the requests specified, in order, none lost, doubled
\* or mixed with another: those the service sent (maybeDequeue, emplaceMessage), or the
\* entries of the list in turn, with their headers, and without a body what the command line
\* gave for its length, at most NumRequests of them (OptionsListRequestSource::get).
YieldsAsSpecified ==
    /\ source = "remote" =>
           \A i \in DOMAIN yielded : \A h \in DOMAIN yielded[i] :
               yielded[i][h] = Asked(specified[i], h)
    /\ source = "list" /\ OptionsList # <<>> =>
           /\ NumRequests # 0 => Len(yielded) <= NumRequests
           /\ \A i \in DOMAIN yielded :
                  LET entry == OptionsList[((i - 1) % Len(OptionsList)) + 1]
                  IN  /\ \A h \in DOMAIN entry.headers : yielded[i][h] = entry.headers[h]
                      /\ ":method" \notin DOMAIN entry.headers => yielded[i][":method"] = entry.method
                      /\ ~entry.json /\ entry.body_size = 0 =>
                            \A h \in DOMAIN BaseHeader \ ({":method"} \cup DOMAIN entry.headers) :
                                yielded[i][h] = BaseHeader[h]

\* What was asked for and has not come in: a batch the service has not begun, what it has
\* left of the one it is sending, and what is on the way.
Outstanding ==
    (IF uplink = <<>> THEN 0 ELSE Head(uplink))
    + (IF yields_left_ = <<>> THEN 0 ELSE Head(yields_left_))
    + Len(downlink)

\* The client never asks for a batch before the service has begun the last one; its count of
\* requests under way is what is really under way, never wraps, and with the queue stays
\* below two batches (trySendRequest, onReceiveMessage, maybeDequeue).
BufferBounded ==
    /\ Len(uplink) <= 1
    /\ stream_ /\ serving => in_flight_headers_ = Outstanding
    /\ Len(messages_) + in_flight_headers_ < 2 * Buffer
    /\ in_flight_headers_ <= Buffer

\* As long as the stream is up and the service answers, a queue that ran empty is filled
\* again: the test for asking for a batch (request_stream_grpc_client_impl.cc:137) never
\* leaves the client with nothing queued and nothing asked for.
NeverStarves ==
    (source = "remote" /\ phase = "ready" /\ stream_ /\ serving /\ messages_ = <<>>)
        ~> (messages_ # <<>> \/ ~stream_ \/ ~serving \/ phase = "destroyed"
            \/ Len(specified) = MaxMessages)
=============================================================================
