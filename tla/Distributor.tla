----------------------------- MODULE Distributor -----------------------------
(***************************************************************************)
(* The distributor service: it runs one benchmark on each of the services  *)
(* a request names, one after the other, and answers with all they said.   *)
(* A client is NighthawkDistributorClientImpl::DistributedRequest: one     *)
(* request per stream.                                                     *)
(***************************************************************************)
EXTENDS Naturals, Sequences

CONSTANTS
    Clients,
    Services,        \* per client, the services its request names
    Responses(_, _), \* the ExecutionResponses a service may give to a client
    NoResponse       \* the ExecutionResponse of an entry that has an error instead

VARIABLE session     \* per client, its stream with the distributor

Init == session = [c \in Clients |-> [pc |-> "none"]]

To(c, next) == session' = [session EXCEPT ![c] = next]

\* DistributedRequestStream reads the request; validateRequest may refuse it, which ends
\* the stream without a reply: the client then reports a missing response.
RequestArrives(c, valid) ==
    /\ session[c].pc = "none"
    /\ To(c, IF valid /\ Services[c] # <<>>
             THEN [pc |-> "running", reply |-> <<>>, has_errors |-> FALSE]
             ELSE [pc |-> "done", status |-> "internal"])

Next_(c) == Len(session[c].reply) + 1

\* Mutation: a failure does not count as one.
CallsService_ErrorNotCounted(c, s) ==
    /\ session[c].pc = "running" /\ Next_(c) <= Len(Services[c])
    /\ s = Services[c][Next_(c)]
    /\ \E r \in Responses(s, c) \union {NoResponse} :
           To(c, [session[c] EXCEPT !.reply = Append(@, [service |-> s, response |-> r])])

\* One round of handleRequest's loop: handleExecutionRequest runs the benchmark through
\* PerformNighthawkBenchmark, which may fail; the loop goes on either way.
CallsService(c, s) ==
    /\ session[c].pc = "running" /\ Next_(c) <= Len(Services[c])
    /\ s = Services[c][Next_(c)]
    /\ \/ \E r \in Responses(s, c) :
              To(c, [session[c] EXCEPT !.reply = Append(@, [service |-> s, response |-> r])])
       \/ To(c, [session[c] EXCEPT !.reply = Append(@, [service |-> s, response |-> NoResponse]),
                                   !.has_errors = TRUE])

\* The reply is written and the stream finished with the status; the client drops the
\* reply unless the status is OK.
Replies(c) ==
    /\ session[c].pc = "running" /\ Next_(c) > Len(Services[c])
    /\ \/ To(c, IF session[c].has_errors
                THEN [pc |-> "done", status |-> "internal"]
                ELSE [pc |-> "done", status |-> "ok", reply |-> session[c].reply])
       \/ To(c, [pc |-> "done", status |-> "internal"])   \* the write failed
=============================================================================
