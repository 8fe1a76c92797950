--------------------------- MODULE DistributedTest ---------------------------
(***************************************************************************)
(* A horizontally scaled test: a tester (outside of this repository) has   *)
(* the distributor run its benchmark on several services, stores what each *)
(* of them answered in the sink under its execution id, and asks the sink  *)
(* for the whole.  Testers share the sink, and may be parts of one         *)
(* execution.                                                              *)
(***************************************************************************)
EXTENDS Naturals, Sequences, FiniteSets

CONSTANTS Testers, Services, Versions, GoodIds, Backends, LateWriteErrors,
          Executions  \* the execution ids the testers may have, as functions on Testers

Named(t) == {Services[t][i] : i \in DOMAIN Services[t]}

ASSUME ServicesAssumption == \A t \in Testers : Services[t] \in Seq(Named(t))

VARIABLES session, backend, dirs, stored, call, up,
          execution_id,
          progress  \* per tester: pieces stored so far, and its final report

Sharers(s) == {t \in Testers : s \in Named(t)}

\* What ServiceImpl answers: success; a failed predicate (error and output); an error
\* before there was any output.  When testers use a service at the same time, its one stream_
\* may take to one of them what it ran for another (ExecutionService); whether their calls
\* overlap is left open here.
Responses(s, t) ==
    {[by |-> s, error |-> e, options |-> "options", version |-> v, results |-> {<<s, u>>}] :
        e \in BOOLEAN, v \in Versions, u \in Sharers(s)}
    \union {[by |-> s, error |-> TRUE, options |-> "none", version |-> "none", results |-> {}]}

NoResponse == [by |-> "none", error |-> FALSE, options |-> "none", version |-> "none", results |-> {}]

D == INSTANCE Distributor WITH Clients <- Testers
S == INSTANCE Sink WITH Callers <- Testers

sinkVars == <<backend, dirs, stored, call, up>>
testVars == <<session, sinkVars, execution_id, progress>>

TestInit ==
    /\ D!Init /\ S!Init
    /\ execution_id \in Executions
    /\ progress = [t \in Testers |-> [stored |-> 0, report |-> "pending"]]

Report(t, r) == progress' = [progress EXCEPT ![t].report = r]

Distributes(t) ==
    /\ (\E valid \in BOOLEAN : D!RequestArrives(t, valid))
       \/ (\E s \in Named(t) : D!CallsService(t, s))
       \/ D!Replies(t)
    /\ UNCHANGED <<sinkVars, execution_id, progress>>

\* The response of the i-th service, with the execution id that ServiceImpl leaves out.
Piece(t, i) ==
    LET r == session[t].reply[i].response
    IN [id |-> execution_id[t], by |-> r.by, error |-> r.error, options |-> r.options,
        version |-> r.version, results |-> r.results]

Stores(t) ==
    /\ progress[t].report = "pending"
    /\ session[t].pc = "done" /\ session[t].status = "ok"
    /\ progress[t].stored < Len(Services[t])
    /\ S!StoreBegins(t, Piece(t, progress[t].stored + 1))
    /\ UNCHANGED <<session, execution_id, progress>>

Queries(t) ==
    /\ progress[t].report = "pending"
    /\ session[t].pc = "done" /\ session[t].status = "ok"
    /\ progress[t].stored = Len(Services[t])
    /\ S!LoadBegins(t, execution_id[t])
    /\ UNCHANGED <<session, execution_id, progress>>

\* A tester gives up at the first failure; the answer to the query is its report.
TakesAnswer(t) ==
    /\ progress[t].report = "pending"
    /\ \/ /\ session[t].pc = "done" /\ session[t].status # "ok"
          /\ Report(t, "failed")
          /\ UNCHANGED call
       \/ /\ call[t].pc = "done"
          /\ IF call[t].status # "ok" THEN Report(t, "failed") /\ UNCHANGED call
             ELSE IF progress[t].stored < Len(Services[t])
             THEN /\ progress' = [progress EXCEPT ![t].stored = @ + 1]
                  /\ call' = [call EXCEPT ![t] = S!NoCall]
             ELSE Report(t, "complete") /\ UNCHANGED call
    /\ UNCHANGED <<session, backend, dirs, stored, up, execution_id>>

SinkWorks(t) == S!SinkStep(t) /\ UNCHANGED <<session, execution_id, progress>>
SinkFaults == (S!Crashes \/ S!Restarts) /\ UNCHANGED <<session, execution_id, progress>>

TestNext ==
    \/ \E t \in Testers : Distributes(t) \/ Stores(t) \/ Queries(t) \/ SinkWorks(t) \/ TakesAnswer(t)
    \/ SinkFaults

TestSpec == TestInit /\ [][TestNext]_testVars

(***************************************************************************)
(* Properties.                                                             *)
(***************************************************************************)
Parts(t) == {u \in Testers : execution_id[u] = execution_id[t]}

\* A report that came back without an error is the whole of the tester's part: it holds what
\* every service the tester named answered, nothing of another execution except through a
\* service that both use, and it carries error_detail whenever one of the services failed
\* (handleRequest, StoreExecutionResultPiece, LoadExecutionResult, mergeExecutionResponses),
\* whatever the sink went through between.
ReportIsComplete ==
    \A t \in Testers :
        progress[t].report = "complete" /\ backend = "file" =>
            LET merged == call[t].merged IN
            /\ \A i \in DOMAIN Services[t] :
                   /\ Piece(t, i) \in {call[t].pieces[k] : k \in DOMAIN call[t].pieces}
                   /\ Piece(t, i).by = Services[t][i]
                   /\ Piece(t, i).results \subseteq merged.results
            /\ \A r \in merged.results :
                   \E u \in Parts(t) : r[1] \in Named(u) /\ r[2] \in Sharers(r[1])
            /\ (\E i \in DOMAIN Services[t] : Piece(t, i).error) => merged.error

\* A load never meets a piece that is still being written, "to make the completely written
\* file visible to consumers of LoadExecutionResult" (sink_impl.cc:69-70), and a piece the
\* file sink acknowledged is never gone, even after a restart.
StoredPiecesAreWhole ==
    /\ \A t \in Testers : call[t].pc = "done" => call[t].status # "corrupt"
    /\ backend = "file" =>
           \A t \in Testers : session[t].pc = "done" /\ session[t].status = "ok" =>
               \A i \in 1..progress[t].stored :
                   [piece |-> Piece(t, i), whole |-> TRUE] \in stored

\* The merge refuses responses whose options or versions differ, and only those, whichever
\* of them the directory iterator found first (mergeOutput takes the first as reference).
MergeRefusesDivergence ==
    \A t \in Testers : call[t].pc = "done" /\ "pieces" \in DOMAIN call[t] /\ call[t].pieces # <<>> =>
        LET all == {call[t].pieces[i] : i \in DOMAIN call[t].pieces}
        IN call[t].status = "ok" <=>
               \A p, q \in all : p.options = q.options /\ p.version = q.version
=============================================================================
