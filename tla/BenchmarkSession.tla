-------------------------- MODULE BenchmarkSession --------------------------
(***************************************************************************)
(* What the gRPC service promises, without threads, locks or futures: one  *)
(* execution at a time, whichever stream asked for it; its answer is out   *)
(* before the next one begins; a stream is not closed while an execution   *)
(* it asked for is unanswered.  Answers are counted for the stream that    *)
(* asked, not for the one they come out on.  From                          *)
(* api/client/service.proto and the messages and comments of               *)
(* source/client/service_impl.cc.                                          *)
(***************************************************************************)
CONSTANT Streams

VARIABLES
    executing,   \* the stream whose benchmark is accepted and not yet answered, 0 for none
    answers,     \* per stream, the set of its executions answered so far
    closed       \* the streams that have been given their final status

session == <<executing, answers, closed>>

Init ==
    /\ executing = 0
    /\ answers = [s \in Streams |-> {}]
    /\ closed = {}

Begin(s) ==
    /\ executing = 0
    /\ s \notin closed
    /\ executing' = s
    /\ UNCHANGED <<answers, closed>>

Answer(s) ==
    /\ executing = s
    /\ executing' = 0
    /\ \E e \in answers'[s] \ answers[s] : answers' = [answers EXCEPT ![s] = @ \union {e}]
    /\ UNCHANGED closed

Close(s) ==
    /\ executing # s
    /\ s \notin closed
    /\ closed' = closed \union {s}
    /\ UNCHANGED <<executing, answers>>

Next == \E s \in Streams : Begin(s) \/ Answer(s) \/ Close(s)

Spec == Init /\ [][Next]_session
=============================================================================
