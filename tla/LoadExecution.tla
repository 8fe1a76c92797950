--------------------------- MODULE LoadExecution ---------------------------
(***************************************************************************)
(* What a Sequencer promises to its worker, without timers, rate limiter   *)
(* or event loop: an execution starts once, initiates calls only while it  *)
(* is under way, every call completes at most once (possibly after the     *)
(* execution is over), and it ends with one verdict that never changes.    *)
(* From include/nighthawk/common/sequencer.h and the class comment of      *)
(* source/common/sequencer_impl.h.                                         *)
(***************************************************************************)
EXTENDS Naturals

VARIABLES
    phase,       \* "ready", "active", "over"
    initiated,   \* calls the target accepted
    completed,   \* calls the target reported back
    verdict      \* "PROCEED" until it is over, then "TERMINATE" or "FAIL"

execution == <<phase, initiated, completed, verdict>>

Init ==
    /\ phase = "ready"
    /\ initiated = 0
    /\ completed = 0
    /\ verdict = "PROCEED"

Begin ==
    /\ phase = "ready"
    /\ phase' = "active"
    /\ UNCHANGED <<initiated, completed, verdict>>

Initiate ==
    /\ phase = "active"
    /\ initiated' = initiated + 1
    /\ completed' \in {completed, completed + 1}
    /\ UNCHANGED <<phase, verdict>>

Complete ==
    /\ phase # "ready"
    /\ completed < initiated
    /\ completed' = completed + 1
    /\ UNCHANGED <<phase, initiated, verdict>>

\* An execution may be over before it was under way: start() finds that it has to stop.
Finish ==
    /\ phase \in {"ready", "active"}
    /\ phase' = "over"
    /\ verdict' \in {"TERMINATE", "FAIL"}
    /\ UNCHANGED <<initiated, completed>>

Next == Begin \/ Initiate \/ Complete \/ Finish

Spec == Init /\ [][Next]_execution
=============================================================================
