----------------------------- MODULE MCProcess -----------------------------
(* Process for model checking: the workers are model values.               *)
EXTENDS Process

CONSTANTS w1, w2

=============================================================================
