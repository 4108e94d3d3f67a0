--------------------------- MODULE StreamContract ---------------------------
(***************************************************************************)
(* What the WebSocket stream of one execution promises to a listener that  *)
(* has been there from the start (the events listed in the docstring of    *)
(* execution_stream, backend/app/api/v1/executions.py): steps one at a     *)
(* time and numbered without a gap, every started step either completed or *)
(* answered by an error, one execution_complete, and nothing after it.     *)
(***************************************************************************)
EXTENDS Naturals

VARIABLES
    heard,  \* type of the last event, "nothing" before the first
    at      \* number of the last step that was started

Init == heard = "nothing" /\ at = 0

Begin ==
    /\ heard \in {"nothing", "step_complete"}
    /\ heard' = "step_start"
    /\ at' = at + 1

Finish ==
    /\ heard = "step_start"
    /\ heard' = "step_complete"
    /\ at' = at

Complain ==
    /\ heard # "execution_complete"
    /\ heard' = "error"
    /\ at' = at

End ==
    /\ heard \in {"nothing", "step_complete", "error"}
    /\ heard' = "execution_complete"
    /\ at' = at

Spec == Init /\ [][Begin \/ Finish \/ Complain \/ End]_<<heard, at>>
=============================================================================
