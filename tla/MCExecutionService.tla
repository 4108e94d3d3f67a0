------------------------ MODULE MCExecutionService --------------------------
(* ExecutionService on small instances. *)
EXTENDS ExecutionService, TLC

CONSTANTS e1, e2, p1, p2

MCExecs == {e1, e2}
MCProcs1 == {p1}
MCProcs2 == {p1, p2}
MCOneProc == [e \in Workers |-> p1]
MCTwoProcs == [e \in Workers |-> IF e = e1 THEN p1 ELSE p2]
=============================================================================
