------------------------ MODULE MCWebhookDispatcher -------------------------
(* WebhookDispatcher on small instances: every dispatcher in its own process. *)
EXTENDS WebhookDispatcher, TLC

CONSTANTS d1, d2

MCWorkers1 == {d1}
MCWorkers2 == {d1, d2}
MCProcOf == [d \in Workers |-> d]
\* Dispatchers and their processes are interchangeable.
MCSymmetry == Permutations(MCWorkers2)
=============================================================================
