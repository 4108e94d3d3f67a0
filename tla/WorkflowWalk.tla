---------------------------- MODULE WorkflowWalk ----------------------------
(***************************************************************************)
(* One run of a workflow, node by node, and what its listeners hear:       *)
(* run_execution in backend/app/engine/executor.py and execution_stream in *)
(* backend/app/api/v1/executions.py.                                       *)
(*                                                                         *)
(* ExecutionRun has the same code with the accounting of several runs and  *)
(* only the length of the node queue; here is one run with the nodes it    *)
(* visits, the calls it makes (NodeCalls), its log and its events, and the *)
(* budget is a free choice.  Requests to cancel, failures of the database  *)
(* and listeners that come and go are interleaved with it.  Left out: the  *)
(* death of the process, which ends the run and its streams at once.       *)
(***************************************************************************)
EXTENDS WorkflowGraph, NodeCalls

CONSTANTS
    Definitions,    \* the workflow definitions considered
    Clients,        \* WebSocket connections
    MaxIterations,  \* MAX_ITERATIONS (10 in the code)
    Faults          \* whether the database may fail

ASSUME WalkAssumption ==
    /\ MaxIterations \in Nat \ {0} /\ MaxRetries \in Nat \ {0}
    /\ MaxTools \in Nat /\ MaxChunks \in Nat
    /\ Faults \in BOOLEAN
    /\ \A d \in Definitions : d.nodes \in Seq(Ids(d)) /\ d.edges \in Seq(ToSet(d.edges))

VARIABLES
    wf,         \* the definition, read once at the start of the run
    status,     \* executions.status
    logged,     \* step numbers with a committed execution_logs row
    flag,       \* _active_executions[id]["cancelled"]
    stale,      \* a cancel request that saw pending: "no", "read" or "wrote"
    pc,         \* where the run stands
    queue,      \* the node queue
    iter,       \* nodes taken from it
    ran,        \* the nodes whose step has started; their number is step_number
    verdict,    \* the status that execution_complete is going to announce
    aired,      \* the last event broadcast
    clients     \* [phase, queue, last]: a listener, its queue, its last event

runVars == <<pc, queue, iter, ran, verdict>>
vars == <<wf, status, logged, flag, stale, runVars, call, aired, clients>>

step == Len(ran)
Node == ran[step]

Event(type, status_) == [type |-> type, step |-> step, status |-> status_]
Silence == [type |-> "nothing", step |-> 0, status |-> "none"]
Ends == {"completed", "failed", "cancelled"}

(* The places where the run ends: after its last event, because the row    *)
(* was no longer pending, and because not even the failure could be told.  *)
Over == {"end", "lost", "dead"}
Calling == pc = "call" /\ call.at # "done"

(* The queue of each definition, a table so that TLC sorts each once.      *)
Queues == [d \in {x \in Definitions : Compiles(x)} |-> FirstQueue(d)]

Listening(c) == clients[c].phase \in {"open", "gone"}

(* _broadcast_ws: put into every queue; the queues have no limit, so that  *)
(* no other coroutine runs in between.                                     *)
Broadcast(e) ==
    /\ aired' = e
    /\ clients' = [c \in Clients |->
                      IF Listening(c) THEN [clients[c] EXCEPT !.queue = Append(@, e)]
                      ELSE clients[c]]

Quiet == UNCHANGED <<aired, clients>>

Init ==
    /\ wf \in Definitions
    /\ status = "pending" /\ stale = "no"
    /\ logged = {} /\ flag = FALSE
    /\ pc = "idle" /\ queue = <<>> /\ iter = 0 /\ ran = <<>> /\ verdict = "none"
    /\ call = Idle
    /\ aired = Silence
    /\ clients = [c \in Clients |-> [phase |-> "away", queue |-> <<>>, last |-> Silence]]

----------------------------------------------------------------------------
(* The run up to its claim.                                                *)

RunStarts ==
    /\ pc = "idle"
    /\ pc' = "load" /\ flag' = FALSE
    /\ Quiet
    /\ UNCHANGED <<wf, status, logged, stale, queue, iter, ran, verdict, call>>

(* _fail_execution or _cancel_execution, committed, whatever the row says. *)
Settle(result, next) ==
    /\ status' = result /\ verdict' = result
    /\ pc' = next
    /\ Quiet

(* The budget is used up, or the definition does not compile.              *)
LoadRefused ==
    /\ pc = "load"
    /\ Settle("failed", "errorOnly")
    /\ UNCHANGED <<wf, logged, flag, stale, queue, iter, ran, call>>

LoadAccepted ==
    /\ pc = "load" /\ Compiles(wf)
    /\ pc' = "claim"
    /\ Quiet
    /\ UNCHANGED <<wf, status, logged, flag, stale, queue, iter, ran, verdict, call>>

(* A row that is no longer pending: the run returns without an event.      *)
Claim ==
    /\ pc = "claim"
    /\ \/ /\ status = "pending"
          /\ status' = "running" /\ pc' = "pop" /\ queue' = Queues[wf]
          /\ UNCHANGED flag
       \/ /\ status # "pending"
          /\ pc' = "lost" /\ flag' = FALSE
          /\ UNCHANGED <<status, queue>>
    /\ Quiet
    /\ UNCHANGED <<wf, logged, stale, iter, ran, verdict, call>>

----------------------------------------------------------------------------
(* The loop over the queue.  A node is taken, counted, and its step begins *)
(* unless the run is at its limit or cancelled.                            *)

Pop ==
    /\ queue' = Tail(queue) /\ iter' = iter + 1
    /\ UNCHANGED <<wf, logged, stale>>

AtLimit == wf.cyclic /\ iter + 1 > MaxIterations

IterationsExceeded ==
    /\ pc = "pop" /\ queue # <<>> /\ AtLimit
    /\ Pop
    /\ Settle("failed", "errorOnly")
    /\ UNCHANGED <<flag, ran, call>>

\* Mutant: a cancelled run returns without its last event.
CancelSeenSilently ==
    /\ pc = "pop" /\ queue # <<>> /\ ~AtLimit /\ flag
    /\ Pop
    /\ Settle("cancelled", "end")
    /\ UNCHANGED <<flag, ran, call>>

CancelSeen ==
    /\ pc = "pop" /\ queue # <<>> /\ ~AtLimit /\ flag
    /\ Pop
    /\ Settle("cancelled", "reread")
    /\ UNCHANGED <<flag, ran, call>>

StepBegins ==
    /\ pc = "pop" /\ queue # <<>> /\ ~AtLimit /\ ~flag
    /\ Pop
    /\ ran' = Append(ran, Head(queue))
    /\ Broadcast([type |-> "step_start", step |-> step + 1, status |-> "none"])
    /\ IF wf.kind[Head(queue)] = "agent"
       THEN pc' = "budget" /\ UNCHANGED call
       ELSE pc' = "call" /\ ConnectorBegins
    /\ UNCHANGED <<status, flag, verdict>>

BudgetUsed ==
    /\ pc = "budget"
    /\ Settle("cancelled", "error")
    /\ UNCHANGED <<wf, logged, flag, stale, queue, iter, ran, call>>

BudgetLeft ==
    /\ pc = "budget"
    /\ pc' = "call" /\ AgentBegins
    /\ Quiet
    /\ UNCHANGED <<wf, status, logged, flag, stale, queue, iter, ran, verdict>>

InCall ==
    /\ pc = "call" /\ CallStep
    /\ Quiet
    /\ UNCHANGED <<wf, status, logged, flag, stale, runVars>>

(* A failed agent leaves no log row, a failed connector does.              *)
CallFailed ==
    /\ pc = "call" /\ CallAt("done") /\ call.result = "error"
    /\ call' = Idle
    /\ IF wf.kind[Node] = "agent"
       THEN Settle("failed", "error") /\ UNCHANGED logged
       ELSE /\ logged' = logged \cup {step}
            /\ pc' = "connectorFailed"
            /\ Quiet /\ UNCHANGED <<status, verdict>>
    /\ UNCHANGED <<wf, flag, stale, queue, iter, ran>>

\* Mutant: only the end of the run is told.
ConnectorFailsQuietly ==
    /\ pc = "connectorFailed"
    /\ Settle("failed", "reread")
    /\ UNCHANGED <<wf, logged, flag, stale, queue, iter, ran, call>>

ConnectorFails ==
    /\ pc = "connectorFailed"
    /\ Settle("failed", "error")
    /\ UNCHANGED <<wf, logged, flag, stale, queue, iter, ran, call>>

\* Mutant: the log row waits for the next commit.
StepLoggedLater ==
    /\ pc = "call" /\ CallAt("done") /\ call.result = "ok"
    /\ call' = Idle
    /\ pc' = "logged"
    /\ Quiet
    /\ UNCHANGED <<wf, status, logged, flag, stale, queue, iter, ran, verdict>>

(* The charge, the log row and the totals of an agent's step are one       *)
(* commit; a connector's commit is its log row.                            *)
StepLogged ==
    /\ pc = "call" /\ CallAt("done") /\ call.result = "ok"
    /\ call' = Idle
    /\ logged' = logged \cup {step}
    /\ pc' = "logged"
    /\ Quiet
    /\ UNCHANGED <<wf, status, flag, stale, queue, iter, ran, verdict>>

(* The charge would pass the budget: rollback, the row becomes cancelled,  *)
(* and the event that should say so raises on an expired attribute.        *)
ChargeRefused ==
    /\ pc = "call" /\ CallAt("done") /\ call.result = "ok"
    /\ wf.kind[Node] = "agent"
    /\ call' = Idle
    /\ status' = "cancelled" /\ pc' = "except"
    /\ Quiet
    /\ UNCHANGED <<wf, logged, flag, stale, queue, iter, ran, verdict>>

(* The action the edges' conditions are compared with.                     *)
ActionOf(n) == IF wf.kind[n] = "agent" THEN "llm_call" ELSE "connector_call"

Successor == NextNode(wf, Node, ActionOf(Node))

\* Mutant: the next node is queued for every pattern.
StepCompletesAlways ==
    /\ pc = "logged"
    /\ Broadcast(Event("step_complete", "none"))
    /\ pc' = "pop"
    /\ queue' = IF Successor # NoNode THEN Append(queue, Successor) ELSE queue
    /\ UNCHANGED <<wf, status, logged, flag, stale, iter, ran, verdict, call>>

StepCompletes ==
    /\ pc = "logged"
    /\ Broadcast(Event("step_complete", "none"))
    /\ pc' = "pop"
    /\ queue' = IF wf.cyclic /\ Successor # NoNode THEN Append(queue, Successor)
                ELSE queue
    /\ UNCHANGED <<wf, status, logged, flag, stale, iter, ran, verdict, call>>

Completes ==
    /\ pc = "pop" /\ queue = <<>>
    /\ Settle("completed", "final")
    /\ UNCHANGED <<wf, logged, flag, stale, queue, iter, ran, call>>

----------------------------------------------------------------------------
(* The end of a run: the error, where there is one, then the totals read   *)
(* again, where the path does so, then execution_complete.                 *)

SayError ==
    /\ pc \in {"error", "errorOnly"}
    /\ Broadcast(Event("error", "none"))
    /\ pc' = IF pc = "error" THEN "reread" ELSE "final"
    /\ UNCHANGED <<wf, status, logged, flag, stale, queue, iter, ran, verdict, call>>

Reread ==
    /\ pc = "reread"
    /\ pc' = "final"
    /\ Quiet
    /\ UNCHANGED <<wf, status, logged, flag, stale, queue, iter, ran, verdict, call>>

SayFinal ==
    /\ pc \in {"final", "exceptFinal"}
    /\ Broadcast(Event("execution_complete", verdict))
    /\ pc' = "end"
    /\ flag' = FALSE
    /\ UNCHANGED <<wf, status, logged, stale, queue, iter, ran, verdict, call>>

\* Mutant: the failure is announced whether or not it could be written.
ExceptUnwritten ==
    /\ pc = "except"
    /\ verdict' = "failed"
    /\ pc' = "exceptError"
    /\ Quiet
    /\ UNCHANGED <<wf, status, logged, flag, stale, queue, iter, ran, call>>

(* The outer except: the row fails whatever it was, and an error is told.  *)
Except ==
    /\ pc = "except"
    /\ status' = "failed" /\ verdict' = "failed"
    /\ pc' = "exceptError"
    /\ Quiet
    /\ UNCHANGED <<wf, logged, flag, stale, queue, iter, ran, call>>

ExceptSays ==
    /\ pc = "exceptError"
    /\ Broadcast([type |-> "error", step |-> 0, status |-> "none"])
    /\ pc' = "exceptFinal"
    /\ UNCHANGED <<wf, status, logged, flag, stale, queue, iter, ran, verdict, call>>

(* There is no such workflow any more, it has no nodes, or LangGraph does  *)
(* not take it: an exception that is not a CompilationError.               *)
LoadRaises ==
    /\ pc = "load"
    /\ pc' = "except"
    /\ Quiet
    /\ UNCHANGED <<wf, status, logged, flag, stale, queue, iter, ran, verdict, call>>

(* A statement or a commit raises: the run goes to the outer except, and   *)
(* from there, the failure being swallowed, to its end.                    *)
DatabaseFails ==
    /\ Faults
    /\ \/ /\ pc \in {"load", "claim", "pop", "budget", "call", "connectorFailed",
                     "reread"}
          /\ pc = "call" => call.at \in {"tools", "check", "done"}
          /\ pc = "pop" => queue = <<>> \/ AtLimit \/ flag
          /\ pc' = "except" /\ call' = Idle
          /\ UNCHANGED flag
       \/ /\ pc \in {"except", "exceptFinal"}
          /\ pc' = "dead" /\ flag' = FALSE /\ UNCHANGED call
    /\ Quiet
    /\ UNCHANGED <<wf, status, logged, stale, queue, iter, ran, verdict>>

----------------------------------------------------------------------------
(* cancel_execution: the flag of a run, or, from a status read as pending, *)
(* the row itself, later and whatever it has become.                       *)

RequestCancel ==
    /\ status = "running" /\ pc \notin {"idle"} \cup Over
    /\ flag' = TRUE
    /\ Quiet
    /\ UNCHANGED <<wf, status, logged, stale, runVars, call>>

CancelReads ==
    /\ status = "pending" /\ stale = "no"
    /\ stale' = "read"
    /\ Quiet
    /\ UNCHANGED <<wf, status, logged, flag, runVars, call>>

CancelWrites ==
    /\ stale = "read"
    /\ stale' = "wrote" /\ status' = "cancelled"
    /\ Quiet
    /\ UNCHANGED <<wf, logged, flag, runVars, call>>

----------------------------------------------------------------------------
(* execution_stream.  Once accepted, the handler takes one event after the *)
(* other from its queue; the finally clause takes the queue away with it.  *)

Changed(c, phase, queue_, last) ==
    /\ clients' = [clients EXCEPT ![c] = [phase |-> phase, queue |-> queue_, last |-> last]]
    /\ UNCHANGED <<wf, status, logged, flag, stale, runVars, call, aired>>

Connects(c) ==
    /\ clients[c].phase = "away"
    /\ Changed(c, "open", <<>>, Silence)

(* The other side goes away; the handler finds out when it sends.          *)
Leaves(c) ==
    /\ clients[c].phase = "open"
    /\ Changed(c, "gone", clients[c].queue, clients[c].last)

Sends(c) ==
    /\ Listening(c) /\ clients[c].queue # <<>>
    /\ LET e == Head(clients[c].queue)
       IN  IF clients[c].phase = "gone"
           THEN Changed(c, "closed", <<>>, clients[c].last)
           ELSE IF e.type = "execution_complete"
           THEN Changed(c, "closed", <<>>, e)
           ELSE Changed(c, "open", Tail(clients[c].queue), e)

(* 30 s without an event: a ping, which only a lost connection notices.    *)
Pings(c) ==
    /\ clients[c].phase = "gone" /\ clients[c].queue = <<>>
    /\ Changed(c, "closed", <<>>, clients[c].last)

----------------------------------------------------------------------------
Run ==
    \/ RunStarts \/ LoadRefused \/ LoadRaises \/ LoadAccepted \/ Claim
    \/ IterationsExceeded \/ CancelSeen \/ StepBegins
    \/ BudgetUsed \/ BudgetLeft \/ InCall \/ CallFailed \/ ConnectorFails
    \/ StepLogged \/ ChargeRefused \/ StepCompletes \/ Completes
    \/ SayError \/ Reread \/ SayFinal \/ Except \/ ExceptSays

Next ==
    \/ Run \/ DatabaseFails
    \/ RequestCancel \/ CancelReads \/ CancelWrites
    \/ \E c \in Clients : Connects(c) \/ Leaves(c) \/ Sends(c) \/ Pings(c)

Spec == Init /\ [][Next]_vars

(* A background task runs to its end and a handler keeps sending: both are *)
(* coroutines of one event loop, and every wait inside them has a timeout. *)
Fairness ==
    /\ WF_vars(Run)
    /\ \A c \in Clients : WF_vars(Sends(c)) /\ WF_vars(Pings(c))

FairSpec == Spec /\ Fairness

----------------------------------------------------------------------------
(* Properties                                                              *)

EventType ==
    [type : {"nothing", "step_start", "step_complete", "error", "execution_complete"},
     step : Nat, status : Ends \cup {"none"}]

(* Every variable keeps its type; a model is called MAX_RETRIES times at   *)
(* most in one step, and a response never outgrows its limit.              *)
TypeOK ==
    /\ status \in {"pending", "running"} \cup Ends
    /\ flag \in BOOLEAN /\ stale \in {"no", "read", "wrote"}
    /\ pc \in {"idle", "load", "claim", "pop", "budget", "call", "connectorFailed",
               "logged", "error", "errorOnly", "reread", "final", "except",
               "exceptError", "exceptFinal"} \cup Over
    /\ ran \in Seq(ToSet(ran)) /\ iter \in Nat
    /\ logged \subseteq 1..Len(ran)
    /\ verdict \in Ends \cup {"none"}
    /\ call \in CallType
    /\ aired \in EventType
    /\ clients \in [Clients -> [phase : {"away", "open", "gone", "closed"},
                               queue : Seq(EventType), last : EventType]]

(* The order of execution (_topological_sort, _resolve_next_node).  In a   *)
(* linear workflow every node runs at most once and, unless a cycle keeps  *)
(* it back, after its predecessors, and a completed run has run them all;  *)
(* a cyclic one follows the edges from its entry, and stops at the limit.  *)
NodesRunInOrder ==
    /\ queue \in Seq(Ids(wf)) /\ ran \in Seq(Ids(wf))
    /\ IF wf.cyclic
       THEN IsPath(wf, ran) /\ step <= MaxIterations
       ELSE /\ InOrder(wf, ran)
            /\ verdict = "completed" => ToSet(ran) = Ids(wf)

(* The log has no gaps, and whoever has been told of a completed step, or  *)
(* is about to be, finds it in the log (the commit before the broadcast).  *)
ToldStepsAreLogged ==
    /\ logged \in {1..step, 1..(step - 1)}
    /\ \A c \in Clients :
          \A e \in ToSet(clients[c].queue) \cup {clients[c].last} :
              e.type = "step_complete" => 1..e.step \subseteq logged

(* The status a listener hears last is the status of the row: every path   *)
(* announces what it has committed.  Only a cancel that read pending can   *)
(* change the row behind it.                                               *)
FinalEventIsTrue ==
    \A c \in Clients :
        \A e \in ToSet(clients[c].queue) \cup {clients[c].last} :
            e.type = "execution_complete" =>
                \/ e.status = status
                \/ stale = "wrote" /\ status = "cancelled"

(* The events of a run are those the contract of the stream allows.        *)
Contract == INSTANCE StreamContract WITH heard <- aired.type, at <- step
ImplementsStream == Contract!Spec

(* A listener that is there before the end of the run is told the end, or  *)
(* has left, and its handler ends; only a run that found its row taken     *)
(* away, or that the database did not let say so, ends in silence.         *)
StreamEnds ==
    \A c \in Clients :
        Listening(c) /\ aired.type # "execution_complete" ~>
            ~Listening(c) \/ pc \in {"lost", "dead"}

=============================================================================
