-------------------------- MODULE WorkflowWalkProofs --------------------------
(***************************************************************************)
(* Theorems about WorkflowWalk: the log, the events and the last event of  *)
(* a run, and the contract of its stream, for any definition, any limits   *)
(* and any number of listeners.                                            *)
(*                                                                         *)
(* WalkInv says, for every place in run_execution, how far the log is,     *)
(* which event was the last and whether the row has the status that is     *)
(* going to be announced; every event that was ever sent is then judged by *)
(* the state it is heard in.                                               *)
(***************************************************************************)
EXTENDS WorkflowWalk, SequenceTheorems, FiniteSetTheorems, TLAPS

(* What NodeCalls keeps: an attempt is left while the model is called, and *)
(* only the model is called more than once.                                *)
CallFits ==
    /\ call \in CallType
    /\ call.at \in {"model", "sleep"} => call.tries < MaxRetries
    /\ call.at \in {"idle", "tools", "check", "connect", "read", "close"} => call.tries = 0

(* The row of a step is committed between its call and its step_complete.  *)
LogFollows ==
    /\ logged \in {1..step, 1..(step - 1)}
    /\ pc \in {"idle", "load", "claim"} => step = 0
    /\ pc \in {"idle", "load", "claim", "pop", "logged", "connectorFailed"} => logged = 1..step
    /\ pc \in {"budget", "call"} => logged = 1..(step - 1) /\ step \in Nat \ {0}

Announcing == {"error", "errorOnly", "reread", "final", "exceptError", "exceptFinal", "end"}

(* No step without a node taken from the queue, and in a cyclic workflow   *)
(* none beyond the limit.                                                  *)
StepsBounded == step <= iter /\ (wf.cyclic => step <= MaxIterations)

(* What is going to be announced has been written, and only a cancel that  *)
(* read pending has written after it.                                      *)
VerdictIsTrue ==
    pc \in Announcing =>
        \/ verdict = status
        \/ stale = "wrote" /\ status = "cancelled"

(* The last event, by the place the run has reached.                       *)
StreamFits ==
    /\ pc \in {"idle", "load", "claim", "pop"} => aired.type \in {"nothing", "step_complete"}
    /\ pc \in {"budget", "call", "connectorFailed", "logged"} => aired.type = "step_start"
    /\ pc \in {"reread", "final", "exceptFinal"} =>
          aired.type \in {"nothing", "step_complete", "error"}
    /\ pc # "end" => aired.type # "execution_complete"

(* An event that is true of the state it is heard in.                      *)
Holds(e) ==
    /\ e.type = "step_complete" => 1..e.step \subseteq logged
    /\ e.type = "execution_complete" => pc = "end" /\ e.status = verdict

Heard(c) == ToSet(clients[c].queue) \cup {clients[c].last}

EventsHold == Holds(aired) /\ \A c \in Clients : \A e \in Heard(c) : Holds(e)

WalkInv ==
    TypeOK /\ CallFits /\ LogFollows /\ StepsBounded /\ VerdictIsTrue /\ StreamFits /\ EventsHold

----------------------------------------------------------------------------
(* Calls                                                                   *)

LEMMA CallBegins ==
  /\ Idle \in CallType
  /\ \A n \in 0..MaxTools : [Idle EXCEPT !.at = "tools", !.tools = n] \in CallType
  /\ [Idle EXCEPT !.at = "check"] \in CallType
<1>1. 0 \in 0..MaxTools /\ 0 \in 0..MaxRetries /\ 0 \in 0..MaxChunks
  BY WalkAssumption DEF WalkAssumption
<1> QED BY <1>1 DEF Idle, CallType

LEMMA CallStepFits == CallFits /\ CallStep => CallFits'
<1> SUFFICES ASSUME CallFits, CallStep PROVE CallFits'
  OBVIOUS
<1>0. call \in CallType
  BY DEF CallFits
<1>1. /\ call.tools > 0 => call.tools - 1 \in 0..MaxTools
      /\ call.tries < MaxRetries => call.tries + 1 \in 0..MaxRetries
      /\ call.size # MaxChunks => call.size + 1 \in 0..MaxChunks
      /\ 0 \in 0..MaxRetries /\ 0 \in 0..MaxChunks
  BY <1>0, WalkAssumption DEF CallType, WalkAssumption
<1>2. ASSUME NEW result \in {"none", "ok", "error"}, HttpResult(result),
             call.at \in {"connect", "close"}
      PROVE CallFits'
  <2>1. CASE call.tools > 0
    <3>1. call' = [call EXCEPT !.at = "tools", !.tools = @ - 1, !.conn = FALSE,
                               !.size = 0, !.result = "none"]
      BY <1>2, <2>1 DEF HttpResult
    <3>2. call' \in CallType /\ call'.at = "tools" /\ call'.tries = call.tries
      BY <1>0, <1>1, <2>1, <3>1 DEF CallType
    <3> QED BY <1>2, <3>2 DEF CallFits
  <2>2. CASE ~(call.tools > 0)
    <3>1. call' = [call EXCEPT !.at = "done", !.conn = FALSE, !.size = 0, !.result = result]
      BY <1>2, <2>2 DEF HttpResult
    <3>2. call' \in CallType /\ call'.at = "done"
      BY <1>0, <1>1, <1>2, <3>1 DEF CallType
    <3> QED BY <3>2 DEF CallFits
  <2> QED BY <2>1, <2>2
<1>3. CASE ToolReturns
  <2>1. call' \in CallType /\ call'.at = "tools" /\ call'.tries = call.tries
    BY <1>0, <1>1, <1>3 DEF ToolReturns, CallAt, CallType
  <2> QED BY <1>3, <2>1 DEF CallFits, ToolReturns, CallAt
<1>4. CASE ToolRequests \/ ConnectorRequests
  <2>1. call' \in CallType /\ call'.at = "connect" /\ call'.tries = call.tries
    BY <1>0, <1>4 DEF ToolRequests, ConnectorRequests, CallAt, CallType
  <2> QED BY <1>4, <2>1 DEF CallFits, ToolRequests, ConnectorRequests, CallAt
<1>5. CASE ConnectorRefused
  <2>1. call' \in CallType /\ call'.at = "done"
    BY <1>0, <1>5 DEF ConnectorRefused, CallDone, CallType
  <2> QED BY <2>1 DEF CallFits
<1>6. CASE HttpConnectFails
  BY <1>2, <1>6 DEF HttpConnectFails, CallAt
<1>7. CASE HttpConnects
  <2>1. call' \in CallType /\ call'.at = "read" /\ call'.tries = call.tries
    BY <1>0, <1>7 DEF HttpConnects, CallType
  <2> QED BY <1>7, <2>1 DEF CallFits, HttpConnects, CallAt
<1>8. CASE HttpReads
  <2>1. call' \in CallType /\ call'.at \in {"read", "close"} /\ call'.tries = call.tries
    <3>1. CASE call.size = MaxChunks
      BY <1>0, <1>8, <3>1 DEF HttpReads, CallType
    <3>2. CASE call.size # MaxChunks
      BY <1>0, <1>1, <1>8, <3>2 DEF HttpReads, CallAt, CallType
    <3> QED BY <3>1, <3>2
  <2> QED BY <1>8, <2>1 DEF CallFits, HttpReads, CallAt
<1>9. CASE HttpEnds
  <2>1. call' \in CallType /\ call'.at = "close" /\ call'.tries = call.tries
    BY <1>0, <1>9 DEF HttpEnds, CallType
  <2> QED BY <1>9, <2>1 DEF CallFits, HttpEnds, CallAt
<1>10. CASE HttpCloses
  BY <1>0, <1>2, <1>10 DEF HttpCloses, CallAt, CallType
<1>11. CASE ModelBegins
  <2>1. call' \in CallType /\ call'.at = "model" /\ call'.tries = call.tries
    BY <1>0, <1>11 DEF ModelBegins, CallType
  <2> QED BY <1>11, <2>1, WalkAssumption DEF CallFits, ModelBegins, CallAt, WalkAssumption
<1>12. CASE ModelAnswers \/ ModelFails
  <2>1. call.tries < MaxRetries
    BY <1>12 DEF CallFits, ModelAnswers, ModelFails, CallAt
  <2>2. call' \in CallType /\ call'.at = "done"
    BY <1>0, <1>1, <1>12, <2>1 DEF ModelAnswers, ModelFails, CallType
  <2> QED BY <2>2 DEF CallFits
<1>13. CASE ModelRateLimited
  <2>1. call.tries < MaxRetries
    BY <1>13 DEF CallFits, ModelRateLimited, CallAt
  <2>2. CASE call.tries + 1 < MaxRetries
    <3>1. /\ call' \in CallType /\ call'.at = "sleep"
          /\ call'.tries = call.tries + 1
      BY <1>0, <1>1, <1>13, <2>1, <2>2 DEF ModelRateLimited, CallType
    <3> QED BY <2>2, <3>1 DEF CallFits
  <2>3. CASE ~(call.tries + 1 < MaxRetries)
    <3>1. call' \in CallType /\ call'.at = "done"
      BY <1>0, <1>1, <1>13, <2>1, <2>3 DEF ModelRateLimited, CallType
    <3> QED BY <3>1 DEF CallFits
  <2> QED BY <2>2, <2>3
<1>14. CASE ModelRetries
  <2>1. call' \in CallType /\ call'.at = "model" /\ call'.tries = call.tries
    BY <1>0, <1>14 DEF ModelRetries, CallType
  <2> QED BY <1>14, <2>1 DEF CallFits, ModelRetries, CallAt
<1> QED BY <1>3, <1>4, <1>5, <1>6, <1>7, <1>8, <1>9, <1>10, <1>11, <1>12, <1>13, <1>14
        DEF CallStep

----------------------------------------------------------------------------
(* Listeners                                                               *)

ClientsType == [Clients -> [phase : {"away", "open", "gone", "closed"},
                            queue : Seq(EventType), last : EventType]]

LEMMA SilenceType == Silence \in EventType
  BY DEF Silence, EventType

LEMMA EventTyped ==
  ASSUME TypeOK, NEW type \in {"step_complete", "error", "execution_complete"},
         NEW status_ \in Ends \cup {"none"}
  PROVE Event(type, status_) \in EventType
<1>1. step \in Nat
  BY LenProperties DEF TypeOK, step
<1> QED BY <1>1 DEF Event, EventType

LEMMA BroadcastHeard ==
  ASSUME clients \in ClientsType, NEW STATE e, e \in EventType, Broadcast(e)
  PROVE /\ aired' = e /\ clients' \in ClientsType
        /\ \A c \in Clients : Heard(c)' \subseteq Heard(c) \cup {Silence, aired'}
<1>1. aired' = e
  BY DEF Broadcast
<1>2. ASSUME NEW c \in Clients, Listening(c)
      PROVE /\ clients'[c] \in [phase : {"away", "open", "gone", "closed"},
                                queue : Seq(EventType), last : EventType]
            /\ Heard(c)' \subseteq Heard(c) \cup {Silence, aired'}
  <2>1. /\ clients'[c] = [clients[c] EXCEPT !.queue = Append(@, e)]
        /\ clients[c].queue \in Seq(EventType) /\ clients[c].last \in EventType
    BY <1>2 DEF Broadcast, ClientsType
  <2>2. /\ clients'[c].queue = Append(clients[c].queue, e)
        /\ clients'[c].last = clients[c].last
    BY <2>1 DEF ClientsType
  <2>3. Append(clients[c].queue, e) \in Seq(EventType)
    BY <2>1
  <2>4. ToSet(Append(clients[c].queue, e)) \subseteq ToSet(clients[c].queue) \cup {e}
    BY <2>1 DEF ToSet
  <2>5. Heard(c)' = ToSet(clients'[c].queue) \cup {clients'[c].last}
    BY DEF Heard, ToSet
  <2> QED BY <1>1, <2>1, <2>2, <2>3, <2>4, <2>5 DEF Heard, ClientsType
<1>3. ASSUME NEW c \in Clients, ~Listening(c)
      PROVE clients'[c] = clients[c] /\ Heard(c)' = Heard(c)
  BY <1>3 DEF Broadcast, Heard, ToSet
<1>4. clients' \in ClientsType
  BY <1>2, <1>3 DEF Broadcast, ClientsType
<1>5. \A c \in Clients : Heard(c)' \subseteq Heard(c) \cup {Silence, aired'}
  BY <1>2, <1>3
<1> QED BY <1>1, <1>4, <1>5

LEMMA ChangedHeard ==
  ASSUME clients \in ClientsType, NEW c \in Clients,
         NEW phase \in {"away", "open", "gone", "closed"},
         NEW STATE queue_, NEW STATE last, Changed(c, phase, queue_, last),
         queue_ \in Seq(EventType), last \in EventType,
         ToSet(queue_) \cup {last} \subseteq Heard(c) \cup {Silence}
  PROVE /\ clients' \in ClientsType
        /\ \A d \in Clients : Heard(d)' \subseteq Heard(d) \cup {Silence, aired'}
<1>1. clients' = [clients EXCEPT ![c] = [phase |-> phase, queue |-> queue_, last |-> last]]
  BY DEF Changed
<1>2. clients' \in ClientsType
  BY <1>1 DEF ClientsType
<1>3. ASSUME NEW d \in Clients PROVE Heard(d)' \subseteq Heard(d) \cup {Silence}
  <2>1. Heard(d)' = ToSet(clients'[d].queue) \cup {clients'[d].last}
    BY DEF Heard, ToSet
  <2>2. CASE d = c
    BY <1>1, <2>1, <2>2 DEF ClientsType, Heard
  <2>3. CASE d # c
    BY <1>1, <2>1, <2>3 DEF ClientsType, Heard
  <2> QED BY <2>2, <2>3
<1> QED BY <1>2, <1>3

LEMMA ListenerHeard ==
  ASSUME clients \in ClientsType, NEW c \in Clients,
         Connects(c) \/ Leaves(c) \/ Sends(c) \/ Pings(c)
  PROVE /\ clients' \in ClientsType
        /\ \A d \in Clients : Heard(d)' \subseteq Heard(d) \cup {Silence, aired'}
<1>1. /\ clients[c].queue \in Seq(EventType) /\ clients[c].last \in EventType
      /\ <<>> \in Seq(EventType) /\ ToSet(<<>>) = {}
  BY DEF ClientsType, ToSet
<1>2. CASE Connects(c)
  BY <1>1, <1>2, ChangedHeard, SilenceType DEF Connects
<1>3. CASE Leaves(c)
  BY <1>1, <1>3, ChangedHeard DEF Leaves, Heard
<1>4. CASE Pings(c)
  BY <1>1, <1>4, ChangedHeard DEF Pings, Heard
<1>5. CASE Sends(c)
  <2> DEFINE e == Head(clients[c].queue)
  <2>1. /\ e \in EventType /\ Tail(clients[c].queue) \in Seq(EventType)
        /\ e \in ToSet(clients[c].queue)
        /\ ToSet(Tail(clients[c].queue)) \subseteq ToSet(clients[c].queue)
    BY <1>1, <1>5 DEF Sends, ToSet
  <2>2. \/ Changed(c, "closed", <<>>, clients[c].last)
        \/ Changed(c, "closed", <<>>, e)
        \/ Changed(c, "open", Tail(clients[c].queue), e)
    BY <1>5 DEF Sends
  <2>3. CASE Changed(c, "closed", <<>>, clients[c].last)
    BY <1>1, <2>3, ChangedHeard DEF Heard
  <2>4. CASE Changed(c, "closed", <<>>, e)
    BY <1>1, <2>1, <2>4, ChangedHeard DEF Heard
  <2>5. CASE Changed(c, "open", Tail(clients[c].queue), e)
    BY <1>1, <2>1, <2>5, ChangedHeard DEF Heard
  <2> QED BY <2>2, <2>3, <2>4, <2>5
<1> QED BY <1>2, <1>3, <1>4, <1>5

(* The steps that say nothing to the listeners.                            *)
QuietRun ==
    \/ RunStarts \/ LoadRefused \/ LoadRaises \/ LoadAccepted \/ Claim
    \/ IterationsExceeded \/ CancelSeen \/ BudgetUsed \/ BudgetLeft \/ InCall \/ CallFailed
    \/ ConnectorFails \/ StepLogged \/ ChargeRefused \/ Completes \/ Reread \/ Except

QuietStep == QuietRun \/ DatabaseFails \/ RequestCancel \/ CancelReads \/ CancelWrites

LEMMA QuietStepIsQuiet == QuietStep => UNCHANGED <<wf, aired, clients>>
<1> USE DEF Quiet
<1>1. ASSUME QuietRun PROVE UNCHANGED <<wf, aired, clients>>
  BY <1>1 DEF QuietRun, RunStarts, LoadRefused, LoadRaises, LoadAccepted, Claim,
     IterationsExceeded, CancelSeen, BudgetUsed, BudgetLeft, InCall, CallFailed,
     ConnectorFails, StepLogged, ChargeRefused, Completes, Reread, Except, Settle, Pop
<1>2. ASSUME DatabaseFails \/ RequestCancel \/ CancelReads \/ CancelWrites
      PROVE UNCHANGED <<wf, aired, clients>>
  BY <1>2 DEF DatabaseFails, RequestCancel, CancelReads, CancelWrites
<1> QED BY <1>1, <1>2 DEF QuietStep

LEMMA NextCases ==
  Next <=> \/ QuietStep \/ StepBegins \/ StepCompletes \/ SayError \/ SayFinal \/ ExceptSays
           \/ \E c \in Clients : Connects(c) \/ Leaves(c) \/ Sends(c) \/ Pings(c)
  BY DEF Next, Run, QuietStep, QuietRun

LEMMA ListenerStep ==
  ASSUME NEW c \in Clients, Connects(c) \/ Leaves(c) \/ Sends(c) \/ Pings(c)
  PROVE UNCHANGED <<wf, status, logged, flag, stale, runVars, call, aired>>
<1>1. ASSUME NEW phase, NEW queue_, NEW last, Changed(c, phase, queue_, last)
      PROVE UNCHANGED <<wf, status, logged, flag, stale, runVars, call, aired>>
  BY <1>1 DEF Changed
<1> QED BY <1>1 DEF Connects, Leaves, Sends, Pings, Changed

LEMMA HeardStep ==
  ASSUME TypeOK, [Next]_vars
  PROVE /\ clients' \in ClientsType /\ aired' \in EventType
        /\ \A c \in Clients : Heard(c)' \subseteq Heard(c) \cup {Silence, aired'}
<1>1. clients \in ClientsType /\ aired \in EventType /\ verdict \in Ends \cup {"none"}
  BY DEF TypeOK, ClientsType
<1>2. ASSUME UNCHANGED <<aired, clients>>
      PROVE /\ clients' \in ClientsType /\ aired' \in EventType
            /\ \A c \in Clients : Heard(c)' \subseteq Heard(c) \cup {Silence, aired'}
  BY <1>1, <1>2 DEF Heard, ToSet
<1>3. ASSUME NEW STATE e, e \in EventType, Broadcast(e)
      PROVE /\ clients' \in ClientsType /\ aired' \in EventType
            /\ \A c \in Clients : Heard(c)' \subseteq Heard(c) \cup {Silence, aired'}
  BY <1>1, <1>3, BroadcastHeard
<1>4. step \in Nat
  BY LenProperties DEF TypeOK, step
<1>5. CASE StepBegins
  <2>1. [type |-> "step_start", step |-> step + 1, status |-> "none"] \in EventType
    BY <1>4 DEF EventType
  <2> QED BY <1>3, <1>5, <2>1 DEF StepBegins
<1>6. CASE ExceptSays
  <2>1. [type |-> "error", step |-> 0, status |-> "none"] \in EventType
    BY DEF EventType
  <2> QED BY <1>3, <1>6, <2>1 DEF ExceptSays
<1>7. CASE StepCompletes
  BY <1>3, <1>7, EventTyped DEF StepCompletes
<1>8. CASE SayError
  BY <1>3, <1>8, EventTyped DEF SayError
<1>9. CASE SayFinal
  BY <1>1, <1>3, <1>9, EventTyped DEF SayFinal
<1>10. CASE QuietStep
  BY <1>2, <1>10, QuietStepIsQuiet
<1>11. ASSUME NEW c \in Clients, Connects(c) \/ Leaves(c) \/ Sends(c) \/ Pings(c)
       PROVE /\ clients' \in ClientsType /\ aired' \in EventType
             /\ \A d \in Clients : Heard(d)' \subseteq Heard(d) \cup {Silence, aired'}
  BY <1>1, <1>11, ListenerHeard, ListenerStep
<1>12. CASE UNCHANGED vars
  BY <1>2, <1>12 DEF vars
<1> QED BY <1>5, <1>6, <1>7, <1>8, <1>9, <1>10, <1>11, <1>12, NextCases

----------------------------------------------------------------------------
(* The run                                                                 *)

(* The part of TypeOK about the run and its row.                           *)
RunTypeOK ==
    /\ status \in {"pending", "running"} \cup Ends
    /\ flag \in BOOLEAN /\ stale \in {"no", "read", "wrote"}
    /\ pc \in {"idle", "load", "claim", "pop", "budget", "call", "connectorFailed",
               "logged", "error", "errorOnly", "reread", "final", "except",
               "exceptError", "exceptFinal"} \cup Over
    /\ iter \in Nat /\ verdict \in Ends \cup {"none"}

LEMMA RunTypesStep == RunTypeOK /\ [Next]_vars => RunTypeOK'
<1> SUFFICES ASSUME RunTypeOK, [Next]_vars PROVE RunTypeOK'
  OBVIOUS
<1> USE DEF RunTypeOK, Over, Ends
<1>1. CASE UNCHANGED vars
  BY <1>1 DEF vars, runVars
<1>2. ASSUME NEW c \in Clients, Connects(c) \/ Leaves(c) \/ Sends(c) \/ Pings(c)
      PROVE RunTypeOK'
  BY <1>2, ListenerStep DEF runVars
<1>3. CASE RunStarts \/ LoadRefused \/ LoadRaises \/ LoadAccepted \/ Claim
  BY <1>3 DEF RunStarts, LoadRefused, LoadRaises, LoadAccepted, Claim, Settle
<1>4. CASE IterationsExceeded \/ CancelSeen \/ StepBegins
  BY <1>4 DEF IterationsExceeded, CancelSeen, StepBegins, Settle, Pop
<1>5. CASE BudgetUsed \/ BudgetLeft \/ InCall
  BY <1>5 DEF BudgetUsed, BudgetLeft, InCall, Settle, runVars
<1>6. CASE CallFailed \/ ConnectorFails \/ StepLogged \/ ChargeRefused \/ StepCompletes
  BY <1>6 DEF CallFailed, ConnectorFails, StepLogged, ChargeRefused, StepCompletes, Settle
<1>7. CASE Completes \/ SayError \/ Reread \/ SayFinal \/ Except \/ ExceptSays
  BY <1>7 DEF Completes, SayError, Reread, SayFinal, Except, ExceptSays, Settle
<1>8. CASE DatabaseFails \/ RequestCancel \/ CancelReads \/ CancelWrites
  BY <1>8 DEF DatabaseFails, RequestCancel, CancelReads, CancelWrites, runVars
<1> QED BY <1>1, <1>2, <1>3, <1>4, <1>5, <1>6, <1>7, <1>8 DEF Next, Run

LEMMA CallsStep == CallFits /\ [Next]_vars => CallFits'
<1> SUFFICES ASSUME CallFits, [Next]_vars PROVE CallFits'
  OBVIOUS
<1>1. CASE UNCHANGED call
  BY <1>1 DEF CallFits
<1>2. CASE call' = Idle
  <2>1. Idle.at = "idle" /\ Idle.tries = 0
    BY DEF Idle
  <2> QED BY <1>2, <2>1, CallBegins DEF CallFits
<1>3. CASE AgentBegins
  <2>1. PICK n \in 0..MaxTools : call' = [Idle EXCEPT !.at = "tools", !.tools = n]
    BY <1>3 DEF AgentBegins
  <2>2. call'.at = "tools" /\ call'.tries = 0
    BY <2>1 DEF Idle
  <2> QED BY <2>1, <2>2, CallBegins DEF CallFits
<1>4. CASE ConnectorBegins
  <2>1. call'.at = "check" /\ call'.tries = 0
    BY <1>4 DEF ConnectorBegins, Idle
  <2> QED BY <1>4, <2>1, CallBegins DEF CallFits, ConnectorBegins
<1>5. CASE CallStep
  BY <1>5, CallStepFits
<1>6. CASE UNCHANGED vars
  BY <1>1, <1>6 DEF vars
<1>7. ASSUME NEW c \in Clients, Connects(c) \/ Leaves(c) \/ Sends(c) \/ Pings(c)
      PROVE UNCHANGED call
  BY <1>7, ListenerStep
<1>8. ASSUME Run
      PROVE UNCHANGED call \/ call' = Idle \/ AgentBegins \/ ConnectorBegins \/ CallStep
  BY <1>8 DEF Run, RunStarts, LoadRefused, LoadRaises, LoadAccepted, Claim,
     IterationsExceeded, CancelSeen, StepBegins, BudgetUsed, BudgetLeft, InCall, CallFailed,
     ConnectorFails, StepLogged, ChargeRefused, StepCompletes, Completes, SayError, Reread,
     SayFinal, Except, ExceptSays
<1>9. ASSUME DatabaseFails \/ RequestCancel \/ CancelReads \/ CancelWrites
      PROVE UNCHANGED call \/ call' = Idle
  BY <1>9 DEF DatabaseFails, RequestCancel, CancelReads, CancelWrites
<1> QED BY <1>1, <1>2, <1>3, <1>4, <1>5, <1>6, <1>7, <1>8, <1>9 DEF Next

RanType == ran \in Seq(ToSet(ran))

(* Only StepBegins starts a step; the others keep what has run.            *)
LEMMA RanStep ==
  ASSUME RanType, [Next]_vars
  PROVE /\ RanType' /\ step \in Nat /\ step' \in Nat
        /\ StepBegins => step' = step + 1
        /\ StepBegins \/ UNCHANGED ran
<1>1. step \in Nat
  BY LenProperties DEF RanType, step
<1>2. CASE StepBegins
  <2> DEFINE n == Head(queue)
             S == ToSet(ran) \cup {n}
  <2>1. ran' = Append(ran, n)
    BY <1>2 DEF StepBegins
  <2>2. ran \in Seq(S)
    BY DEF RanType, ToSet
  <2>3. n \in S
    OBVIOUS
  <2> HIDE DEF n, S
  <2>4. ran' \in Seq(S) /\ Len(ran') = Len(ran) + 1
    BY <2>1, <2>2, <2>3, AppendProperties
  <2>5. ran' \in Seq(ToSet(ran'))
    BY <2>4 DEF ToSet
  <2> QED BY <1>1, <1>2, <2>4, <2>5 DEF RanType, ToSet, step
<1>3. CASE UNCHANGED ran
  <2>1. step' = step
    BY <1>3 DEF step
  <2>2. ASSUME StepBegins PROVE FALSE
    <3> DEFINE n == Head(queue)
               S == ToSet(ran) \cup {n}
    <3>1. ran' = Append(ran, n)
      BY <2>2 DEF StepBegins
    <3>2. ran \in Seq(S) /\ n \in S
      BY DEF RanType, ToSet
    <3> HIDE DEF n, S
    <3>3. Len(ran') = Len(ran) + 1
      BY <3>1, <3>2, AppendProperties
    <3> QED BY <1>1, <1>3, <3>3 DEF step
  <2> QED BY <1>1, <1>3, <2>1, <2>2 DEF RanType, ToSet
<1>4. ASSUME NEW c \in Clients, Connects(c) \/ Leaves(c) \/ Sends(c) \/ Pings(c)
      PROVE UNCHANGED ran
  BY <1>4, ListenerStep DEF runVars
<1>5. ASSUME QuietStep PROVE UNCHANGED ran
  BY <1>5 DEF QuietStep, QuietRun, RunStarts, LoadRefused, LoadRaises, LoadAccepted, Claim,
     IterationsExceeded, CancelSeen, BudgetUsed, BudgetLeft, InCall, CallFailed,
     ConnectorFails, StepLogged, ChargeRefused, Completes, Reread, Except, DatabaseFails,
     RequestCancel, CancelReads, CancelWrites, runVars
<1>6. ASSUME StepCompletes \/ SayError \/ SayFinal \/ ExceptSays PROVE UNCHANGED ran
  BY <1>6 DEF StepCompletes, SayError, SayFinal, ExceptSays
<1>7. ASSUME UNCHANGED vars PROVE UNCHANGED ran
  BY <1>7 DEF vars, runVars
<1> QED BY <1>2, <1>3, <1>4, <1>5, <1>6, <1>7, NextCases

LEMMA LogStep ==
  ASSUME RanType, RunTypeOK, LogFollows, [Next]_vars
  PROVE LogFollows' /\ logged \subseteq logged'
<1>0. step \in Nat /\ (StepBegins \/ step' = step)
  BY RanStep DEF step
<1> USE DEF LogFollows
<1>1. ASSUME UNCHANGED <<ran, logged>>,
             pc' = pc \/ pc' \in {"error", "errorOnly", "reread", "final", "except", "exceptError",
                                 "exceptFinal", "end", "lost", "dead"}
      PROVE LogFollows' /\ logged \subseteq logged'
  BY <1>1, step' = step DEF step
<1>2. CASE UNCHANGED vars
  BY <1>1, <1>2 DEF vars, runVars
<1>3. ASSUME NEW c \in Clients, Connects(c) \/ Leaves(c) \/ Sends(c) \/ Pings(c)
      PROVE UNCHANGED <<ran, logged, pc>>
  BY <1>3, ListenerStep DEF runVars
<1>4. CASE LoadRefused \/ LoadRaises \/ IterationsExceeded \/ CancelSeen \/ BudgetUsed
           \/ ConnectorFails \/ ChargeRefused
  BY <1>1, <1>4 DEF LoadRefused, LoadRaises, IterationsExceeded, CancelSeen, BudgetUsed,
     ConnectorFails, ChargeRefused, Settle, Pop
<1>5. CASE Completes \/ SayError \/ Reread \/ SayFinal \/ Except \/ ExceptSays
  BY <1>1, <1>5 DEF Completes, SayError, Reread, SayFinal, Except, ExceptSays, Settle
<1>6. CASE DatabaseFails \/ RequestCancel \/ CancelReads \/ CancelWrites \/ InCall
  BY <1>1, <1>6 DEF DatabaseFails, RequestCancel, CancelReads, CancelWrites, InCall, runVars
<1>7. CASE RunStarts \/ LoadAccepted \/ Claim \/ StepCompletes \/ BudgetLeft
  <2>1. UNCHANGED <<ran, logged>> /\ step' = step
    BY <1>7 DEF RunStarts, LoadAccepted, Claim, StepCompletes, BudgetLeft, step
  <2>2. \/ pc \in {"idle", "load", "claim"} /\ pc' \in {"load", "claim", "pop", "lost"}
        \/ pc = "logged" /\ pc' = "pop"
        \/ pc = "budget" /\ pc' = "call"
    BY <1>7 DEF RunStarts, LoadAccepted, Claim, StepCompletes, BudgetLeft
  <2> QED BY <1>0, <2>1, <2>2
<1>8. CASE StepBegins
  <2>1. /\ step' = step + 1 /\ logged' = logged /\ logged = 1..step
        /\ pc' \in {"budget", "call"}
    BY <1>8, RanStep DEF StepBegins, Pop
  <2>2. logged' = 1..(step' - 1) /\ step' \in Nat \ {0}
    BY <1>0, <2>1
  <2> QED BY <2>1, <2>2
<1>9. CASE CallFailed \/ StepLogged
  <2>1. /\ UNCHANGED ran /\ step' = step /\ pc = "call"
        /\ \/ logged' = logged /\ pc' = "error"
           \/ logged' = logged \cup {step} /\ pc' \in {"logged", "connectorFailed"}
    BY <1>9 DEF CallFailed, StepLogged, Settle, step
  <2>2. logged = 1..(step - 1) /\ step \in Nat \ {0}
    BY <2>1
  <2>3. 1..(step - 1) \cup {step} = 1..step
    BY <2>2
  <2> QED BY <2>1, <2>2, <2>3
<1> QED BY <1>1, <1>2, <1>3, <1>4, <1>5, <1>6, <1>7, <1>8, <1>9 DEF Next, Run

LEMMA WorkflowStays == [Next]_vars => UNCHANGED wf
<1>1. ASSUME StepBegins \/ StepCompletes \/ SayError \/ SayFinal \/ ExceptSays
      PROVE UNCHANGED wf
  BY <1>1 DEF StepBegins, StepCompletes, SayError, SayFinal, ExceptSays, Pop
<1> QED BY <1>1, NextCases, QuietStepIsQuiet, ListenerStep DEF vars

LEMMA BoundStep ==
  ASSUME RanType, RunTypeOK, StepsBounded, [Next]_vars
  PROVE StepsBounded'
<1>0. /\ step \in Nat /\ step' \in Nat /\ iter \in Nat
      /\ StepBegins \/ step' = step
  BY RanStep DEF step, RunTypeOK
<1>1. wf' = wf
  BY WorkflowStays
<1>2. CASE StepBegins
  <2>1. step' = step + 1 /\ iter' = iter + 1
    BY <1>2, RanStep DEF StepBegins, Pop
  <2>2. wf.cyclic => iter + 1 <= MaxIterations
    <3>1. ~AtLimit
      BY <1>2 DEF StepBegins
    <3> QED BY <1>0, <3>1, WalkAssumption DEF AtLimit, WalkAssumption
  <2> QED BY <1>0, <1>1, <2>1, <2>2, WalkAssumption DEF StepsBounded, WalkAssumption
<1>3. ASSUME iter' = iter \/ iter' = iter + 1, step' = step PROVE StepsBounded'
  BY <1>0, <1>1, <1>3 DEF StepsBounded
<1>4. ASSUME NEW c \in Clients, Connects(c) \/ Leaves(c) \/ Sends(c) \/ Pings(c)
      PROVE iter' = iter
  BY <1>4, ListenerStep DEF runVars
<1>5. ASSUME QuietStep PROVE iter' = iter \/ iter' = iter + 1
  BY <1>5 DEF QuietStep, QuietRun, RunStarts, LoadRefused, LoadRaises, LoadAccepted, Claim,
     IterationsExceeded, CancelSeen, BudgetUsed, BudgetLeft, InCall, CallFailed,
     ConnectorFails, StepLogged, ChargeRefused, Completes, Reread, Except, DatabaseFails,
     RequestCancel, CancelReads, CancelWrites, runVars, Pop
<1>6. ASSUME StepCompletes \/ SayError \/ SayFinal \/ ExceptSays PROVE iter' = iter
  BY <1>6 DEF StepCompletes, SayError, SayFinal, ExceptSays
<1>7. ASSUME UNCHANGED vars PROVE iter' = iter
  BY <1>7 DEF vars, runVars
<1> QED BY <1>0, <1>2, <1>3, <1>4, <1>5, <1>6, <1>7, NextCases

LEMMA VerdictStep ==
  ASSUME VerdictIsTrue, [Next]_vars
  PROVE VerdictIsTrue'
<1> USE DEF VerdictIsTrue, Announcing, Over
<1>1. CASE UNCHANGED vars
  BY <1>1 DEF vars, runVars
<1>2. ASSUME NEW c \in Clients, Connects(c) \/ Leaves(c) \/ Sends(c) \/ Pings(c)
      PROVE VerdictIsTrue'
  BY <1>2, ListenerStep DEF runVars
<1>3. CASE RunStarts \/ LoadRefused \/ LoadRaises \/ LoadAccepted \/ Claim
  BY <1>3 DEF RunStarts, LoadRefused, LoadRaises, LoadAccepted, Claim, Settle
<1>4. CASE IterationsExceeded \/ CancelSeen \/ StepBegins
  BY <1>4 DEF IterationsExceeded, CancelSeen, StepBegins, Settle, Pop
<1>5. CASE BudgetUsed \/ BudgetLeft \/ InCall
  BY <1>5 DEF BudgetUsed, BudgetLeft, InCall, Settle, runVars
<1>6. CASE CallFailed \/ ConnectorFails \/ StepLogged \/ ChargeRefused \/ StepCompletes
  BY <1>6 DEF CallFailed, ConnectorFails, StepLogged, ChargeRefused, StepCompletes, Settle
<1>7. CASE Completes \/ SayError \/ Reread \/ SayFinal \/ Except \/ ExceptSays
  BY <1>7 DEF Completes, SayError, Reread, SayFinal, Except, ExceptSays, Settle
<1>8. CASE DatabaseFails \/ RequestCancel \/ CancelReads \/ CancelWrites
  BY <1>8 DEF DatabaseFails, RequestCancel, CancelReads, CancelWrites, runVars
<1> QED BY <1>1, <1>2, <1>3, <1>4, <1>5, <1>6, <1>7, <1>8 DEF Next, Run

(* Every step says what the contract of the stream allows, or nothing.     *)
ContractStep ==
    \/ Contract!Begin \/ Contract!Finish \/ Contract!Complain \/ Contract!End
    \/ UNCHANGED <<aired.type, step>>

LEMMA StreamStep ==
  ASSUME RanType, RunTypeOK, StreamFits, [Next]_vars
  PROVE StreamFits' /\ ContractStep
<1> USE DEF StreamFits
<1>0. StepBegins \/ step' = step
  BY RanStep DEF step
<1>1. CASE UNCHANGED vars
  BY <1>1 DEF vars, runVars, ContractStep, step
<1>2. ASSUME NEW c \in Clients, Connects(c) \/ Leaves(c) \/ Sends(c) \/ Pings(c)
      PROVE StreamFits' /\ ContractStep
  BY <1>2, ListenerStep DEF runVars, ContractStep, step
<1>3. CASE QuietStep
  <2>1. UNCHANGED <<aired.type, step>>
    BY <1>3, QuietStepIsQuiet, <1>0 DEF QuietStep, QuietRun, RunStarts, LoadRefused,
       LoadRaises, LoadAccepted, Claim, IterationsExceeded, CancelSeen, BudgetUsed, BudgetLeft,
       InCall, CallFailed, ConnectorFails, StepLogged, ChargeRefused, Completes, Reread, Except,
       DatabaseFails, RequestCancel, CancelReads, CancelWrites, runVars, step
  <2>c. ContractStep
    BY <2>1 DEF ContractStep
  <2>2. CASE RunStarts \/ LoadRefused \/ LoadRaises \/ LoadAccepted \/ Claim
    BY <2>1, <2>c, <2>2 DEF RunStarts, LoadRefused, LoadRaises, LoadAccepted, Claim, Settle
  <2>3. CASE IterationsExceeded \/ CancelSeen
    BY <2>1, <2>c, <2>3 DEF IterationsExceeded, CancelSeen, Settle, Pop
  <2>4. CASE BudgetUsed \/ BudgetLeft \/ InCall
    BY <2>1, <2>c, <2>4 DEF BudgetUsed, BudgetLeft, InCall, Settle, runVars
  <2>5. CASE CallFailed \/ ConnectorFails \/ StepLogged \/ ChargeRefused
    BY <2>1, <2>c, <2>5 DEF CallFailed, ConnectorFails, StepLogged, ChargeRefused, Settle
  <2>6. CASE Completes \/ Reread \/ Except
    BY <2>1, <2>c, <2>6 DEF Completes, Reread, Except, Settle
  <2>7. CASE DatabaseFails \/ RequestCancel \/ CancelReads \/ CancelWrites
    BY <2>1, <2>c, <2>7 DEF DatabaseFails, RequestCancel, CancelReads, CancelWrites, runVars
  <2> QED BY <1>3, <2>1, <2>2, <2>3, <2>4, <2>5, <2>6, <2>7
          DEF QuietStep, QuietRun, ContractStep
<1>4. CASE StepBegins
  <2>1. /\ step' = step + 1 /\ aired'.type = "step_start"
        /\ pc = "pop" /\ pc' \in {"budget", "call"}
    BY <1>4, RanStep DEF StepBegins, Broadcast
  <2>2. Contract!Begin
    BY <2>1 DEF Contract!Begin
  <2> QED BY <2>1, <2>2 DEF ContractStep
<1>5. CASE StepCompletes
  <2>1. /\ step' = step /\ aired'.type = "step_complete"
        /\ pc = "logged" /\ pc' = "pop"
    BY <1>5 DEF StepCompletes, Broadcast, Event, step
  <2>2. Contract!Finish
    BY <2>1 DEF Contract!Finish
  <2> QED BY <2>1, <2>2 DEF ContractStep
<1>6. CASE SayError \/ ExceptSays
  <2>1. /\ step' = step /\ aired'.type = "error" /\ pc # "end"
        /\ pc' \in {"reread", "final", "exceptFinal"}
    BY <1>6 DEF SayError, ExceptSays, Broadcast, Event, step
  <2>2. Contract!Complain
    BY <2>1 DEF Contract!Complain
  <2> QED BY <2>1, <2>2 DEF ContractStep
<1>7. CASE SayFinal
  <2>1. /\ step' = step /\ aired'.type = "execution_complete"
        /\ pc \in {"final", "exceptFinal"} /\ pc' = "end"
    BY <1>7 DEF SayFinal, Broadcast, Event, step
  <2>2. Contract!End
    BY <2>1 DEF Contract!End
  <2> QED BY <2>1, <2>2 DEF ContractStep
<1> QED BY <1>1, <1>2, <1>3, <1>4, <1>5, <1>6, <1>7, NextCases

LEMMA EventsStep ==
  ASSUME TypeOK, RunTypeOK, RanType, LogFollows, EventsHold, [Next]_vars
  PROVE EventsHold'
<1>1. logged \subseteq logged'
  BY LogStep
<1>2. pc = "end" => pc' = "end" /\ verdict' = verdict
  <2>1. CASE UNCHANGED vars
    BY <2>1 DEF vars, runVars
  <2>2. ASSUME Run PROVE pc # "end"
    BY <2>2 DEF Run, RunStarts, LoadRefused, LoadRaises, LoadAccepted, Claim,
     IterationsExceeded, CancelSeen, StepBegins, BudgetUsed, BudgetLeft, InCall, CallFailed,
     ConnectorFails, StepLogged, ChargeRefused, StepCompletes, Completes, SayError, Reread,
     SayFinal, Except, ExceptSays
  <2>3. ASSUME DatabaseFails PROVE pc # "end"
    BY <2>3 DEF DatabaseFails
  <2>4. ASSUME RequestCancel \/ CancelReads \/ CancelWrites PROVE UNCHANGED runVars
    BY <2>4 DEF RequestCancel, CancelReads, CancelWrites
  <2> QED BY <2>1, <2>2, <2>3, <2>4, ListenerStep DEF Next, runVars
<1>3. ASSUME NEW e, Holds(e) PROVE Holds(e)'
  BY <1>1, <1>2, <1>3 DEF Holds
<1>4. Holds(aired)'
  <2>1. CASE UNCHANGED aired
    BY <1>1, <1>2, <2>1 DEF Holds, EventsHold
  <2>2. CASE StepBegins \/ SayError \/ ExceptSays
    BY <2>2 DEF StepBegins, SayError, ExceptSays, Broadcast, Event, Holds
  <2>3. CASE StepCompletes
    <3>1. aired' = Event("step_complete", "none") /\ pc = "logged" /\ UNCHANGED logged
      BY <2>3 DEF StepCompletes, Broadcast
    <3>2. aired'.type = "step_complete" /\ aired'.step = step /\ logged' = 1..step
      BY <3>1 DEF Event, LogFollows
    <3> QED BY <3>2 DEF Holds
  <2>4. CASE SayFinal
    BY <2>4 DEF SayFinal, Broadcast, Event, Holds
  <2> QED BY <2>1, <2>2, <2>3, <2>4, NextCases, QuietStepIsQuiet, ListenerStep DEF vars
<1>5. Holds(Silence)'
  BY DEF Holds, Silence
<1>6. ASSUME NEW c \in Clients, NEW e \in Heard(c)' PROVE Holds(e)'
  <2>1. e \in Heard(c) \cup {Silence, aired'}
    BY HeardStep
  <2>2. CASE e \in Heard(c)
    BY <1>3, <2>2 DEF EventsHold
  <2>3. CASE e = aired'
    BY <1>4, <2>3 DEF Holds
  <2> QED BY <1>5, <2>1, <2>2, <2>3 DEF Holds, Silence
<1> QED BY <1>4, <1>6 DEF EventsHold

----------------------------------------------------------------------------
(* Numbers                                                                 *)

(* Every set of numbers has a least one.  Induction over numbers is by     *)
(* this fact: the set is that of the counterexamples.                      *)
LEMMA LeastNumber ==
  ASSUME NEW T \in SUBSET Nat, T # {}
  PROVE  \E x \in T : \A y \in T : x <= y
<1>1. PICK x \in T : \A y \in T : <<y, x>> \notin OpToRel(<, Nat)
  BY NatLessThanWellFounded, WFMin
<1>2. \A y \in T : ~(y < x)
  BY <1>1 DEF OpToRel
<1> QED BY <1>2

(* A set of numbers with 0 and, with a number below n, its successor.      *)
LEMMA UpTo ==
  ASSUME NEW n \in Nat, NEW G, 0 \in G,
         \A i \in 0..n : i # 0 /\ i - 1 \in G => i \in G
  PROVE  \A i \in 0..n : i \in G
<1> DEFINE T == {i \in 0..n : i \notin G}
<1> SUFFICES ASSUME T # {} PROVE FALSE
  OBVIOUS
<1>1. T \in SUBSET Nat
  OBVIOUS
<1>2. PICK x \in T : \A y \in T : x <= y
  <2> HIDE DEF T
  <2> QED BY <1>1, LeastNumber
<1>3. x # 0 /\ x \in 0..n /\ x - 1 \in 0..n
  BY <1>2
<1>4. x - 1 \in G
  BY <1>2, <1>3
<1> QED BY <1>2, <1>3, <1>4

LEMMA Induction ==
  ASSUME NEW G, 0 \in G, \A n \in Nat : n # 0 /\ n - 1 \in G => n \in G
  PROVE  \A n \in Nat : n \in G
<1> SUFFICES ASSUME NEW n \in Nat PROVE n \in G
  OBVIOUS
<1>1. \A i \in 0..n : i # 0 /\ i - 1 \in G => i \in G
  OBVIOUS
<1> QED BY <1>1, UpTo

----------------------------------------------------------------------------
(* Keep                                                                    *)

KeepStep(seq, S, prev, i) == IF seq[i] \in S THEN Append(prev, seq[i]) ELSE prev
KeptFits(g, seq, S) ==
   g = [i \in 0..Len(seq) |-> IF i = 0 THEN <<>> ELSE KeepStep(seq, S, g[i - 1], i)]

LEMMA KeepIsDefined ==
  ASSUME NEW A, NEW seq \in Seq(A), NEW S
  PROVE  \E g : KeptFits(g, seq, S) /\ Keep(seq, S) = g[Len(seq)]
<1> DEFINE Body(g, i) == IF i = 0 THEN <<>> ELSE KeepStep(seq, S, g[i - 1], i)
           G == {n \in Nat : \E g : g = [i \in 0..n |-> Body(g, i)]}
<1>1. 0 \in G
  <2>1. [i \in 0..0 |-> <<>>] = [i \in 0..0 |-> Body([j \in 0..0 |-> <<>>], i)]
    OBVIOUS
  <2> QED BY <2>1
<1>2. ASSUME NEW n \in Nat, n # 0, n - 1 \in G
      PROVE  n \in G
  <2>1. PICK g : g = [i \in 0..(n - 1) |-> Body(g, i)]
    BY <1>2
  <2> DEFINE h == [i \in 0..n |-> IF i = n THEN KeepStep(seq, S, g[n - 1], n) ELSE g[i]]
  <2>2. ASSUME NEW i \in 0..n
        PROVE  h[i] = Body(h, i)
    <3>1. CASE i = n
      BY <1>2, <3>1
    <3>2. CASE i # n
      <4>1. i \in 0..(n - 1) /\ (i # 0 => i - 1 \in 0..n /\ i - 1 # n)
        BY <1>2, <3>2
      <4>2. h[i] = g[i] /\ g[i] = Body(g, i)
        BY <2>1, <3>2, <4>1
      <4>3. i # 0 => h[i - 1] = g[i - 1]
        BY <4>1
      <4> QED BY <4>2, <4>3
    <3> QED BY <3>1, <3>2
  <2>3. h = [i \in 0..n |-> Body(h, i)]
    BY <2>2
  <2> QED BY <1>2, <2>3
<1>3. \A n \in Nat : n \in G
  <2> HIDE DEF G
  <2> QED BY <1>1, <1>2, Induction
<1>4. \E g : KeptFits(g, seq, S)
  <2>1. Len(seq) \in G
    <3>1. Len(seq) \in Nat
      OBVIOUS
    <3> QED BY <1>3, <3>1
  <2> QED BY <2>1 DEF KeptFits
<1> QED BY <1>4 DEF Keep, KeptFits, KeepStep

Once(seq) == \A i, j \in 1..Len(seq) : seq[i] = seq[j] => i = j

LEMMA AppendOnce ==
  ASSUME NEW A, NEW seq \in Seq(A), NEW x \in A
  PROVE  /\ Append(seq, x) \in Seq(A)
         /\ ToSet(Append(seq, x)) = ToSet(seq) \cup {x}
         /\ Once(seq) /\ x \notin ToSet(seq) => Once(Append(seq, x))
<1>1. /\ Append(seq, x) \in Seq(A) /\ Len(Append(seq, x)) = Len(seq) + 1 /\ Len(seq) \in Nat
      /\ DOMAIN Append(seq, x) = 1..(Len(seq) + 1) /\ DOMAIN seq = 1..Len(seq)
      /\ \A i \in 1..Len(seq) : Append(seq, x)[i] = seq[i]
      /\ Append(seq, x)[Len(seq) + 1] = x
  OBVIOUS
<1>2. \A i \in 1..(Len(seq) + 1) : i \in 1..Len(seq) \/ i = Len(seq) + 1
  BY <1>1
<1>3. ToSet(Append(seq, x)) = ToSet(seq) \cup {x}
  BY <1>1, <1>2 DEF ToSet
<1>4. ASSUME Once(seq), x \notin ToSet(seq) PROVE Once(Append(seq, x))
  BY <1>1, <1>2, <1>4 DEF ToSet, Once
<1> QED BY <1>1, <1>3, <1>4

LEMMA Members ==
  ASSUME NEW A, NEW seq \in Seq(A)
  PROVE  /\ Len(seq) \in Nat /\ DOMAIN seq = 1..Len(seq)
         /\ \A x : x \in ToSet(seq) <=> \E i \in 1..Len(seq) : seq[i] = x
         /\ \A i \in 1..Len(seq) : seq[i] \in ToSet(seq)
         /\ ToSet(seq) \subseteq A
<1>1. Len(seq) \in Nat /\ DOMAIN seq = 1..Len(seq) /\ \A i \in 1..Len(seq) : seq[i] \in A
  OBVIOUS
<1> QED BY <1>1 DEF ToSet

(* A sequence without its head.                                            *)
LEMMA TailOnce ==
  ASSUME NEW A, NEW seq \in Seq(A), seq # <<>>, Once(seq)
  PROVE  /\ Head(seq) \in ToSet(seq) /\ Head(seq) \in A
         /\ Tail(seq) \in Seq(A) /\ Once(Tail(seq))
         /\ ToSet(Tail(seq)) = ToSet(seq) \ {Head(seq)}
<1> DEFINE h == Head(seq)
           t == Tail(seq)
<1>1. /\ Len(seq) \in Nat \ {0} /\ t \in Seq(A) /\ Len(t) = Len(seq) - 1
      /\ h = seq[1] /\ h \in A
      /\ \A i \in 1..(Len(seq) - 1) : t[i] = seq[i + 1] /\ i + 1 \in 1..Len(seq)
  OBVIOUS
<1> HIDE DEF h, t
<1>2. h \in ToSet(seq)
  BY <1>1, Members
<1>3. Once(t)
  BY <1>1 DEF Once
<1>4. h \notin ToSet(t)
  <2> SUFFICES ASSUME NEW i \in 1..(Len(seq) - 1), t[i] = h PROVE FALSE
    BY <1>1, Members
  <2>1. seq[i + 1] = seq[1] /\ i + 1 \in 1..Len(seq) /\ 1 \in 1..Len(seq) /\ i + 1 # 1
    BY <1>1
  <2> QED BY <2>1 DEF Once
<1>5. ASSUME NEW x \in ToSet(t) PROVE x \in ToSet(seq)
  <2>1. PICK i \in 1..(Len(seq) - 1) : t[i] = x
    BY <1>1, Members
  <2> QED BY <1>1, <2>1, Members
<1>6. ASSUME NEW x \in ToSet(seq), x # h PROVE x \in ToSet(t)
  <2>1. PICK i \in 1..Len(seq) : seq[i] = x
    BY Members
  <2>2. i # 1 /\ i - 1 \in 1..(Len(seq) - 1) /\ (i - 1) + 1 = i
    BY <1>1, <1>6, <2>1
  <2>3. t[i - 1] = x /\ i - 1 \in 1..Len(t)
    BY <1>1, <2>1, <2>2
  <2> QED BY <1>1, <2>3, Members
<1>7. ToSet(t) = ToSet(seq) \ {h}
  BY <1>4, <1>5, <1>6
<1> QED BY <1>1, <1>2, <1>3, <1>7 DEF h, t

(* Keep keeps the elements in S, once each.                                *)
LEMMA KeepKeeps ==
  ASSUME NEW A, NEW seq \in Seq(A), NEW S, Once(seq)
  PROVE  /\ Keep(seq, S) \in Seq(A)
         /\ ToSet(Keep(seq, S)) = ToSet(seq) \cap S
         /\ Once(Keep(seq, S))
<1> DEFINE n == Len(seq)
<1>1. PICK g : KeptFits(g, seq, S) /\ Keep(seq, S) = g[n]
  BY KeepIsDefined
<1> DEFINE Fits(i) == /\ g[i] \in Seq(A) /\ Once(g[i])
                      /\ ToSet(g[i]) = {seq[j] : j \in 1..i} \cap S
           G == {i \in 0..n : Fits(i)}
<1>2. n \in Nat /\ 0 \in 0..n /\ DOMAIN seq = 1..n /\ \A i \in 1..n : seq[i] \in A
  OBVIOUS
<1>3. Fits(0)
  <2>1. g[0] = <<>>
    BY <1>1, <1>2 DEF KeptFits
  <2> QED BY <2>1 DEF Once, ToSet
<1>4. ASSUME NEW i \in 0..n, i # 0, Fits(i - 1)
      PROVE  Fits(i)
  <2>1. g[i] = KeepStep(seq, S, g[i - 1], i)
    BY <1>1, <1>4 DEF KeptFits
  <2>2. i \in 1..n /\ i - 1 \in 0..n /\ {seq[j] : j \in 1..i} = {seq[j] : j \in 1..(i - 1)} \cup {seq[i]}
    <3>1. i \in 1..n /\ i - 1 \in 0..n
      BY <1>2, <1>4
    <3>2. 1..i = (1..(i - 1)) \cup {i}
      BY <1>4, <3>1
    <3> QED BY <3>1, <3>2
  <2>3. seq[i] \notin {seq[j] : j \in 1..(i - 1)}
    BY <2>2 DEF Once
  <2>4. CASE seq[i] \in S
    <3>1. g[i] = Append(g[i - 1], seq[i]) /\ seq[i] \notin ToSet(g[i - 1]) /\ seq[i] \in A
      BY <1>2, <1>4, <2>1, <2>2, <2>3, <2>4 DEF KeepStep
    <3> QED BY <1>4, <2>2, <2>4, <3>1, AppendOnce
  <2>5. CASE seq[i] \notin S
    BY <1>4, <2>1, <2>2, <2>5 DEF KeepStep
  <2> QED BY <2>4, <2>5
<1>5. n \in G
  <2>1. 0 \in G /\ \A i \in 0..n : i # 0 /\ i - 1 \in G => i \in G
    BY <1>2, <1>3, <1>4
  <2> HIDE DEF G, n
  <2>2. \A i \in 0..n : i \in G
    BY <1>2, <2>1, UpTo
  <2> QED BY <1>2, <2>2
<1>6. ToSet(seq) = {seq[j] : j \in 1..n}
  BY <1>2 DEF ToSet
<1> QED BY <1>1, <1>5, <1>6

----------------------------------------------------------------------------
(* Kahn's algorithm                                                        *)

(* A definition that compiles: its nodes are distinct, its edges join them. *)
Sound(d) ==
  /\ d.nodes \in Seq(Ids(d)) /\ Once(d.nodes)
  /\ Len(d.edges) \in Nat /\ DOMAIN d.edges = 1..Len(d.edges)
  /\ \A i \in 1..Len(d.edges) : d.edges[i].source \in Ids(d) /\ d.edges[i].target \in Ids(d)

SourcesFirst(d, seq) ==
  \A k \in 1..Len(d.edges), i \in 1..Len(seq) :
    seq[i] = d.edges[k].target => \E j \in 1..(i - 1) : seq[j] = d.edges[k].source

KahnState(d) == [queue : Seq(Ids(d)), degree : [Ids(d) -> Nat], result : Seq(Ids(d))]

(* Sorted so far: queued and sorted nodes are those without an open edge,  *)
(* and come after their sources.                                           *)
SortedSoFar(d, s) ==
  /\ s \in KahnState(d)
  /\ Once(s.queue) /\ Once(s.result) /\ ToSet(s.queue) \cap ToSet(s.result) = {}
  /\ \A n \in Ids(d) : s.degree[n] = 0 <=> n \in ToSet(s.queue) \cup ToSet(s.result)
  /\ SourcesFirst(d, s.result)

(* The open edges into n, and those left while the i-th of h is relaxed.   *)
Open(d, R, n) == {k \in 1..Len(d.edges) : d.edges[k].target = n /\ d.edges[k].source \notin R}
Left(d, R, h, i, n) ==
  {k \in 1..Len(d.edges) :
     d.edges[k].target = n /\ (d.edges[k].source \notin R \/ (d.edges[k].source = h /\ k > i))}

Counted(d, s) == \A n \in Ids(d) : s.degree[n] = Cardinality(Open(d, ToSet(s.result), n))
CountedUpTo(d, s, h, i) ==
  /\ h \in ToSet(s.result)
  /\ \A n \in Ids(d) : s.degree[n] = Cardinality(Left(d, ToSet(s.result), h, i, n))

LEMMA EdgesAreFinite ==
  ASSUME NEW d, Sound(d), NEW T \in SUBSET (1..Len(d.edges))
  PROVE  IsFiniteSet(T) /\ Cardinality(T) \in Nat
<1>1. IsFiniteSet(1..Len(d.edges))
  <2>1. 1 \in Int /\ Len(d.edges) \in Int
    BY DEF Sound
  <2> QED BY <2>1, FS_Interval
<1> QED BY <1>1, FS_Subset, FS_CardinalityType

LEMMA NoOpenEdge ==
  ASSUME NEW d, Sound(d), NEW T \in SUBSET (1..Len(d.edges))
  PROVE  Cardinality(T) = 0 <=> T = {}
BY EdgesAreFinite, FS_EmptySet

(* Taking the head of the queue.                                           *)
LEMMA TakenFits ==
  ASSUME NEW d, Sound(d), NEW s, SortedSoFar(d, s), Counted(d, s), s.queue # <<>>
  PROVE  /\ SortedSoFar(d, Taken(s)) /\ CountedUpTo(d, Taken(s), Head(s.queue), 0)
         /\ Taken(s).result = Append(s.result, Head(s.queue))
<1> DEFINE h == Head(s.queue)
           t == Taken(s)
<1>1. /\ s.queue \in Seq(Ids(d)) /\ s.result \in Seq(Ids(d)) /\ s.degree \in [Ids(d) -> Nat]
      /\ Once(s.queue) /\ Once(s.result) /\ ToSet(s.queue) \cap ToSet(s.result) = {}
  BY DEF SortedSoFar, KahnState
<1>2. /\ t.queue = Tail(s.queue) /\ t.result = Append(s.result, h) /\ t.degree = s.degree
      /\ t \in [queue : {Tail(s.queue)}, degree : {s.degree}, result : {Append(s.result, h)}]
  BY DEF SortedSoFar, KahnState, Taken
<1>3. /\ h \in ToSet(s.queue) /\ h \in Ids(d)
      /\ Tail(s.queue) \in Seq(Ids(d)) /\ Once(Tail(s.queue))
      /\ ToSet(Tail(s.queue)) = ToSet(s.queue) \ {h}
  BY <1>1, TailOnce
<1>6. /\ Append(s.result, h) \in Seq(Ids(d)) /\ Once(Append(s.result, h))
      /\ ToSet(Append(s.result, h)) = ToSet(s.result) \cup {h}
  BY <1>1, <1>3, AppendOnce
<1>7. ASSUME NEW k \in 1..Len(d.edges), d.edges[k].target = h
      PROVE  d.edges[k].source \in ToSet(s.result)
  <2>1. s.degree[h] = 0 /\ Open(d, ToSet(s.result), h) \in SUBSET (1..Len(d.edges))
    BY <1>3 DEF SortedSoFar, Open
  <2>2. Open(d, ToSet(s.result), h) = {}
    BY <1>3, <2>1, NoOpenEdge DEF Counted
  <2> QED BY <1>7, <2>2 DEF Open
<1>8. SourcesFirst(d, Append(s.result, h))
  <2> SUFFICES ASSUME NEW k \in 1..Len(d.edges), NEW i \in 1..(Len(s.result) + 1),
                      Append(s.result, h)[i] = d.edges[k].target
               PROVE  \E j \in 1..(i - 1) : Append(s.result, h)[j] = d.edges[k].source
    <3>1. Len(Append(s.result, h)) = Len(s.result) + 1
      BY <1>1
    <3> QED BY <3>1 DEF SourcesFirst
  <2>1. Len(s.result) \in Nat /\ \A j \in 1..Len(s.result) : Append(s.result, h)[j] = s.result[j]
    BY <1>1
  <2>2. CASE i \in 1..Len(s.result)
    <3>1. PICK j \in 1..(i - 1) : s.result[j] = d.edges[k].source
      BY <2>1, <2>2 DEF SortedSoFar, SourcesFirst
    <3> QED BY <2>1, <2>2, <3>1
  <2>3. CASE i = Len(s.result) + 1
    <3>1. Append(s.result, h)[i] = h
      BY <1>1, <2>3
    <3>2. PICK j \in 1..Len(s.result) : s.result[j] = d.edges[k].source
      <4>1. d.edges[k].source \in ToSet(s.result)
        BY <1>7, <3>1
      <4>2. s.result \in Seq(Ids(d))
        BY <1>1
      <4>3. \A x \in ToSet(s.result) : \E j \in 1..Len(s.result) : s.result[j] = x
        BY <4>2, Members
      <4> QED BY <4>1, <4>3
    <3>3. j \in 1..(i - 1) /\ Append(s.result, h)[j] = d.edges[k].source
      BY <2>1, <2>3, <3>2
    <3> QED BY <3>3
  <2> QED BY <2>1, <2>2, <2>3
<1>9. SortedSoFar(d, t)
  <2>1. t \in KahnState(d)
    BY <1>1, <1>2, <1>3, <1>6 DEF KahnState
  <2>2. ToSet(t.queue) \cap ToSet(t.result) = {}
    BY <1>1, <1>2, <1>3, <1>6
  <2>3. ToSet(t.queue) \cup ToSet(t.result) = ToSet(s.queue) \cup ToSet(s.result)
    BY <1>2, <1>3, <1>6
  <2>4. \A n \in Ids(d) : t.degree[n] = 0 <=> n \in ToSet(t.queue) \cup ToSet(t.result)
    BY <1>2, <2>3 DEF SortedSoFar
  <2> QED BY <1>2, <1>3, <1>6, <1>8, <2>1, <2>2, <2>4 DEF SortedSoFar
<1>10. CountedUpTo(d, t, h, 0)
  <2>1. \A n : Left(d, ToSet(t.result), h, 0, n) = Open(d, ToSet(s.result), n)
    BY <1>1, <1>2, <1>3, <1>6 DEF Left, Open, Sound
  <2> QED BY <1>2, <1>6, <2>1 DEF Counted, CountedUpTo
<1> QED BY <1>2, <1>9, <1>10

(* Relaxing one edge.                                                      *)
RelaxStep(d, h, i, s) == IF i \in Outgoing(d, h) THEN Relax(s, d.edges[i]) ELSE s

LEMMA RelaxFits ==
  ASSUME NEW d, Sound(d), NEW h, NEW i \in 1..Len(d.edges), NEW s,
         SortedSoFar(d, s), CountedUpTo(d, s, h, i - 1)
  PROVE  /\ SortedSoFar(d, RelaxStep(d, h, i, s)) /\ CountedUpTo(d, RelaxStep(d, h, i, s), h, i)
         /\ RelaxStep(d, h, i, s).result = s.result
<1> DEFINE R == ToSet(s.result)
<1>0. i \in Nat /\ Len(d.edges) \in Nat
  BY DEF Sound
<1>1. CASE d.edges[i].source # h
  <2>1. RelaxStep(d, h, i, s) = s
    BY <1>1 DEF RelaxStep, Outgoing
  <2>2. \A n : Left(d, R, h, i, n) = Left(d, R, h, i - 1, n)
    BY <1>0, <1>1 DEF Left
  <2> QED BY <2>1, <2>2 DEF CountedUpTo
<1>2. CASE d.edges[i].source = h
  <2> DEFINE t == d.edges[i].target
             r == Relax(s, d.edges[i])
  <2>1. RelaxStep(d, h, i, s) = r
    BY <1>2 DEF RelaxStep, Outgoing, Sound
  <2>2. t \in Ids(d) /\ h \in R
    BY DEF Sound, CountedUpTo
  <2>3. /\ Left(d, R, h, i - 1, t) = Left(d, R, h, i, t) \cup {i} /\ i \notin Left(d, R, h, i, t)
        /\ \A n : n # t => Left(d, R, h, i, n) = Left(d, R, h, i - 1, n)
    BY <1>0, <1>2, <2>2 DEF Left
  <2>4. /\ IsFiniteSet(Left(d, R, h, i, t)) /\ Cardinality(Left(d, R, h, i, t)) \in Nat
        /\ Cardinality(Left(d, R, h, i - 1, t)) = Cardinality(Left(d, R, h, i, t)) + 1
    <3> DEFINE T == Left(d, R, h, i, t)
    <3>1. T \in SUBSET (1..Len(d.edges))
      BY DEF Left
    <3>2. Left(d, R, h, i - 1, t) = T \cup {i} /\ i \notin T
      BY <2>3
    <3> HIDE DEF T
    <3>3. IsFiniteSet(T) /\ Cardinality(T) \in Nat
      BY <3>1, EdgesAreFinite
    <3>4. Cardinality(T \cup {i}) = Cardinality(T) + 1
      BY <3>2, <3>3, FS_AddElement
    <3> QED BY <3>2, <3>3, <3>4 DEF T
  <2>5. /\ s.degree[t] - 1 = Cardinality(Left(d, R, h, i, t)) /\ s.degree[t] # 0
    BY <2>2, <2>4 DEF CountedUpTo
  <2>6. /\ s.queue \in Seq(Ids(d)) /\ s.result \in Seq(Ids(d)) /\ s.degree \in [Ids(d) -> Nat]
        /\ Once(s.queue) /\ Once(s.result) /\ ToSet(s.queue) \cap R = {}
    BY DEF SortedSoFar, KahnState
  <2>7. /\ r.degree = [s.degree EXCEPT ![t] = s.degree[t] - 1] /\ r.result = s.result
        /\ r.queue = IF s.degree[t] - 1 = 0 THEN Append(s.queue, t) ELSE s.queue
        /\ r \in [queue : {r.queue}, degree : {r.degree}, result : {r.result}]
    BY DEF Relax, SortedSoFar, KahnState
  <2>8. t \notin ToSet(s.queue) \cup R
    BY <2>2, <2>5 DEF SortedSoFar
  <2>9. /\ r.degree \in [Ids(d) -> Nat] /\ r.degree[t] = s.degree[t] - 1
        /\ \A n \in Ids(d) \ {t} : r.degree[n] = s.degree[n]
    BY <2>2, <2>4, <2>5, <2>6, <2>7
  <2>10. /\ r.queue \in Seq(Ids(d)) /\ Once(r.queue)
         /\ ToSet(r.queue) = ToSet(s.queue) \cup (IF r.degree[t] = 0 THEN {t} ELSE {})
    <3>1. CASE r.degree[t] = 0
      <4>1. r.queue = Append(s.queue, t)
        BY <2>7, <2>9, <3>1
      <4> QED BY <2>2, <2>6, <2>8, <3>1, <4>1, AppendOnce
    <3>2. CASE r.degree[t] # 0
      BY <2>6, <2>7, <2>9, <3>2
    <3> QED BY <3>1, <3>2
  <2>11. SortedSoFar(d, r)
    <3>1. r \in KahnState(d)
      BY <2>6, <2>7, <2>9, <2>10 DEF KahnState
    <3>2. ToSet(r.queue) \cap ToSet(r.result) = {}
      BY <2>6, <2>7, <2>8, <2>10
    <3>3. \A n \in Ids(d) : r.degree[n] = 0 <=> n \in ToSet(r.queue) \cup ToSet(r.result)
      BY <2>7, <2>8, <2>9, <2>10 DEF SortedSoFar
    <3> QED BY <2>6, <2>7, <2>10, <3>1, <3>2, <3>3 DEF SortedSoFar
  <2>12. CountedUpTo(d, r, h, i)
    <3>1. \A n \in Ids(d) : r.degree[n] = Cardinality(Left(d, R, h, i, n))
      BY <2>3, <2>5, <2>9 DEF CountedUpTo
    <3> QED BY <2>2, <2>7, <3>1 DEF CountedUpTo
  <2> QED BY <2>1, <2>7, <2>11, <2>12
<1> QED BY <1>1, <1>2

(* A round: the head of the queue is taken and its edges are relaxed.      *)
RelaxedFits(g, d, s) ==
  g = [i \in 0..Len(d.edges) |->
         IF i = 0 THEN Taken(s) ELSE RelaxStep(d, Head(s.queue), i, g[i - 1])]

LEMMA RoundIsDefined ==
  ASSUME NEW d, Sound(d), NEW s, s.queue # <<>>
  PROVE  \E g : RelaxedFits(g, d, s) /\ Round(d, s) = g[Len(d.edges)]
<1> DEFINE Body(g, i) == IF i = 0 THEN Taken(s) ELSE RelaxStep(d, Head(s.queue), i, g[i - 1])
           G == {n \in Nat : \E g : g = [i \in 0..n |-> Body(g, i)]}
<1>1. 0 \in G
  <2>1. [i \in 0..0 |-> Taken(s)] = [i \in 0..0 |-> Body([j \in 0..0 |-> Taken(s)], i)]
    OBVIOUS
  <2> QED BY <2>1
<1>2. ASSUME NEW n \in Nat, n # 0, n - 1 \in G
      PROVE  n \in G
  <2>1. PICK g : g = [i \in 0..(n - 1) |-> Body(g, i)]
    BY <1>2
  <2> DEFINE h == [i \in 0..n |->
                     IF i = n THEN RelaxStep(d, Head(s.queue), n, g[n - 1]) ELSE g[i]]
  <2>2. ASSUME NEW i \in 0..n
        PROVE  h[i] = Body(h, i)
    <3>1. CASE i = n
      BY <1>2, <3>1
    <3>2. CASE i # n
      <4>1. i \in 0..(n - 1) /\ (i # 0 => i - 1 \in 0..n /\ i - 1 # n)
        BY <1>2, <3>2
      <4>2. h[i] = g[i] /\ g[i] = Body(g, i)
        BY <2>1, <3>2, <4>1
      <4>3. i # 0 => h[i - 1] = g[i - 1]
        BY <4>1
      <4> QED BY <4>2, <4>3
    <3> QED BY <3>1, <3>2
  <2>3. h = [i \in 0..n |-> Body(h, i)]
    BY <2>2
  <2> QED BY <1>2, <2>3
<1>3. \A n \in Nat : n \in G
  <2> HIDE DEF G
  <2> QED BY <1>1, <1>2, Induction
<1>4. \E g : RelaxedFits(g, d, s)
  <2>1. Len(d.edges) \in G
    <3>1. Len(d.edges) \in Nat
      BY DEF Sound
    <3> HIDE DEF G
    <3> QED BY <1>3, <3>1
  <2> QED BY <2>1 DEF RelaxedFits
<1> QED BY <1>4 DEF Round, RelaxedFits, RelaxStep

LEMMA RoundFits ==
  ASSUME NEW d, Sound(d), NEW s, SortedSoFar(d, s), Counted(d, s), s.queue # <<>>
  PROVE  /\ SortedSoFar(d, Round(d, s)) /\ Counted(d, Round(d, s))
         /\ Round(d, s).result = Append(s.result, Head(s.queue))
<1> DEFINE h == Head(s.queue)
           n == Len(d.edges)
<1>1. PICK g : RelaxedFits(g, d, s) /\ Round(d, s) = g[n]
  BY RoundIsDefined
<1> DEFINE Fits(i) == /\ SortedSoFar(d, g[i]) /\ CountedUpTo(d, g[i], h, i)
                      /\ g[i].result = Append(s.result, h)
           G == {i \in 0..n : Fits(i)}
<1>2. n \in Nat /\ 0 \in 0..n /\ n \in 0..n
  BY DEF Sound
<1>3. Fits(0)
  <2>1. g[0] = Taken(s)
    BY <1>1, <1>2 DEF RelaxedFits
  <2> QED BY <2>1, TakenFits
<1>4. ASSUME NEW i \in 0..n, i # 0, Fits(i - 1)
      PROVE  Fits(i)
  <2>1. g[i] = RelaxStep(d, h, i, g[i - 1]) /\ i \in 1..n
    BY <1>1, <1>2, <1>4 DEF RelaxedFits
  <2> HIDE DEF h
  <2> QED BY <1>4, <2>1, RelaxFits
<1>5. n \in G
  <2>1. 0 \in G /\ \A i \in 0..n : i # 0 /\ i - 1 \in G => i \in G
    BY <1>2, <1>3, <1>4
  <2> HIDE DEF G, n
  <2>2. \A i \in 0..n : i \in G
    BY <1>2, <2>1, UpTo
  <2> QED BY <1>2, <2>2
<1>6. Counted(d, g[n])
  <2>1. \A x : Left(d, ToSet(g[n].result), h, n, x) = Open(d, ToSet(g[n].result), x)
    BY <1>2 DEF Left, Open
  <2> QED BY <1>5, <2>1 DEF Counted, CountedUpTo
<1> QED BY <1>1, <1>5, <1>6


(* Where Kahn's algorithm starts: what nothing points to is queued.        *)
LEMMA KahnStartFits ==
  ASSUME NEW d, Sound(d)
  PROVE  /\ SortedSoFar(d, KahnStart(d)) /\ Counted(d, KahnStart(d))
         /\ KahnStart(d).result = <<>>
<1> DEFINE free == {n \in Ids(d) : Incoming(d, n) = {}}
           k == KahnStart(d)
<1>1. /\ k.queue = Keep(d.nodes, free) /\ k.result = <<>>
      /\ k.degree = [n \in Ids(d) |-> Cardinality(Incoming(d, n))]
      /\ k \in [queue : {k.queue}, degree : {k.degree}, result : {<<>>}]
  BY DEF KahnStart
<1>2. /\ d.nodes \in Seq(Ids(d)) /\ Once(d.nodes) /\ ToSet(d.nodes) = Ids(d)
  BY DEF Sound, Ids
<1>3. /\ k.queue \in Seq(Ids(d)) /\ Once(k.queue) /\ ToSet(k.queue) = free
  <2>1. ToSet(d.nodes) \cap free = free
    BY <1>2
  <2> HIDE DEF free, k
  <2>2. /\ Keep(d.nodes, free) \in Seq(Ids(d)) /\ Once(Keep(d.nodes, free))
        /\ ToSet(Keep(d.nodes, free)) = ToSet(d.nodes) \cap free
    BY <1>2, KeepKeeps
  <2> QED BY <1>1, <2>1, <2>2
<1>4. ToSet(<<>>) = {} /\ <<>> \in Seq(Ids(d)) /\ Len(<<>>) = 0
  BY DEF ToSet
<1>5. \A n : Incoming(d, n) \in SUBSET (1..Len(d.edges))
  BY DEF Incoming, Sound
<1>6. \A n \in Ids(d) : k.degree[n] \in Nat /\ (k.degree[n] = 0 <=> n \in free)
  BY <1>1, <1>5, EdgesAreFinite, NoOpenEdge
<1>7. k.degree \in [Ids(d) -> Nat]
  BY <1>1, <1>6
<1>8. SortedSoFar(d, k)
  <2>1. k \in KahnState(d)
    BY <1>1, <1>3, <1>4, <1>7 DEF KahnState
  <2>2. SourcesFirst(d, <<>>) /\ Once(<<>>)
    BY <1>4 DEF SourcesFirst, Once
  <2>3. ToSet(k.queue) \cup ToSet(k.result) = free /\ ToSet(k.queue) \cap ToSet(k.result) = {}
    BY <1>1, <1>3, <1>4
  <2> HIDE DEF free, k
  <2> QED BY <1>1, <1>3, <1>6, <2>1, <2>2, <2>3 DEF SortedSoFar
<1>9. Counted(d, k)
  <2>1. \A n : Incoming(d, n) = Open(d, {}, n)
    BY DEF Incoming, Open, Sound
  <2> QED BY <1>1, <1>4, <2>1 DEF Counted
<1> QED BY <1>1, <1>8, <1>9

AfterFits(g, d) == g = [k \in 0..Len(d.nodes) |-> IF k = 0 THEN KahnStart(d) ELSE Round(d, g[k - 1])]

LEMMA KahnIsDefined ==
  ASSUME NEW d, Sound(d)
  PROVE  \E g : AfterFits(g, d) /\ Kahn(d) = g[Len(d.nodes)].result
<1> DEFINE Body(g, i) == IF i = 0 THEN KahnStart(d) ELSE Round(d, g[i - 1])
           G == {n \in Nat : \E g : g = [i \in 0..n |-> Body(g, i)]}
<1>1. 0 \in G
  <2>1. [i \in 0..0 |-> KahnStart(d)] = [i \in 0..0 |-> Body([j \in 0..0 |-> KahnStart(d)], i)]
    OBVIOUS
  <2> QED BY <2>1
<1>2. ASSUME NEW n \in Nat, n # 0, n - 1 \in G
      PROVE  n \in G
  <2>1. PICK g : g = [i \in 0..(n - 1) |-> Body(g, i)]
    BY <1>2
  <2> DEFINE h == [i \in 0..n |-> IF i = n THEN Round(d, g[n - 1]) ELSE g[i]]
  <2>2. ASSUME NEW i \in 0..n
        PROVE  h[i] = Body(h, i)
    <3>1. CASE i = n
      BY <1>2, <3>1
    <3>2. CASE i # n
      <4>1. i \in 0..(n - 1) /\ (i # 0 => i - 1 \in 0..n /\ i - 1 # n)
        BY <1>2, <3>2
      <4>2. h[i] = g[i] /\ g[i] = Body(g, i)
        BY <2>1, <3>2, <4>1
      <4>3. i # 0 => h[i - 1] = g[i - 1]
        BY <4>1
      <4> QED BY <4>2, <4>3
    <3> QED BY <3>1, <3>2
  <2>3. h = [i \in 0..n |-> Body(h, i)]
    BY <2>2
  <2> QED BY <1>2, <2>3
<1>3. \A n \in Nat : n \in G
  <2> HIDE DEF G
  <2> QED BY <1>1, <1>2, Induction
<1>4. \E g : AfterFits(g, d)
  <2>1. Len(d.nodes) \in G
    <3>1. Len(d.nodes) \in Nat
      BY DEF Sound
    <3> HIDE DEF G
    <3> QED BY <1>3, <3>1
  <2> QED BY <2>1 DEF AfterFits
<1> QED BY <1>4 DEF Kahn, AfterFits

(* A sequence without repetition is as long as its set is large.           *)
LEMMA OnceIsFinite ==
  ASSUME NEW A, NEW seq \in Seq(A), Once(seq)
  PROVE  IsFiniteSet(ToSet(seq)) /\ Cardinality(ToSet(seq)) = Len(seq)
<1> DEFINE n == Len(seq)
<1>1. n \in Nat /\ seq \in [1..n -> A] /\ ToSet(seq) \subseteq A /\ DOMAIN seq = 1..n
  BY Members
<1>2. IsFiniteSet(1..n) /\ Cardinality(1..n) = n
  <2>1. 1 \in Int /\ n \in Int /\ (1 > n => n = 0)
    BY <1>1
  <2> HIDE DEF n
  <2> QED BY <1>1, <2>1, FS_Interval
<1>3. seq \in Surjection(1..n, ToSet(seq)) /\ seq \in Injection(1..n, ToSet(seq))
  <2>1. seq \in [1..n -> ToSet(seq)]
    BY <1>1, Members
  <2>2. \A x \in ToSet(seq) : \E i \in 1..n : seq[i] = x
    BY Members
  <2>3. \A i, j \in 1..n : seq[i] = seq[j] => i = j
    BY DEF Once
  <2> HIDE DEF n
  <2> QED BY <2>1, <2>2, <2>3 DEF Surjection, Injection, IsInjective
<1>4. ExistsBijection(1..n, ToSet(seq))
  BY <1>3 DEF Bijection, ExistsBijection
<1> HIDE DEF n
<1> QED BY <1>2, <1>4, FS_Bijection DEF n

LEMMA OnceCounts ==
  ASSUME NEW A, IsFiniteSet(A), NEW seq \in Seq(A), Once(seq)
  PROVE  /\ Len(seq) = Cardinality(ToSet(seq)) /\ Len(seq) <= Cardinality(A)
         /\ Len(seq) = Cardinality(A) => ToSet(seq) = A
<1>1. ToSet(seq) \subseteq A
  BY Members
<1> QED BY <1>1, OnceIsFinite, FS_Subset

(* What Kahn's algorithm returns: nodes in order, and what it leaves has a *)
(* source that it leaves too.                                              *)
LEMMA KahnSorts ==
  ASSUME NEW d, Sound(d)
  PROVE  /\ Kahn(d) \in Seq(Ids(d)) /\ Once(Kahn(d)) /\ SourcesFirst(d, Kahn(d))
         /\ \A x \in Ids(d) \ ToSet(Kahn(d)) :
               \E k \in 1..Len(d.edges) :
                 d.edges[k].target = x /\ d.edges[k].source \in Ids(d) \ ToSet(Kahn(d))
<1> DEFINE n == Len(d.nodes)
<1>1. PICK g : AfterFits(g, d) /\ Kahn(d) = g[n].result
  BY KahnIsDefined
<1> DEFINE Fits(i) == /\ SortedSoFar(d, g[i]) /\ Counted(d, g[i])
                      /\ g[i].queue = <<>> \/ Len(g[i].result) = i
           G == {i \in 0..n : Fits(i)}
<1>2. n \in Nat /\ 0 \in 0..n /\ n \in 0..n
  BY DEF Sound
<1>3. Fits(0)
  <2>1. g[0] = KahnStart(d)
    BY <1>1, <1>2 DEF AfterFits
  <2>2. Len(<<>>) = 0
    OBVIOUS
  <2> QED BY <2>1, <2>2, KahnStartFits
<1>4. ASSUME NEW i \in 0..n, i # 0, Fits(i - 1)
      PROVE  Fits(i)
  <2>1. g[i] = Round(d, g[i - 1]) /\ i \in Nat
    BY <1>1, <1>2, <1>4 DEF AfterFits
  <2>2. CASE g[i - 1].queue = <<>>
    <3>1. Round(d, g[i - 1]) = g[i - 1]
      BY <2>2 DEF Round
    <3> QED BY <1>4, <2>1, <2>2, <3>1
  <2>3. CASE g[i - 1].queue # <<>>
    <3>1. /\ SortedSoFar(d, g[i]) /\ Counted(d, g[i])
          /\ g[i].result = Append(g[i - 1].result, Head(g[i - 1].queue))
      BY <1>4, <2>1, <2>3, RoundFits
    <3>2. g[i - 1].result \in Seq(Ids(d)) /\ Len(g[i - 1].result) = i - 1
      BY <1>4, <2>3 DEF SortedSoFar, KahnState
    <3>3. Len(g[i].result) = i
      BY <2>1, <3>1, <3>2
    <3> QED BY <3>1, <3>3
  <2> QED BY <2>2, <2>3
<1>5. Fits(n)
  <2>1. 0 \in G /\ \A i \in 0..n : i # 0 /\ i - 1 \in G => i \in G
    BY <1>2, <1>3, <1>4
  <2>2. n \in G
    <3> HIDE DEF G, n
    <3>1. \A i \in 0..n : i \in G
      BY <1>2, <2>1, UpTo
    <3> QED BY <1>2, <3>1
  <2> QED BY <2>2
<1> DEFINE s == g[n]
<1>6. /\ s.result \in Seq(Ids(d)) /\ Once(s.result) /\ SourcesFirst(d, s.result)
      /\ s.queue \in Seq(Ids(d)) /\ s.degree \in [Ids(d) -> Nat]
      /\ ToSet(s.queue) \cap ToSet(s.result) = {}
      /\ \A x \in Ids(d) : s.degree[x] = 0 <=> x \in ToSet(s.queue) \cup ToSet(s.result)
      /\ \A x \in Ids(d) : s.degree[x] = Cardinality(Open(d, ToSet(s.result), x))
  BY <1>5 DEF SortedSoFar, KahnState, Counted
<1>7. s.queue = <<>>
  <2> SUFFICES ASSUME s.queue # <<>> PROVE FALSE
    OBVIOUS
  <2>1. Len(s.result) = n
    BY <1>5
  <2>2. IsFiniteSet(Ids(d)) /\ Cardinality(Ids(d)) = n
    <3>1. d.nodes \in Seq(Ids(d)) /\ Once(d.nodes) /\ ToSet(d.nodes) = Ids(d)
      BY DEF Sound, Ids
    <3>2. IsFiniteSet(Ids(d))
      BY <3>1, OnceIsFinite
    <3> QED BY <3>1, <3>2, OnceCounts
  <2>3. ToSet(s.result) = Ids(d)
    BY <1>6, <2>1, <2>2, OnceCounts
  <2>4. Head(s.queue) \in ToSet(s.queue) /\ Head(s.queue) \in Ids(d)
    <3>1. Len(s.queue) # 0 /\ Len(s.queue) \in Nat /\ Head(s.queue) = s.queue[1]
      BY <1>6
    <3> QED BY <1>6, <3>1, Members
  <2> QED BY <1>6, <2>3, <2>4
<1>8. ASSUME NEW x \in Ids(d), x \notin ToSet(s.result)
      PROVE  \E k \in 1..Len(d.edges) :
               d.edges[k].target = x /\ d.edges[k].source \in Ids(d) \ ToSet(s.result)
  <2>1. ToSet(s.queue) = {}
    BY <1>7 DEF ToSet
  <2>2. s.degree[x] # 0 /\ Open(d, ToSet(s.result), x) \in SUBSET (1..Len(d.edges))
    BY <1>6, <1>8, <2>1 DEF Open
  <2>3. Open(d, ToSet(s.result), x) # {}
    BY <1>6, <1>8, <2>2, NoOpenEdge
  <2>4. PICK k \in 1..Len(d.edges) : d.edges[k].target = x /\ d.edges[k].source \notin ToSet(s.result)
    BY <2>3 DEF Open
  <2>5. d.edges[k].source \in Ids(d)
    BY DEF Sound
  <2> QED BY <2>4, <2>5
<1> QED BY <1>1, <1>6, <1>8


LEMMA ConcatOnce ==
  ASSUME NEW A, NEW s \in Seq(A), NEW t \in Seq(A), Once(s), Once(t),
         ToSet(s) \cap ToSet(t) = {}
  PROVE  /\ s \o t \in Seq(A) /\ Once(s \o t) /\ ToSet(s \o t) = ToSet(s) \cup ToSet(t)
<1> DEFINE m == Len(s)
           n == Len(t)
           u == s \o t
<1>1. /\ m \in Nat /\ n \in Nat /\ u \in Seq(A) /\ Len(u) = m + n
      /\ \A i \in 1..m : u[i] = s[i]
      /\ \A i \in 1..(m + n) : i \notin 1..m => i - m \in 1..n /\ u[i] = t[i - m]
      /\ \A i \in 1..n : i + m \in 1..(m + n) /\ u[i + m] = t[i]
  OBVIOUS
<1>2. /\ \A i \in 1..m : s[i] \in ToSet(s)
      /\ \A i \in 1..n : t[i] \in ToSet(t)
  BY Members
<1> HIDE DEF u, m, n
<1>3. ASSUME NEW i \in 1..(m + n), NEW j \in 1..(m + n), u[i] = u[j] PROVE i = j
  <2>1. CASE i \in 1..m /\ j \in 1..m
    BY <1>1, <1>3, <2>1 DEF Once, m
  <2>2. CASE i \notin 1..m /\ j \notin 1..m
    <3>1. i - m \in 1..n /\ j - m \in 1..n /\ t[i - m] = t[j - m]
      BY <1>1, <1>3, <2>2
    <3>2. i - m = j - m
      BY <3>1 DEF Once, n
    <3> QED BY <1>1, <3>2
  <2>3. CASE i \in 1..m /\ j \notin 1..m
    BY <1>1, <1>2, <1>3, <2>3
  <2>4. CASE i \notin 1..m /\ j \in 1..m
    BY <1>1, <1>2, <1>3, <2>4
  <2> QED BY <2>1, <2>2, <2>3, <2>4
<1>4. ToSet(u) = ToSet(s) \cup ToSet(t)
  <2>1. ASSUME NEW x \in ToSet(u) PROVE x \in ToSet(s) \cup ToSet(t)
    <3>1. PICK i \in 1..(m + n) : u[i] = x
      BY <1>1, Members
    <3> QED BY <1>1, <1>2, <3>1
  <2>2. ASSUME NEW x \in ToSet(s) PROVE x \in ToSet(u)
    <3>1. PICK i \in 1..m : s[i] = x
      BY Members DEF m
    <3>2. u[i] = x /\ i \in 1..(m + n)
      BY <1>1, <3>1
    <3> QED BY <1>1, <3>2, Members
  <2>3. ASSUME NEW x \in ToSet(t) PROVE x \in ToSet(u)
    <3>1. PICK i \in 1..n : t[i] = x
      BY Members DEF n
    <3>2. u[i + m] = x /\ i + m \in 1..(m + n)
      BY <1>1, <3>1
    <3> QED BY <1>1, <3>2, Members
  <2> QED BY <2>1, <2>2, <2>3
<1>5. Once(u)
  BY <1>1, <1>3 DEF Once
<1> QED BY <1>1, <1>4, <1>5 DEF u

(* Kahn's algorithm leaves those nodes, and only those, that no order has. *)
LEMMA LeftAreStuck ==
  ASSUME NEW d, Sound(d)
  PROVE  Ids(d) \ ToSet(Kahn(d)) = Stuck(d)
<1> DEFINE S == Ids(d) \ ToSet(Kahn(d))
           Held(T) == \A n \in T : \E e \in ToSet(d.edges) : e.target = n /\ e.source \in T
<1>1. \A x \in S : \E e \in ToSet(d.edges) : e.target = x /\ e.source \in S
  <2> TAKE x \in S
  <2>1. PICK k \in 1..Len(d.edges) : d.edges[k].target = x /\ d.edges[k].source \in S
    BY KahnSorts
  <2>2. d.edges[k] \in ToSet(d.edges)
    BY DEF ToSet, Sound
  <2> QED BY <2>1, <2>2
<1>2. S \in {T \in SUBSET Ids(d) : Held(T)}
  BY <1>1
<1>3. ASSUME NEW T \in SUBSET Ids(d), Held(T), NEW x \in T, x \in ToSet(Kahn(d))
      PROVE  FALSE
  <2> DEFINE r == Kahn(d)
             I == {i \in 1..Len(r) : r[i] \in T}
  <2>1. r \in Seq(Ids(d)) /\ SourcesFirst(d, r)
    BY KahnSorts
  <2>2. PICK i \in I : \A j \in I : i <= j
    <3>1. \E i \in 1..Len(r) : r[i] = x
      BY <1>3, <2>1, Members
    <3>2. I # {} /\ I \in SUBSET Nat
      BY <1>3, <3>1
    <3> HIDE DEF I
    <3> QED BY <3>2, LeastNumber
  <2>3. PICK e \in ToSet(d.edges) : e.target = r[i] /\ e.source \in T
    BY <1>3
  <2>4. PICK k \in 1..Len(d.edges) : e = d.edges[k]
    BY DEF ToSet, Sound
  <2>5. PICK j \in 1..(i - 1) : r[j] = e.source
    BY <2>1, <2>3, <2>4 DEF SourcesFirst
  <2>6. j \in I /\ ~(i <= j)
    <3>1. Len(r) \in Nat
      BY <2>1, Members
    <3> QED BY <2>3, <2>5, <3>1
  <2> QED BY <2>2, <2>6
<1>4. Stuck(d) = UNION {T \in SUBSET Ids(d) : Held(T)}
  BY DEF Stuck
<1> HIDE DEF Held
<1> QED BY <1>2, <1>3, <1>4

LEMMA SortIsInOrder ==
  ASSUME NEW d, Sound(d)
  PROVE  /\ TopologicalSort(d) \in Seq(Ids(d)) /\ Once(TopologicalSort(d))
         /\ ToSet(TopologicalSort(d)) = Ids(d)
         /\ InOrder(d, TopologicalSort(d))
<1> DEFINE s == Kahn(d)
           t == Keep(d.nodes, Ids(d) \ ToSet(Kahn(d)))
           u == s \o t
<1>1. s \in Seq(Ids(d)) /\ Once(s) /\ SourcesFirst(d, s)
  BY KahnSorts
<1>2. t \in Seq(Ids(d)) /\ Once(t) /\ ToSet(t) = Ids(d) \ ToSet(s)
  <2>1. d.nodes \in Seq(Ids(d)) /\ Once(d.nodes) /\ ToSet(d.nodes) = Ids(d)
    BY DEF Sound, Ids
  <2>2. ToSet(t) = ToSet(d.nodes) \cap (Ids(d) \ ToSet(s))
    BY <2>1, KeepKeeps
  <2> QED BY <2>1, <2>2, KeepKeeps
<1>3. ToSet(s) \subseteq Ids(d)
  BY <1>1, Members
<1> HIDE DEF s, t
<1>4. u \in Seq(Ids(d)) /\ Once(u) /\ ToSet(u) = Ids(d)
  <2>1. ToSet(s) \cap ToSet(t) = {} /\ ToSet(s) \cup ToSet(t) = Ids(d)
    BY <1>2, <1>3
  <2> QED BY <1>1, <1>2, <2>1, ConcatOnce
<1>5. /\ Len(s) \in Nat /\ Len(u) \in Nat /\ Len(s) <= Len(u) /\ DOMAIN u = 1..Len(u)
      /\ \A i \in 1..Len(s) : u[i] = s[i]
      /\ \A i \in 1..Len(u) : i \notin 1..Len(s) => i - Len(s) \in 1..Len(t) /\ u[i] = t[i - Len(s)]
  BY <1>1, <1>2
<1> HIDE DEF u
<1>6. ASSUME NEW i \in 1..Len(u), u[i] \notin Stuck(d),
             NEW e \in ToSet(d.edges), e.target = u[i]
      PROVE  \E j \in 1..(i - 1) : u[j] = e.source
  <2>1. i \in 1..Len(s)
    <3> SUFFICES ASSUME i \notin 1..Len(s) PROVE FALSE
      OBVIOUS
    <3>1. i - Len(s) \in 1..Len(t) /\ u[i] = t[i - Len(s)]
      BY <1>5
    <3>2. u[i] \in Ids(d) \ ToSet(s)
      BY <1>2, <3>1, Members
    <3> QED BY <1>6, <3>2, LeftAreStuck DEF s
  <2>2. PICK k \in 1..Len(d.edges) : e = d.edges[k]
    BY DEF ToSet, Sound
  <2>3. PICK j \in 1..(i - 1) : s[j] = e.source
    BY <1>1, <1>5, <1>6, <2>1, <2>2 DEF SourcesFirst
  <2> QED BY <1>5, <2>1, <2>3
<1>7. ASSUME NEW i \in 1..Len(u), NEW j \in 1..(i - 1) PROVE u[j] # u[i]
  <2>1. j \in 1..Len(u) /\ j # i
    BY <1>5
  <2> QED BY <1>4, <2>1 DEF Once
<1>8. InOrder(d, u)
  BY <1>5, <1>6, <1>7 DEF InOrder
<1> QED BY <1>4, <1>8 DEF TopologicalSort, u, s, t

(* What has been run of an order is in order.                              *)
LEMMA PrefixInOrder ==
  ASSUME NEW d, NEW A, NEW s \in Seq(A), NEW t \in Seq(A), InOrder(d, s \o t)
  PROVE  InOrder(d, s)
<1>1. /\ Len(s) \in Nat /\ DOMAIN s = 1..Len(s)
      /\ \A i \in 1..Len(s) : i \in DOMAIN (s \o t) /\ (s \o t)[i] = s[i]
      /\ \A i \in 1..Len(s) : \A j \in 1..(i - 1) : j \in 1..Len(s)
  OBVIOUS
<1> DEFINE u == s \o t
<1> HIDE DEF u
<1>2. ASSUME NEW i \in DOMAIN s
      PROVE  /\ \A j \in 1..(i - 1) : s[j] # s[i]
             /\ s[i] \notin Stuck(d) =>
                  \A e \in ToSet(d.edges) :
                    e.target = s[i] => \E j \in 1..(i - 1) : s[j] = e.source
  <2>1. /\ i \in DOMAIN u /\ u[i] = s[i] /\ \A j \in 1..(i - 1) : u[j] = s[j]
    BY <1>1 DEF u
  <2>2. /\ \A j \in 1..(i - 1) : u[j] # u[i]
        /\ u[i] \notin Stuck(d) =>
             \A e \in ToSet(d.edges) :
               e.target = u[i] => \E j \in 1..(i - 1) : u[j] = e.source
    BY <2>1 DEF InOrder, u
  <2> QED BY <2>1, <2>2
<1> QED BY <1>2 DEF InOrder

----------------------------------------------------------------------------
(* The order of the nodes                                                  *)

LEMMA CompiledIsSound ==
  ASSUME NEW d \in Definitions, Compiles(d)
  PROVE  Sound(d) /\ Len(d.nodes) \in Nat \ {0}
<1>1. d.nodes \in Seq(Ids(d)) /\ d.edges \in Seq(ToSet(d.edges))
  BY WalkAssumption DEF WalkAssumption
<1>2. /\ Len(d.nodes) \in Nat /\ DOMAIN d.nodes = 1..Len(d.nodes)
      /\ Len(d.edges) \in Nat /\ DOMAIN d.edges = 1..Len(d.edges)
      /\ \A i \in 1..Len(d.edges) : d.edges[i] \in ToSet(d.edges)
  <2> DEFINE A == Ids(d)
             B == ToSet(d.edges)
  <2> HIDE DEF A
  <2>1. Len(d.nodes) \in Nat /\ DOMAIN d.nodes = 1..Len(d.nodes)
    BY <1>1 DEF A
  <2>2. Len(d.edges) \in Nat /\ DOMAIN d.edges = 1..Len(d.edges)
    BY <1>1
  <2> QED BY <2>1, <2>2 DEF ToSet
<1>3. Touched(d) \subseteq Ids(d) /\ Len(d.nodes) # 0
  BY <1>2 DEF Compiles, ValidDefinition
<1>4. \A i \in 1..Len(d.edges) : d.edges[i].source \in Ids(d) /\ d.edges[i].target \in Ids(d)
  BY <1>2, <1>3 DEF Touched, Targets
<1>5. Once(d.nodes)
  BY <1>2 DEF Compiles, Once
<1> QED BY <1>1, <1>2, <1>3, <1>4, <1>5 DEF Sound

(* _resolve_next_node follows an edge of the node.                         *)
LEMMA NextNodeFollows ==
  ASSUME NEW d, Sound(d), NEW n, NEW action, NextNode(d, n, action) # NoNode
  PROVE  \E e \in ToSet(d.edges) :
            e.source = n /\ e.target = NextNode(d, n, action) /\ e.target \in Ids(d)
<1> DEFINE out     == Outgoing(d, n)
           With(c) == {i \in out : d.edges[i].condition = c}
           choice  == CASE With(action) # {} -> Min(With(action))
                        [] With(action) = {} /\ With("default") # {} -> Max(With("default"))
                        [] OTHER -> Min(out)
<1>1. out # {} /\ NextNode(d, n, action) = d.edges[choice].target
  BY DEF NextNode
<1>2. /\ Len(d.edges) \in Nat /\ out \subseteq 1..Len(d.edges)
      /\ \A i \in out : d.edges[i] \in ToSet(d.edges) /\ d.edges[i].source = n
      /\ \A i \in out : d.edges[i].target \in Ids(d)
  BY DEF Outgoing, Sound, ToSet
<1>3. ASSUME NEW T \in SUBSET out, T # {} PROVE Min(T) \in out /\ Max(T) \in out
  <2>1. \E x \in T : \A y \in T : x <= y
    BY <1>2, <1>3, LeastNumber
  <2>2. \E x \in T : \A y \in T : x >= y
    <3> DEFINE U == {Len(d.edges) - x : x \in T}
    <3>1. U \in SUBSET Nat /\ U # {} /\ \A x \in T : Len(d.edges) - x \in U /\ x \in Nat
      BY <1>2, <1>3
    <3>2. PICK u \in U : \A v \in U : u <= v
      <4> HIDE DEF U
      <4> QED BY <3>1, LeastNumber
    <3>3. PICK x \in T : u = Len(d.edges) - x
      OBVIOUS
    <3>4. \A y \in T : Len(d.edges) - x <= Len(d.edges) - y
      BY <3>1, <3>2, <3>3
    <3>5. ASSUME NEW y \in T PROVE x >= y
      <4>1. x \in Nat /\ y \in Nat /\ Len(d.edges) - x <= Len(d.edges) - y
        BY <3>1, <3>4
      <4> QED BY <1>2, <4>1
    <3> QED BY <3>5
  <2>3. Min(T) \in T
    BY <2>1 DEF Min
  <2>4. Max(T) \in T
    BY <2>2 DEF Max
  <2> QED BY <2>3, <2>4
<1>4. choice \in out
  <2>1. With(action) \in SUBSET out /\ With("default") \in SUBSET out
    OBVIOUS
  <2> HIDE DEF out, With
  <2>2. CASE With(action) # {}
    BY <1>3, <2>1, <2>2
  <2>3. CASE With(action) = {} /\ With("default") # {}
    BY <1>3, <2>1, <2>3
  <2>4. CASE With(action) = {} /\ With("default") = {}
    BY <1>1, <1>3, <2>4
  <2> QED BY <2>2, <2>3, <2>4
<1> HIDE DEF choice
<1> QED BY <1>1, <1>2, <1>4

LEMMA EntryIsNode ==
  ASSUME NEW d, Sound(d), Len(d.nodes) \in Nat \ {0}
  PROVE  Entry(d) \in Ids(d)
<1> DEFINE free == {i \in DOMAIN d.nodes : d.nodes[i] \notin Targets(d)}
<1>1. DOMAIN d.nodes = 1..Len(d.nodes) /\ \A i \in 1..Len(d.nodes) : d.nodes[i] \in Ids(d)
  <2>1. d.nodes \in Seq(Ids(d))
    BY DEF Sound
  <2> QED BY <2>1, Members
<1>2. ASSUME free # {} PROVE Min(free) \in free
  <2>1. free \in SUBSET Nat
    BY <1>1
  <2> HIDE DEF free
  <2>2. \E x \in free : \A y \in free : x <= y
    BY <1>2, <2>1, LeastNumber
  <2> QED BY <2>2 DEF Min
<1>3. 1 \in 1..Len(d.nodes)
  OBVIOUS
<1> QED BY <1>1, <1>2, <1>3 DEF Entry

(* What has been run and is queued, in one sequence: in a linear workflow  *)
(* in order, in a cyclic one a path.                                       *)
Ordered(d, seq) == IF d.cyclic THEN IsPath(d, seq) ELSE InOrder(d, seq)

LEMMA FirstQueueOrdered ==
  ASSUME NEW d, Sound(d), Len(d.nodes) \in Nat \ {0}
  PROVE  /\ FirstQueue(d) \in Seq(Ids(d)) /\ Ordered(d, FirstQueue(d))
         /\ IF d.cyclic THEN Len(FirstQueue(d)) <= 1 ELSE ToSet(FirstQueue(d)) = Ids(d)
<1>1. CASE d.cyclic
  <2>1. FirstQueue(d) = <<Entry(d)>>
    BY <1>1 DEF FirstQueue
  <2>2. /\ <<Entry(d)>> \in Seq(Ids(d)) /\ Len(<<Entry(d)>>) = 1 /\ <<Entry(d)>>[1] = Entry(d)
    BY EntryIsNode
  <2>3. IsPath(d, <<Entry(d)>>)
    BY <2>2 DEF IsPath
  <2> QED BY <1>1, <2>1, <2>2, <2>3 DEF Ordered
<1>2. CASE ~d.cyclic
  <2>1. FirstQueue(d) = TopologicalSort(d)
    BY <1>2 DEF FirstQueue
  <2> QED BY <1>2, <2>1, SortIsInOrder DEF Ordered
<1> QED BY <1>1, <1>2

LEMMA OrderedPrefix ==
  ASSUME NEW d, NEW A, NEW s \in Seq(A), NEW t \in Seq(A), Ordered(d, s \o t)
  PROVE  Ordered(d, s)
<1>1. ASSUME IsPath(d, s \o t) PROVE IsPath(d, s)
  <2>1. /\ Len(s) \in Nat
        /\ s # <<>> => s \o t # <<>> /\ (s \o t)[1] = s[1]
        /\ Len(s \o t) = Len(s) + Len(t) /\ Len(t) \in Nat
    OBVIOUS
  <2>2. ASSUME NEW i \in 1..(Len(s) - 1)
        PROVE  /\ i \in 1..(Len(s \o t) - 1) /\ (s \o t)[i] = s[i] /\ (s \o t)[i + 1] = s[i + 1]
    <3>1. i \in 1..Len(s) /\ i + 1 \in 1..Len(s)
      BY <2>1
    <3> QED BY <2>1, <3>1
  <2> DEFINE u == s \o t
  <2> HIDE DEF u
  <2>3. /\ u # <<>> => u[1] = Entry(d)
        /\ \A i \in 1..(Len(u) - 1) :
              \E e \in ToSet(d.edges) : e.source = u[i] /\ e.target = u[i + 1]
    BY <1>1 DEF IsPath, u
  <2>4. \A i \in 1..(Len(s) - 1) :
          \E e \in ToSet(d.edges) : e.source = s[i] /\ e.target = s[i + 1]
    BY <2>2, <2>3 DEF u
  <2> QED BY <2>1, <2>3, <2>4 DEF IsPath, u
<1> QED BY <1>1, PrefixInOrder DEF Ordered

(* Taking a node from the queue and running it.                            *)
LEMMA Moved ==
  ASSUME NEW A, NEW r \in Seq(A), NEW q \in Seq(A), q # <<>>
  PROVE  /\ Append(r, Head(q)) \in Seq(A) /\ Tail(q) \in Seq(A) /\ Append(r, Head(q)) # <<>>
         /\ Len(Tail(q)) = Len(q) - 1
         /\ Append(r, Head(q)) \o Tail(q) = r \o q
OBVIOUS

LEMMA PathGrows ==
  ASSUME NEW d, NEW r \in Seq(Ids(d)), r # <<>>, IsPath(d, r),
         NEW e \in ToSet(d.edges), e.source = r[Len(r)], e.target \in Ids(d)
  PROVE  IsPath(d, r \o Append(<<>>, e.target)) /\ Append(<<>>, e.target) \in Seq(Ids(d))
<1> DEFINE u == r \o Append(<<>>, e.target)
           n == Len(r)
<1>1. /\ n \in Nat \ {0} /\ Len(u) = n + 1 /\ u[1] = r[1] /\ u[n + 1] = e.target /\ u # <<>>
      /\ \A i \in 1..n : u[i] = r[i]
  OBVIOUS
<1>2. Append(<<>>, e.target) \in Seq(Ids(d))
  OBVIOUS
<1> HIDE DEF u, n
<1>3. ASSUME NEW i \in 1..n
      PROVE  \E f \in ToSet(d.edges) : f.source = u[i] /\ f.target = u[i + 1]
  <2>1. CASE i = n
    BY <1>1, <2>1 DEF n
  <2>2. CASE i # n
    <3>1. i \in 1..(n - 1) /\ i + 1 \in 1..n
      BY <1>1, <2>2
    <3>2. PICK f \in ToSet(d.edges) : f.source = r[i] /\ f.target = r[i + 1]
      BY <3>1 DEF IsPath, n
    <3> QED BY <1>1, <3>1, <3>2
  <2> QED BY <2>1, <2>2
<1>4. IsPath(d, u)
  BY <1>1, <1>3 DEF IsPath
<1> QED BY <1>2, <1>4 DEF u

(* The places of the loop, and those before it.                            *)
Looping == {"pop", "budget", "call", "connectorFailed", "logged"}
Early == {"idle", "load", "claim"}

(* A node goes from the head of the queue to the end of what has run, so   *)
(* that both together change only when an edge of a cyclic workflow adds   *)
(* its target; a cyclic queue never holds more than that one node.         *)
OrderInv ==
    /\ wf \in Definitions /\ queue \in Seq(Ids(wf)) /\ ran \in Seq(Ids(wf))
    /\ pc \in Early => queue = <<>> /\ ran = <<>>
    /\ pc \in {"claim"} \cup Looping => Compiles(wf)
    /\ wf.cyclic => Len(queue) <= 1
    /\ pc \in Looping \ {"pop"} => ran # <<>> /\ (wf.cyclic => queue = <<>>)
    /\ pc \in Looping =>
          /\ Ordered(wf, ran \o queue)
          /\ ~wf.cyclic => ToSet(ran \o queue) = Ids(wf)
    /\ Ordered(wf, ran)
    /\ verdict = "completed" /\ ~wf.cyclic => ToSet(ran) = Ids(wf)

LEMMA OrderInit == Init => OrderInv
<1> SUFFICES ASSUME Init PROVE OrderInv
  OBVIOUS
<1>1. <<>> \in Seq(Ids(wf)) /\ Len(<<>>) = 0 /\ DOMAIN <<>> = {}
  OBVIOUS
<1>2. Ordered(wf, <<>>)
  BY <1>1 DEF Ordered, IsPath, InOrder
<1> QED BY <1>1, <1>2 DEF Init, OrderInv, Looping

(* A step that leaves the nodes alone and stays in the loop or out of it.  *)
LEMMA OrderStays ==
  ASSUME OrderInv, UNCHANGED <<wf, queue, ran>>,
         verdict' = verdict \/ verdict' # "completed",
         \/ pc' = pc
         \/ pc' \notin Early \cup Looping
         \/ {pc, pc'} \subseteq Looping \ {"pop"}
         \/ {pc, pc'} \subseteq {"idle", "load"}
  PROVE  OrderInv'
<1>1. /\ pc' \in Early => pc \in Early
      /\ pc' \in {"claim"} \cup Looping => pc \in {"claim"} \cup Looping
      /\ pc' \in Looping => pc \in Looping
      /\ pc' \in Looping \ {"pop"} => pc \in Looping \ {"pop"}
  BY DEF Early, Looping
<1>2. verdict' = "completed" => verdict = "completed"
  OBVIOUS
<1> QED BY <1>1, <1>2 DEF OrderInv

LEMMA OrderTakes ==
  ASSUME OrderInv, UNCHANGED <<wf, ran>>, queue # <<>>, queue' = Tail(queue),
         verdict' # "completed", pc' \notin Early \cup Looping
  PROVE  OrderInv'
<1>1. Tail(queue) \in Seq(Ids(wf)) /\ Len(Tail(queue)) = Len(queue) - 1 /\ Len(queue) \in Nat
  BY DEF OrderInv
<1> QED BY <1>1 DEF OrderInv, Early, Looping

LEMMA OrderClaims == OrderInv /\ Claim => OrderInv'
<1> SUFFICES ASSUME OrderInv, Claim PROVE OrderInv'
  OBVIOUS
<1>1. UNCHANGED <<wf, ran, verdict>> /\ pc = "claim"
  BY DEF Claim
<1>2. CASE pc' = "lost" /\ queue' = queue
  BY <1>1, <1>2, OrderStays DEF Early, Looping
<1>3. CASE pc' = "pop" /\ queue' = Queues[wf]
  <2>1. wf \in Definitions /\ Compiles(wf) /\ ran = <<>>
    BY <1>1 DEF OrderInv, Early
  <2>2. Queues[wf] = FirstQueue(wf)
    BY <2>1 DEF Queues
  <2>3. /\ FirstQueue(wf) \in Seq(Ids(wf)) /\ Ordered(wf, FirstQueue(wf))
        /\ IF wf.cyclic THEN Len(FirstQueue(wf)) <= 1 ELSE ToSet(FirstQueue(wf)) = Ids(wf)
    BY <2>1, CompiledIsSound, FirstQueueOrdered
  <2>4. <<>> \o FirstQueue(wf) = FirstQueue(wf)
    BY <2>3
  <2> QED BY <1>1, <1>3, <2>1, <2>2, <2>3, <2>4 DEF OrderInv, Early, Looping
<1> QED BY <1>2, <1>3 DEF Claim

LEMMA OrderBegins == OrderInv /\ StepBegins => OrderInv'
<1> SUFFICES ASSUME OrderInv, StepBegins PROVE OrderInv'
  OBVIOUS
<1>1. /\ pc = "pop" /\ queue # <<>> /\ UNCHANGED <<wf, verdict>>
      /\ queue' = Tail(queue) /\ ran' = Append(ran, Head(queue)) /\ pc' \in {"budget", "call"}
  BY DEF StepBegins, Pop
<1>2. /\ queue \in Seq(Ids(wf)) /\ ran \in Seq(Ids(wf)) /\ wf \in Definitions /\ Compiles(wf)
      /\ Ordered(wf, ran \o queue)
      /\ wf.cyclic => Len(queue) <= 1
      /\ ~wf.cyclic => ToSet(ran \o queue) = Ids(wf)
  BY <1>1 DEF OrderInv, Looping
<1>3. /\ queue' \in Seq(Ids(wf)) /\ ran' \in Seq(Ids(wf)) /\ ran' # <<>>
      /\ Len(queue') = Len(queue) - 1 /\ ran' \o queue' = ran \o queue
  BY <1>1, <1>2, Moved
<1>4. wf.cyclic => queue' = <<>> /\ Len(queue') <= 1
  BY <1>1, <1>2, <1>3
<1>5. Ordered(wf, ran')
  BY <1>2, <1>3, OrderedPrefix
<1>6. ToSet(ran') \subseteq Ids(wf) /\ ToSet(ran) \subseteq ToSet(ran')
  <2>1. Head(queue) \in Ids(wf)
    BY <1>1, <1>2
  <2> QED BY <1>1, <1>2, <1>3, <2>1, AppendOnce, Members
<1>7. verdict' = "completed" /\ ~wf.cyclic => ToSet(ran') = Ids(wf)
  BY <1>1, <1>6 DEF OrderInv
<1> QED BY <1>1, <1>2, <1>3, <1>4, <1>5, <1>7 DEF OrderInv, Early, Looping

LEMMA OrderCompletesStep == OrderInv /\ StepCompletes => OrderInv'
<1> SUFFICES ASSUME OrderInv, StepCompletes PROVE OrderInv'
  OBVIOUS
<1>1. /\ pc = "logged" /\ pc' = "pop" /\ UNCHANGED <<wf, ran, verdict>>
      /\ queue' = IF wf.cyclic /\ Successor # NoNode THEN Append(queue, Successor) ELSE queue
  BY DEF StepCompletes
<1>2. /\ queue \in Seq(Ids(wf)) /\ ran \in Seq(Ids(wf)) /\ wf \in Definitions /\ Compiles(wf)
      /\ Ordered(wf, ran \o queue) /\ Ordered(wf, ran) /\ ran # <<>>
      /\ wf.cyclic => queue = <<>>
      /\ ~wf.cyclic => ToSet(ran \o queue) = Ids(wf)
  BY <1>1 DEF OrderInv, Looping
<1>3. CASE ~(wf.cyclic /\ Successor # NoNode)
  <2>1. queue' = queue
    BY <1>1, <1>3
  <2> QED BY <1>1, <1>2, <2>1 DEF OrderInv, Early, Looping
<1>4. CASE wf.cyclic /\ Successor # NoNode
  <2>1. queue' = Append(<<>>, Successor)
    BY <1>1, <1>2, <1>4
  <2>2. PICK e \in ToSet(wf.edges) : e.source = Node /\ e.target = Successor /\ e.target \in Ids(wf)
    BY <1>2, <1>4, CompiledIsSound, NextNodeFollows DEF Successor
  <2>3. IsPath(wf, ran \o queue') /\ queue' \in Seq(Ids(wf))
    BY <1>2, <1>4, <2>1, <2>2, PathGrows DEF Node, step, Ordered
  <2>4. Len(queue') = 1
    BY <2>1
  <2> QED BY <1>1, <1>2, <1>4, <2>3, <2>4 DEF OrderInv, Ordered, Early, Looping
<1> QED BY <1>3, <1>4

LEMMA OrderStep == OrderInv /\ [Next]_vars => OrderInv'
<1> SUFFICES ASSUME OrderInv, [Next]_vars PROVE OrderInv'
  OBVIOUS
<1> USE DEF Early, Looping
<1>1. CASE UNCHANGED vars
  BY <1>1, OrderStays DEF vars, runVars
<1>2. ASSUME NEW c \in Clients, Connects(c) \/ Leaves(c) \/ Sends(c) \/ Pings(c)
      PROVE OrderInv'
  BY <1>2, ListenerStep, OrderStays DEF runVars
<1>3. CASE RunStarts \/ LoadRefused \/ LoadRaises
  BY <1>3, OrderStays DEF RunStarts, LoadRefused, LoadRaises, Settle
<1>4. CASE LoadAccepted
  BY <1>4 DEF LoadAccepted, OrderInv
<1>5. CASE Claim
  BY <1>5, OrderClaims
<1>6. CASE IterationsExceeded \/ CancelSeen
  <2>1. /\ UNCHANGED <<wf, ran>> /\ queue # <<>> /\ queue' = Tail(queue)
        /\ verdict' \in {"failed", "cancelled"} /\ pc' \in {"errorOnly", "reread"}
    BY <1>6 DEF IterationsExceeded, CancelSeen, Settle, Pop
  <2> QED BY <2>1, OrderTakes
<1>7. CASE StepBegins
  BY <1>7, OrderBegins
<1>8. CASE BudgetUsed \/ BudgetLeft \/ InCall
  BY <1>8, OrderStays DEF BudgetUsed, BudgetLeft, InCall, Settle, runVars
<1>9. CASE CallFailed \/ ConnectorFails \/ StepLogged \/ ChargeRefused
  BY <1>9, OrderStays DEF CallFailed, ConnectorFails, StepLogged, ChargeRefused, Settle
<1>10. CASE StepCompletes
  BY <1>10, OrderCompletesStep
<1>11. CASE Completes
  <2>1. /\ UNCHANGED <<wf, queue, ran>> /\ pc = "pop" /\ pc' = "final" /\ queue = <<>>
    BY <1>11 DEF Completes, Settle
  <2>2. ran \o <<>> = ran
    BY DEF OrderInv
  <2> QED BY <2>1, <2>2 DEF OrderInv
<1>12. CASE SayError \/ Reread \/ SayFinal \/ Except \/ ExceptSays
  BY <1>12, OrderStays DEF SayError, Reread, SayFinal, Except, ExceptSays
<1>13. CASE DatabaseFails \/ RequestCancel \/ CancelReads \/ CancelWrites
  BY <1>13, OrderStays DEF DatabaseFails, RequestCancel, CancelReads, CancelWrites, runVars
<1> QED BY <1>1, <1>2, <1>3, <1>4, <1>5, <1>6, <1>7, <1>8, <1>9, <1>10, <1>11, <1>12, <1>13
        DEF Next, Run

----------------------------------------------------------------------------
(* Theorems                                                                *)

LEMMA WalkInvInit == Init => WalkInv
<1> SUFFICES ASSUME Init PROVE WalkInv
  OBVIOUS
<1>1. /\ step = 0 /\ ran = <<>> /\ ToSet(<<>>) = {} /\ ran \in Seq(ToSet(ran))
      /\ <<>> \in Seq(EventType)
  BY DEF Init, step, ToSet
<1>2. TypeOK
  <2>1. clients \in ClientsType /\ aired \in EventType
    BY <1>1, SilenceType DEF Init, ClientsType
  <2> QED BY <1>1, <2>1, CallBegins DEF Init, TypeOK, ClientsType, Over, Ends
<1>3. CallFits
  BY CallBegins DEF Init, CallFits, Idle
<1>4. LogFollows
  BY <1>1 DEF Init, LogFollows
<1>5. StepsBounded
  BY <1>1, WalkAssumption DEF Init, StepsBounded, WalkAssumption
<1>6. VerdictIsTrue /\ StreamFits
  BY DEF Init, VerdictIsTrue, Announcing, StreamFits, Silence
<1>7. EventsHold
  BY <1>1 DEF Init, EventsHold, Heard, Holds, Silence
<1> QED BY <1>2, <1>3, <1>4, <1>5, <1>6, <1>7 DEF WalkInv

LEMMA WalkInvStep == WalkInv /\ [Next]_vars => WalkInv' /\ ContractStep
<1> SUFFICES ASSUME WalkInv, [Next]_vars PROVE WalkInv' /\ ContractStep
  OBVIOUS
<1>1. TypeOK /\ RanType /\ RunTypeOK
  BY DEF WalkInv, TypeOK, RanType, RunTypeOK
<1>2. RunTypeOK' /\ RanType' /\ CallFits'
  BY <1>1, RunTypesStep, RanStep, CallsStep DEF WalkInv
<1>3. LogFollows' /\ StepsBounded' /\ VerdictIsTrue'
  BY <1>1, LogStep, BoundStep, VerdictStep DEF WalkInv
<1>4. StreamFits' /\ ContractStep
  BY <1>1, StreamStep DEF WalkInv
<1>5. EventsHold'
  BY <1>1, EventsStep DEF WalkInv
<1>6. clients' \in ClientsType /\ aired' \in EventType
  BY <1>1, HeardStep
<1>7. TypeOK'
  <2>1. logged' \subseteq 1..Len(ran')
    <3>1. step' \in Nat /\ step' = Len(ran')
      BY <1>1, RanStep DEF step
    <3>2. logged' \in {1..step', 1..(step' - 1)}
      BY <1>3 DEF LogFollows
    <3> QED BY <3>1, <3>2
  <2> QED BY <1>2, <1>6, <2>1 DEF TypeOK, RunTypeOK, RanType, CallFits, ClientsType
<1> QED BY <1>2, <1>3, <1>4, <1>5, <1>7 DEF WalkInv

(* A run, its row, its log, its calls and its listeners keep their types:  *)
(* a model is called MAX_RETRIES times at most, whatever it answers.       *)
THEOREM WalkTypeCorrect == Spec => []TypeOK
<1>1. WalkInv => TypeOK
  BY DEF WalkInv
<1> QED BY WalkInvInit, WalkInvStep, <1>1, PTL DEF Spec

(* The commit of a step comes before its step_complete, on every path and  *)
(* for every listener: the log has no gaps and is never behind the stream. *)
THEOREM ToldStepsAreAlwaysLogged == Spec => []ToldStepsAreLogged
<1>1. WalkInv => ToldStepsAreLogged
  BY DEF WalkInv, LogFollows, EventsHold, Heard, Holds, ToldStepsAreLogged
<1> QED BY WalkInvInit, WalkInvStep, <1>1, PTL DEF Spec

(* The dozen exits of run_execution announce the status they committed.    *)
THEOREM FinalEventIsAlwaysTrue == Spec => []FinalEventIsTrue
<1>1. WalkInv => FinalEventIsTrue
  BY DEF WalkInv, VerdictIsTrue, Announcing, EventsHold, Heard, Holds, FinalEventIsTrue
<1> QED BY WalkInvInit, WalkInvStep, <1>1, PTL DEF Spec

(* A cyclic workflow runs no step beyond MAX_ITERATIONS, whatever its      *)
(* edges choose.                                                           *)
THEOREM CyclicRunsAreBounded == Spec => [](wf.cyclic => step <= MaxIterations)
<1>1. WalkInv => (wf.cyclic => step <= MaxIterations)
  BY DEF WalkInv, StepsBounded
<1> QED BY WalkInvInit, WalkInvStep, <1>1, PTL DEF Spec

(* _topological_sort returns every node once, every node but those behind  *)
(* a cycle after all of its predecessors, and those it leaves for last are *)
(* the ones that no order could place.                                     *)
THEOREM TopologicalSortSorts ==
  ASSUME NEW d \in Definitions, Compiles(d)
  PROVE  /\ TopologicalSort(d) \in Seq(Ids(d)) /\ ToSet(TopologicalSort(d)) = Ids(d)
         /\ InOrder(d, TopologicalSort(d))
         /\ Ids(d) \ ToSet(Kahn(d)) = Stuck(d)
  BY CompiledIsSound, SortIsInOrder, LeftAreStuck

(* run_execution visits the nodes of a linear workflow in that order, each *)
(* once, and all of them before it completes; in a cyclic workflow it      *)
(* follows edges from the entry, and stops at MAX_ITERATIONS.              *)
THEOREM NodesAlwaysRunInOrder == Spec => []NodesRunInOrder
<1>1. WalkInv /\ OrderInv => NodesRunInOrder
  BY DEF WalkInv, StepsBounded, OrderInv, Ordered, NodesRunInOrder
<1> QED BY WalkInvInit, WalkInvStep, OrderInit, OrderStep, <1>1, PTL DEF Spec

(* run_execution implements the stream that execution_stream documents:    *)
(* every event of a run is a step of the contract, every other step none.  *)
THEOREM StreamImplemented == Spec => ImplementsStream
<1>1. Init => Contract!Init
  BY DEF Init, Contract!Init, Silence, step
<1>2. WalkInv /\ [Next]_vars =>
        [Contract!Begin \/ Contract!Finish \/ Contract!Complain \/ Contract!End]_<<aired.type, step>>
  BY WalkInvStep DEF ContractStep
<1>3. WalkInv /\ [Next]_vars => WalkInv'
  BY WalkInvStep
<1> QED BY WalkInvInit, <1>1, <1>2, <1>3, PTL DEF Spec, ImplementsStream, Contract!Spec
=============================================================================
