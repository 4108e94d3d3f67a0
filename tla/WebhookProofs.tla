---------------------------- MODULE WebhookProofs ----------------------------
(***************************************************************************)
(* WebhookDispatcher: every webhook execution has at most one runner, a    *)
(* dead letter is an exhausted failure and stays one, and a retry is the   *)
(* next attempt of a failed execution, for any number of dispatchers,      *)
(* executions and workflows and every value of the limits.                 *)
(*                                                                         *)
(* The argument: an execution leaves pending once and for ever, so that    *)
(* one worker at most comes to own it (OneOwner).  Only its owner writes   *)
(* cancelled or completed, or a log that allows a retry, and with that log *)
(* it stops being the owner (LogsAreLast): from then on every write to the *)
(* row, whoever makes it, says failed.  A dispatcher that has written      *)
(* failed is therefore right about the row when it finds such a log, even  *)
(* if it was not the owner and the owner overwrote it (Believed).          *)
(***************************************************************************)
EXTENDS WebhookDispatcher, ExecutionRunProofs

\* The columns of the queue and the local state of the dispatchers.
QueueTypeOK ==
    /\ tenantLock \in Execs \cup {NoExec}
    /\ rowLock \in [Execs -> Workers \cup {NoOne}]
    /\ workflow \in [Execs -> Workflows]
    /\ attempt \in [Execs -> Nat]
    /\ parent \in [Execs -> Execs \cup {NoExec}]
    /\ deferred \subseteq Execs
    /\ dead \subseteq Execs
    /\ paused \subseteq Workflows

LoopTypeOK ==
    /\ dpc \in [Workers -> {"asleep", "batch", "run", "policy"}]
    /\ batch \in [Workers -> SUBSET Execs]
    /\ handling \in [Workers -> Execs \cup {NoExec}]
    /\ \A d \in Workers : dpc[d] \in {"run", "policy"} => handling[d] \in Execs
    /\ count \in [Workers -> Nat]
    /\ wroteFailed \in [Workers -> BOOLEAN]

TypeOK == RunTypeOK /\ QueueTypeOK /\ LoopTypeOK

Exists(e) == status[e] # "absent"
Claimed(e) == status[e] \notin {"absent", "pending"}
Unowned(e) == \A w \in Workers : pc[w] \in Owns => cur[w] # e

\* What the workers and the dispatchers have in hand is in the table.
HaveRows ==
    \A w \in Workers :
        /\ cur[w] \in Execs => Exists(cur[w])
        /\ handling[w] \in Execs => Exists(handling[w])
        /\ \A e \in batch[w] : Exists(e)
        /\ dpc[w] = "run" /\ pc[w] # "idle" => cur[w] = handling[w]

OneOwner ==
    /\ \A w \in Workers : pc[w] \in Owns => Claimed(cur[w])
    /\ \A c, d \in Workers :
          c # d /\ pc[c] \in Owns /\ pc[d] \in Owns => cur[c] # cur[d]

\* Whoever logged a failure that may be retried owns the row no more.
LogsAreLast == \A e \in retryLog : Claimed(e) /\ Unowned(e)

\* A dispatcher whose session has written failed: the row says so, or its owner
\* has ended it otherwise without a log that allows a retry.
Believed ==
    \A d \in Workers :
        wroteFailed[d] /\ dpc[d] \in {"run", "policy"} =>
            /\ Claimed(handling[d])
            /\ \/ status[handling[d]] = "failed"
               \/ handling[d] \notin retryLog /\ Unowned(handling[d])

\* Ids are given in order, and the admission that holds the tenant row has the
\* next one.
InOrderOfId ==
    /\ \A x, y \in Execs : x < y /\ Exists(y) => Exists(x)
    /\ tenantLock # NoExec =>
          /\ NextRow(tenantLock)
          /\ parent[tenantLock] # NoExec => parent[tenantLock] \in dead

\* What was retried has a log that allows it.
RetriedIsLogged ==
    \A e \in Execs : Exists(e) /\ parent[e] # NoExec => parent[e] \in retryLog

IInv ==
    /\ TypeOK
    /\ HaveRows
    /\ OneOwner
    /\ LogsAreLast
    /\ Believed
    /\ InOrderOfId
    /\ RetriedIsLogged
    /\ DeadLetterIsExhausted
    /\ RetryChain

-----------------------------------------------------------------------------
(* Types *)

\* The frame of a step inside run_execution: what the dispatcher's own state
\* becomes, and when its session has come to believe that the execution failed.
LEMMA RunFrame ==
    ASSUME TypeOK, NEW d \in Workers, RunStep(d) \/ RunBreaks(d)
    PROVE  /\ WorkerStep(d)
           /\ UNCHANGED <<tenantLock, rowVars, paused, handling>>
           /\ rowLock' \in [Execs -> Workers \cup {NoOne}]
           /\ batch' \in [Workers -> SUBSET Execs]
           /\ \A c \in Workers : batch'[c] \subseteq batch[c]
           /\ \/ dpc' = dpc
              \/ dpc[d] = "run" /\ dpc' = [dpc EXCEPT ![d] = "policy"]
           /\ count' \in [Workers -> Nat]
           /\ wroteFailed' \in [Workers -> BOOLEAN]
           /\ \A c \in Workers \ {d} : wroteFailed'[c] = wroteFailed[c]
           /\ wroteFailed'[d] =>
                 \/ wroteFailed[d]
                 \/ /\ dpc[d] = "run" /\ pc[d] = "failing"
                    /\ status' = [status EXCEPT ![cur[d]] = "failed"]
<1> USE DEF TypeOK, QueueTypeOK, LoopTypeOK, WorkerStep, RunBody
<1>1. ReleaseRows(d) => rowLock' \in [Execs -> Workers \cup {NoOne}]
    BY DEF ReleaseRows
<1>2. CASE RunStep(d) /\ RunQuietly(d)
    BY <1>2 DEF RunStep, RunQuietly
<1>3. CASE RunStep(d) /\ RunClaims(d)
    BY <1>1, <1>3 DEF RunStep, RunClaims
<1>4. CASE RunStep(d) /\ RunWrites(d)
    <2>1. pc[d] = "failing" => status' = [status EXCEPT ![cur[d]] = "failed"]
        BY <1>4 DEF RunWrites, RunConnectorOk, RunConnectorError, RunCharge,
                    RunOverrun, RunFail, RunCancel, RunComplete, SetStatus
    <2>2. /\ batch' \in [Workers -> SUBSET Execs]
          /\ \A c \in Workers : batch'[c] \subseteq batch[c]
        BY <1>4 DEF RunWrites
    <2>3. /\ wroteFailed' \in [Workers -> BOOLEAN]
          /\ \A c \in Workers \ {d} : wroteFailed'[c] = wroteFailed[c]
          /\ wroteFailed'[d] => pc[d] = "failing"
        BY <1>4 DEF RunWrites
    <2>4. WorkerStep(d)
        BY <1>4 DEF RunWrites
    <2>5. dpc[d] = "run" /\ UNCHANGED <<dpc, count, tenantLock, rowVars, paused, handling>>
        BY <1>4 DEF RunStep, RunWrites
    <2>6. rowLock' \in [Execs -> Workers \cup {NoOne}]
        BY <1>1, <1>4 DEF RunWrites
    <2> QED BY <2>1, <2>2, <2>3, <2>4, <2>5, <2>6
<1>5. CASE RunStep(d) /\ RunReturns(d)
    BY <1>5 DEF RunStep, RunReturns
<1>6. CASE RunBreaks(d)
    BY <1>1, <1>6 DEF RunBreaks
<1> QED BY <1>2, <1>3, <1>4, <1>5, <1>6 DEF RunStep

\* The rows and the runs keep their types in the steps of ExecutionRun, and where
\* a row is inserted.
LEMMA RunTypeStep ==
    ASSUME TypeOK, [Next]_vars
    PROVE  RunTypeOK'
<1>1. RunTypeOK
    BY DEF TypeOK
<1>2. CASE UNCHANGED execVars
    BY <1>1, <1>2 DEF RunTypeOK, execVars, dbVars, memVars, runVars
<1>3. ASSUME NEW e \in Execs, NEW wf, NEW p, InsertRow(e, wf, p),
             UNCHANGED <<total, retryLog, used, memVars, runVars>>
      PROVE  RunTypeOK'
    BY <1>1, <1>3 DEF RunTypeOK, InsertRow, SetStatus, Statuses, Active, memVars, runVars
<1>4. ASSUME NEW d \in Workers, NEW e \in Execs, Dispatch(d, e)
      PROVE  RunTypeOK'
    BY <1>1, <1>2, <1>4, RunStartType DEF Dispatch
<1>5. ASSUME NEW d \in Workers, RunStep(d) \/ RunBreaks(d)
      PROVE  RunTypeOK'
    BY <1>1, <1>5, RunFrame, WorkerStepType
<1>6. ASSUME NEW d \in Workers, Crash(d)
      PROVE  RunTypeOK'
    <2>1. ProcOf[d] \in Procs
        BY RunAssumption DEF RunAssumption
    <2> QED BY <1>1, <1>6, <2>1, CrashType DEF Crash
<1>7. CASE UNCHANGED vars
    BY <1>2, <1>7 DEF vars
<1>8. ASSUME NEW e \in Execs,
             \/ IngestCheck(e) \/ AdmitAbort(e) \/ BecomeDue(e)
             \/ \E s \in Execs : ManualRetryCheck(e, s)
      PROVE  RunTypeOK'
    BY <1>2, <1>8 DEF IngestCheck, AdmitAbort, BecomeDue, ManualRetryCheck
<1>9. ASSUME NEW e \in Execs, AdmitCommit(e)
      PROVE  RunTypeOK'
    BY <1>3, <1>9 DEF AdmitCommit
<1>10. ASSUME NEW d \in Workers, NEW e \in Execs, PolicyRetry(d, e)
       PROVE  RunTypeOK'
    BY <1>3, <1>10 DEF PolicyRetry
<1>11. ASSUME NEW d \in Workers,
              Scan(d) \/ PolicyNone(d) \/ PolicyDeadLetter(d) \/ EndBatch(d)
       PROVE  RunTypeOK'
    BY <1>2, <1>11 DEF Scan, PolicyNone, PolicyDeadLetter, EndBatch
<1>12. ASSUME NEW wf \in Workflows, Pause(wf) \/ Resume(wf)
       PROVE  RunTypeOK'
    BY <1>2, <1>12 DEF Pause, Resume
<1> QED BY <1>4, <1>5, <1>6, <1>7, <1>8, <1>9, <1>10, <1>11, <1>12
        DEF Next, DispatcherStep

LEMMA QueueTypeStep ==
    ASSUME TypeOK, [Next]_vars
    PROVE  QueueTypeOK'
<1> USE DEF TypeOK, QueueTypeOK
<1>1. ASSUME NEW d \in Workers, ReleaseRows(d)
      PROVE  rowLock' \in [Execs -> Workers \cup {NoOne}]
    BY <1>1 DEF ReleaseRows
<1>2. ASSUME NEW e \in Execs, NEW wf \in Workflows, NEW p \in Execs \cup {NoExec},
             InsertRow(e, wf, p)
      PROVE  /\ workflow' \in [Execs -> Workflows]
             /\ parent' \in [Execs -> Execs \cup {NoExec}]
             /\ attempt' \in [Execs -> Nat]
    <2>1. p # NoExec => attempt[p] + 1 \in Nat
        OBVIOUS
    <2> QED BY <1>2, <2>1 DEF InsertRow
<1>3. ASSUME NEW d \in Workers, NEW e \in Execs, Dispatch(d, e)
      PROVE  QueueTypeOK'
    BY <1>3 DEF Dispatch, rowVars
<1>4. ASSUME NEW d \in Workers, RunStep(d) \/ RunBreaks(d)
      PROVE  QueueTypeOK'
    BY <1>4, RunFrame DEF rowVars
<1>5. ASSUME NEW d \in Workers, Crash(d)
      PROVE  QueueTypeOK'
    BY <1>1, <1>5 DEF Crash, rowVars
<1>6. CASE UNCHANGED vars
    BY <1>6 DEF vars, rowVars
<1>7. ASSUME NEW e \in Execs,
             \/ IngestCheck(e) \/ AdmitAbort(e) \/ BecomeDue(e)
             \/ \E s \in Execs : ManualRetryCheck(e, s)
      PROVE  QueueTypeOK'
    BY <1>7 DEF IngestCheck, AdmitAbort, BecomeDue, ManualRetryCheck, rowVars
<1>8. ASSUME NEW e \in Execs, AdmitCommit(e)
      PROVE  QueueTypeOK'
    BY <1>2, <1>8 DEF AdmitCommit
<1>9. ASSUME NEW d \in Workers, NEW e \in Execs, PolicyRetry(d, e)
      PROVE  QueueTypeOK'
    <2>1. handling[d] \in Execs
        BY <1>9 DEF PolicyRetry, LoopTypeOK
    <2> QED BY <1>1, <1>2, <1>9, <2>1 DEF PolicyRetry
<1>10. ASSUME NEW d \in Workers, Scan(d) \/ PolicyNone(d)
       PROVE  QueueTypeOK'
    BY <1>10 DEF Scan, PolicyNone, rowVars
<1>11. ASSUME NEW d \in Workers, PolicyDeadLetter(d) \/ EndBatch(d)
       PROVE  QueueTypeOK'
    BY <1>1, <1>11 DEF PolicyDeadLetter, EndBatch, rowVars, LoopTypeOK
<1>12. ASSUME NEW wf \in Workflows, Pause(wf) \/ Resume(wf)
       PROVE  QueueTypeOK'
    BY <1>12 DEF Pause, Resume, rowVars
<1> QED BY <1>3, <1>4, <1>5, <1>6, <1>7, <1>8, <1>9, <1>10, <1>11, <1>12
        DEF Next, DispatcherStep

LEMMA LoopTypeStep ==
    ASSUME TypeOK, [Next]_vars
    PROVE  LoopTypeOK'
<1> USE DEF TypeOK, LoopTypeOK
<1>1. CASE UNCHANGED loopVars
    BY <1>1 DEF loopVars
<1>2. ASSUME NEW d \in Workers, NEW e \in Execs, Dispatch(d, e)
      PROVE  LoopTypeOK'
    BY <1>2 DEF Dispatch
<1>3. ASSUME NEW d \in Workers, RunStep(d) \/ RunBreaks(d)
      PROVE  LoopTypeOK'
    BY <1>3, RunFrame
<1>4. ASSUME NEW d \in Workers, Scan(d)
      PROVE  LoopTypeOK'
    BY <1>4 DEF Scan
<1>5. ASSUME NEW d \in Workers, PolicyNone(d) \/ PolicyDeadLetter(d)
      PROVE  LoopTypeOK'
    BY <1>5 DEF PolicyNone, PolicyDeadLetter
<1>6. ASSUME NEW d \in Workers, EndBatch(d)
      PROVE  LoopTypeOK'
    BY <1>6 DEF EndBatch
<1>7. ASSUME NEW d \in Workers, Crash(d)
      PROVE  LoopTypeOK'
    BY <1>7 DEF Crash
<1>8. ASSUME NEW d \in Workers, NEW e \in Execs, PolicyRetry(d, e)
      PROVE  LoopTypeOK'
    BY <1>8 DEF PolicyRetry
<1>9. ASSUME NEW e \in Execs,
             \/ IngestCheck(e) \/ AdmitAbort(e) \/ BecomeDue(e) \/ AdmitCommit(e)
             \/ \E s \in Execs : ManualRetryCheck(e, s)
      PROVE  LoopTypeOK'
    BY <1>1, <1>9 DEF IngestCheck, AdmitAbort, BecomeDue, ManualRetryCheck, AdmitCommit
<1>10. ASSUME NEW wf \in Workflows, Pause(wf) \/ Resume(wf)
       PROVE  LoopTypeOK'
    BY <1>1, <1>10 DEF Pause, Resume
<1>11. CASE UNCHANGED vars
    BY <1>1, <1>11 DEF vars
<1> QED BY <1>2, <1>3, <1>4, <1>5, <1>6, <1>7, <1>8, <1>9, <1>10, <1>11
        DEF Next, DispatcherStep

LEMMA TypeStep ==
    TypeOK /\ [Next]_vars => TypeOK'
BY RunTypeStep, QueueTypeStep, LoopTypeStep DEF TypeOK

-----------------------------------------------------------------------------
(* Steps inside run_execution *)

\* What a step of a run does to the rows, one by one.  A row that somebody has
\* claimed stays claimed; only the owner of a row logs a failure that may be
\* retried, and only the owner turns failed into something else.
LEMMA RunRows ==
    ASSUME IInv, NEW d \in Workers, WorkerStep(d), NEW e \in Execs
    PROVE  /\ Exists(e)' <=> Exists(e)
           /\ Claimed(e) => Claimed(e)'
           /\ Claimed(e) /\ Unowned(e) => Unowned(e)'
           /\ e \in retryLog => e \in retryLog'
           /\ e \in retryLog' => Claimed(e)' /\ Unowned(e)'
           /\ Claimed(e) /\ Unowned(e) /\ e \notin retryLog => e \notin retryLog'
           /\ status[e] = "failed" /\ status'[e] # "failed" =>
                 e \notin retryLog' /\ Unowned(e)'
<1>1. RunTypeOK
    BY DEF IInv, TypeOK
<1>2. /\ \A v \in Workers \ {d} : pc'[v] = pc[v] /\ cur'[v] = cur[v]
      /\ \/ cur'[d] = cur[d]
         \/ pc'[d] = "idle" /\ cur'[d] = NoExec
      /\ cur[d] \in Execs
      /\ Exists(cur[d])
    BY <1>1, WorkerStepOwns DEF IInv, HaveRows
<1>3. pc'[d] # "idle" \/ pc'[d] \notin Owns
    BY DEF Owns, InBody
<1>4. /\ \A w \in Workers : pc[w] \in Owns => Claimed(cur[w])
      /\ \A v \in Workers \ {d} : pc[v] \in Owns /\ pc[d] \in Owns => cur[v] # cur[d]
      /\ \A x \in retryLog : Claimed(x) /\ Unowned(x)
    BY DEF IInv, OneOwner, LogsAreLast
<1>5. CASE status' = status /\ retryLog' = retryLog /\ (pc'[d] \in Owns => pc[d] \in Owns)
    BY <1>2, <1>3, <1>4, <1>5 DEF Exists, Claimed, Unowned
<1>6. CASE /\ status' = status /\ retryLog' = retryLog \cup {cur[d]}
           /\ pc[d] \in Owns /\ pc'[d] \notin Owns
    BY <1>2, <1>4, <1>6 DEF Exists, Claimed, Unowned
<1>7. CASE /\ status[cur[d]] = "pending"
           /\ status' = [status EXCEPT ![cur[d]] = "running"]
           /\ retryLog' = retryLog
    BY <1>1, <1>2, <1>3, <1>4, <1>7 DEF Exists, Claimed, Unowned, RunTypeOK
<1>8. CASE /\ status' = [status EXCEPT ![cur[d]] = "failed"]
           /\ retryLog' = retryLog
           /\ pc'[d] \in Owns => pc[d] \in Owns
    BY <1>1, <1>2, <1>3, <1>4, <1>8 DEF Exists, Claimed, Unowned, RunTypeOK
<1>9. ASSUME NEW s \in Terminal, status' = [status EXCEPT ![cur[d]] = s],
             pc[d] \in Owns, pc'[d] \notin Owns, retryLog' = retryLog
      PROVE  /\ Exists(e)' <=> Exists(e)
             /\ Claimed(e) => Claimed(e)'
             /\ Claimed(e) /\ Unowned(e) => Unowned(e)'
             /\ e \in retryLog => e \in retryLog'
             /\ e \in retryLog' => Claimed(e)' /\ Unowned(e)'
             /\ Claimed(e) /\ Unowned(e) /\ e \notin retryLog => e \notin retryLog'
             /\ status[e] = "failed" /\ status'[e] # "failed" =>
                   e \notin retryLog' /\ Unowned(e)'
    BY <1>1, <1>2, <1>4, <1>9 DEF Exists, Claimed, Unowned, RunTypeOK, Terminal
<1>10. \/ status' = status
       \/ /\ status[cur[d]] = "pending"
          /\ status' = [status EXCEPT ![cur[d]] = "running"]
       \/ status' = [status EXCEPT ![cur[d]] = "failed"]
       \/ /\ pc[d] \in Owns /\ pc'[d] \notin Owns
          /\ \E s \in Terminal : status' = [status EXCEPT ![cur[d]] = s]
    BY <1>1, WorkerStepOwns
<1>11. \/ pc'[d] \in Owns => pc[d] \in Owns
       \/ /\ status[cur[d]] = "pending"
          /\ status' = [status EXCEPT ![cur[d]] = "running"]
    BY <1>1, WorkerStepOwns
<1>12. \/ retryLog' = retryLog
       \/ /\ retryLog' = retryLog \cup {cur[d]}
          /\ pc[d] \in Owns /\ pc'[d] \notin Owns
          /\ status' = status
    BY <1>1, WorkerStepOwns
<1>13. CASE retryLog' = retryLog
    BY <1>5, <1>7, <1>8, <1>9, <1>10, <1>11, <1>13
<1> QED BY <1>6, <1>12, <1>13

\* A row still has one owner at most after a step of a run: a claim needs a pending
\* row, and a row that is owned is not pending.
LEMMA RunOwners ==
    ASSUME IInv, NEW d \in Workers, WorkerStep(d)
    PROVE  OneOwner'
<1>1. RunTypeOK
    BY DEF IInv, TypeOK
<1>2. /\ \A v \in Workers \ {d} : pc'[v] = pc[v] /\ cur'[v] = cur[v]
      /\ \/ cur'[d] = cur[d]
         \/ pc'[d] = "idle" /\ cur'[d] = NoExec
      /\ cur[d] \in Execs
      /\ \/ pc'[d] \in Owns => pc[d] \in Owns
         \/ /\ status[cur[d]] = "pending"
            /\ status' = [status EXCEPT ![cur[d]] = "running"]
    BY <1>1, WorkerStepOwns
<1>3. \A e \in Execs : Claimed(e) => Claimed(e)'
    BY RunRows
<1>4. pc'[d] # "idle" \/ pc'[d] \notin Owns
    BY DEF Owns, InBody
<1>5. \A w \in Workers : pc[w] \in Owns => cur[w] \in Execs
    BY <1>1 DEF RunTypeOK, Owns, InBody
<1>6. CASE pc'[d] \in Owns => pc[d] \in Owns
    BY <1>2, <1>3, <1>4, <1>5, <1>6 DEF IInv, OneOwner, Claimed
<1>7. CASE /\ status[cur[d]] = "pending"
           /\ status' = [status EXCEPT ![cur[d]] = "running"]
    <2>1. /\ status'[cur[d]] = "running"
          /\ \A v \in Workers : pc[v] \in Owns => cur[v] # cur[d]
        BY <1>1, <1>2, <1>7 DEF Claimed, IInv, OneOwner, RunTypeOK
    <2> QED BY <1>2, <1>3, <1>4, <1>5, <2>1 DEF IInv, OneOwner, Claimed
<1> QED BY <1>2, <1>6, <1>7

\* Every step of a run keeps the invariant.
LEMMA RunIInv ==
    ASSUME IInv, TypeOK', NEW d \in Workers, RunStep(d) \/ RunBreaks(d)
    PROVE  IInv'
<1>1. /\ WorkerStep(d)
      /\ UNCHANGED <<tenantLock, workflow, attempt, parent, dead, handling>>
      /\ \A c \in Workers : batch'[c] \subseteq batch[c]
      /\ \/ dpc' = dpc
         \/ dpc[d] = "run" /\ dpc' = [dpc EXCEPT ![d] = "policy"]
      /\ \A c \in Workers \ {d} : wroteFailed'[c] = wroteFailed[c]
      /\ wroteFailed'[d] =>
            \/ wroteFailed[d]
            \/ /\ dpc[d] = "run" /\ pc[d] = "failing"
               /\ status' = [status EXCEPT ![cur[d]] = "failed"]
    BY RunFrame DEF IInv, rowVars
<1>2. /\ \A v \in Workers \ {d} : pc'[v] = pc[v] /\ cur'[v] = cur[v]
      /\ \/ cur'[d] = cur[d]
         \/ pc'[d] = "idle" /\ cur'[d] = NoExec
      /\ cur[d] \in Execs
    BY <1>1, WorkerStepOwns DEF IInv, TypeOK
<1>3. /\ \A e \in Execs : Exists(e)' <=> Exists(e)
      /\ \A e \in Execs : Claimed(e) => Claimed(e)'
      /\ \A e \in Execs : e \in retryLog => e \in retryLog'
      /\ \A e \in Execs : e \in retryLog' => Claimed(e)' /\ Unowned(e)'
      /\ \A e \in Execs : Claimed(e) /\ Unowned(e) /\ e \notin retryLog =>
            e \notin retryLog' /\ Unowned(e)'
      /\ \A e \in Execs : status[e] = "failed" /\ status'[e] # "failed" =>
            e \notin retryLog' /\ Unowned(e)'
    BY <1>1, RunRows
<1>4. HaveRows'
    <2>1. pc[d] # "idle" \/ pc'[d] = "idle"
        BY <1>1, WorkerStepRows, <1>2 DEF IInv, TypeOK, HaveRows, Exists
    <2>2. NoExec \notin Execs
        BY RunAssumption DEF RunAssumption
    <2>3. ASSUME NEW w \in Workers
          PROVE  /\ cur'[w] \in Execs => Exists(cur[w])'
                 /\ handling'[w] \in Execs => Exists(handling[w])'
                 /\ \A e \in batch'[w] : Exists(e)'
                 /\ dpc'[w] = "run" /\ pc'[w] # "idle" => cur'[w] = handling'[w]
        <3>1. HaveRows /\ (dpc'[w] = "run" => dpc[w] = "run") /\ batch[w] \subseteq Execs
            BY <1>1 DEF IInv, TypeOK, LoopTypeOK
        <3>2. handling'[w] \in Execs => Exists(handling[w])'
            BY <1>1, <1>3, <3>1 DEF HaveRows, Exists
        <3>3. \A e \in batch'[w] : Exists(e)'
            BY <1>1, <1>3, <3>1 DEF HaveRows
        <3>4. cur'[w] \in Execs => Exists(cur[w])'
            BY <1>2, <1>3, <2>2, <3>1 DEF HaveRows, Exists
        <3>5. dpc'[w] = "run" /\ pc'[w] # "idle" => cur'[w] = handling'[w]
            BY <1>1, <1>2, <2>1, <3>1 DEF HaveRows
        <3> QED BY <3>2, <3>3, <3>4, <3>5
    <2> QED BY <2>3 DEF HaveRows
<1>5. OneOwner'
    BY <1>1, RunOwners
<1>6. LogsAreLast'
    BY <1>3 DEF LogsAreLast, TypeOK, RunTypeOK
<1>7. Believed'
    <2> SUFFICES ASSUME NEW c \in Workers, wroteFailed'[c], dpc'[c] \in {"run", "policy"}
                 PROVE  /\ Claimed(handling[c])'
                        /\ \/ status'[handling[c]] = "failed"
                           \/ handling[c] \notin retryLog' /\ Unowned(handling[c])'
        BY <1>1 DEF Believed, Claimed, Unowned
    <2>1. handling[c] \in Execs
        BY <1>1 DEF TypeOK, LoopTypeOK
    <2>2. CASE wroteFailed[c] /\ dpc[c] \in {"run", "policy"}
        <3>1. /\ Claimed(handling[c])
              /\ \/ status[handling[c]] = "failed"
                 \/ handling[c] \notin retryLog /\ Unowned(handling[c])
            BY <2>2 DEF IInv, Believed
        <3>2. Claimed(handling[c])'
            BY <1>1, <1>3, <2>1, <3>1 DEF Claimed
        <3>3. \/ status'[handling[c]] = "failed"
              \/ handling[c] \notin retryLog' /\ Unowned(handling[c])'
            BY <1>1, <1>3, <2>1, <3>1 DEF Unowned
        <3> QED BY <3>2, <3>3
    <2>3. CASE /\ c = d /\ dpc[d] = "run" /\ pc[d] = "failing"
               /\ status' = [status EXCEPT ![cur[d]] = "failed"]
        <3>1. cur[d] = handling[d]
            BY <2>3 DEF IInv, HaveRows
        <3>2. status'[handling[c]] = "failed"
            BY <2>1, <2>3, <3>1 DEF IInv, TypeOK, RunTypeOK
        <3> QED BY <1>1, <3>2 DEF Claimed
    <2>4. wroteFailed[c] => dpc[c] \in {"run", "policy"}
        BY <1>1 DEF IInv, TypeOK, LoopTypeOK
    <2> QED BY <1>1, <2>2, <2>3, <2>4
<1>8. InOrderOfId'
    <2>1. tenantLock # NoExec => tenantLock \in Execs
        BY DEF IInv, TypeOK, QueueTypeOK
    <2>2. \A e \in Execs : NextRow(e) => NextRow(e)'
        BY <1>3 DEF NextRow, Exists
    <2>3. tenantLock # NoExec => NextRow(tenantLock)'
        BY <1>1, <2>1, <2>2 DEF IInv, InOrderOfId, NextRow
    <2> QED BY <1>1, <1>3, <2>3 DEF IInv, InOrderOfId
<1>9. RetriedIsLogged'
    BY <1>1, <1>3 DEF IInv, RetriedIsLogged, TypeOK, QueueTypeOK
<1>10. \A e \in Execs : e \in retryLog /\ status[e] = "failed" => status'[e] = "failed"
    BY <1>3
<1>11. DeadLetterIsExhausted'
    BY <1>1, <1>3, <1>10 DEF IInv, DeadLetterIsExhausted, TypeOK, QueueTypeOK
<1>12. RetryChain'
    BY <1>1, <1>3, <1>10
       DEF IInv, RetryChain, RetriedIsLogged, TypeOK, QueueTypeOK, Exists
<1> QED BY <1>4, <1>5, <1>6, <1>7, <1>8, <1>9, <1>11, <1>12 DEF IInv

-----------------------------------------------------------------------------
(* Steps that leave the status of every row alone *)

\* Nobody comes to own a row, no dispatcher comes to believe in a failure, and
\* what is said of existing rows stays.
Calm ==
    /\ UNCHANGED <<status, retryLog, workflow, attempt>>
    /\ \A w \in Workers : pc'[w] \in Owns => pc[w] \in Owns /\ cur'[w] = cur[w]
    /\ \A d \in Workers :
          wroteFailed'[d] /\ dpc'[d] \in {"run", "policy"} =>
              /\ wroteFailed[d] /\ dpc[d] \in {"run", "policy"}
              /\ handling'[d] = handling[d]
    /\ \A e \in Execs : Exists(e) => parent'[e] = parent[e]

\* The parts of the invariant that calm steps keep for that reason.
LEMMA CalmParts ==
    ASSUME IInv, TypeOK', Calm
    PROVE  OneOwner' /\ LogsAreLast' /\ Believed' /\ RetriedIsLogged'
<1>1. /\ \A e \in Execs : Claimed(e)' <=> Claimed(e)
      /\ \A e \in Execs : Exists(e)' <=> Exists(e)
      /\ \A e \in Execs : Unowned(e) => Unowned(e)'
    BY DEF Calm, Claimed, Exists, Unowned
<1>2. OneOwner'
    BY DEF Calm, IInv, OneOwner, Claimed
<1>3. LogsAreLast'
    BY <1>1 DEF Calm, IInv, LogsAreLast, TypeOK, RunTypeOK
<1>4. Believed'
    <2> SUFFICES ASSUME NEW d \in Workers, wroteFailed'[d], dpc'[d] \in {"run", "policy"}
                 PROVE  /\ Claimed(handling[d])'
                        /\ \/ status'[handling'[d]] = "failed"
                           \/ handling'[d] \notin retryLog' /\ Unowned(handling[d])'
        BY DEF Believed
    <2>1. /\ handling'[d] = handling[d] /\ handling[d] \in Execs
          /\ Claimed(handling[d])
          /\ \/ status[handling[d]] = "failed"
             \/ handling[d] \notin retryLog /\ Unowned(handling[d])
        BY DEF Calm, IInv, Believed, TypeOK, LoopTypeOK
    <2>2. Claimed(handling[d])'
        BY <2>1 DEF Calm, Claimed
    <2>3. Unowned(handling[d]) => Unowned(handling[d])'
        BY <2>1 DEF Calm, Unowned
    <2> QED BY <2>1, <2>2, <2>3 DEF Calm
<1>5. RetriedIsLogged'
    BY <1>1 DEF Calm, IInv, RetriedIsLogged
<1> QED BY <1>2, <1>3, <1>4, <1>5

\* If moreover no execution is dead-lettered, the retries and the dead letters are
\* as they were.
LEMMA CalmStep ==
    ASSUME IInv, TypeOK', Calm, UNCHANGED dead, HaveRows', InOrderOfId'
    PROVE  IInv'
<1>1. DeadLetterIsExhausted'
    BY DEF Calm, IInv, DeadLetterIsExhausted
<1>2. RetryChain'
    BY DEF Calm, IInv, RetryChain, Exists
<1> QED BY <1>1, <1>2, CalmParts DEF IInv

\* An admission locks the tenant row for the next id, or lets go of it; workflows
\* are paused and resumed; a retry becomes due.
LEMMA AdmissionStep ==
    ASSUME IInv, TypeOK',
           \/ \E e \in Execs :
                 \/ IngestCheck(e) \/ AdmitAbort(e) \/ BecomeDue(e)
                 \/ \E s \in Execs : ManualRetryCheck(e, s)
           \/ \E wf \in Workflows : Pause(wf) \/ Resume(wf)
           \/ UNCHANGED vars
    PROVE  IInv'
<1> USE DEF execVars, dbVars, runVars, loopVars, rowVars
<1>1. NoExec \notin Execs
    BY RunAssumption DEF RunAssumption
<1>2. UNCHANGED <<status, retryLog, workflow, attempt, dead, pc, cur, loopVars>>
    BY DEF IngestCheck, AdmitAbort, BecomeDue, ManualRetryCheck, Pause, Resume, vars
<1>3. HaveRows'
    BY <1>2 DEF IInv, HaveRows, Exists
<1>4. ASSUME NEW e \in Execs, IngestCheck(e) \/ \E s \in Execs : ManualRetryCheck(e, s)
      PROVE  IInv'
    <2>1. /\ NextRow(e) /\ tenantLock' = e
          /\ \/ parent' = [parent EXCEPT ![e] = NoExec]
             \/ \E s \in dead : parent' = [parent EXCEPT ![e] = s]
        BY <1>4 DEF IngestCheck, ManualRetryCheck
    <2>2. ~Exists(e) /\ NextRow(e)'
        BY <1>2, <2>1 DEF NextRow, Exists
    <2>3. \A x \in Execs : Exists(x) => parent'[x] = parent[x]
        BY <2>1, <2>2 DEF IInv, TypeOK, QueueTypeOK
    <2>4. Calm
        BY <1>2, <2>3 DEF Calm
    <2>5. parent'[e] # NoExec => parent'[e] \in dead
        BY <2>1 DEF IInv, TypeOK, QueueTypeOK
    <2>6. \A x, y \in Execs : x < y /\ Exists(y)' => Exists(x)'
        BY <1>2 DEF IInv, InOrderOfId, Exists
    <2>7. InOrderOfId'
        <3>1. NextRow(tenantLock)'
            BY <2>1, <2>2 DEF NextRow
        <3> QED BY <1>2, <2>1, <2>5, <2>6, <3>1 DEF InOrderOfId
    <2> QED BY <1>2, <1>3, <2>4, <2>7, CalmStep
<1>5. ASSUME UNCHANGED parent, tenantLock' = tenantLock \/ tenantLock' = NoExec
      PROVE  IInv'
    <2>1. Calm
        BY <1>2, <1>5 DEF Calm
    <2>2. InOrderOfId'
        BY <1>2, <1>5 DEF IInv, InOrderOfId, Exists, NextRow
    <2> QED BY <1>2, <1>3, <2>1, <2>2, CalmStep
<1>6. ASSUME NEW e \in Execs, AdmitAbort(e) \/ BecomeDue(e)
      PROVE  IInv'
    BY <1>5, <1>6 DEF AdmitAbort, BecomeDue
<1>7. ASSUME NEW wf \in Workflows, Pause(wf) \/ Resume(wf)
      PROVE  IInv'
    BY <1>5, <1>7 DEF Pause, Resume
<1>8. CASE UNCHANGED vars
    BY <1>5, <1>8 DEF vars
<1> QED BY <1>4, <1>6, <1>7, <1>8

\* The dispatcher's own steps between two runs, and the death of its process.
LEMMA LoopStep ==
    ASSUME IInv, TypeOK', NEW d \in Workers,
           \/ Scan(d) \/ PolicyNone(d) \/ EndBatch(d) \/ Crash(d)
           \/ \E e \in Execs : Dispatch(d, e)
    PROVE  IInv'
<1>1. NoExec \notin Execs
    BY RunAssumption DEF RunAssumption
<1>2. UNCHANGED <<status, retryLog, workflow, attempt, parent, dead, tenantLock>>
    BY DEF Scan, PolicyNone, EndBatch, Crash, Dispatch, RunStart, ProcessCrash,
           execVars, dbVars, rowVars
<1>3. InOrderOfId'
    BY <1>2 DEF IInv, InOrderOfId, Exists, NextRow
<1>4. SUFFICES HaveRows' /\ Calm
    BY <1>2, <1>3, CalmStep
<1>5. HaveRows /\ TypeOK
    BY DEF IInv
<1>6. CASE Scan(d)
    <2>1. /\ UNCHANGED <<pc, cur, handling, wroteFailed>>
          /\ dpc' = [dpc EXCEPT ![d] = "batch"]
        BY <1>6 DEF Scan, execVars, runVars
    <2>2. \A w \in Workers : \A e \in batch'[w] : e \in batch[w] \/ status[e] = "pending"
        BY <1>5, <1>6 DEF Scan, TypeOK, LoopTypeOK, Pending
    <2>3. HaveRows'
        BY <1>2, <1>5, <2>1, <2>2 DEF HaveRows, Exists, TypeOK, LoopTypeOK
    <2> QED BY <1>2, <1>5, <2>1, <2>3 DEF Calm, TypeOK, LoopTypeOK
<1>7. CASE PolicyNone(d)
    <2>1. /\ UNCHANGED <<pc, cur, batch, wroteFailed>>
          /\ dpc' = [dpc EXCEPT ![d] = "batch"]
          /\ handling' = [handling EXCEPT ![d] = NoExec]
        BY <1>7 DEF PolicyNone, execVars, runVars
    <2> QED BY <1>1, <1>2, <1>5, <2>1 DEF Calm, HaveRows, Exists, TypeOK, LoopTypeOK
<1>8. CASE EndBatch(d)
    <2>1. /\ UNCHANGED <<pc, cur, handling>>
          /\ batch' = [batch EXCEPT ![d] = {}]
          /\ dpc' = [dpc EXCEPT ![d] = "asleep"]
          /\ wroteFailed' = [wroteFailed EXCEPT ![d] = FALSE]
        BY <1>8 DEF EndBatch, execVars, runVars
    <2> QED BY <1>2, <1>5, <2>1 DEF Calm, HaveRows, Exists, TypeOK, LoopTypeOK
<1>9. CASE Crash(d)
    <2>1. /\ batch' = [batch EXCEPT ![d] = {}]
          /\ dpc' = [dpc EXCEPT ![d] = "asleep"]
          /\ handling' = [handling EXCEPT ![d] = NoExec]
          /\ wroteFailed' = [wroteFailed EXCEPT ![d] = FALSE]
        BY <1>9 DEF Crash
    <2>2. \A w \in Workers :
            \/ pc'[w] = pc[w] /\ cur'[w] = cur[w]
            \/ pc'[w] = "idle" /\ cur'[w] = NoExec
        BY <1>9 DEF Crash, ProcessCrash
    <2>3. "idle" \notin Owns
        BY DEF Owns, InBody
    <2> QED BY <1>1, <1>2, <1>5, <2>1, <2>2, <2>3
            DEF Calm, HaveRows, Exists, TypeOK, LoopTypeOK
<1>10. ASSUME NEW e \in Execs, Dispatch(d, e)
       PROVE  HaveRows' /\ Calm
    <2>1. e \in batch[d] /\ batch' = [batch EXCEPT ![d] = @ \ {e}] /\ Exists(e)
        BY <1>5, <1>10 DEF Dispatch, HaveRows
    <2>2. CASE UNCHANGED <<pc, cur, dpc, handling, wroteFailed>>
        BY <1>2, <1>5, <2>1, <2>2 DEF Calm, HaveRows, Exists, TypeOK, LoopTypeOK
    <2>3. CASE /\ RunStart(d, e)
               /\ dpc' = [dpc EXCEPT ![d] = "run"]
               /\ handling' = [handling EXCEPT ![d] = e]
               /\ wroteFailed' = [wroteFailed EXCEPT ![d] = FALSE]
        <3>1. pc' = [pc EXCEPT ![d] = "start"] /\ cur' = [cur EXCEPT ![d] = e]
            BY <2>3 DEF RunStart, Goto
        <3>2. "start" \notin Owns
            BY DEF Owns, InBody
        <3> QED BY <1>2, <1>5, <2>1, <2>3, <3>1, <3>2
                DEF Calm, HaveRows, Exists, TypeOK, RunTypeOK, LoopTypeOK
    <2> QED BY <1>10, <2>2, <2>3 DEF Dispatch, execVars, runVars
<1> QED BY <1>6, <1>7, <1>8, <1>9, <1>10

-----------------------------------------------------------------------------
(* Steps of the retry policy, and inserts *)

\* _mark_dead_lettered: the session believes that the execution failed, there is
\* a log that allows a retry, and so the row does say failed.
LEMMA DeadLetterStep ==
    ASSUME IInv, TypeOK', NEW d \in Workers, PolicyDeadLetter(d)
    PROVE  IInv'
<1> USE DEF execVars, dbVars, runVars
<1>0. NoExec \notin Execs
    BY RunAssumption DEF RunAssumption
<1>1. /\ UNCHANGED <<status, retryLog, workflow, attempt, parent, tenantLock, pc, cur,
                     batch, wroteFailed>>
      /\ dead' = dead \cup {handling[d]}
      /\ dpc' = [dpc EXCEPT ![d] = "batch"]
      /\ handling' = [handling EXCEPT ![d] = NoExec]
      /\ attempt[handling[d]] >= MaxAttempts
      /\ Retryable(d) /\ dpc[d] = "policy"
    BY DEF PolicyDeadLetter
<1>2. TypeOK
    BY DEF IInv
<1>3. Calm
    BY <1>1, <1>2 DEF Calm, TypeOK, LoopTypeOK
<1>4. HaveRows'
    BY <1>0, <1>1, <1>2 DEF IInv, HaveRows, Exists, TypeOK, LoopTypeOK
<1>5. InOrderOfId'
    BY <1>1 DEF IInv, InOrderOfId, Exists, NextRow
<1>6. handling[d] \in retryLog /\ status[handling[d]] = "failed"
    BY <1>1 DEF Retryable, IInv, Believed
<1>7. DeadLetterIsExhausted'
    BY <1>1, <1>6 DEF IInv, DeadLetterIsExhausted
<1>8. RetryChain'
    <2>1. ASSUME NEW e \in Execs, Exists(e), parent[e] # NoExec
          PROVE  attempt[parent[e]] < MaxAttempts <=> parent[e] \notin dead'
        <3>1. attempt[parent[e]] < MaxAttempts <=> parent[e] \notin dead
            BY <2>1 DEF IInv, RetryChain, Exists
        <3>2. attempt[handling[d]] \in Nat
            BY <1>1, <1>2 DEF TypeOK, LoopTypeOK, QueueTypeOK
        <3>3. MaxAttempts \in Nat
            BY DispatcherAssumption DEF DispatcherAssumption
        <3>4. parent[e] = handling[d] => ~(attempt[parent[e]] < MaxAttempts)
            BY <1>1, <3>2, <3>3
        <3> QED BY <1>1, <3>1, <3>4
    <2> QED BY <1>1, <2>1 DEF IInv, RetryChain, Exists
<1> QED BY <1>3, <1>4, <1>5, <1>7, <1>8, CalmParts DEF IInv

\* The row of e enters the table: as a webhook's own, or as the next attempt of p.
LEMMA InsertStep ==
    ASSUME IInv, TypeOK', NEW e \in Execs, NEW wf \in Workflows,
           NEW p \in Execs \cup {NoExec},
           NextRow(e), InsertRow(e, wf, p),
           UNCHANGED <<retryLog, dead, pc, cur, batch, wroteFailed>>,
           tenantLock' = NoExec,
           \A d \in Workers :
              \/ handling'[d] = handling[d] /\ dpc'[d] = dpc[d]
              \/ handling'[d] = NoExec /\ dpc'[d] = "batch",
           p # NoExec =>
              /\ status[p] = "failed" /\ p \in retryLog
              /\ wf = workflow[p]
              /\ attempt[p] < MaxAttempts <=> p \notin dead
    PROVE  IInv'
<1>0. NoExec \notin Execs /\ Execs \subseteq Nat
    BY RunAssumption, DispatcherAssumption DEF RunAssumption, DispatcherAssumption
<1>1. TypeOK
    BY DEF IInv
<1>2. /\ status' = [status EXCEPT ![e] = "pending"]
      /\ workflow' = [workflow EXCEPT ![e] = wf]
      /\ parent' = [parent EXCEPT ![e] = p]
      /\ attempt' = [attempt EXCEPT ![e] = IF p = NoExec THEN 1 ELSE attempt[p] + 1]
    BY DEF InsertRow, SetStatus
<1>3. /\ ~Exists(e)
      /\ \A x \in Execs : x < e => Exists(x)
    BY DEF NextRow, Exists
<1>4. \A x \in Execs : x # e => /\ status'[x] = status[x]
                                /\ workflow'[x] = workflow[x]
                                /\ parent'[x] = parent[x]
                                /\ attempt'[x] = attempt[x]
    BY <1>1, <1>2 DEF TypeOK, RunTypeOK, QueueTypeOK
<1>5. /\ status'[e] = "pending"
      /\ workflow'[e] = wf
      /\ parent'[e] = p
      /\ p # NoExec => attempt'[e] = attempt[p] + 1
    BY <1>1, <1>2 DEF TypeOK, RunTypeOK, QueueTypeOK
<1>6. /\ \A x \in Execs : Exists(x) => Exists(x)' /\ x # e
      /\ \A x \in Execs : Claimed(x) => Claimed(x)' /\ x # e
      /\ \A x \in Execs : Exists(x)' => Exists(x) \/ x = e
      /\ \A x : Unowned(x) <=> Unowned(x)'
    BY <1>3, <1>4, <1>5 DEF Exists, Claimed, Unowned
<1>7. HaveRows'
    <2> SUFFICES ASSUME NEW w \in Workers
                 PROVE  /\ cur'[w] \in Execs => Exists(cur[w])'
                        /\ handling'[w] \in Execs => Exists(handling[w])'
                        /\ \A x \in batch'[w] : Exists(x)'
                        /\ dpc'[w] = "run" /\ pc'[w] # "idle" => cur'[w] = handling'[w]
        BY DEF HaveRows
    <2>1. HaveRows /\ batch[w] \subseteq Execs
        BY <1>1 DEF IInv, TypeOK, LoopTypeOK
    <2>2. cur[w] \in Execs => Exists(cur[w])'
        BY <1>6, <2>1 DEF HaveRows, Exists
    <2>3. handling'[w] \in Execs => Exists(handling[w])'
        BY <1>0, <1>6, <2>1 DEF HaveRows, Exists
    <2>4. \A x \in batch[w] : Exists(x)'
        BY <1>6, <2>1 DEF HaveRows
    <2>5. dpc'[w] = "run" /\ pc'[w] # "idle" => cur'[w] = handling'[w]
        BY <2>1 DEF HaveRows
    <2> QED BY <2>2, <2>3, <2>4, <2>5
<1>8. OneOwner'
    <2>1. \A w \in Workers : pc[w] \in Owns => cur[w] \in Execs
        BY <1>1 DEF TypeOK, RunTypeOK, Owns, InBody
    <2>2. ASSUME NEW w \in Workers, pc[w] \in Owns
          PROVE  Claimed(cur[w])'
        <3>1. Claimed(cur[w])
            BY <2>2 DEF IInv, OneOwner
        <3> QED BY <1>6, <2>1, <2>2, <3>1 DEF Claimed
    <2> QED BY <2>2 DEF IInv, OneOwner
<1>9. LogsAreLast'
    BY <1>1, <1>6 DEF IInv, LogsAreLast, TypeOK, RunTypeOK
<1>10. Believed'
    <2> SUFFICES ASSUME NEW d \in Workers, wroteFailed'[d], dpc'[d] \in {"run", "policy"}
                 PROVE  /\ Claimed(handling[d])'
                        /\ \/ status'[handling'[d]] = "failed"
                           \/ handling'[d] \notin retryLog' /\ Unowned(handling[d])'
        BY DEF Believed
    <2>1. handling'[d] = handling[d] /\ wroteFailed[d] /\ dpc[d] \in {"run", "policy"}
        OBVIOUS
    <2>2. /\ handling[d] \in Execs /\ Claimed(handling[d])
          /\ \/ status[handling[d]] = "failed"
             \/ handling[d] \notin retryLog /\ Unowned(handling[d])
        BY <1>1, <2>1 DEF IInv, Believed, TypeOK, LoopTypeOK
    <2>3. Claimed(handling[d])' /\ handling[d] # e
        BY <1>6, <2>1, <2>2 DEF Claimed
    <2>4. Unowned(handling[d]) => Unowned(handling[d])'
        BY <2>1 DEF Unowned
    <2> QED BY <1>4, <2>1, <2>2, <2>3, <2>4
<1>11. InOrderOfId'
    <2>1. ASSUME NEW x \in Execs, NEW y \in Execs, x < y, Exists(y)'
          PROVE  Exists(x)'
        BY <1>3, <1>6, <2>1 DEF IInv, InOrderOfId
    <2> QED BY <2>1 DEF InOrderOfId
<1>12. RetriedIsLogged'
    BY <1>4, <1>5, <1>6 DEF IInv, RetriedIsLogged
<1>13. DeadLetterIsExhausted'
    <2>1. \A x \in dead : x \in Execs /\ x # e
        BY <1>1, <1>3 DEF TypeOK, QueueTypeOK, IInv, DeadLetterIsExhausted, Exists
    <2> QED BY <1>4, <2>1 DEF IInv, DeadLetterIsExhausted
<1>14. RetryChain'
    <2> SUFFICES ASSUME NEW x \in Execs, Exists(x)', parent'[x] # NoExec
                 PROVE  /\ parent'[x] < x
                        /\ status'[parent'[x]] = "failed"
                        /\ workflow'[x] = workflow'[parent'[x]]
                        /\ attempt'[x] = attempt'[parent'[x]] + 1
                        /\ attempt'[parent'[x]] < MaxAttempts <=> parent'[x] \notin dead'
        BY DEF RetryChain, Exists
    <2>1. CASE x = e
        <3>1. p \in Execs /\ Exists(p) /\ p # e
            BY <1>3, <1>5, <2>1 DEF Exists
        <3>2. p < e
            <4>1. ~(e < p)
                BY <1>3, <3>1 DEF IInv, InOrderOfId
            <4> QED BY <1>0, <3>1, <4>1
        <3> QED BY <1>4, <1>5, <2>1, <3>1, <3>2
    <2>2. CASE x # e
        <3>1. /\ Exists(x) /\ parent'[x] = parent[x] /\ parent[x] \in Execs
              /\ workflow'[x] = workflow[x] /\ attempt'[x] = attempt[x]
            BY <1>1, <1>4, <1>6, <2>2 DEF TypeOK, QueueTypeOK
        <3>2. /\ parent[x] < x
              /\ status[parent[x]] = "failed"
              /\ workflow[x] = workflow[parent[x]]
              /\ attempt[x] = attempt[parent[x]] + 1
              /\ attempt[parent[x]] < MaxAttempts <=> parent[x] \notin dead
            BY <3>1 DEF IInv, RetryChain, Exists
        <3>3. parent[x] # e
            BY <1>3, <3>2 DEF Exists
        <3> QED BY <1>4, <3>1, <3>2, <3>3
    <2> QED BY <2>1, <2>2
<1> QED BY <1>7, <1>8, <1>9, <1>10, <1>11, <1>12, <1>13, <1>14 DEF IInv

\* The commit of an admission, and _schedule_retry_execution.
LEMMA NewRowStep ==
    ASSUME IInv, TypeOK', NEW e \in Execs,
           AdmitCommit(e) \/ \E d \in Workers : PolicyRetry(d, e)
    PROVE  IInv'
<1>0. /\ TypeOK /\ NoExec \notin Execs
      /\ MaxAttempts \in Nat
    BY RunAssumption, DispatcherAssumption DEF RunAssumption, DispatcherAssumption, IInv
<1>1. CASE AdmitCommit(e)
    <2>1. PICK wf \in Workflows :
            /\ parent[e] # NoExec => wf = workflow[parent[e]]
            /\ InsertRow(e, wf, parent[e])
        BY <1>1 DEF AdmitCommit
    <2>2. /\ tenantLock = e /\ tenantLock' = NoExec
          /\ UNCHANGED <<retryLog, dead, pc, cur, dpc, batch, handling, wroteFailed>>
        BY <1>1 DEF AdmitCommit, runVars, loopVars
    <2>3. NextRow(e) /\ (parent[e] # NoExec => parent[e] \in dead)
        BY <1>0, <2>2 DEF IInv, InOrderOfId
    <2>4. parent[e] \in Execs \cup {NoExec}
        BY <1>0 DEF TypeOK, QueueTypeOK
    <2>5. parent[e] # NoExec =>
            /\ status[parent[e]] = "failed" /\ parent[e] \in retryLog
            /\ attempt[parent[e]] < MaxAttempts <=> parent[e] \notin dead
        <3>1. parent[e] # NoExec =>
                /\ status[parent[e]] = "failed" /\ parent[e] \in retryLog
                /\ attempt[parent[e]] >= MaxAttempts /\ attempt[parent[e]] \in Nat
            BY <1>0, <2>3, <2>4 DEF IInv, DeadLetterIsExhausted, TypeOK, QueueTypeOK
        <3> QED BY <1>0, <2>3, <3>1
    <2> QED BY <2>1, <2>2, <2>3, <2>4, <2>5, InsertStep
<1>2. ASSUME NEW d \in Workers, PolicyRetry(d, e)
      PROVE  IInv'
    <2>1. /\ NextRow(e)
          /\ InsertRow(e, workflow[handling[d]], handling[d])
          /\ UNCHANGED <<retryLog, dead, pc, cur, batch, wroteFailed>>
          /\ tenantLock' = NoExec
          /\ Retryable(d) /\ dpc[d] = "policy"
          /\ attempt[handling[d]] < MaxAttempts
          /\ dpc' = [dpc EXCEPT ![d] = "batch"]
          /\ handling' = [handling EXCEPT ![d] = NoExec]
        BY <1>2 DEF PolicyRetry, runVars
    <2>2. /\ handling[d] \in Execs /\ workflow[handling[d]] \in Workflows
          /\ attempt[handling[d]] \in Nat
        BY <1>0, <2>1 DEF TypeOK, LoopTypeOK, QueueTypeOK
    <2>3. handling[d] \in retryLog /\ status[handling[d]] = "failed"
        BY <2>1 DEF Retryable, IInv, Believed
    <2>4. handling[d] \notin dead
        BY <1>0, <2>1, <2>2 DEF IInv, DeadLetterIsExhausted
    <2>5. \A c \in Workers :
            \/ handling'[c] = handling[c] /\ dpc'[c] = dpc[c]
            \/ handling'[c] = NoExec /\ dpc'[c] = "batch"
        BY <1>0, <2>1 DEF TypeOK, LoopTypeOK
    <2> QED BY <2>1, <2>2, <2>3, <2>4, <2>5, InsertStep
<1> QED BY <1>1, <1>2

-----------------------------------------------------------------------------
(* Theorems *)

LEMMA InitIInv ==
    Init => IInv
<1> SUFFICES ASSUME Init
             PROVE  IInv
    OBVIOUS
<1>0. NoExec \notin Execs /\ 0 \in 0..MaxNodes /\ Workflows # {}
    BY RunAssumption, DispatcherAssumption DEF RunAssumption, DispatcherAssumption
<1>1. RunTypeOK
    BY <1>0 DEF Init, RunInit, RunTypeOK, Statuses, PcStates
<1>2. QueueTypeOK
    BY <1>0 DEF Init, QueueTypeOK
<1>3. LoopTypeOK
    BY DEF Init, LoopTypeOK
<1>4. \A w \in Workers : pc[w] = "idle" /\ cur[w] = NoExec
    BY DEF Init, RunInit
<1>5. HaveRows /\ OneOwner /\ Believed
    BY <1>0, <1>4 DEF Init, HaveRows, OneOwner, Believed, Owns, InBody
<1>6. \A e \in Execs : ~Exists(e) /\ status[e] = "absent"
    BY DEF Init, RunInit, Exists
<1>7. InOrderOfId /\ RetriedIsLogged /\ LogsAreLast
    BY <1>6 DEF Init, RunInit, InOrderOfId, RetriedIsLogged, LogsAreLast
<1>8. DeadLetterIsExhausted /\ RetryChain
    BY <1>6 DEF Init, DeadLetterIsExhausted, RetryChain
<1> QED BY <1>1, <1>2, <1>3, <1>5, <1>7, <1>8 DEF IInv, TypeOK

LEMMA IInvStep ==
    IInv /\ [Next]_vars => IInv'
<1> SUFFICES ASSUME IInv, [Next]_vars
             PROVE  IInv'
    OBVIOUS
<1>1. TypeOK'
    BY TypeStep DEF IInv
<1>2. CASE \/ \E e \in Execs :
                 \/ IngestCheck(e) \/ AdmitAbort(e) \/ BecomeDue(e)
                 \/ \E s \in Execs : ManualRetryCheck(e, s)
           \/ \E wf \in Workflows : Pause(wf) \/ Resume(wf)
           \/ UNCHANGED vars
    BY <1>1, <1>2, AdmissionStep
<1>3. ASSUME NEW e \in Execs, AdmitCommit(e)
      PROVE  IInv'
    BY <1>1, <1>3, NewRowStep
<1>4. ASSUME NEW d \in Workers, DispatcherStep(d) \/ Crash(d)
      PROVE  IInv'
    <2>1. CASE RunStep(d) \/ RunBreaks(d)
        BY <1>1, <2>1, RunIInv
    <2>2. CASE PolicyDeadLetter(d)
        BY <1>1, <2>2, DeadLetterStep
    <2>3. CASE \E e \in Execs : PolicyRetry(d, e)
        BY <1>1, <2>3, NewRowStep
    <2>4. CASE \/ Scan(d) \/ PolicyNone(d) \/ EndBatch(d) \/ Crash(d)
               \/ \E e \in Execs : Dispatch(d, e)
        BY <1>1, <2>4, LoopStep
    <2> QED BY <1>4, <2>1, <2>2, <2>3, <2>4 DEF DispatcherStep
<1> QED BY <1>2, <1>3, <1>4 DEF Next

LEMMA Invariance ==
    Spec => []IInv
BY InitIInv, IInvStep, PTL DEF Spec

\* The rows of webhook executions, their locks and the local state of every
\* dispatcher keep their types.
THEOREM DispatcherTypeCorrect ==
    Spec => []TypeOK
<1>1. IInv => TypeOK
    BY DEF IInv
<1> QED BY <1>1, Invariance, PTL

\* However many dispatchers have an execution in their batches, and whatever else
\* writes its row, the pending to running update of the executor lets one of them
\* run its nodes, once.
THEOREM SingleRunnerHolds ==
    Spec => []SingleRunner
<1>1. IInv => SingleRunner
    BY DEF IInv, OneOwner, SingleRunner, Owns
<1> QED BY <1>1, Invariance, PTL

\* _mark_dead_lettered acts on what the dispatcher's session remembers; the row is
\* nevertheless a retryable failure of a last attempt, and no worker that is still
\* busy with the execution ever makes it anything else.
THEOREM DeadLetterIsExhaustedHolds ==
    Spec => []DeadLetterIsExhausted
<1>1. IInv => DeadLetterIsExhausted
    BY DEF IInv
<1> QED BY <1>1, Invariance, PTL

\* _schedule_retry_execution and retry_dead_letter_execution continue a failed
\* execution of the same workflow with the next attempt number: the first while
\* attempts remain, the second after the dead letter only.
THEOREM RetryChainHolds ==
    Spec => []RetryChain
<1>1. IInv => RetryChain
    BY DEF IInv
<1> QED BY <1>1, Invariance, PTL
=============================================================================
