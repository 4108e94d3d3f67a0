------------------------- MODULE ExecutionRunProofs -------------------------
(***************************************************************************)
(* What one step of a worker does to the rows and the variables it shares, *)
(* proved once for every composition that uses ExecutionRun.               *)
(***************************************************************************)
EXTENDS ExecutionRun, TLAPS

\* A step of a worker that is inside run_execution.
WorkerStep(w) == RunBody(w) \/ RunCharge(w) \/ RunDbError(w)

\* A step writes at most one execution row: it claims a pending one, or gives a
\* row that exists a final status.
RowWrite ==
    \/ UNCHANGED status
    \/ \E x \in Execs :
        \/ /\ status[x] = "pending"
           /\ status' = [status EXCEPT ![x] = "running"]
        \/ /\ status[x] # "absent"
           /\ \E s \in Terminal : status' = [status EXCEPT ![x] = s]

\* What that means for each row.
LEMMA RowWriteByRow ==
    ASSUME RunTypeOK, RowWrite, NEW x \in Execs
    PROVE  \/ status'[x] = status[x]
           \/ status[x] = "pending" /\ status'[x] = "running"
           \/ status[x] # "absent" /\ status'[x] \in Terminal
BY DEF RunTypeOK, RowWrite

\* Entering run_execution keeps the types.
LEMMA RunStartType ==
    ASSUME RunTypeOK, NEW w \in Workers, NEW e \in Execs, RunStart(w, e)
    PROVE  RunTypeOK'
<1>0. ProcOf[w] \in Procs
    BY RunAssumption DEF RunAssumption
<1>1. 0 \in 0..MaxNodes
    BY RunAssumption DEF RunAssumption
<1> USE DEF RunTypeOK, RunStart
<1>2. UNCHANGED dbVars /\ pc' = [pc EXCEPT ![w] = "start"]
    BY DEF Goto
<1>3. active' \in [Procs -> SUBSET Execs] /\ flagged' \in [Procs -> SUBSET Execs]
    BY <1>0
<1>4. pc' \in [Workers -> PcStates] /\ cur' \in [Workers -> Execs \cup {NoExec}]
    BY <1>2 DEF PcStates
<1>5. \A v \in Workers : pc'[v] # "idle" => cur'[v] \in Execs
    BY <1>2
<1>6. /\ seen' \in [Workers -> Nat]
      /\ todo' \in [Workers -> 0..MaxNodes]
      /\ iter' \in [Workers -> Nat]
      /\ cyclic' \in [Workers -> BOOLEAN]
    BY <1>1
<1> QED BY <1>2, <1>3, <1>4, <1>5, <1>6 DEF dbVars

\* Every step of a run keeps the types: the pops of the node queue, the charges
\* and the registry updates included.
LEMMA WorkerStepType ==
    ASSUME RunTypeOK, NEW w \in Workers, WorkerStep(w)
    PROVE  RunTypeOK'
<1> USE RunAssumption DEF RunAssumption, RunTypeOK, Goto, PcStates, InBody, dbVars, memVars
<1>1. CASE RunPreflight(w)
    BY <1>1 DEF RunPreflight
<1>2. CASE RunClaim(w)
    BY <1>2 DEF RunClaim, SetStatus, Statuses, Active, Pending
<1>3. CASE RunNextNode(w)
    BY <1>3 DEF RunNextNode, IsCancelled
<1>4. CASE RunConnectorOk(w)
    BY <1>4 DEF RunConnectorOk, EnqueueNext
<1>5. CASE RunConnectorError(w)
    BY <1>5 DEF RunConnectorError
<1>6. CASE RunCheckBudget(w)
    BY <1>6 DEF RunCheckBudget
<1>7. CASE RunAgentError(w)
    BY <1>7 DEF RunAgentError
<1>8. CASE RunCharge(w)
    BY <1>8 DEF RunCharge, EnqueueNext
<1>9. CASE RunFail(w)
    BY <1>9 DEF RunFail, SetStatus, Statuses, Terminal
<1>10. CASE RunCancel(w)
    BY <1>10 DEF RunCancel, SetStatus, Statuses, Terminal
<1>11. CASE RunComplete(w)
    BY <1>11 DEF RunComplete, SetStatus, Statuses, Terminal
<1>12. CASE RunEnd(w)
    BY <1>12 DEF RunEnd
<1>13. CASE RunDbError(w)
    BY <1>13 DEF RunDbError
<1>14. CASE RunOverrun(w)
    BY <1>14 DEF RunOverrun, SetStatus, Statuses, Terminal
<1> QED BY <1>1, <1>2, <1>3, <1>4, <1>5, <1>6, <1>7, <1>8, <1>9, <1>10,
           <1>11, <1>12, <1>13, <1>14 DEF WorkerStep, RunBody

\* The death of a process keeps the types.
LEMMA CrashType ==
    ASSUME RunTypeOK, NEW p \in Procs, ProcessCrash(p)
    PROVE  RunTypeOK'
<1> USE DEF RunTypeOK, ProcessCrash
<1>1. 0 \in 0..MaxNodes
    BY RunAssumption DEF RunAssumption
<1>2. active' \in [Procs -> SUBSET Execs] /\ flagged' \in [Procs -> SUBSET Execs]
    OBVIOUS
<1>3. pc' \in [Workers -> PcStates] /\ cur' \in [Workers -> Execs \cup {NoExec}]
    BY DEF PcStates
<1>4. \A v \in Workers : pc'[v] # "idle" => cur'[v] \in Execs
    OBVIOUS
<1>5. /\ seen' \in [Workers -> Nat]
      /\ todo' \in [Workers -> 0..MaxNodes]
      /\ iter' \in [Workers -> Nat]
    BY <1>1
<1>6. cyclic' \in [Workers -> BOOLEAN]
    OBVIOUS
<1> QED BY <1>2, <1>3, <1>4, <1>5, <1>6 DEF dbVars

\* A worker writes no row but that of the execution it runs, and only as
\* RowWrite says; it never leaves its execution but by ending.
LEMMA WorkerStepRows ==
    ASSUME RunTypeOK, NEW w \in Workers, WorkerStep(w),
           status[cur[w]] # "absent"
    PROVE  /\ pc[w] # "idle"
           /\ RowWrite
           /\ \A v \in Workers :
                 /\ pc'[v] # "idle" => pc[v] # "idle"
                 /\ \/ cur'[v] = cur[v]
                    \/ cur'[v] = NoExec /\ pc'[v] = "idle"
<1> USE DEF RunTypeOK, Goto, dbVars, memVars, RowWrite
<1>1. CASE RunPreflight(w)
    BY <1>1 DEF RunPreflight
<1>2. CASE RunClaim(w)
    BY <1>2 DEF RunClaim, SetStatus, Pending
<1>3. CASE RunNextNode(w)
    BY <1>3 DEF RunNextNode
<1>4. CASE RunConnectorOk(w)
    BY <1>4 DEF RunConnectorOk
<1>5. CASE RunConnectorError(w)
    BY <1>5 DEF RunConnectorError
<1>6. CASE RunCheckBudget(w)
    BY <1>6 DEF RunCheckBudget
<1>7. CASE RunAgentError(w)
    BY <1>7 DEF RunAgentError
<1>8. CASE RunCharge(w)
    BY <1>8 DEF RunCharge
<1>9. CASE RunFail(w)
    BY <1>9 DEF RunFail, SetStatus, Terminal
<1>10. CASE RunCancel(w)
    BY <1>10 DEF RunCancel, SetStatus, Terminal
<1>11. CASE RunComplete(w)
    BY <1>11 DEF RunComplete, SetStatus, Terminal
<1>12. CASE RunEnd(w)
    BY <1>12 DEF RunEnd
<1>13. CASE RunDbError(w)
    BY <1>13 DEF RunDbError
<1>14. CASE RunOverrun(w)
    BY <1>14 DEF RunOverrun, SetStatus, Statuses, Terminal
<1> QED BY <1>1, <1>2, <1>3, <1>4, <1>5, <1>6, <1>7, <1>8, <1>9, <1>10,
           <1>11, <1>12, <1>13, <1>14 DEF WorkerStep, RunBody

\* A worker owns its execution from the claim until it is on its way out: to the
\* failure, to the end, or gone.
Owns == InBody \cup {"overrun", "cancelling"}

\* A step of a worker touches no other worker.  It comes to own a row only by
\* claiming it while pending; it writes cancelled or completed, and marks a
\* failure retryable, only while it owns the row and no longer afterwards; any
\* other write of a status is failed.
LEMMA WorkerStepOwns ==
    ASSUME RunTypeOK, NEW w \in Workers, WorkerStep(w)
    PROVE  /\ \A v \in Workers \ {w} : pc'[v] = pc[v] /\ cur'[v] = cur[v]
           /\ \/ cur'[w] = cur[w]
              \/ pc'[w] = "idle" /\ cur'[w] = NoExec
           /\ cur[w] \in Execs
           /\ \/ status' = status
              \/ /\ status[cur[w]] = "pending"
                 /\ status' = [status EXCEPT ![cur[w]] = "running"]
                 /\ pc[w] \notin Owns
              \/ status' = [status EXCEPT ![cur[w]] = "failed"]
              \/ /\ pc[w] \in Owns /\ pc'[w] \notin Owns
                 /\ \E s \in Terminal : status' = [status EXCEPT ![cur[w]] = s]
           /\ \/ pc'[w] \in Owns => pc[w] \in Owns
              \/ /\ status[cur[w]] = "pending"
                 /\ status' = [status EXCEPT ![cur[w]] = "running"]
           /\ \/ retryLog' = retryLog
              \/ /\ retryLog' = retryLog \cup {cur[w]}
                 /\ pc[w] \in Owns /\ pc'[w] \notin Owns
                 /\ status' = status
<1> USE DEF RunTypeOK, Goto, dbVars, memVars, Owns, InBody
<1>1. CASE RunPreflight(w)
    BY <1>1 DEF RunPreflight
<1>2. CASE RunClaim(w)
    BY <1>2 DEF RunClaim, SetStatus, Pending
<1>3. CASE RunNextNode(w)
    BY <1>3 DEF RunNextNode
<1>4. CASE RunConnectorOk(w)
    BY <1>4 DEF RunConnectorOk
<1>5. CASE RunConnectorError(w)
    BY <1>5 DEF RunConnectorError
<1>6. CASE RunCheckBudget(w)
    BY <1>6 DEF RunCheckBudget
<1>7. CASE RunAgentError(w)
    BY <1>7 DEF RunAgentError
<1>8. CASE RunCharge(w)
    BY <1>8 DEF RunCharge
<1>9. CASE RunFail(w)
    BY <1>9 DEF RunFail, SetStatus
<1>10. CASE RunCancel(w)
    BY <1>10 DEF RunCancel, SetStatus, Terminal
<1>11. CASE RunComplete(w)
    BY <1>11 DEF RunComplete, SetStatus, Terminal
<1>12. CASE RunEnd(w)
    BY <1>12 DEF RunEnd
<1>13. CASE RunDbError(w)
    BY <1>13 DEF RunDbError
<1>14. CASE RunOverrun(w)
    BY <1>14 DEF RunOverrun, SetStatus, Terminal
<1> QED BY <1>1, <1>2, <1>3, <1>4, <1>5, <1>6, <1>7, <1>8, <1>9, <1>10,
           <1>11, <1>12, <1>13, <1>14 DEF WorkerStep, RunBody

\* Only the charge touches the ledger.
LEMMA BodyKeepsLedger ==
    ASSUME NEW w \in Workers, RunBody(w) \/ RunDbError(w)
    PROVE  UNCHANGED <<used, total>>
BY DEF RunBody, RunPreflight, RunClaim, RunNextNode, RunConnectorOk,
       RunConnectorError, RunCheckBudget, RunAgentError, RunOverrun, RunFail, RunCancel,
       RunComplete, RunEnd, RunDbError, dbVars

\* The charge books the same tokens on the tenant and on the execution, within
\* the budget, or nothing; it writes no status.
LEMMA ChargeBooksOnce ==
    ASSUME RunTypeOK, NEW w \in Workers, RunCharge(w)
    PROVE  /\ UNCHANGED status
           /\ cur[w] \in Execs
           /\ \/ UNCHANGED <<used, total>>
              \/ \E n \in TokenCounts :
                    /\ used + n <= Budget
                    /\ used' = used + n
                    /\ total' = [total EXCEPT ![cur[w]] = @ + n]
BY DEF RunCharge, RunTypeOK
=============================================================================
