----------------------- MODULE ExecutionServiceProofs -----------------------
(***************************************************************************)
(* The admission contract of ExecutionService, for any set of executions,  *)
(* any limit, budget and number of processes, with and without faults.     *)
(***************************************************************************)
EXTENDS ExecutionService, ExecutionRunProofs, FiniteSetTheorems

-----------------------------------------------------------------------------
(* Lemmas *)

\* A row write never adds to the executions that hold a slot.
LEMMA RowWriteKeepSlots ==
    ASSUME RunTypeOK, RowWrite, IsFiniteSet(ActiveExecs)
    PROVE  /\ ActiveExecs' \subseteq ActiveExecs
           /\ IsFiniteSet(ActiveExecs')
           /\ Cardinality(ActiveExecs') \in Nat
           /\ Cardinality(ActiveExecs) \in Nat
           /\ Cardinality(ActiveExecs') <= Cardinality(ActiveExecs)
<1>1. ActiveExecs' \subseteq ActiveExecs
    BY RowWriteByRow DEF ActiveExecs, Active, Terminal
<1> QED BY <1>1, FS_Subset, FS_CardinalityType

\* While nobody admits an execution and no charge gets past the lock, what holds
\* of the slots and of the lock keeps holding.
LEMMA RowWriteKeepAdmission ==
    ASSUME IInv, RowWrite, used' \in Nat, used' <= Budget,
           tenantLock' \in {tenantLock, NoExec},
           tenantLock = NoExec \/ used' = used
    PROVE  /\ IsFiniteSet(ActiveExecs')
           /\ ConcurrencyCapped'
           /\ AdmissionLocked'
           /\ BudgetRespected'
<1>1. /\ IsFiniteSet(ActiveExecs')
      /\ Cardinality(ActiveExecs') \in Nat
      /\ Cardinality(ActiveExecs) \in Nat
      /\ Cardinality(ActiveExecs') <= Cardinality(ActiveExecs)
    BY RowWriteKeepSlots DEF IInv, TypeOK
<1>2. ConcurrencyCapped'
    BY <1>1, ServiceAssumption DEF ServiceAssumption, IInv, ConcurrencyCapped
<1>3. AdmissionLocked'
    <2> SUFFICES ASSUME tenantLock' # NoExec
                 PROVE  /\ status'[tenantLock'] = "absent"
                        /\ used' < Budget
                        /\ Cardinality(ActiveExecs') < ConcurrentLimit
        BY DEF AdmissionLocked
    <2>1. tenantLock' = tenantLock /\ tenantLock \in Execs /\ used' = used
        BY DEF IInv, TypeOK
    <2>2. /\ status[tenantLock] = "absent"
          /\ used < Budget
          /\ Cardinality(ActiveExecs) < ConcurrentLimit
        BY <2>1 DEF IInv, AdmissionLocked
    <2>3. status'[tenantLock] = "absent"
        BY <2>1, <2>2, RowWriteByRow DEF IInv, TypeOK
    <2>4. Cardinality(ActiveExecs') < ConcurrentLimit
        BY <1>1, <2>2, ServiceAssumption DEF ServiceAssumption
    <2> QED BY <2>1, <2>2, <2>3, <2>4
<1> QED BY <1>1, <1>2, <1>3 DEF BudgetRespected

\* No row ever disappears.
LEMMA RowWriteKeepRows ==
    ASSUME RunTypeOK, RowWrite, NEW x \in Execs, status[x] # "absent"
    PROVE  status'[x] # "absent"
BY RowWriteByRow DEF Terminal

\* The same as an equality of functions: nothing is written.
LEMMA UnchangedStatusIsRowWrite ==
    ASSUME UNCHANGED status
    PROVE  RowWrite
BY DEF RowWrite

-----------------------------------------------------------------------------
(* The steps *)

\* A step of a run, once broken down to a start or a worker's step: only a
\* charge, which waits for the tenant row, moves the ledger.
LEMMA RunStepCases ==
    ASSUME NEW e \in Execs, RunStep(e)
    PROVE  /\ e \in Workers
           /\ UNCHANGED <<tenantLock, cancelVars>>
           /\ \/ pc[e] = "queued" /\ RunStart(e, e)
              \/ /\ WorkerStep(e)
                 /\ (used' = used /\ total' = total) \/ (RunCharge(e) /\ tenantLock = NoExec)
<1>1. e \in Workers
    BY ServiceAssumption DEF ServiceAssumption
<1>2. UNCHANGED <<tenantLock, cancelVars>>
    BY DEF RunStep
<1>3. CASE StartRun(e)
    BY <1>1, <1>2, <1>3 DEF StartRun
<1>4. CASE RunBody(e) \/ RunDbError(e)
    <2>1. used' = used /\ total' = total
        BY <1>1, <1>4, BodyKeepsLedger
    <2>2. WorkerStep(e)
        BY <1>4 DEF WorkerStep
    <2> QED BY <1>1, <1>2, <2>1, <2>2
<1>5. CASE tenantLock = NoExec /\ RunCharge(e)
    BY <1>1, <1>2, <1>5 DEF WorkerStep
<1> QED BY <1>3, <1>4, <1>5 DEF RunStep

\* The invariant holds initially.
LEMMA IInvInit == Init => IInv
<1> SUFFICES ASSUME Init PROVE IInv
    OBVIOUS
<1>1. ActiveExecs = {}
    BY DEF Init, RunInit, ActiveExecs, Active
<1>2. IsFiniteSet(ActiveExecs) /\ Cardinality(ActiveExecs) = 0
    BY <1>1, FS_EmptySet
<1>3. 0 \in 0..MaxNodes /\ Budget \in Nat
    BY RunAssumption DEF RunAssumption
<1>4. RunTypeOK
    BY <1>3 DEF Init, RunInit, RunTypeOK, Statuses, PcStates
<1>5. TypeOK
    BY <1>4 DEF Init, TypeOK, Statuses
<1>6. BudgetRespected /\ AdmissionLocked /\ WritersHaveRows /\ OwnExecution
    BY <1>3, ServiceAssumption
            DEF Init, RunInit, BudgetRespected, AdmissionLocked, WritersHaveRows,
                OwnExecution, ServiceAssumption
<1>7. ConcurrencyCapped
    BY <1>2, ServiceAssumption DEF ServiceAssumption, ConcurrencyCapped
<1> QED BY <1>2, <1>5, <1>6, <1>7 DEF IInv

\* A step of a run keeps it.
LEMMA IInvRunStep ==
    ASSUME IInv, NEW e \in Execs, RunStep(e)
    PROVE  IInv'
<1>1. /\ e \in Workers
      /\ UNCHANGED <<tenantLock, cancelVars>>
      /\ \/ pc[e] = "queued" /\ RunStart(e, e)
         \/ /\ WorkerStep(e)
            /\ (used' = used /\ total' = total) \/ (RunCharge(e) /\ tenantLock = NoExec)
    BY RunStepCases
<1>2. RunTypeOK /\ used \in Nat /\ used <= Budget /\ Budget \in Nat
    BY RunAssumption DEF RunAssumption, IInv, TypeOK, RunTypeOK, BudgetRespected
<1>3. CASE pc[e] = "queued" /\ RunStart(e, e)
    <2>1. RunTypeOK'
        BY <1>1, <1>2, <1>3, RunStartType
    <2>2. RowWrite /\ UNCHANGED <<status, used>>
        BY <1>3, UnchangedStatusIsRowWrite DEF RunStart, dbVars
    <2>3. status[e] # "absent"
        <3>1. cur[e] \in Execs
            BY <1>1, <1>2, <1>3 DEF RunTypeOK
        <3>2. cur[e] = e
            BY <3>1, RunAssumption DEF RunAssumption, IInv, OwnExecution
        <3> QED BY <1>1, <1>3, <3>2 DEF IInv, WritersHaveRows
    <2>4. WritersHaveRows'
        BY <1>1, <1>2, <1>3, <2>2, <2>3
           DEF IInv, WritersHaveRows, RunTypeOK, RunStart, Goto, cancelVars
    <2>5. OwnExecution'
        BY <1>2, <1>3, ServiceAssumption
           DEF ServiceAssumption, IInv, OwnExecution, RunTypeOK, RunStart
    <2> QED BY <1>1, <1>2, <2>1, <2>2, <2>4, <2>5, RowWriteKeepAdmission
            DEF IInv, TypeOK, cancelVars
<1>4. CASE /\ WorkerStep(e)
           /\ (used' = used /\ total' = total) \/ (RunCharge(e) /\ tenantLock = NoExec)
    <2>1. RunTypeOK'
        BY <1>1, <1>2, <1>4, WorkerStepType
    <2>2. /\ used' <= Budget
          /\ tenantLock = NoExec \/ used' = used
        <3>1. CASE used' = used /\ total' = total
            BY <1>2, <3>1
        <3>2. CASE RunCharge(e) /\ tenantLock = NoExec
            BY <1>1, <1>2, <3>2, ChargeBooksOnce
        <3> QED BY <1>4, <3>1, <3>2
    <2>3. status[cur[e]] # "absent" /\ pc[e] # "idle"
        <3>1. pc[e] # "idle"
            BY <1>4 DEF WorkerStep, RunBody, RunPreflight, RunClaim,
                RunNextNode, RunConnectorOk, RunConnectorError,
                RunCheckBudget, RunAgentError, RunOverrun, RunFail, RunCancel,
                RunComplete, RunEnd, RunDbError, RunCharge
        <3> QED BY <1>1, <3>1 DEF IInv, WritersHaveRows
    <2>4. /\ RowWrite
          /\ \A v \in Workers :
                /\ pc'[v] # "idle" => pc[v] # "idle"
                /\ \/ cur'[v] = cur[v]
                   \/ cur'[v] = NoExec /\ pc'[v] = "idle"
        BY <1>1, <1>2, <1>4, <2>3, WorkerStepRows
    <2>5. WritersHaveRows'
        BY <1>1, <1>2, <2>1, <2>4, RowWriteKeepRows
           DEF IInv, WritersHaveRows, RunTypeOK, cancelVars
    <2>6. OwnExecution'
        BY <2>4, ServiceAssumption DEF ServiceAssumption, IInv, OwnExecution
    <2>7. used' \in Nat /\ tenantLock' = tenantLock
        BY <1>1, <2>1 DEF RunTypeOK
    <2>8. /\ IsFiniteSet(ActiveExecs')
          /\ ConcurrencyCapped'
          /\ AdmissionLocked'
          /\ BudgetRespected'
        BY <2>2, <2>4, <2>7, RowWriteKeepAdmission
    <2>9. TypeOK'
        BY <1>1, <2>1 DEF IInv, TypeOK, cancelVars
    <2> QED BY <2>5, <2>6, <2>8, <2>9 DEF IInv
<1> QED BY <1>1, <1>3, <1>4

\* Admission keeps it: the checks hold under the lock, so the commit of the new
\* row takes the last free slot at most.
LEMMA IInvCreate ==
    ASSUME IInv, NEW e \in Execs,
           CreateCheck(e) \/ CreateCommit(e) \/ CreateAbort(e)
    PROVE  IInv'
<1>1. CASE CreateCheck(e)
    BY <1>1 DEF CreateCheck, IInv, TypeOK, RunTypeOK, BudgetRespected,
        ConcurrencyCapped, AdmissionLocked, WritersHaveRows, OwnExecution,
        ActiveExecs, execVars, dbVars, memVars, runVars, cancelVars
<1>2. CASE CreateCommit(e)
    <2>1. /\ status \in [Execs -> Statuses]
          /\ status' = [status EXCEPT ![e] = "pending"]
          /\ pc' = [pc EXCEPT ![e] = "queued"]
          /\ cur' = [cur EXCEPT ![e] = e]
          /\ tenantLock = e /\ tenantLock' = NoExec
          /\ e \in Workers /\ e # NoExec
        BY <1>2, RunAssumption, ServiceAssumption
           DEF RunAssumption, ServiceAssumption, CreateCommit, SetStatus, Goto,
               IInv, TypeOK, RunTypeOK
    <2>2. status[e] = "absent" /\ Cardinality(ActiveExecs) < ConcurrentLimit
        BY <2>1 DEF IInv, AdmissionLocked
    <2>3. ActiveExecs' = ActiveExecs \cup {e} /\ e \notin ActiveExecs
        BY <2>1, <2>2 DEF ActiveExecs, Active
    <2>4. /\ IsFiniteSet(ActiveExecs')
          /\ Cardinality(ActiveExecs') = Cardinality(ActiveExecs) + 1
          /\ Cardinality(ActiveExecs) \in Nat
        BY <2>3, FS_AddElement, FS_CardinalityType DEF IInv
    <2>5. ConcurrencyCapped'
        BY <2>2, <2>4, ServiceAssumption DEF ServiceAssumption, ConcurrencyCapped
    <2>6. RunTypeOK'
        BY <1>2, <2>1 DEF CreateCommit, IInv, TypeOK, RunTypeOK, memVars,
            Statuses, Active, PcStates
    <2>7. TypeOK'
        BY <1>2, <2>1, <2>6 DEF CreateCommit, IInv, TypeOK, cancelVars
    <2>8. AdmissionLocked' /\ BudgetRespected'
        BY <1>2, <2>1 DEF CreateCommit, IInv, AdmissionLocked, BudgetRespected
    <2>9. WritersHaveRows'
        BY <1>2, <2>1, <2>6
           DEF CreateCommit, IInv, TypeOK, RunTypeOK, WritersHaveRows, cancelVars
    <2>10. OwnExecution'
        BY <2>1 DEF IInv, TypeOK, RunTypeOK, OwnExecution
    <2> QED BY <2>4, <2>5, <2>7, <2>8, <2>9, <2>10 DEF IInv
<1>3. CASE CreateAbort(e)
    BY <1>3 DEF CreateAbort, IInv, TypeOK, RunTypeOK, BudgetRespected,
        ConcurrencyCapped, AdmissionLocked, WritersHaveRows, OwnExecution,
        ActiveExecs, execVars, dbVars, memVars, runVars, cancelVars
<1> QED BY <1>1, <1>2, <1>3

\* A cancel request keeps it, whichever status it acts on.
LEMMA IInvCancel ==
    ASSUME IInv, NEW c \in Cancels,
           \/ \E e \in Execs : CancelRead(c, e)
           \/ \E p \in Procs : CancelRunning(c, p)
           \/ CancelPending(c)
    PROVE  IInv'
<1>1. ASSUME NEW e \in Execs, CancelRead(c, e)
      PROVE  IInv'
    <2>1. UNCHANGED <<execVars, tenantLock>>
        BY <1>1 DEF CancelRead
    <2>2. TypeOK'
        BY <1>1, <2>1 DEF CancelRead, IInv, TypeOK, RunTypeOK, execVars, dbVars,
            memVars, runVars
    <2>3. WritersHaveRows'
        BY <1>1, <2>1 DEF CancelRead, IInv, TypeOK, RunTypeOK, WritersHaveRows,
            execVars, dbVars, runVars
    <2> QED BY <2>1, <2>2, <2>3 DEF IInv, BudgetRespected, ConcurrencyCapped,
            AdmissionLocked, OwnExecution, ActiveExecs, execVars, dbVars, runVars
<1>2. ASSUME NEW p \in Procs, CancelRunning(c, p)
      PROVE  IInv'
    <2>1. UNCHANGED <<dbVars, active, runVars, tenantLock, target, saw>>
        BY <1>2 DEF CancelRunning
    <2>2. TypeOK'
        BY <1>2, <2>1 DEF CancelRunning, RequestCancel, IInv, TypeOK, RunTypeOK,
            dbVars, runVars
    <2>3. WritersHaveRows'
        BY <1>2, <2>1 DEF CancelRunning, IInv, TypeOK, WritersHaveRows, dbVars,
            runVars
    <2> QED BY <2>1, <2>2, <2>3 DEF IInv, BudgetRespected, ConcurrencyCapped,
            AdmissionLocked, OwnExecution, ActiveExecs, dbVars, runVars
<1>3. CASE CancelPending(c)
    <2>1. /\ target[c] \in Execs
          /\ status[target[c]] # "absent"
          /\ status' = [status EXCEPT ![target[c]] = "cancelled"]
          /\ status \in [Execs -> Statuses]
        BY <1>3 DEF CancelPending, SetStatus, IInv, TypeOK, RunTypeOK,
            WritersHaveRows
    <2>2. RowWrite
        BY <2>1 DEF RowWrite, Terminal
    <2>3. UNCHANGED <<total, retryLog, used, memVars, runVars, tenantLock,
                      target, saw>>
        BY <1>3 DEF CancelPending
    <2>4. used \in Nat /\ used <= Budget
        BY DEF IInv, TypeOK, RunTypeOK, BudgetRespected
    <2>5. /\ IsFiniteSet(ActiveExecs')
          /\ ConcurrencyCapped'
          /\ AdmissionLocked'
          /\ BudgetRespected'
        BY <2>2, <2>3, <2>4, RowWriteKeepAdmission
    <2>6. TypeOK'
        BY <1>3, <2>1, <2>3 DEF CancelPending, IInv, TypeOK, RunTypeOK, memVars,
            runVars, Statuses, Terminal
    <2>7. WritersHaveRows'
        BY <1>3, <2>2, <2>3, <2>6, RowWriteKeepRows
           DEF CancelPending, IInv, TypeOK, RunTypeOK, WritersHaveRows, runVars
    <2> QED BY <2>3, <2>5, <2>6, <2>7 DEF IInv, OwnExecution, runVars
<1> QED BY <1>1, <1>2, <1>3

\* The death of a process keeps it: its transaction and its runs are gone, and
\* so is the lock.
LEMMA IInvCrash ==
    ASSUME IInv, NEW p \in Procs, Crash(p)
    PROVE  IInv'
<1>1. ProcessCrash(p) /\ UNCHANGED <<cancelVars, dbVars>>
      /\ tenantLock' \in {tenantLock, NoExec}
    BY DEF Crash, ProcessCrash
<1>2. RunTypeOK'
    BY <1>1, CrashType DEF IInv, TypeOK
<1>3. RowWrite
    BY <1>1, UnchangedStatusIsRowWrite DEF dbVars
<1>4. used' \in Nat /\ used' <= Budget /\ used' = used
    BY <1>1 DEF IInv, TypeOK, RunTypeOK, BudgetRespected, dbVars
<1>5. /\ IsFiniteSet(ActiveExecs')
      /\ ConcurrencyCapped'
      /\ AdmissionLocked'
      /\ BudgetRespected'
    BY <1>1, <1>3, <1>4, RowWriteKeepAdmission
<1>6. \A v \in Workers :
        \/ pc'[v] = pc[v] /\ cur'[v] = cur[v]
        \/ pc'[v] = "idle" /\ cur'[v] = NoExec
    BY <1>1 DEF ProcessCrash
<1>7. WritersHaveRows' /\ OwnExecution'
    BY <1>1, <1>6, ServiceAssumption
       DEF ServiceAssumption, IInv, WritersHaveRows, OwnExecution, cancelVars,
           dbVars
<1>8. TypeOK'
    BY <1>1, <1>2 DEF IInv, TypeOK, cancelVars
<1> QED BY <1>5, <1>7, <1>8 DEF IInv

\* Every step of the specification keeps the invariant.
LEMMA IInvStep == IInv /\ [Next]_vars => IInv'
<1> SUFFICES ASSUME IInv, [Next]_vars PROVE IInv'
    OBVIOUS
<1>1. ASSUME NEW e \in Execs,
             CreateCheck(e) \/ CreateCommit(e) \/ CreateAbort(e)
      PROVE  IInv'
    BY <1>1, IInvCreate
<1>2. ASSUME NEW e \in Execs, RunStep(e) PROVE IInv'
    BY <1>2, IInvRunStep
<1>3. ASSUME NEW c \in Cancels,
             \/ \E e \in Execs : CancelRead(c, e)
             \/ \E p \in Procs : CancelRunning(c, p)
             \/ CancelPending(c)
      PROVE  IInv'
    BY <1>3, IInvCancel
<1>4. ASSUME NEW p \in Procs, Crash(p) PROVE IInv'
    BY <1>4, IInvCrash
<1>5. CASE UNCHANGED vars
    BY <1>5 DEF IInv, TypeOK, RunTypeOK, BudgetRespected, ConcurrencyCapped,
        AdmissionLocked, WritersHaveRows, OwnExecution, ActiveExecs, vars,
        execVars, dbVars, memVars, runVars, cancelVars
<1> QED BY <1>1, <1>2, <1>3, <1>4, <1>5 DEF Next

-----------------------------------------------------------------------------
(* The theorems *)

\* The invariant that carries the results below: the type of the state, the two
\* limits, and the reason why create_execution's checks are still true when it
\* commits.
THEOREM Invariance == Spec => []IInv
BY IInvInit, IInvStep, PTL DEF Spec

\* Every variable of the execution service keeps its type.
THEOREM TypeCorrect == Spec => []TypeOK
<1>1. IInv => TypeOK
    BY DEF IInv
<1> QED BY <1>1, Invariance, PTL

\* The tenant never exceeds monthly_token_budget, although the check before each
\* model call may use a stale reading of what has been spent.
THEOREM BudgetSafe == Spec => []BudgetRespected
<1>1. IInv => BudgetRespected
    BY DEF IInv
<1> QED BY <1>1, Invariance, PTL

\* Concurrent create_execution requests never admit more executions than the
\* plan's limit.
THEOREM ConcurrencySafe == Spec => []ConcurrencyCapped
<1>1. IInv => ConcurrencyCapped
    BY DEF IInv
<1> QED BY <1>1, Invariance, PTL

\* A run's step writes at most one row.
LEMMA RunStepRow ==
    ASSUME IInv, NEW e \in Execs, RunStep(e)
    PROVE  RowWrite
<1>1. /\ e \in Workers
      /\ (pc[e] = "queued" /\ RunStart(e, e)) \/ WorkerStep(e)
    BY RunStepCases
<1>2. CASE RunStart(e, e)
    BY <1>2 DEF RunStart, dbVars, RowWrite
<1>3. CASE WorkerStep(e)
    <2>1. pc[e] # "idle"
        BY <1>3 DEF WorkerStep, RunBody, RunPreflight, RunClaim, RunNextNode,
            RunConnectorOk, RunConnectorError, RunCheckBudget, RunAgentError,
            RunOverrun, RunFail, RunCancel, RunComplete, RunEnd, RunDbError, RunCharge
    <2> QED BY <1>1, <1>3, <2>1, WorkerStepRows
            DEF IInv, TypeOK, WritersHaveRows
<1> QED BY <1>1, <1>2, <1>3

\* Every step is one of three kinds: a new row appears under the checks of
\* create_execution; a charge is booked; or one row is written and the ledger
\* is left alone.
LEMMA StepKinds ==
    ASSUME IInv, [Next]_vars
    PROVE  \/ \E e \in Execs : CreateCommit(e)
           \/ \E e \in Execs, n \in 0..Budget :
                 /\ status[e] # "absent"
                 /\ used + n <= Budget
                 /\ used' = used + n
                 /\ total' = [total EXCEPT ![e] = @ + n]
                 /\ status' = status
           \/ RowWrite /\ used' = used /\ total' = total
<1> USE DEF execVars, dbVars
<1>1. ASSUME NEW e \in Execs, CreateCheck(e) \/ CreateAbort(e)
      PROVE  RowWrite /\ used' = used /\ total' = total
    BY <1>1 DEF CreateCheck, CreateAbort, RowWrite
<1>2. ASSUME NEW e \in Execs, RunStep(e)
      PROVE  \/ \E x \in Execs, n \in 0..Budget :
                   /\ status[x] # "absent"
                   /\ used + n <= Budget
                   /\ used' = used + n
                   /\ total' = [total EXCEPT ![x] = @ + n]
                   /\ status' = status
             \/ RowWrite /\ used' = used /\ total' = total
    <2>1. /\ e \in Workers
          /\ \/ RunStart(e, e)
             \/ used' = used /\ total' = total
             \/ RunCharge(e)
        BY <1>2, RunStepCases
    <2>2. RowWrite
        BY <1>2, RunStepRow
    <2>3. CASE RunCharge(e)
        <3>1. RunTypeOK /\ used \in Nat /\ Budget \in Nat /\ TokenCounts \subseteq Nat
            BY RunAssumption DEF RunAssumption, IInv, TypeOK, RunTypeOK
        <3>2. status[cur[e]] # "absent"
            BY <2>1, <2>3 DEF RunCharge, IInv, WritersHaveRows
        <3>3. \A n \in TokenCounts : used + n <= Budget => n \in 0..Budget
            BY <3>1
        <3> QED BY <2>1, <2>2, <2>3, <3>1, <3>2, <3>3, ChargeBooksOnce
    <2>4. CASE RunStart(e, e)
        BY <2>2, <2>4 DEF RunStart
    <2> QED BY <2>1, <2>2, <2>3, <2>4
<1>3. ASSUME NEW c \in Cancels,
             \/ \E e \in Execs : CancelRead(c, e)
             \/ \E p \in Procs : CancelRunning(c, p)
             \/ CancelPending(c)
      PROVE  RowWrite /\ used' = used /\ total' = total
    BY <1>3 DEF CancelRead, CancelRunning, CancelPending, SetStatus, RowWrite,
        IInv, WritersHaveRows, Terminal
<1>4. ASSUME NEW p \in Procs, Crash(p)
      PROVE  RowWrite /\ used' = used /\ total' = total
    BY <1>4 DEF Crash, ProcessCrash, RowWrite
<1>5. CASE UNCHANGED vars
    BY <1>5 DEF vars, RowWrite
<1> QED BY <1>1, <1>2, <1>3, <1>4, <1>5 DEF Next

\* A finished execution is never pending or running again, in spite of the
\* unconditional updates that race on its row.
THEOREM NoResurrectionHolds == Spec => NoResurrection
<1>1. ASSUME IInv, [Next]_vars, NEW e \in Execs, status[e] \in Terminal
      PROVE  status'[e] \in Terminal
    <2>1. RunTypeOK
        BY <1>1 DEF IInv, TypeOK
    <2>2. ASSUME NEW x \in Execs, CreateCommit(x)
          PROVE  status'[e] = status[e]
        <3>1. status[x] = "absent" /\ status' = [status EXCEPT ![x] = "pending"]
            BY <1>1, <2>2, RunAssumption
               DEF RunAssumption, CreateCommit, SetStatus, IInv, AdmissionLocked
        <3> QED BY <1>1, <2>1, <3>1 DEF RunTypeOK, Terminal
    <2>3. CASE RowWrite
        BY <1>1, <2>1, <2>3, RowWriteByRow DEF Terminal
    <2>4. (\E x \in Execs : CreateCommit(x)) \/ status' = status \/ RowWrite
        BY <1>1, StepKinds
    <2> QED BY <1>1, <2>2, <2>3, <2>4
<1>2. IInv /\ [Next]_vars =>
        [\A e \in Execs : status[e] \in Terminal => status'[e] \in Terminal]_vars
    BY <1>1
<1> QED BY <1>2, Invariance, PTL DEF Spec, NoResurrection

\* A step of a worker leaves the pcs of the others and the rows of the others'
\* executions alone; its own run enters and stays in the body only as running.
LEMMA WorkerStepOwnRow ==
    ASSUME RunTypeOK, OwnExecution, NEW e \in Execs, e \in Workers,
           WorkerStep(e)
    PROVE  /\ \A x \in Execs \ {e} : pc'[x] = pc[x] /\ status'[x] = status[x]
           /\ pc'[e] \in InBody => \/ status'[e] = "running"
                                   \/ pc[e] \in InBody /\ status'[e] = status[e]
<1> USE DEF RunTypeOK, Goto, InBody, dbVars
<1>1. pc[e] # "idle"
    BY DEF WorkerStep, RunBody, RunPreflight, RunClaim, RunNextNode,
        RunConnectorOk, RunConnectorError, RunCheckBudget, RunAgentError,
        RunOverrun, RunFail, RunCancel, RunComplete, RunEnd, RunDbError, RunCharge
<1>2. cur[e] = e
    BY <1>1, RunAssumption, ServiceAssumption
       DEF RunAssumption, ServiceAssumption, OwnExecution
<1>3. e \in Workers /\ Workers = Execs
    BY ServiceAssumption DEF ServiceAssumption
<1>4. CASE RunPreflight(e)
    BY <1>2, <1>3, <1>4 DEF RunPreflight
<1>5. CASE RunClaim(e)
    BY <1>2, <1>3, <1>5 DEF RunClaim, SetStatus
<1>6. CASE RunNextNode(e)
    BY <1>2, <1>3, <1>6 DEF RunNextNode
<1>7. CASE RunConnectorOk(e) \/ RunConnectorError(e)
    BY <1>2, <1>3, <1>7 DEF RunConnectorOk, RunConnectorError
<1>8. CASE RunCheckBudget(e) \/ RunAgentError(e) \/ RunDbError(e)
    BY <1>2, <1>3, <1>8 DEF RunCheckBudget, RunAgentError, RunDbError
<1>9. CASE RunCharge(e)
    BY <1>2, <1>3, <1>9 DEF RunCharge
<1>10. CASE RunOverrun(e) \/ RunFail(e) \/ RunCancel(e) \/ RunComplete(e)
    BY <1>2, <1>3, <1>10 DEF RunOverrun, RunFail, RunCancel, RunComplete, SetStatus
<1>11. CASE RunEnd(e)
    BY <1>2, <1>3, <1>11 DEF RunEnd
<1> QED BY <1>4, <1>5, <1>6, <1>7, <1>8, <1>9, <1>10, <1>11
        DEF WorkerStep, RunBody

\* Every step keeps a live run attached to its slot, or finds it detached by a
\* cancel that had read pending.
LEMMA LiveRunStep == IInv /\ LiveRunHoldsSlot /\ [Next]_vars => LiveRunHoldsSlot'
<1> SUFFICES ASSUME IInv, LiveRunHoldsSlot, [Next]_vars PROVE LiveRunHoldsSlot'
    OBVIOUS
<1> USE DEF LiveRunHoldsSlot
<1>1. RunTypeOK /\ TypeOK /\ OwnExecution
    BY DEF IInv, TypeOK
<1>2. Workers = Execs
    BY ServiceAssumption DEF ServiceAssumption
<1>3. ASSUME NEW e \in Execs, CreateCheck(e) \/ CreateAbort(e)
      PROVE  LiveRunHoldsSlot'
    BY <1>3 DEF CreateCheck, CreateAbort, execVars, dbVars, runVars, cancelVars
<1>4. ASSUME NEW e \in Execs, CreateCommit(e)
      PROVE  LiveRunHoldsSlot'
    BY <1>1, <1>2, <1>4
       DEF CreateCommit, SetStatus, Goto, RunTypeOK, InBody, cancelVars
<1>5. ASSUME NEW e \in Execs, RunStep(e)
      PROVE  LiveRunHoldsSlot'
    <2>1. /\ e \in Workers
          /\ UNCHANGED cancelVars
          /\ RunStart(e, e) \/ WorkerStep(e)
        BY <1>5, RunStepCases
    <2>2. CASE RunStart(e, e)
        BY <1>1, <1>2, <2>1, <2>2
           DEF RunStart, Goto, RunTypeOK, InBody, dbVars, cancelVars
    <2>3. CASE WorkerStep(e)
        <3>1. /\ \A x \in Execs \ {e} : pc'[x] = pc[x] /\ status'[x] = status[x]
              /\ pc'[e] \in InBody => \/ status'[e] = "running"
                                      \/ pc[e] \in InBody /\ status'[e] = status[e]
            BY <1>1, <2>1, <2>3, WorkerStepOwnRow
        <3> QED BY <2>1, <3>1 DEF cancelVars
    <2> QED BY <2>1, <2>2, <2>3
<1>6. ASSUME NEW c \in Cancels, NEW e \in Execs, CancelRead(c, e)
      PROVE  LiveRunHoldsSlot'
    <2>1. /\ UNCHANGED <<pc, status>>
          /\ cancelPc[c] # "accepted"
          /\ \A d \in Cancels \ {c} : /\ cancelPc'[d] = cancelPc[d]
                                      /\ target'[d] = target[d]
                                      /\ saw'[d] = saw[d]
        BY <1>1, <1>6 DEF CancelRead, TypeOK, execVars, dbVars, runVars
    <2> QED BY <2>1
<1>7. ASSUME NEW c \in Cancels, NEW p \in Procs, CancelRunning(c, p)
      PROVE  LiveRunHoldsSlot'
    <2>1. /\ UNCHANGED <<pc, status, target, saw>>
          /\ cancelPc[c] # "accepted"
          /\ \A d \in Cancels \ {c} : cancelPc'[d] = cancelPc[d]
        BY <1>1, <1>7 DEF CancelRunning, TypeOK, dbVars, runVars
    <2> QED BY <2>1
<1>8. ASSUME NEW c \in Cancels, CancelPending(c)
      PROVE  LiveRunHoldsSlot'
    <2>1. /\ UNCHANGED <<pc, target, saw>>
          /\ status' = [status EXCEPT ![target[c]] = "cancelled"]
          /\ cancelPc[c] # "accepted" /\ cancelPc'[c] = "accepted"
          /\ saw[c] = "pending"
          /\ \A d \in Cancels \ {c} : cancelPc'[d] = cancelPc[d]
        BY <1>1, <1>8 DEF CancelPending, SetStatus, TypeOK, runVars
    <2> QED BY <1>1, <2>1 DEF RunTypeOK
<1>9. ASSUME NEW p \in Procs, Crash(p)
      PROVE  LiveRunHoldsSlot'
    BY <1>2, <1>9 DEF Crash, ProcessCrash, InBody, dbVars, cancelVars
<1>10. CASE UNCHANGED vars
    BY <1>10 DEF vars, execVars, dbVars, runVars, cancelVars
<1> QED BY <1>3, <1>4, <1>5, <1>6, <1>7, <1>8, <1>9, <1>10 DEF Next

\* Only a cancel that read pending separates a run that works on its nodes from
\* the running row that counts against the plan's limit.
THEOREM LiveRunSafe == Spec => []LiveRunHoldsSlot
<1>1. Init => LiveRunHoldsSlot
    BY ServiceAssumption
       DEF ServiceAssumption, Init, RunInit, LiveRunHoldsSlot, InBody
<1> QED BY <1>1, LiveRunStep, Invariance, PTL DEF Spec

\* While nothing fails: where the run of an execution is whose row is pending, or
\* running.
WorkerMatches(e) ==
    /\ status[e] = "pending" => pc[e] \in {"queued", "start", "claim", "failing"}
    /\ status[e] = "running" => pc[e] \in InBody \cup {"overrun", "failing", "cancelling"}

RunsMatchRows == ~Faults => \A e \in Execs : WorkerMatches(e)

\* A run that ends, for whatever reason, has written a final status or found one.
LEMMA WorkerStepMatches ==
    ASSUME RunTypeOK, OwnExecution, NEW e \in Execs, RunBody(e) \/ RunCharge(e),
           WorkerMatches(e)
    PROVE  WorkerMatches(e)'
<1> USE DEF RunTypeOK, Goto, InBody, dbVars, WorkerMatches
<1>1. e \in Workers
    BY ServiceAssumption DEF ServiceAssumption
<1>2. pc[e] # "idle" => cur[e] = e
    BY <1>1, RunAssumption DEF RunAssumption, OwnExecution
<1>3. CASE RunPreflight(e)
    BY <1>1, <1>3 DEF RunPreflight
<1>4. CASE RunClaim(e)
    BY <1>1, <1>2, <1>4 DEF RunClaim, SetStatus, Pending
<1>5. CASE RunNextNode(e)
    BY <1>1, <1>5 DEF RunNextNode
<1>6. CASE RunConnectorOk(e) \/ RunConnectorError(e)
    BY <1>1, <1>6 DEF RunConnectorOk, RunConnectorError
<1>7. CASE RunCheckBudget(e) \/ RunAgentError(e)
    BY <1>1, <1>7 DEF RunCheckBudget, RunAgentError
<1>8. CASE RunCharge(e)
    BY <1>1, <1>8 DEF RunCharge
<1>9. CASE RunOverrun(e) \/ RunFail(e) \/ RunCancel(e) \/ RunComplete(e)
    BY <1>1, <1>2, <1>9 DEF RunOverrun, RunFail, RunCancel, RunComplete, SetStatus
<1>10. CASE RunEnd(e)
    BY <1>1, <1>10 DEF RunEnd
<1> QED BY <1>3, <1>4, <1>5, <1>6, <1>7, <1>8, <1>9, <1>10 DEF RunBody

LEMMA RunsMatchStep == IInv /\ RunsMatchRows /\ [Next]_vars => RunsMatchRows'
<1> SUFFICES ASSUME IInv, ~Faults, [Next]_vars, NEW x \in Execs, WorkerMatches(x)
             PROVE  WorkerMatches(x)'
    BY DEF RunsMatchRows
<1> USE DEF WorkerMatches
<1>1. RunTypeOK /\ TypeOK /\ OwnExecution
    BY DEF IInv, TypeOK
<1>2. Workers = Execs
    BY ServiceAssumption DEF ServiceAssumption
<1>3. ASSUME NEW e \in Execs, CreateCheck(e) \/ CreateAbort(e)
      PROVE  WorkerMatches(x)'
    BY <1>3 DEF CreateCheck, CreateAbort, execVars, dbVars, runVars
<1>4. ASSUME NEW e \in Execs, CreateCommit(e)
      PROVE  WorkerMatches(x)'
    BY <1>1, <1>2, <1>4 DEF CreateCommit, SetStatus, Goto, RunTypeOK
<1>5. ASSUME NEW e \in Execs, RunStep(e)
      PROVE  WorkerMatches(x)'
    <2>1. \/ pc[e] = "queued" /\ RunStart(e, e)
          \/ RunBody(e) \/ RunCharge(e)
        BY <1>5 DEF RunStep, StartRun
    <2>2. CASE pc[e] = "queued" /\ RunStart(e, e)
        BY <1>1, <1>2, <2>2 DEF RunStart, Goto, RunTypeOK, dbVars, InBody
    <2>3. CASE RunBody(e) \/ RunCharge(e)
        <3>1. CASE x = e
            BY <1>1, <2>3, <3>1, WorkerStepMatches
        <3>2. CASE x # e
            <4>1. WorkerStep(e)
                BY <2>3 DEF WorkerStep
            <4>2. pc'[x] = pc[x] /\ status'[x] = status[x]
                BY <1>1, <1>2, <3>2, <4>1, WorkerStepOwnRow
            <4> QED BY <4>2
        <3> QED BY <3>1, <3>2
    <2> QED BY <2>1, <2>2, <2>3
<1>6. ASSUME NEW c \in Cancels,
             (\E e \in Execs : CancelRead(c, e)) \/ (\E p \in Procs : CancelRunning(c, p))
      PROVE  WorkerMatches(x)'
    BY <1>6 DEF CancelRead, CancelRunning, execVars, dbVars, runVars
<1>7. ASSUME NEW c \in Cancels, CancelPending(c)
      PROVE  WorkerMatches(x)'
    BY <1>1, <1>7 DEF CancelPending, SetStatus, RunTypeOK, runVars
<1>8. ASSUME NEW p \in Procs, Crash(p)
      PROVE  FALSE
    BY <1>8 DEF Crash
<1>9. CASE UNCHANGED vars
    BY <1>9 DEF vars, execVars, dbVars, runVars
<1> QED BY <1>3, <1>4, <1>5, <1>6, <1>7, <1>8, <1>9 DEF Next

\* No slot is leaked: while nothing fails, whoever holds one has a run under way
\* that has not begun to end, whichever cancels and charges come in between.
THEOREM SlotsHaveWorkers ==
    Spec => []SlotHasWorker
<1>1. Init => RunsMatchRows
    BY DEF Init, RunInit, RunsMatchRows, WorkerMatches
<1>2. RunsMatchRows => SlotHasWorker
    BY DEF RunsMatchRows, WorkerMatches, SlotHasWorker, ActiveExecs, Active, InBody
<1> QED BY <1>1, <1>2, RunsMatchStep, Invariance, PTL DEF Spec

\* n tokens more on one execution are n more that are booked.
LEMMA ChargeAddsTokens ==
    ASSUME RunTypeOK, IsFiniteSet(Booked), NEW e \in Execs, NEW n \in Nat,
           total' = [total EXCEPT ![e] = @ + n]
    PROVE  IsFiniteSet(Booked') /\ Cardinality(Booked') = Cardinality(Booked) + n
<1> DEFINE a == total[e]
           New == {e} \X ((a + 1)..(a + n))
<1>1. a \in Nat /\ \A x \in Execs : total[x] \in Nat
    BY DEF RunTypeOK
<1>2. total'[e] = a + n /\ \A x \in Execs \ {e} : total'[x] = total[x]
    BY DEF RunTypeOK
<1>3. Booked' = Booked \cup New
    BY <1>1, <1>2 DEF Booked
<1>4. Booked \cap New = {}
    BY <1>1 DEF Booked
<1>5. IsFiniteSet(New) /\ Cardinality(New) = n
    <2>1. IsFiniteSet((a + 1)..(a + n)) /\ Cardinality((a + 1)..(a + n)) = n
        <3>1. a + 1 \in Int /\ a + n \in Int
            BY <1>1
        <3>2. /\ IsFiniteSet((a + 1)..(a + n))
              /\ Cardinality((a + 1)..(a + n)) =
                    IF a + 1 > a + n THEN 0 ELSE (a + n) - (a + 1) + 1
            BY <3>1, FS_Interval
        <3> QED BY <1>1, <3>2
    <2>2. IsFiniteSet({e}) /\ Cardinality({e}) = 1
        BY FS_Singleton
    <2>3. /\ IsFiniteSet(New)
          /\ Cardinality(New) = Cardinality({e}) * Cardinality((a + 1)..(a + n))
        BY <2>1, <2>2, FS_Product
    <2> QED BY <2>1, <2>2, <2>3
<1>6. Cardinality(Booked) \in Nat /\ Cardinality(Booked \cap New) = 0
    BY <1>4, FS_CardinalityType, FS_EmptySet
<1>7. /\ IsFiniteSet(Booked \cup New)
      /\ Cardinality(Booked \cup New) =
            Cardinality(Booked) + Cardinality(New) - Cardinality(Booked \cap New)
    BY <1>5, FS_Union
<1> QED BY <1>3, <1>5, <1>6, <1>7

\* No charge is booked on the tenant and not on the execution, or the other way
\* round, in whatever order charges, cancels, crashes and database errors come.
THEOREM LedgerAlwaysBalanced == Spec => []LedgerBalanced
<1> DEFINE Inv == IsFiniteSet(Booked) /\ LedgerBalanced
<1>1. Init => Inv
    <2> SUFFICES ASSUME Init PROVE Inv
        OBVIOUS
    <2>1. Booked = {} /\ used = 0
        BY DEF Init, RunInit, Booked
    <2> QED BY <2>1, FS_EmptySet DEF LedgerBalanced
<1>2. IInv /\ Inv /\ [Next]_vars => Inv'
    <2> SUFFICES ASSUME IInv, Inv, [Next]_vars PROVE Inv'
        OBVIOUS
    <2>1. ASSUME NEW e \in Execs, CreateCommit(e)
          PROVE  used' = used /\ total' = total
        BY <2>1 DEF CreateCommit, dbVars
    <2>2. CASE used' = used /\ total' = total
        BY <2>2 DEF LedgerBalanced, Booked
    <2>3. ASSUME NEW e \in Execs, NEW n \in 0..Budget, used' = used + n,
                 total' = [total EXCEPT ![e] = @ + n]
          PROVE  Inv'
        <3>1. RunTypeOK /\ n \in Nat
            BY RunAssumption DEF RunAssumption, IInv, TypeOK
        <3> QED BY <2>3, <3>1, ChargeAddsTokens DEF LedgerBalanced
    <2> QED BY <2>1, <2>2, <2>3, StepKinds
<1>3. Inv => LedgerBalanced
    OBVIOUS
<1> QED BY <1>1, <1>2, <1>3, Invariance, PTL DEF Spec

\* The slots of the contract are the active executions.
LEMMA OpenIsActive ==
    ASSUME RunTypeOK
    PROVE  Contract!Open = ActiveExecs
BY DEF Contract!Open, phaseOf, ActiveExecs, Active, RunTypeOK, Statuses, Terminal

\* The write of one row is a step of the contract or none.
LEMMA RowWriteIsClose ==
    ASSUME RunTypeOK, RowWrite, used' = used, total' = total
    PROVE  [Contract!Next]_(Contract!vars)
<1>1. CASE UNCHANGED status
    BY <1>1 DEF Contract!vars, phaseOf
<1>2. ASSUME NEW x \in Execs, status[x] = "pending",
             status' = [status EXCEPT ![x] = "running"]
      PROVE  UNCHANGED Contract!vars
    BY <1>2 DEF Contract!vars, phaseOf, Active, RunTypeOK
<1>3. ASSUME NEW x \in Execs, NEW s \in Terminal, status[x] # "absent",
             status' = [status EXCEPT ![x] = s]
      PROVE  Contract!Close(x) \/ UNCHANGED Contract!vars
    <2>1. CASE status[x] \in Active
        <3>1. phaseOf[x] = "open"
            BY <2>1 DEF phaseOf, Active
        <3>2. phaseOf' = [phaseOf EXCEPT ![x] = "closed"]
            BY <1>3 DEF phaseOf, Active, Terminal, RunTypeOK
        <3> QED BY <3>1, <3>2 DEF Contract!Close
    <2>2. CASE status[x] \in Terminal
        <3>1. phaseOf' = phaseOf
            BY <1>3, <2>2 DEF phaseOf, Active, Terminal, RunTypeOK
        <3> QED BY <3>1 DEF Contract!vars
    <2> QED BY <1>3, <2>1, <2>2 DEF RunTypeOK, Statuses
<1>4. ASSUME NEW x \in Execs, Contract!Close(x)
      PROVE  Contract!Next
    BY <1>4 DEF Contract!Next
<1> QED BY <1>1, <1>2, <1>3, <1>4 DEF RowWrite

\* The commit of create_execution is an admission the contract allows: the
\* budget and the slot it checked are still there.
LEMMA CommitIsAdmit ==
    ASSUME IInv, NEW e \in Execs, CreateCommit(e)
    PROVE  Contract!Admit(e)
<1>1. /\ RunTypeOK
      /\ status' = [status EXCEPT ![e] = "pending"]
      /\ total' = total /\ used' = used
      /\ tenantLock = e /\ e # NoExec
    BY RunAssumption DEF RunAssumption, CreateCommit, SetStatus, IInv, TypeOK
<1>2. /\ status[e] = "absent"
      /\ used < Budget
      /\ Cardinality(ActiveExecs) < ConcurrentLimit
    BY <1>1 DEF IInv, AdmissionLocked
<1>3. phaseOf[e] = "absent"
    BY <1>2 DEF phaseOf, Active
<1>4. phaseOf' = [phaseOf EXCEPT ![e] = "open"]
    BY <1>1 DEF phaseOf, Active, RunTypeOK
<1>5. Contract!Cardinality(Contract!Open) < ConcurrentLimit
    <2>1. Contract!Cardinality(ActiveExecs) = Cardinality(ActiveExecs)
        BY DEF Contract!Cardinality, Cardinality
    <2> QED BY <1>1, <1>2, <2>1, OpenIsActive
<1> QED BY <1>1, <1>2, <1>3, <1>4, <1>5 DEF Contract!Admit

\* The execution service implements the tenant's contract: races between
\* creators, runs, cancels, database errors and crashes included.
THEOREM ContractImplemented == Spec => ImplementsContract
<1>1. Init => Contract!Init
    BY DEF Init, RunInit, Contract!Init, phaseOf, Active
<1>2. IInv /\ [Next]_vars => [Contract!Next]_(Contract!vars)
    <2> SUFFICES ASSUME IInv, [Next]_vars
                 PROVE  [Contract!Next]_(Contract!vars)
        OBVIOUS
    <2>1. ASSUME NEW e \in Execs, CreateCommit(e)
          PROVE  Contract!Next
        BY <2>1, CommitIsAdmit DEF Contract!Next
    <2>2. ASSUME NEW e \in Execs, NEW n \in 0..Budget, status[e] # "absent",
                 used + n <= Budget, used' = used + n,
                 total' = [total EXCEPT ![e] = @ + n], status' = status
          PROVE  Contract!Next
        <3>1. phaseOf[e] # "absent" /\ phaseOf' = phaseOf
            BY <2>2 DEF phaseOf
        <3>2. Contract!Charge(e, n)
            BY <2>2, <3>1 DEF Contract!Charge
        <3> QED BY <3>2 DEF Contract!Next
    <2>3. CASE RowWrite /\ used' = used /\ total' = total
        BY <2>3, RowWriteIsClose DEF IInv, TypeOK
    <2> QED BY <2>1, <2>2, <2>3, StepKinds
<1> QED BY <1>1, <1>2, Invariance, PTL
        DEF Spec, ImplementsContract, Contract!Spec
=============================================================================
