----------------------- MODULE AutomationPlansProofs ------------------------
(***************************************************************************)
(* One retry per runner and approval, for any set of plans, runners and    *)
(* reviewers, with and without faults.                                     *)
(***************************************************************************)
EXTENDS AutomationPlans, FiniteSetTheorems, TLAPS

\* Every step keeps the types of the columns and of the sessions' local state.
LEMMA TypeStep ==
    ASSUME TypeOK, [Next]_vars
    PROVE  TypeOK'
<1> USE PlansAssumption DEF PlansAssumption, TypeOK, Stored, Final, Kinds
<1>1. CASE UNCHANGED vars
    BY <1>1 DEF vars, planVars, rowVars, lockVars, runnerVars, userVars
<1>2. ASSUME NEW u \in Proposers, NEW k \in Proposals, ProposeCheck(u, k)
      PROVE  TypeOK'
    BY <1>2 DEF ProposeCheck, planVars, rowVars, lockVars, runnerVars
<1>3. ASSUME NEW u \in Proposers, NEW p \in Plans, ProposeInsert(u, p)
      PROVE  TypeOK'
    BY <1>3 DEF ProposeInsert, rowVars, lockVars, runnerVars
<1>4. ASSUME NEW u \in Reviewers, NEW p \in Plans,
             NEW d \in {"approved", "rejected"}, DecideCheck(u, p, d)
      PROVE  TypeOK'
    BY <1>4 DEF DecideCheck, planVars, rowVars, lockVars, runnerVars
<1>5. ASSUME NEW u \in Reviewers, Approve(u)
      PROVE  TypeOK'
    <2>1. reviewed[u] \in Plans /\ reviewed' = [reviewed EXCEPT ![u] = NoPlan]
          /\ decision' = [decision EXCEPT ![u] = "nothing"]
        BY <1>5 DEF Approve, Decided
    <2>2. status' \in [Plans -> Stored]
        <3>1. status' = [status EXCEPT ![reviewed[u]] = "approved"]
            BY <1>5 DEF Approve, Decided
        <3> QED BY <3>1
    <2>3. clock' \in Nat /\ clock' = clock + 1
        BY <1>5 DEF Approve
    <2>4. approvedAt' \in [Plans -> Nat]
        <3>1. approvedAt' = [approvedAt EXCEPT ![reviewed[u]] = clock + 1]
            BY <1>5 DEF Approve
        <3>2. clock + 1 \in Nat /\ approvedAt \in [Plans -> Nat]
            OBVIOUS
        <3> QED BY ONLY <3>1, <3>2
    <2>5. approvals' \in [Plans -> Nat]
        <3>1. approvals' = [approvals EXCEPT ![reviewed[u]] = @ + 1]
            BY <1>5 DEF Approve
        <3>2. approvals \in [Plans -> Nat]
            OBVIOUS
        <3> QED BY ONLY <2>1, <3>1, <3>2
    <2>6. UNCHANGED <<kind, rowVars, paused, lockVars, runnerVars, proposing>>
        BY <1>5 DEF Approve, Decided
    <2> QED BY <2>1, <2>2, <2>3, <2>4, <2>5, <2>6 DEF rowVars, lockVars, runnerVars
<1>6. ASSUME NEW u \in Reviewers, Reject(u)
      PROVE  TypeOK'
    BY <1>6 DEF Reject, Decided, rowVars, lockVars, runnerVars
<1>7. ASSUME NEW r \in Runners, Pick(r)
      PROVE  TypeOK'
    BY <1>7 DEF Pick, Goto, planVars, rowVars, lockVars, userVars
<1>8. ASSUME NEW r \in Runners, NEW p \in Plans, Claim(r, p)
      PROVE  TypeOK'
    BY <1>8 DEF Claim, Assign, Goto, planVars, rowVars, lockVars, userVars
<1>9. ASSUME NEW r \in Runners, NEW p \in Plans, FlushRow(r, p)
      PROVE  TypeOK'
    <2>1. \/ rpc' = rpc
          \/ rpc' = [rpc EXCEPT ![r] = "act"] /\ rpc[r] = "flush"
        BY <1>9 DEF FlushRow, Goto
    <2>2. /\ planLock' = [planLock EXCEPT ![p] = r]
          /\ unflushed' = [unflushed EXCEPT ![r] = @ \ {p}]
          /\ UNCHANGED <<planVars, rowVars, paused, tenantLock, todo, loadedAt, cur,
                         mem, row, resumes, tagged, userVars>>
        BY <1>9 DEF FlushRow
    <2>3. /\ rpc' \in [Runners -> {"idle", "next", "flush", "act", "retry", "tag"}]
          /\ \A x \in Runners :
                rpc'[x] \in {"flush", "act", "retry", "tag"} => cur[x] \in Plans
          /\ \A x \in Runners : rpc'[x] \in {"retry", "tag"} => row[x] \in Execs
        <3>1. CASE rpc' = rpc
            BY <3>1
        <3>2. CASE rpc' = [rpc EXCEPT ![r] = "act"] /\ rpc[r] = "flush"
            BY <3>2
        <3> QED BY <2>1, <3>1, <3>2
    <2> QED BY <2>2, <2>3 DEF planVars, rowVars, userVars
<1>10. ASSUME NEW r \in Runners, Block(r)
       PROVE  TypeOK'
    BY <1>10 DEF Block, Settle, Assign, Goto, planVars, rowVars, lockVars, userVars
<1>11. ASSUME NEW r \in Runners, ResumeGuard(r)
       PROVE  TypeOK'
    BY <1>11 DEF ResumeGuard, Settle, Assign, Goto, planVars, rowVars, lockVars,
                 userVars
<1>12. ASSUME NEW r \in Runners, NEW s \in Execs, FindSource(r, s)
       PROVE  TypeOK'
    BY <1>12 DEF FindSource, Goto, planVars, rowVars, lockVars, userVars
<1>13. ASSUME NEW r \in Runners, RetryRefused(r)
       PROVE  TypeOK'
    BY <1>13 DEF RetryRefused, Settle, Assign, Goto, planVars, rowVars, userVars
<1>14. ASSUME NEW r \in Runners, NEW e \in Execs, RetryCreated(r, e)
       PROVE  TypeOK'
    BY <1>14 DEF RetryCreated, CommitPlans, Untagged, Goto, userVars
<1>15. ASSUME NEW r \in Runners, TagRetry(r)
       PROVE  TypeOK'
    BY <1>15 DEF TagRetry, Settle, Assign, Goto, planVars, rowVars, lockVars, userVars
<1>16. ASSUME NEW r \in Runners, PlanFails(r)
       PROVE  TypeOK'
    BY <1>16 DEF PlanFails, Settle, Assign, Goto, planVars, rowVars, lockVars,
                 userVars
<1>17. ASSUME NEW r \in Runners, CommitBatch(r)
       PROVE  TypeOK'
    BY <1>17 DEF CommitBatch, CommitPlans, CloseSession, Untagged, Goto, AtCommit,
                 userVars
<1>18. ASSUME NEW r \in Runners, Abort(r)
       PROVE  TypeOK'
    BY <1>18 DEF Abort, CloseSession, Goto, planVars, rowVars, userVars
<1>19. CASE OtherNext
    <2>1. /\ exec' \in [Execs -> {"absent", "active", "dead", "ended"}]
          /\ parent' \in [Execs -> Execs \cup {NoExec}]
          /\ paused' \in BOOLEAN
        <3>1. ASSUME NEW e \in Execs, Arrive(e) \/ Finish(e, "dead") \/ Finish(e, "ended")
              PROVE  /\ exec' \in [Execs -> {"absent", "active", "dead", "ended"}]
                     /\ UNCHANGED <<parent, paused>>
            <4>1. \E end \in {"active", "dead", "ended"} :
                     exec' = [exec EXCEPT ![e] = end]
                BY <3>1 DEF Arrive, Finish
            <4>2. UNCHANGED <<parent, paused>>
                BY <3>1 DEF Arrive, Finish
            <4> QED BY <4>1, <4>2
        <3>2. ASSUME NEW e \in Execs, NEW s \in Execs, ManualRetry(e, s)
              PROVE  /\ exec' \in [Execs -> {"absent", "active", "dead", "ended"}]
                     /\ parent' \in [Execs -> Execs \cup {NoExec}]
                     /\ UNCHANGED paused
            BY <3>2 DEF ManualRetry
        <3>3. ASSUME NEW b \in BOOLEAN, SetPaused(b)
              PROVE  paused' \in BOOLEAN /\ UNCHANGED <<exec, parent>>
            BY <3>3 DEF SetPaused, rowVars
        <3> QED BY <1>19, <3>1, <3>2, <3>3 DEF OtherNext
    <2>2. UNCHANGED <<planVars, madeBy, madeFor, lockVars, runnerVars, userVars>>
        BY <1>19 DEF OtherNext, Arrive, Finish, ManualRetry, SetPaused, rowVars,
                     planVars, lockVars, runnerVars, userVars
    <2> QED BY <2>1, <2>2 DEF planVars, lockVars, runnerVars, userVars
<1> HIDE DEF TypeOK
<1> QED
    BY <1>1, <1>2, <1>3, <1>4, <1>5, <1>6, <1>7, <1>8, <1>9, <1>10, <1>11, <1>12,
       <1>13, <1>14, <1>15, <1>16, <1>17, <1>18, <1>19
    DEF Next, UserNext, RunnerNext, ExecutePlan

\* Where nothing is created or approved, a pair stays paid for unless its runner
\* becomes entitled.
LEMMA PaidKept ==
    ASSUME NEW r \in Runners, NEW p \in Plans, Paid(r, p),
           UNCHANGED <<madeBy, madeFor, approvals>>,
           Entitled(r, p)' => Entitled(r, p)
    PROVE  Paid(r, p)'
<1>1. Made(r, p)' = Made(r, p)
    BY DEF Made
<1> QED BY <1>1 DEF Paid

\* A commit of a session approves nothing and lets go of its locks.
LEMMA CommitApprovesNothing ==
    ASSUME IInv, NEW r \in Runners, CommitPlans(r)
    PROVE  /\ \A p \in Plans : status'[p] = "approved" =>
                status[p] = "approved" /\ planLock[p] # r
           /\ \A p \in Plans : planLock'[p] # r
           /\ \A p \in Plans, x \in Runners \ {r} : planLock'[p] = x => planLock[p] = x
           /\ \A p \in Plans, x \in Runners \ {r} : planLock[p] = x => planLock'[p] = x
BY PlansAssumption DEF PlansAssumption, IInv, TypeOK, CommitPlans, WritesNoApproval,
   Final

\* Steps of users, of the dispatcher and of its queue.
LEMMA OutsideStep ==
    ASSUME IInv, TypeOK', UserNext \/ OtherNext \/ UNCHANGED vars
    PROVE  IInv'
<1>1. /\ UNCHANGED <<lockVars, runnerVars, madeBy, madeFor>>
      /\ \/ UNCHANGED approvals /\ \A p \in Plans : status'[p] = "approved" =>
                                                      status[p] = "approved"
         \/ \E u \in Reviewers : Approve(u)
    <2> USE DEF IInv, TypeOK
    <2>1. CASE UNCHANGED vars
        BY <2>1 DEF vars, lockVars, runnerVars, rowVars, planVars
    <2>2. CASE OtherNext
        BY <2>2 DEF OtherNext, Arrive, Finish, ManualRetry, SetPaused, lockVars,
                    runnerVars, rowVars, planVars
    <2>3. CASE UserNext
        <3>1. ASSUME NEW u \in Proposers, NEW k \in Proposals, ProposeCheck(u, k)
              PROVE  UNCHANGED <<planVars, rowVars, lockVars, runnerVars>>
            BY <3>1 DEF ProposeCheck
        <3>2. ASSUME NEW u \in Proposers, NEW p \in Plans, ProposeInsert(u, p)
              PROVE  /\ UNCHANGED <<rowVars, lockVars, runnerVars, approvals>>
                     /\ status' = [status EXCEPT ![p] = "pending_approval"]
            BY <3>2 DEF ProposeInsert
        <3>3. ASSUME NEW u \in Reviewers, NEW p \in Plans,
                     NEW d \in {"approved", "rejected"}, DecideCheck(u, p, d)
              PROVE  UNCHANGED <<planVars, rowVars, lockVars, runnerVars>>
            BY <3>3 DEF DecideCheck
        <3>4. ASSUME NEW u \in Reviewers, Approve(u)
              PROVE  UNCHANGED <<rowVars, lockVars, runnerVars>>
            BY <3>4 DEF Approve, Decided
        <3>5. ASSUME NEW u \in Reviewers, Reject(u)
              PROVE  /\ UNCHANGED <<rowVars, lockVars, runnerVars, approvals>>
                     /\ status' = [status EXCEPT ![reviewed[u]] = "rejected"]
            BY <3>5 DEF Reject, Decided
        <3> QED BY <2>3, <3>1, <3>2, <3>3, <3>4, <3>5
                DEF UserNext, planVars, rowVars
    <2> QED BY <2>1, <2>2, <2>3
<1>2. \A r \in Runners : InHand(r)' /\ \A p \in Plans : WritesNoApproval(r, p)'
    BY <1>1 DEF IInv, InHand, WritesNoApproval, lockVars, runnerVars
<1>3. ASSUME NEW r \in Runners, NEW p \in Plans
      PROVE  Paid(r, p)'
    <2>1. Holds(r, p)' <=> Holds(r, p)
        BY <1>1 DEF Holds, runnerVars
    <2>2. CASE UNCHANGED approvals /\ \A q \in Plans : status'[q] = "approved" =>
                                                          status[q] = "approved"
        BY <1>1, <2>1, <2>2, PaidKept DEF Entitled, IInv
    <2>3. ASSUME NEW u \in Reviewers, Approve(u)
          PROVE  Paid(r, p)'
        <3>1. Made(r, p)' = Made(r, p)
            BY <1>1 DEF Made
        <3>2. reviewed[u] \in Plans /\ approvals \in [Plans -> Nat]
            BY <2>3 DEF IInv, TypeOK, Approve
        <3>3. /\ approvals' = [approvals EXCEPT ![reviewed[u]] = @ + 1]
              /\ status' = [status EXCEPT ![reviewed[u]] = "approved"]
            BY <2>3 DEF Approve, Decided
        <3>4. Paid(r, p) /\ Cardinality(Made(r, p)) \in Nat
            BY FS_CardinalityType DEF IInv, Paid
        <3>5. CASE p = reviewed[u]
            BY <3>1, <3>2, <3>3, <3>4, <3>5 DEF Paid
        <3>6. CASE p # reviewed[u]
            <4>1. approvals'[p] = approvals[p] /\ status'[p] = status[p]
                BY <3>2, <3>3, <3>6 DEF IInv, TypeOK
            <4> QED BY <2>1, <3>1, <3>4, <4>1 DEF Paid, Entitled
        <3> QED BY <3>5, <3>6
    <2> QED BY <1>1, <2>2, <2>3
<1> QED BY <1>2, <1>3 DEF IInv

\* r's step leaves the session and the locks of the runner x alone.
Apart(x) ==
    /\ rpc'[x] = rpc[x] /\ todo'[x] = todo[x] /\ cur'[x] = cur[x]
    /\ mem'[x] = mem[x] /\ unflushed'[x] = unflushed[x]
    /\ \A p \in Plans : planLock'[p] = x <=> planLock[p] = x

\* What a step of one runner means for the others.
LEMMA OthersKept ==
    ASSUME IInv, TypeOK', NEW r \in Runners, UNCHANGED approvals,
           \A x \in Runners \ {r} : Apart(x),
           \A p \in Plans : status'[p] = "approved" => status[p] = "approved",
           \A x \in Runners \ {r}, p \in Plans : Made(x, p)' \subseteq Made(x, p),
           InHand(r)',
           \A p \in Plans : Paid(r, p)' /\ WritesNoApproval(r, p)'
    PROVE  IInv'
<1>1. ASSUME NEW x \in Runners \ {r}
      PROVE  InHand(x)' /\ \A p \in Plans : WritesNoApproval(x, p)'
    <2>1. InHand(x) /\ Apart(x) /\ \A p \in Plans : WritesNoApproval(x, p)
        BY DEF IInv
    <2>2. rpc[x] \in {"flush", "act", "retry"} => cur[x] \in Plans
        BY DEF IInv, TypeOK
    <2> QED BY <2>1, <2>2 DEF InHand, WritesNoApproval, Apart
<1>2. ASSUME NEW x \in Runners \ {r}, NEW p \in Plans
      PROVE  Paid(x, p)'
    <2>1. Paid(x, p) /\ Apart(x) /\ Made(x, p)' \subseteq Made(x, p)
        BY DEF IInv
    <2>2. /\ IsFiniteSet(Made(x, p)')
          /\ Cardinality(Made(x, p)') \in Nat
          /\ Cardinality(Made(x, p)) \in Nat
          /\ Cardinality(Made(x, p)') <= Cardinality(Made(x, p))
        BY <2>1, FS_Subset, FS_CardinalityType DEF Paid
    <2>3. Entitled(x, p)' => Entitled(x, p)
        BY <2>1 DEF Entitled, Holds, Apart
    <2>4. approvals[p] \in Nat /\ approvals'[p] = approvals[p]
        BY DEF IInv, TypeOK
    <2> QED BY <2>1, <2>2, <2>3, <2>4 DEF Paid
<1> QED BY <1>1, <1>2 DEF IInv

\* A step of a runner that neither commits nor creates.
LEMMA LocalStep ==
    ASSUME IInv, TypeOK', NEW r \in Runners, UNCHANGED <<status, approvals, madeBy, madeFor>>,
           \A x \in Runners \ {r} : Apart(x),
           InHand(r)',
           \A p \in Plans : WritesNoApproval(r, p)',
           \A p \in Plans : Entitled(r, p)' => Entitled(r, p)
    PROVE  IInv'
<1>1. \A p \in Plans : Paid(r, p)'
    BY PaidKept DEF IInv
<1>2. \A x \in Runners, p \in Plans : Made(x, p)' = Made(x, p)
    BY DEF Made
<1> QED BY <1>1, <1>2, OthersKept

\* A runner without a batch reads one, claims a plan of it, or flushes a row.
LEMMA BatchStep ==
    ASSUME IInv, TypeOK', NEW r \in Runners, NEW p \in Plans,
           Pick(r) \/ Claim(r, p) \/ FlushRow(r, p)
    PROVE  IInv'
<1> USE PlansAssumption DEF PlansAssumption
<1>1. CASE Pick(r)
    <2>1. /\ UNCHANGED <<status, approvals, madeBy, madeFor, planLock, cur, unflushed>>
          /\ rpc[r] = "idle" /\ rpc' = [rpc EXCEPT ![r] = "next"]
          /\ \A x \in Runners \ {r} : todo'[x] = todo[x] /\ mem'[x] = mem[x]
        BY <1>1 DEF Pick, Goto, planVars, rowVars, lockVars, IInv, TypeOK
    <2>2. \A q \in todo'[r] : q \in Plans /\ status[q] = "approved"
        BY <1>1 DEF Pick, IInv, TypeOK
    <2>3. cur[r] = NoPlan /\ unflushed[r] = {} /\ \A q \in Plans : planLock[q] # r
        BY <2>1 DEF IInv, InHand
    <2>4. InHand(r)'
        BY <2>1, <2>2, <2>3 DEF InHand, IInv, TypeOK
    <2>5. \A x \in Runners \ {r} : Apart(x)
        BY <2>1 DEF Apart, IInv, TypeOK
    <2>6. \A q \in Plans : Entitled(r, q)' => Entitled(r, q)
        BY <2>1, <2>2, <2>3 DEF Entitled, Holds
    <2>7. \A q \in Plans : WritesNoApproval(r, q)'
        BY <2>1, <2>3 DEF WritesNoApproval
    <2> QED BY <2>1, <2>4, <2>5, <2>6, <2>7, LocalStep
<1>2. CASE Claim(r, p)
    <2>1. /\ UNCHANGED <<status, approvals, madeBy, madeFor, planLock>>
          /\ rpc[r] = "next" /\ rpc' = [rpc EXCEPT ![r] = "flush"]
          /\ p \in todo[r] /\ todo' = [todo EXCEPT ![r] = @ \ {p}]
          /\ cur' = [cur EXCEPT ![r] = p]
          /\ mem' = [mem EXCEPT ![r][p] = "executing"]
          /\ unflushed' = [unflushed EXCEPT ![r] = @ \cup {p}]
        BY <1>2 DEF Claim, Assign, Goto, planVars, rowVars, lockVars
    <2>2. InHand(r)'
        BY <2>1 DEF InHand, IInv, TypeOK
    <2>3. \A x \in Runners \ {r} : Apart(x)
        BY <2>1 DEF Apart, IInv, TypeOK
    <2>4. \A q \in Plans : Entitled(r, q)' => Entitled(r, q)
        BY <2>1 DEF Entitled, Holds, IInv, TypeOK
    <2>5. \A q \in Plans : WritesNoApproval(r, q)'
        BY <2>1 DEF WritesNoApproval, IInv, TypeOK
    <2> QED BY <2>1, <2>2, <2>3, <2>4, <2>5, LocalStep
<1>3. CASE FlushRow(r, p)
    <2>1. /\ UNCHANGED <<status, approvals, madeBy, madeFor, todo, cur, mem>>
          /\ p \in unflushed[r] /\ planLock[p] \in {NoOne, r}
          /\ planLock' = [planLock EXCEPT ![p] = r]
          /\ unflushed' = [unflushed EXCEPT ![r] = @ \ {p}]
        BY <1>3 DEF FlushRow, planVars, rowVars
    <2>2. \/ rpc' = rpc /\ (rpc[r] = "flush" \/ rpc[r] = "next")
          \/ rpc' = [rpc EXCEPT ![r] = "act"] /\ rpc[r] = "flush" /\ unflushed[r] = {p}
        BY <1>3 DEF FlushRow, Goto, AtCommit
    <2>3. InHand(r)'
        <3>1. InHand(r) /\ (rpc[r] = "flush" => cur[r] \in Plans)
            BY DEF IInv, TypeOK
        <3>2. CASE rpc' = rpc /\ (rpc[r] = "flush" \/ rpc[r] = "next")
            BY <2>1, <3>1, <3>2 DEF InHand, IInv, TypeOK
        <3>3. CASE rpc' = [rpc EXCEPT ![r] = "act"] /\ rpc[r] = "flush" /\ unflushed[r] = {p}
            BY <2>1, <3>1, <3>3 DEF InHand, IInv, TypeOK
        <3> QED BY <2>2, <3>2, <3>3
    <2>4. \A x \in Runners \ {r} : Apart(x)
        BY <2>1, <2>2 DEF Apart, IInv, TypeOK
    <2>5. \A q \in Plans : Entitled(r, q)' => Entitled(r, q)
        BY <2>1, <2>2 DEF Entitled, Holds, IInv, TypeOK
    <2>6. \A q \in Plans : WritesNoApproval(r, q)'
        BY <2>1 DEF WritesNoApproval, IInv, TypeOK
    <2> QED BY <2>1, <2>3, <2>4, <2>5, <2>6, LocalStep
<1> QED BY <1>1, <1>2, <1>3

\* _execute_plan has come to a result, or has found what to retry.
LEMMA ExecuteStep ==
    ASSUME IInv, TypeOK', NEW r \in Runners,
           \/ Block(r) \/ ResumeGuard(r) \/ RetryRefused(r) \/ TagRetry(r)
           \/ PlanFails(r) \/ \E s \in Execs : FindSource(r, s)
    PROVE  IInv'
<1> USE PlansAssumption DEF PlansAssumption
<1>1. ASSUME NEW st \in Final, Settle(r, st), UNCHANGED planLock, rpc[r] # "idle",
             cur[r] \in Plans
      PROVE  IInv'
    <2>1. /\ UNCHANGED <<status, approvals, madeBy, madeFor, planLock, todo, cur>>
          /\ rpc' = [rpc EXCEPT ![r] = "next"]
          /\ mem' = [mem EXCEPT ![r][cur[r]] = st]
          /\ unflushed' = [unflushed EXCEPT ![r] = @ \cup {cur[r]}]
        BY <1>1 DEF Settle, Assign, Goto, planVars, rowVars
    <2>2. InHand(r)'
        BY <2>1 DEF InHand, IInv, TypeOK
    <2>3. \A x \in Runners \ {r} : Apart(x)
        BY <2>1 DEF Apart, IInv, TypeOK
    <2>4. \A q \in Plans : Entitled(r, q)' => Entitled(r, q)
        BY <2>1 DEF Entitled, Holds, IInv, TypeOK
    <2>5. \A q \in Plans : WritesNoApproval(r, q)'
        BY <1>1, <2>1 DEF WritesNoApproval, IInv, TypeOK
    <2> QED BY <2>1, <2>2, <2>3, <2>4, <2>5, LocalStep
<1>2. rpc[r] \in {"act", "retry", "tag"} => cur[r] \in Plans
    BY DEF IInv, TypeOK
<1>3. CASE Block(r)
    BY <1>1, <1>2, <1>3 DEF Block, lockVars, Final
<1>4. CASE ResumeGuard(r)
    BY <1>1, <1>2, <1>4 DEF ResumeGuard, lockVars, Final
<1>5. CASE RetryRefused(r)
    BY <1>1, <1>2, <1>5 DEF RetryRefused, Final
<1>6. CASE TagRetry(r)
    BY <1>1, <1>2, <1>6 DEF TagRetry, lockVars, Final
<1>7. CASE PlanFails(r)
    BY <1>1, <1>2, <1>7 DEF PlanFails, lockVars, Final
<1>8. ASSUME NEW s \in Execs, FindSource(r, s)
      PROVE  IInv'
    <2>1. /\ UNCHANGED <<status, approvals, madeBy, madeFor, planLock, todo, cur, mem,
                         unflushed>>
          /\ rpc[r] = "act" /\ rpc' = [rpc EXCEPT ![r] = "retry"]
        BY <1>8 DEF FindSource, Goto, planVars, rowVars, lockVars
    <2>2. InHand(r)'
        BY <2>1 DEF InHand, IInv, TypeOK
    <2>3. \A x \in Runners \ {r} : Apart(x)
        BY <2>1 DEF Apart, IInv, TypeOK
    <2>4. \A q \in Plans : Entitled(r, q)' => Entitled(r, q)
        BY <2>1 DEF Entitled, Holds, IInv, TypeOK
    <2>5. \A q \in Plans : WritesNoApproval(r, q)'
        BY <2>1 DEF WritesNoApproval, IInv, TypeOK
    <2> QED BY <2>1, <2>2, <2>3, <2>4, <2>5, LocalStep
<1> QED BY <1>3, <1>4, <1>5, <1>6, <1>7, <1>8

\* The commit in create_execution spends the approval on the retry.
LEMMA CreateStep ==
    ASSUME IInv, TypeOK', NEW r \in Runners, NEW e \in Execs, RetryCreated(r, e)
    PROVE  IInv'
<1> USE PlansAssumption DEF PlansAssumption
<1>0. PICK c \in Plans : c = cur[r]
    BY DEF RetryCreated, IInv, TypeOK
<1>1. /\ rpc[r] = "retry" /\ rpc' = [rpc EXCEPT ![r] = "tag"]
      /\ UNCHANGED <<approvals, todo, cur, mem, unflushed>>
      /\ madeBy' = [madeBy EXCEPT ![e] = r]
      /\ madeFor' = [madeFor EXCEPT ![e] = c]
      /\ CommitPlans(r)
    BY <1>0 DEF RetryCreated, Goto
<1>2. /\ \A p \in Plans : status'[p] = "approved" =>
            status[p] = "approved" /\ planLock[p] # r
      /\ \A p \in Plans : planLock'[p] # r
      /\ \A x \in Runners \ {r}, p \in Plans : planLock'[p] = x <=> planLock[p] = x
    BY <1>1, CommitApprovesNothing
<1>3. InHand(r) /\ planLock[c] = r
    BY <1>0, <1>1 DEF IInv, InHand
<1>4. InHand(r)'
    BY <1>1, <1>3 DEF InHand, IInv, TypeOK
<1>5. \A x \in Runners \ {r} : Apart(x)
    BY <1>1, <1>2 DEF Apart, IInv, TypeOK
<1>6. \A p \in Plans : WritesNoApproval(r, p)'
    BY <1>1, <1>2 DEF WritesNoApproval, IInv
<1>7. \A x \in Runners, p \in Plans : x # r \/ p # c => Made(x, p)' \subseteq Made(x, p)
    BY <1>1 DEF Made, IInv, TypeOK
<1>8. Made(r, c)' \subseteq Made(r, c) \cup {e}
    BY <1>1 DEF Made, IInv, TypeOK
<1>9. ASSUME NEW p \in Plans
      PROVE  Paid(r, p)'
    <2>1. Paid(r, p) /\ approvals'[p] = approvals[p] /\ approvals[p] \in Nat
        BY <1>1 DEF IInv, TypeOK
    <2>2. CASE p = c
        <3>1. Entitled(r, c) /\ ~Entitled(r, c)'
            BY <1>0, <1>1, <1>2, <1>3 DEF Entitled, Holds, InHand, IInv, TypeOK
        <3>2. /\ IsFiniteSet(Made(r, c) \cup {e})
              /\ Cardinality(Made(r, c) \cup {e}) <= Cardinality(Made(r, c)) + 1
              /\ Cardinality(Made(r, c) \cup {e}) \in Nat
              /\ Cardinality(Made(r, c)) \in Nat
            <4>1. IsFiniteSet(Made(r, c)) /\ Cardinality(Made(r, c)) \in Nat
                BY <2>1, <2>2, FS_CardinalityType DEF Paid
            <4>2. /\ IsFiniteSet(Made(r, c) \cup {e})
                  /\ \/ Cardinality(Made(r, c) \cup {e}) = Cardinality(Made(r, c))
                     \/ Cardinality(Made(r, c) \cup {e}) = Cardinality(Made(r, c)) + 1
                BY <4>1, FS_AddElement
            <4> QED BY <4>1, <4>2
        <3>3. /\ IsFiniteSet(Made(r, c)')
              /\ Cardinality(Made(r, c)') <= Cardinality(Made(r, c) \cup {e})
              /\ Cardinality(Made(r, c)') \in Nat
            BY <1>8, <3>2, FS_Subset, FS_CardinalityType
        <3> QED BY <2>1, <2>2, <3>1, <3>2, <3>3 DEF Paid
    <2>3. CASE p # c
        <3>1. Entitled(r, p)' => Entitled(r, p)
            BY <1>0, <1>1, <1>2, <2>3 DEF Entitled, Holds, IInv, TypeOK
        <3>2. /\ IsFiniteSet(Made(r, p)')
              /\ Cardinality(Made(r, p)') <= Cardinality(Made(r, p))
              /\ Cardinality(Made(r, p)') \in Nat
              /\ Cardinality(Made(r, p)) \in Nat
            BY <1>7, <2>1, <2>3, FS_Subset, FS_CardinalityType DEF Paid
        <3> QED BY <2>1, <3>1, <3>2 DEF Paid
    <2> QED BY <2>2, <2>3
<1> QED BY <1>1, <1>2, <1>4, <1>5, <1>6, <1>7, <1>9, OthersKept

\* The end of a batch, well or with a rollback.
LEMMA EndStep ==
    ASSUME IInv, TypeOK', NEW r \in Runners, CommitBatch(r) \/ Abort(r)
    PROVE  IInv'
<1> USE PlansAssumption DEF PlansAssumption
<1>1. /\ UNCHANGED <<approvals, madeBy, madeFor>>
      /\ CloseSession(r)
    BY DEF CommitBatch, Abort, planVars, rowVars
<1>2. /\ \A p \in Plans : status'[p] = "approved" => status[p] = "approved"
      /\ \A p \in Plans : planLock'[p] # r
      /\ \A x \in Runners \ {r}, p \in Plans : planLock'[p] = x <=> planLock[p] = x
    <2>1. CASE CommitBatch(r)
        BY <2>1, CommitApprovesNothing DEF CommitBatch
    <2>2. CASE Abort(r)
        BY <2>2 DEF Abort, planVars, IInv, TypeOK
    <2> QED BY <2>1, <2>2
<1>3. InHand(r)'
    BY <1>1, <1>2 DEF CloseSession, Goto, InHand, IInv, TypeOK
<1>4. \A x \in Runners \ {r} : Apart(x)
    BY <1>1, <1>2 DEF CloseSession, Goto, Apart, IInv, TypeOK
<1>5. \A p \in Plans : WritesNoApproval(r, p)'
    BY <1>1, <1>2 DEF CloseSession, WritesNoApproval, IInv, TypeOK
<1>6. \A p \in Plans : Paid(r, p)'
    <2>1. \A p \in Plans : Entitled(r, p)' => Entitled(r, p)
        BY <1>1, <1>2 DEF CloseSession, Goto, Entitled, Holds, IInv, TypeOK
    <2> QED BY <1>1, <2>1, PaidKept DEF IInv
<1>7. \A x \in Runners, p \in Plans : Made(x, p)' = Made(x, p)
    BY <1>1 DEF Made
<1> QED BY <1>1, <1>2, <1>3, <1>4, <1>5, <1>6, <1>7, OthersKept

LEMMA InitIInv ==
    Init => IInv
<1> SUFFICES ASSUME Init
             PROVE  IInv
    OBVIOUS
<1> USE PlansAssumption DEF PlansAssumption
<1>1. TypeOK
    BY DEF Init, TypeOK, Stored, Final, Kinds
<1>2. \A r \in Runners, p \in Plans : Paid(r, p)
    <2>1. \A r \in Runners, p \in Plans : Made(r, p) = {} /\ ~Entitled(r, p)
        BY DEF Init, Made, Entitled, Holds
    <2>2. IsFiniteSet({}) /\ Cardinality({}) = 0
        BY FS_EmptySet
    <2>3. \A p \in Plans : approvals[p] = 0
        BY DEF Init
    <2> QED BY <2>1, <2>2, <2>3 DEF Paid
<1>3. \A r \in Runners : InHand(r) /\ \A p \in Plans : WritesNoApproval(r, p)
    BY DEF Init, InHand, WritesNoApproval
<1> QED BY <1>1, <1>2, <1>3 DEF IInv

LEMMA IInvStep ==
    IInv /\ [Next]_vars => IInv'
<1> SUFFICES ASSUME IInv, [Next]_vars
             PROVE  IInv'
    OBVIOUS
<1>1. TypeOK'
    BY TypeStep DEF IInv
<1>2. CASE UserNext \/ OtherNext \/ UNCHANGED vars
    BY <1>1, <1>2, OutsideStep
<1>3. ASSUME NEW r \in Runners, RunnerNext(r) \/ Abort(r)
      PROVE  IInv'
    <2>1. CASE Pick(r)
        <3>1. \E p \in Plans : TRUE
            BY <2>1 DEF Pick
        <3> QED BY <1>1, <2>1, <3>1, BatchStep
    <2>2. ASSUME NEW p \in Plans, Claim(r, p) \/ FlushRow(r, p)
          PROVE  IInv'
        BY <1>1, <2>2, BatchStep
    <2>3. ASSUME NEW e \in Execs, RetryCreated(r, e)
          PROVE  IInv'
        BY <1>1, <2>3, CreateStep
    <2>4. CASE \/ Block(r) \/ ResumeGuard(r) \/ RetryRefused(r) \/ TagRetry(r)
               \/ PlanFails(r) \/ \E s \in Execs : FindSource(r, s)
        BY <1>1, <2>4, ExecuteStep
    <2>5. CASE CommitBatch(r) \/ Abort(r)
        BY <1>1, <2>5, EndStep
    <2> QED BY <1>3, <2>1, <2>2, <2>3, <2>4, <2>5 DEF RunnerNext, ExecutePlan
<1> QED BY <1>2, <1>3 DEF Next

-----------------------------------------------------------------------------
(* What a session that is at work has in hand, and the rows it relies on.  *)

AtWork == {"flush", "act", "retry", "tag"}

Exists(e) == exec[e] # "absent"
HasRetry(p) == kind[p] = "approval_gated_retry" /\ \E e \in Execs : madeFor[e] = p

\* What r's session remembers of the plans of its batch: one of them is executing,
\* the one in hand, and those that are executed have had their effect.
Remembers(r) ==
    /\ \A p \in Plans : mem[r][p] # "absent" => status[p] # "absent"
    /\ \A p \in todo[r] : mem[r][p] = "approved"
    /\ \A p \in Plans : mem[r][p] = "executing" => p = cur[r] /\ rpc[r] \in AtWork
    /\ rpc[r] \in AtWork => mem[r][cur[r]] = "executing"
    /\ \A p \in Plans : mem[r][p] = "executed" => HasRetry(p) \/ kind[p] = "resume_guard"

\* A retry is made for a plan that asks for one, of an execution this runner has
\* not retried; after the commit the new row is the plan's.
Retries(r) ==
    /\ rpc[r] \in {"retry", "tag"} =>
          kind[cur[r]] = "approval_gated_retry" /\ Exists(row[r])
    /\ rpc[r] = "retry" => \A f \in Execs : madeBy[f] = r => parent[f] # row[r]
    /\ rpc[r] = "tag" => madeFor[row[r]] = cur[r]

\* A session that has resumed the workflows has a guard to commit with them.
Guards(r) ==
    /\ rpc[r] = "idle" => ~resumes[r]
    /\ rpc[r] \in {"act", "retry", "tag"} => unflushed[r] = {}
    /\ resumes[r] => \E p \in Plans :
          /\ kind[p] = "resume_guard" /\ mem[r][p] = "executed"
          /\ p \in unflushed[r] \/ planLock[p] = r

\* Executions are numbered in order, those that a runner made after what they
\* retry.
RowsInOrder ==
    /\ IsFiniteSet({e \in Execs : Exists(e)})
    /\ \A x, y \in Execs : x < y /\ Exists(y) => Exists(x)
    /\ \A e \in Execs : Exists(e) \/ (madeFor[e] = NoPlan /\ madeBy[e] = NoOne)
    /\ \A e \in Execs : madeBy[e] # NoOne => parent[e] \in Execs /\ parent[e] < e

EInv ==
    /\ \A r \in Runners : Remembers(r) /\ Retries(r) /\ Guards(r)
    /\ RowsInOrder
    /\ VisibleClaimHasEffect
    /\ NoSecondRetryByOneRunner

-----------------------------------------------------------------------------
(* How rows and plans change *)

RowsSame ==
    /\ \A x \in Execs : Exists(x)' <=> Exists(x)
    /\ UNCHANGED <<parent, madeBy, madeFor>>

RowAdded(e) ==
    /\ NextRow(e)
    /\ \A x \in Execs : Exists(x)' <=> Exists(x) \/ x = e
    /\ \A x \in Execs \ {e} :
          parent'[x] = parent[x] /\ madeBy'[x] = madeBy[x] /\ madeFor'[x] = madeFor[x]

\* A step adds one row at most, and a runner's own only where it creates a retry.
LEMMA RowStep ==
    ASSUME TypeOK, [Next]_vars
    PROVE  \/ RowsSame
           \/ \E e \in Execs : RowAdded(e) /\ UNCHANGED <<madeBy, madeFor>>
           \/ \E r \in Runners, e \in Execs : RetryCreated(r, e) /\ RowAdded(e)
<1>1. ASSUME UNCHANGED rowVars
      PROVE  RowsSame
    BY <1>1 DEF RowsSame, Exists, rowVars
<1>2. ASSUME NEW r \in Runners
      PROVE  \A x \in Execs : Untagged(r)[x] # "absent" <=> exec[x] # "absent"
    BY DEF Untagged
<1>3. CASE UserNext \/ UNCHANGED vars
    BY <1>1, <1>3 DEF UserNext, ProposeCheck, ProposeInsert, DecideCheck, Approve,
                      Reject, Decided, vars
<1>4. ASSUME NEW e \in Execs, Arrive(e) \/ \E s \in Execs : ManualRetry(e, s)
      PROVE  RowAdded(e) /\ UNCHANGED <<madeBy, madeFor>>
    BY <1>4 DEF Arrive, ManualRetry, RowAdded, Exists, TypeOK
<1>5. ASSUME NEW e \in Execs, Finish(e, "dead") \/ Finish(e, "ended")
      PROVE  RowsSame
    BY <1>5 DEF Finish, RowsSame, Exists, TypeOK
<1>6. ASSUME NEW b \in BOOLEAN, SetPaused(b)
      PROVE  RowsSame
    BY <1>1, <1>6 DEF SetPaused
<1>7. ASSUME NEW r \in Runners, Abort(r) \/ Pick(r) \/ \E p \in Plans : Claim(r, p)
                                \/ FlushRow(r, p)
      PROVE  RowsSame
    BY <1>1, <1>7 DEF Abort, Pick, Claim, FlushRow
<1>8. ASSUME NEW r \in Runners,
             \/ Block(r) \/ ResumeGuard(r) \/ RetryRefused(r) \/ TagRetry(r)
             \/ PlanFails(r) \/ \E s \in Execs : FindSource(r, s)
      PROVE  RowsSame
    BY <1>1, <1>8 DEF Block, ResumeGuard, RetryRefused, TagRetry, PlanFails, FindSource,
                      Settle
<1>9. ASSUME NEW r \in Runners, CommitBatch(r)
      PROVE  RowsSame
    BY <1>2, <1>9 DEF CommitBatch, RowsSame, Exists
<1>10. ASSUME NEW r \in Runners, NEW e \in Execs, RetryCreated(r, e)
       PROVE  RowAdded(e)
    <2>1. /\ NextRow(e)
          /\ exec' = [Untagged(r) EXCEPT ![e] = "active"]
          /\ parent' = [parent EXCEPT ![e] = row[r]]
          /\ madeBy' = [madeBy EXCEPT ![e] = r]
          /\ madeFor' = [madeFor EXCEPT ![e] = cur[r]]
        BY <1>10 DEF RetryCreated
    <2>2. DOMAIN Untagged(r) = Execs
        BY DEF Untagged
    <2>3. \A x \in Execs : exec'[x] = IF x = e THEN "active" ELSE Untagged(r)[x]
        BY <2>1, <2>2
    <2>4. \A x \in Execs : Exists(x)' <=> Exists(x) \/ x = e
        BY <1>2, <2>3 DEF Exists
    <2> QED BY <2>1, <2>4 DEF RowAdded, TypeOK
<1> QED BY <1>3, <1>4, <1>5, <1>6, <1>7, <1>8, <1>9, <1>10
        DEF Next, OtherNext, RunnerNext, ExecutePlan

\* So a row that exists keeps what is said of it.
LEMMA RowsKept ==
    ASSUME TypeOK, [Next]_vars, NEW e \in Execs, Exists(e)
    PROVE  /\ Exists(e)'
           /\ parent'[e] = parent[e] /\ madeBy'[e] = madeBy[e] /\ madeFor'[e] = madeFor[e]
<1>1. CASE RowsSame
    BY <1>1 DEF RowsSame
<1>2. ASSUME NEW x \in Execs, RowAdded(x)
      PROVE  e # x /\ Exists(e)'
             /\ parent'[e] = parent[e] /\ madeBy'[e] = madeBy[e] /\ madeFor'[e] = madeFor[e]
    BY <1>2 DEF RowAdded, NextRow, Exists
<1> QED BY <1>1, <1>2, RowStep

\* A plan that exists keeps its type.
LEMMA PlansKept ==
    ASSUME IInv, [Next]_vars, NEW p \in Plans, status[p] # "absent"
    PROVE  status'[p] # "absent" /\ kind'[p] = kind[p]
<1> USE PlansAssumption DEF PlansAssumption, planVars
<1>0. TypeOK
    BY DEF IInv
<1>1. CASE UNCHANGED vars
    BY <1>1 DEF vars
<1>2. CASE UserNext
    <2>1. ASSUME NEW u \in Proposers, NEW q \in Plans, ProposeInsert(u, q)
          PROVE  status'[p] # "absent" /\ kind'[p] = kind[p]
        BY <1>0, <2>1 DEF ProposeInsert, TypeOK
    <2>2. ASSUME NEW u \in Reviewers, Approve(u) \/ Reject(u)
          PROVE  status'[p] # "absent" /\ kind'[p] = kind[p]
        BY <1>0, <2>2 DEF Approve, Reject, Decided, TypeOK
    <2> QED BY <1>2, <2>1, <2>2 DEF UserNext, ProposeCheck, DecideCheck
<1>3. CASE OtherNext
    BY <1>3 DEF OtherNext, Arrive, Finish, ManualRetry, SetPaused
<1>4. ASSUME NEW r \in Runners, CommitPlans(r)
      PROVE  status'[p] # "absent"
    BY <1>0, <1>4 DEF CommitPlans, IInv, WritesNoApproval, Final
<1>5. ASSUME NEW r \in Runners, CommitBatch(r) \/ \E e \in Execs : RetryCreated(r, e)
      PROVE  status'[p] # "absent" /\ kind'[p] = kind[p]
    BY <1>4, <1>5 DEF CommitBatch, RetryCreated
<1>6. ASSUME NEW r \in Runners,
             \/ Abort(r) \/ Pick(r) \/ \E q \in Plans : Claim(r, q) \/ FlushRow(r, q)
             \/ Block(r) \/ ResumeGuard(r) \/ RetryRefused(r) \/ TagRetry(r)
             \/ PlanFails(r) \/ \E s \in Execs : FindSource(r, s)
      PROVE  status'[p] # "absent" /\ kind'[p] = kind[p]
    BY <1>6 DEF Abort, Pick, Claim, FlushRow, Block, ResumeGuard, RetryRefused, TagRetry,
                PlanFails, FindSource, Settle
<1> QED BY <1>1, <1>2, <1>3, <1>5, <1>6 DEF Next, RunnerNext, ExecutePlan

\* What a plan has had stays had.
LEMMA EffectsKept ==
    ASSUME IInv, EInv, [Next]_vars, NEW p \in Plans, status[p] # "absent", HasRetry(p)
    PROVE  HasRetry(p)'
<1>1. PICK e \in Execs : madeFor[e] = p
    BY DEF HasRetry
<1>2. Exists(e)
    BY <1>1, PlansAssumption DEF EInv, RowsInOrder, PlansAssumption
<1> QED BY <1>1, <1>2, RowsKept, PlansKept DEF HasRetry, IInv

-----------------------------------------------------------------------------
(* Sessions that a step leaves alone *)

AllApart(x) ==
    Apart(x) /\ row'[x] = row[x] /\ resumes'[x] = resumes[x]

LEMMA ApartKeeps ==
    ASSUME IInv, EInv, [Next]_vars, NEW x \in Runners, AllApart(x),
           \A f \in Execs : madeBy'[f] = x => madeBy[f] = x
    PROVE  Remembers(x)' /\ Retries(x)' /\ Guards(x)'
<1>1. TypeOK /\ Remembers(x) /\ Retries(x) /\ Guards(x) /\ RowsInOrder /\ NoOne # x
    BY PlansAssumption DEF IInv, EInv, PlansAssumption
<1>2. /\ \A p \in Plans : status[p] # "absent" =>
            /\ status'[p] # "absent" /\ kind'[p] = kind[p]
            /\ HasRetry(p) => HasRetry(p)'
      /\ \A e \in Execs : Exists(e) => /\ Exists(e)'
                                       /\ parent'[e] = parent[e]
                                       /\ madeFor'[e] = madeFor[e]
    BY <1>1, PlansKept, RowsKept, EffectsKept
<1>3. rpc[x] \in AtWork => cur[x] \in Plans /\ mem[x][cur[x]] = "executing"
                           /\ status[cur[x]] # "absent"
    BY <1>1 DEF TypeOK, Remembers, AtWork
<1>4. Remembers(x)'
    BY <1>1, <1>2 DEF Remembers, AllApart, Apart, AtWork
<1>5. Retries(x)'
    <2>1. rpc[x] \in {"retry", "tag"} => row[x] \in Execs
        BY <1>1 DEF TypeOK
    <2>2. \A f \in Execs : madeBy[f] = x => Exists(f)
        BY <1>1 DEF RowsInOrder
    <2>3. rpc[x] \in {"retry", "tag"} =>
             kind'[cur[x]] = "approval_gated_retry" /\ Exists(row[x])'
        BY <1>1, <1>2, <1>3, <2>1 DEF Retries, AtWork, Exists, AllApart
    <2>4. rpc[x] = "retry" => \A f \in Execs : madeBy'[f] = x => parent'[f] # row[x]
        BY <1>1, <1>2, <2>2 DEF Retries
    <2>5. rpc[x] = "tag" => madeFor'[row[x]] = cur[x]
        BY <1>1, <1>2, <2>1 DEF Retries
    <2> QED BY <2>3, <2>4, <2>5 DEF Retries, AllApart, Apart, Exists
<1>6. Guards(x)'
    <2>1. resumes[x] => \E p \in Plans :
            /\ kind'[p] = "resume_guard" /\ mem[x][p] = "executed"
            /\ p \in unflushed[x] \/ planLock'[p] = x
        BY <1>1, <1>2 DEF Guards, Remembers, AllApart, Apart
    <2> QED BY <1>1, <2>1 DEF Guards, AllApart, Apart
<1> QED BY <1>4, <1>5, <1>6

-----------------------------------------------------------------------------
(* The session whose step it is *)

\* A batch is read, a plan of it claimed, a row flushed.
LEMMA BatchSession ==
    ASSUME IInv, EInv, [Next]_vars, NEW r \in Runners, NEW p \in Plans,
           Pick(r) \/ Claim(r, p) \/ FlushRow(r, p)
    PROVE  /\ Remembers(r)' /\ Retries(r)' /\ Guards(r)'
           /\ \A x \in Runners \ {r} : AllApart(x)
<1> USE PlansAssumption DEF PlansAssumption
<1>0. TypeOK /\ Remembers(r) /\ Retries(r) /\ Guards(r) /\ InHand(r)
    BY DEF IInv, EInv
<1>1. CASE Pick(r)
    <2>1. /\ UNCHANGED <<status, kind, madeFor, planLock, cur, unflushed, row, resumes>>
          /\ rpc[r] = "idle" /\ rpc' = [rpc EXCEPT ![r] = "next"]
          /\ \A x \in Runners \ {r} : todo'[x] = todo[x] /\ mem'[x] = mem[x]
        BY <1>0, <1>1 DEF Pick, Goto, planVars, rowVars, lockVars, TypeOK
    <2>2. \A q \in Plans :
             /\ q \in todo'[r] => mem'[r][q] = "approved"
             /\ mem'[r][q] # "absent" => mem'[r][q] = "approved" /\ status[q] = "approved"
        BY <1>0, <1>1 DEF Pick, TypeOK
    <2>3. todo'[r] \subseteq Plans
        BY <1>0, <1>1 DEF Pick, TypeOK
    <2>4. Remembers(r)'
        BY <1>0, <2>1, <2>2, <2>3 DEF Remembers, AtWork, TypeOK
    <2>5. Retries(r)' /\ Guards(r)'
        BY <1>0, <2>1 DEF Retries, Guards, TypeOK
    <2>6. \A x \in Runners \ {r} : AllApart(x)
        BY <1>0, <2>1 DEF AllApart, Apart, TypeOK
    <2> QED BY <2>4, <2>5, <2>6
<1>2. CASE Claim(r, p)
    <2>1. /\ UNCHANGED <<status, kind, madeFor, planLock, row, resumes>>
          /\ rpc[r] = "next" /\ rpc' = [rpc EXCEPT ![r] = "flush"]
          /\ p \in todo[r] /\ todo' = [todo EXCEPT ![r] = @ \ {p}]
          /\ cur' = [cur EXCEPT ![r] = p]
          /\ mem' = [mem EXCEPT ![r][p] = "executing"]
          /\ unflushed' = [unflushed EXCEPT ![r] = @ \cup {p}]
        BY <1>2 DEF Claim, Assign, Goto, planVars, rowVars, lockVars
    <2>2. /\ mem'[r][p] = "executing" /\ mem[r][p] = "approved"
          /\ \A q \in Plans \ {p} : mem'[r][q] = mem[r][q]
        BY <1>0, <2>1 DEF Remembers, TypeOK
    <2>3. Remembers(r)'
        BY <1>0, <2>1, <2>2 DEF Remembers, HasRetry, AtWork, TypeOK
    <2>4. Retries(r)'
        BY <1>0, <2>1 DEF Retries, TypeOK
    <2>5. Guards(r)'
        <3>1. ASSUME NEW q \in Plans, mem[r][q] = "executed"
              PROVE  q # p /\ mem'[r][q] = "executed"
            BY <2>2, <3>1
        <3> QED BY <1>0, <2>1, <3>1 DEF Guards, TypeOK
    <2>6. \A x \in Runners \ {r} : AllApart(x)
        BY <1>0, <2>1 DEF AllApart, Apart, TypeOK
    <2> QED BY <2>3, <2>4, <2>5, <2>6
<1>3. CASE FlushRow(r, p)
    <2>1. /\ UNCHANGED <<status, kind, madeFor, todo, cur, mem, row, resumes>>
          /\ p \in unflushed[r] /\ planLock[p] \in {NoOne, r}
          /\ planLock' = [planLock EXCEPT ![p] = r]
          /\ unflushed' = [unflushed EXCEPT ![r] = @ \ {p}]
        BY <1>3 DEF FlushRow, planVars, rowVars
    <2>2. \/ rpc' = rpc /\ (rpc[r] = "flush" \/ rpc[r] = "next")
          \/ rpc' = [rpc EXCEPT ![r] = "act"] /\ rpc[r] = "flush" /\ unflushed[r] = {p}
        BY <1>3 DEF FlushRow, Goto, AtCommit
    <2>3. rpc'[r] \in {"flush", "next", "act"} /\ (rpc'[r] \in AtWork <=> rpc[r] \in AtWork)
        BY <1>0, <2>2 DEF AtWork, TypeOK
    <2>4. Remembers(r)'
        BY <1>0, <2>1, <2>3 DEF Remembers, HasRetry
    <2>5. Retries(r)'
        BY <2>3 DEF Retries
    <2>6. Guards(r)'
        <3>1. rpc'[r] = "act" => unflushed'[r] = {}
            BY <1>0, <2>1, <2>2 DEF TypeOK
        <3>2. \A q \in Plans : q \in unflushed[r] \/ planLock[q] = r =>
                                  q \in unflushed'[r] \/ planLock'[q] = r
            BY <1>0, <2>1 DEF TypeOK
        <3> QED BY <1>0, <2>1, <2>3, <3>1, <3>2 DEF Guards
    <2>7. \A x \in Runners \ {r} : AllApart(x)
        BY <1>0, <2>1, <2>2 DEF AllApart, Apart, TypeOK
    <2> QED BY <2>4, <2>5, <2>6, <2>7
<1> QED BY <1>1, <1>2, <1>3

\* _execute_plan comes to a result: it is no claim any more, and if it says
\* executed, there is the retry or the guard it stands for.
LEMMA SettleSession ==
    ASSUME IInv, EInv, [Next]_vars, NEW r \in Runners, NEW st \in Final,
           Settle(r, st), UNCHANGED planLock, rpc[r] \in {"act", "retry", "tag"},
           st = "executed" => HasRetry(cur[r]) \/ kind[cur[r]] = "resume_guard",
           \A x \in Runners \ {r} : resumes'[x] = resumes[x],
           resumes'[r] => resumes[r] \/ (kind[cur[r]] = "resume_guard" /\ st = "executed")
    PROVE  /\ Remembers(r)' /\ Retries(r)' /\ Guards(r)'
           /\ \A x \in Runners \ {r} : AllApart(x)
<1>0. TypeOK /\ Remembers(r) /\ Guards(r) /\ InHand(r) /\ cur[r] \in Plans
    BY DEF IInv, EInv, TypeOK
<1>1. /\ UNCHANGED <<status, kind, madeFor, planLock, todo, cur, row>>
      /\ rpc' = [rpc EXCEPT ![r] = "next"]
      /\ mem' = [mem EXCEPT ![r][cur[r]] = st]
      /\ unflushed' = [unflushed EXCEPT ![r] = @ \cup {cur[r]}]
    BY DEF Settle, Assign, Goto, planVars, rowVars
<1>2. /\ mem'[r][cur[r]] = st
      /\ mem[r][cur[r]] = "executing"
      /\ \A q \in Plans \ {cur[r]} : mem'[r][q] = mem[r][q]
      /\ rpc'[r] = "next" /\ unflushed'[r] = unflushed[r] \cup {cur[r]}
    BY <1>0, <1>1 DEF Remembers, AtWork, TypeOK
<1>3. st \notin {"absent", "executing"}
    BY DEF Final
<1>4. Remembers(r)'
    BY <1>0, <1>1, <1>2, <1>3 DEF Remembers, HasRetry, AtWork, InHand, TypeOK
<1>5. Retries(r)'
    BY <1>2 DEF Retries
<1>6. Guards(r)'
    <2>1. CASE resumes[r]
        <3>1. PICK q \in Plans : /\ kind[q] = "resume_guard" /\ mem[r][q] = "executed"
                                 /\ q \in unflushed[r] \/ planLock[q] = r
            BY <1>0, <2>1 DEF Guards
        <3>2. q # cur[r] /\ mem'[r][q] = "executed"
            BY <1>2, <3>1
        <3> QED BY <1>1, <1>2, <3>1, <3>2 DEF Guards
    <2>2. CASE resumes'[r] => kind[cur[r]] = "resume_guard" /\ st = "executed"
        BY <1>0, <1>1, <1>2, <2>2 DEF Guards
    <2> QED BY <2>1, <2>2
<1>7. \A x \in Runners \ {r} : AllApart(x)
    BY <1>0, <1>1 DEF AllApart, Apart, TypeOK
<1> QED BY <1>4, <1>5, <1>6, <1>7

\* The results _execute_plan can come to.
LEMMA ResultSession ==
    ASSUME IInv, EInv, [Next]_vars, NEW r \in Runners,
           \/ Block(r) \/ ResumeGuard(r) \/ RetryRefused(r) \/ TagRetry(r) \/ PlanFails(r)
    PROVE  /\ Remembers(r)' /\ Retries(r)' /\ Guards(r)'
           /\ \A x \in Runners \ {r} : AllApart(x)
<1>0. TypeOK /\ Retries(r) /\ {"blocked", "executed", "failed"} \subseteq Final
    BY DEF IInv, EInv, Final
<1>1. CASE Block(r) \/ PlanFails(r) \/ RetryRefused(r)
    <2>1. PICK st \in {"blocked", "failed"} : Settle(r, st)
        BY <1>1 DEF Block, PlanFails, RetryRefused
    <2>2. UNCHANGED <<planLock, resumes>> /\ rpc[r] \in {"act", "retry", "tag"}
        BY <1>1 DEF Block, PlanFails, RetryRefused, lockVars
    <2> QED BY <1>0, <2>1, <2>2, SettleSession
<1>2. CASE ResumeGuard(r)
    <2>1. /\ Settle(r, "executed") /\ UNCHANGED planLock /\ rpc[r] = "act"
          /\ kind[cur[r]] = "resume_guard"
          /\ \A x \in Runners \ {r} : resumes'[x] = resumes[x]
        BY <1>0, <1>2 DEF ResumeGuard, lockVars, TypeOK
    <2> QED BY <1>0, <2>1, SettleSession
<1>3. CASE TagRetry(r)
    <2>1. Settle(r, "executed") /\ UNCHANGED <<planLock, resumes>> /\ rpc[r] = "tag"
        BY <1>3 DEF TagRetry, lockVars
    <2>2. HasRetry(cur[r])
        BY <1>0, <2>1 DEF Retries, HasRetry, TypeOK
    <2> QED BY <1>0, <2>1, <2>2, SettleSession
<1> QED BY <1>1, <1>2, <1>3

\* The search for a dead letter passes over those this runner has retried: the
\* retry is newer, so that it is in every window its dead letter is in.
LEMMA FindSession ==
    ASSUME IInv, EInv, [Next]_vars, NEW r \in Runners, NEW s \in Execs, FindSource(r, s)
    PROVE  /\ Remembers(r)' /\ Retries(r)' /\ Guards(r)'
           /\ \A x \in Runners \ {r} : AllApart(x)
<1>0. TypeOK /\ Remembers(r) /\ Guards(r) /\ RowsInOrder /\ Execs \subseteq Nat
    BY PlansAssumption DEF IInv, EInv, PlansAssumption
<1>1. /\ UNCHANGED <<status, kind, madeFor, madeBy, parent, exec, planLock, todo, cur, mem,
                     unflushed, resumes>>
      /\ rpc[r] = "act" /\ rpc' = [rpc EXCEPT ![r] = "retry"]
      /\ row' = [row EXCEPT ![r] = s]
      /\ kind[cur[r]] = "approval_gated_retry"
      /\ Eligible(r, s)
    BY DEF FindSource, RetrySource, Goto, planVars, rowVars, lockVars
<1>2. s \in Window /\ Exists(s) /\ \A e \in Window : parent[e] # s
    BY <1>1 DEF Eligible, Window, Exists
<1>3. ASSUME NEW f \in Execs, madeBy[f] = r
      PROVE  parent[f] # s
    <2> SUFFICES ASSUME parent[f] = s
                 PROVE  FALSE
        OBVIOUS
    <2> DEFINE rows == {e \in Execs : exec[e] # "absent"}
               After(e) == {x \in rows : x > e}
    <2>1. f \in rows /\ s < f
        <3>1. r # NoOne
            BY PlansAssumption DEF PlansAssumption
        <3>2. parent[f] < f /\ Exists(f)
            BY <1>0, <1>3, <3>1 DEF RowsInOrder
        <3> QED BY <3>2 DEF Exists
    <2>2. After(f) \subseteq After(s) /\ After(s) \subseteq rows
        <3>1. \A x \in rows : x > f => x > s
            <4>1. f \in Nat /\ s \in Nat /\ rows \subseteq Nat
                BY <1>0
            <4> HIDE DEF rows
            <4> QED BY <2>1, <4>1
        <3> HIDE DEF rows
        <3> QED BY <3>1
    <2>3. IsFiniteSet(rows)
        BY <1>0 DEF RowsInOrder, Exists
    <2>4. /\ Cardinality(After(f)) <= Cardinality(After(s))
          /\ Cardinality(After(f)) \in Nat /\ Cardinality(After(s)) \in Nat
        BY <2>2, <2>3, FS_Subset, FS_CardinalityType
    <2>5. Cardinality(After(s)) < ScanWindow
        BY <1>2 DEF Window
    <2>6. Cardinality(After(f)) < ScanWindow
        BY <2>4, <2>5, PlansAssumption DEF PlansAssumption
    <2>7. f \in Window
        BY <2>1, <2>6 DEF Window
    <2> QED BY <1>2, <2>7
<1>4. Remembers(r)'
    BY <1>0, <1>1 DEF Remembers, HasRetry, AtWork, TypeOK
<1>5. Retries(r)'
    BY <1>0, <1>1, <1>2, <1>3 DEF Retries, Exists, TypeOK
<1>6. Guards(r)'
    BY <1>0, <1>1 DEF Guards, TypeOK
<1>7. \A x \in Runners \ {r} : AllApart(x)
    BY <1>0, <1>1 DEF AllApart, Apart, TypeOK
<1> QED BY <1>4, <1>5, <1>6, <1>7

\* The commit in create_execution, and the end of a batch by a commit or a rollback.
LEMMA CommitSession ==
    ASSUME IInv, EInv, [Next]_vars, NEW r \in Runners,
           CommitBatch(r) \/ Abort(r) \/ \E e \in Execs : RetryCreated(r, e)
    PROVE  /\ Remembers(r)' /\ Retries(r)' /\ Guards(r)'
           /\ \A x \in Runners \ {r} : AllApart(x)
<1>0. TypeOK /\ Remembers(r) /\ Retries(r) /\ Guards(r) /\ IInv /\ NoOne # r
    BY PlansAssumption DEF IInv, EInv, PlansAssumption
<1>1. CASE CommitBatch(r) \/ Abort(r)
    <2>1. /\ CloseSession(r)
          /\ resumes' = [resumes EXCEPT ![r] = FALSE]
          /\ planLock' = [p \in Plans |-> IF planLock[p] = r THEN NoOne ELSE planLock[p]]
        BY <1>1 DEF CommitBatch, Abort, CommitPlans
    <2>2. /\ rpc' = [rpc EXCEPT ![r] = "idle"]
          /\ todo' = [todo EXCEPT ![r] = {}]
          /\ cur' = [cur EXCEPT ![r] = NoPlan]
          /\ mem' = [mem EXCEPT ![r] = [p \in Plans |-> "absent"]]
          /\ unflushed' = [unflushed EXCEPT ![r] = {}]
          /\ row' = [row EXCEPT ![r] = NoExec]
        BY <2>1 DEF CloseSession, Goto
    <2>3. /\ rpc'[r] = "idle" /\ todo'[r] = {} /\ ~resumes'[r]
          /\ \A p \in Plans : mem'[r][p] = "absent"
        BY <1>0, <2>1, <2>2 DEF TypeOK
    <2>4. Remembers(r)' /\ Retries(r)' /\ Guards(r)'
        BY <2>3 DEF Remembers, Retries, Guards, AtWork
    <2>5. ASSUME NEW x \in Runners \ {r}
          PROVE  AllApart(x)
        <3>1. \A p \in Plans : planLock'[p] = x <=> planLock[p] = x
            BY <2>1, PlansAssumption DEF PlansAssumption
        <3> QED BY <1>0, <2>1, <2>2, <3>1 DEF AllApart, Apart, TypeOK
    <2> QED BY <2>4, <2>5
<1>2. ASSUME NEW e \in Execs, RetryCreated(r, e)
      PROVE  /\ Remembers(r)' /\ Retries(r)' /\ Guards(r)'
             /\ \A x \in Runners \ {r} : AllApart(x)
    <2>1. /\ rpc[r] = "retry" /\ rpc' = [rpc EXCEPT ![r] = "tag"]
          /\ UNCHANGED <<kind, todo, cur, mem, unflushed>>
          /\ madeFor' = [madeFor EXCEPT ![e] = cur[r]]
          /\ row' = [row EXCEPT ![r] = e]
          /\ exec' = [Untagged(r) EXCEPT ![e] = "active"]
          /\ CommitPlans(r)
        BY <1>2 DEF RetryCreated, Goto
    <2>2. /\ resumes' = [resumes EXCEPT ![r] = FALSE]
          /\ planLock' = [p \in Plans |-> IF planLock[p] = r THEN NoOne ELSE planLock[p]]
        BY <2>1 DEF CommitPlans
    <2>3. /\ rpc'[r] = "tag" /\ row'[r] = e /\ ~resumes'[r]
          /\ madeFor'[e] = cur[r] /\ exec'[e] = "active"
        <3>1. DOMAIN Untagged(r) = Execs
            BY DEF Untagged
        <3> QED BY <1>0, <2>1, <2>2, <3>1 DEF TypeOK
    <2>4. /\ \A p \in Plans : mem[r][p] # "absent" => status'[p] # "absent"
          /\ \A p \in Plans : mem[r][p] = "executed" =>
                HasRetry(p)' \/ kind'[p] = "resume_guard"
        BY <1>0, <2>1, PlansKept, EffectsKept DEF Remembers
    <2>5. Remembers(r)'
        BY <1>0, <2>1, <2>3, <2>4 DEF Remembers, AtWork
    <2>6. Retries(r)' /\ Guards(r)'
        BY <1>0, <2>1, <2>3 DEF Retries, Guards, Exists
    <2>7. ASSUME NEW x \in Runners \ {r}
          PROVE  AllApart(x)
        <3>1. \A p \in Plans : planLock'[p] = x <=> planLock[p] = x
            BY <2>2, PlansAssumption DEF PlansAssumption
        <3> QED BY <1>0, <2>1, <2>2, <3>1 DEF AllApart, Apart, TypeOK
    <2> QED BY <2>5, <2>6, <2>7
<1> QED BY <1>1, <1>2

\* Users and the rest of the system do not touch the sessions.
LEMMA OutsideSessions ==
    ASSUME UserNext \/ OtherNext \/ UNCHANGED vars, NEW x \in Runners
    PROVE  AllApart(x) /\ UNCHANGED <<runnerVars, lockVars, madeBy, madeFor>>
<1>1. UNCHANGED <<runnerVars, lockVars, madeBy, madeFor>>
    BY DEF UserNext, OtherNext, ProposeCheck, ProposeInsert, DecideCheck, Approve, Reject,
           Decided, Arrive, Finish, ManualRetry, SetPaused, vars, rowVars
<1> QED BY <1>1 DEF AllApart, Apart, runnerVars, lockVars

\* Every step of a runner is one of the above.
LEMMA RunnerSession ==
    ASSUME IInv, EInv, [Next]_vars, NEW r \in Runners, RunnerNext(r) \/ Abort(r)
    PROVE  /\ Remembers(r)' /\ Retries(r)' /\ Guards(r)'
           /\ \A x \in Runners \ {r} : AllApart(x)
<1>1. CASE Pick(r)
    <2>1. \E p \in Plans : TRUE
        BY <1>1 DEF Pick
    <2> QED BY <1>1, <2>1, BatchSession
<1>2. ASSUME NEW p \in Plans, Claim(r, p) \/ FlushRow(r, p)
      PROVE  /\ Remembers(r)' /\ Retries(r)' /\ Guards(r)'
             /\ \A x \in Runners \ {r} : AllApart(x)
    BY <1>2, BatchSession
<1>3. CASE \/ Block(r) \/ ResumeGuard(r) \/ RetryRefused(r) \/ TagRetry(r) \/ PlanFails(r)
    BY <1>3, ResultSession
<1>4. CASE \E s \in Execs : FindSource(r, s)
    BY <1>4, FindSession
<1>5. CASE CommitBatch(r) \/ Abort(r) \/ \E e \in Execs : RetryCreated(r, e)
    BY <1>5, CommitSession
<1> QED BY <1>1, <1>2, <1>3, <1>4, <1>5 DEF RunnerNext, ExecutePlan

\* Only a commit that creates a retry names its maker.
LEMMA MadeByRunner ==
    ASSUME TypeOK, NEW r \in Runners, RunnerNext(r) \/ Abort(r),
           NEW x \in Runners \ {r}, NEW f \in Execs, madeBy'[f] = x
    PROVE  madeBy[f] = x
<1>1. CASE UNCHANGED madeBy
    BY <1>1
<1>2. ASSUME NEW e \in Execs, RetryCreated(r, e)
      PROVE  madeBy[f] = x
    BY <1>2 DEF RetryCreated, TypeOK
<1>3. CASE \/ Abort(r) \/ Pick(r) \/ CommitBatch(r)
           \/ \E q \in Plans : Claim(r, q) \/ FlushRow(r, q)
    BY <1>1, <1>3 DEF Abort, Pick, CommitBatch, Claim, FlushRow, rowVars
<1>4. CASE \/ Block(r) \/ ResumeGuard(r) \/ RetryRefused(r) \/ TagRetry(r)
           \/ PlanFails(r) \/ \E s \in Execs : FindSource(r, s)
    BY <1>1, <1>4 DEF Block, ResumeGuard, RetryRefused, TagRetry, PlanFails, FindSource,
                      Settle, rowVars
<1> QED BY <1>2, <1>3, <1>4 DEF RunnerNext, ExecutePlan

\* Every session remembers what it should after every step.
LEMMA SessionsStep ==
    ASSUME IInv, EInv, [Next]_vars, NEW x \in Runners
    PROVE  Remembers(x)' /\ Retries(x)' /\ Guards(x)'
<1>0. TypeOK
    BY DEF IInv
<1>1. CASE UserNext \/ OtherNext \/ UNCHANGED vars
    BY <1>1, OutsideSessions, ApartKeeps
<1>2. ASSUME NEW r \in Runners, RunnerNext(r) \/ Abort(r)
      PROVE  Remembers(x)' /\ Retries(x)' /\ Guards(x)'
    <2>1. CASE x = r
        BY <1>2, <2>1, RunnerSession
    <2>2. CASE x # r
        <3>1. AllApart(x)
            BY <1>2, <2>2, RunnerSession
        <3>2. \A f \in Execs : madeBy'[f] = x => madeBy[f] = x
            BY <1>0, <1>2, <2>2, MadeByRunner
        <3> QED BY <3>1, <3>2, ApartKeeps
    <2> QED BY <2>1, <2>2
<1> QED BY <1>1, <1>2 DEF Next

-----------------------------------------------------------------------------
(* The rows, and what is visible of the plans *)

\* A new row is the newest, and its maker is newer than what it retries.
LEMMA RowsInOrderStep ==
    ASSUME IInv, EInv, [Next]_vars
    PROVE  RowsInOrder' /\ NoSecondRetryByOneRunner'
<1> DEFINE rows == {e \in Execs : Exists(e)}
<1>0. /\ TypeOK /\ RowsInOrder /\ NoSecondRetryByOneRunner
      /\ Execs \subseteq Nat /\ NoOne \notin Runners
    BY PlansAssumption DEF IInv, EInv, PlansAssumption
<1>1. CASE RowsSame
    <2>1. rows' = rows
        BY <1>1 DEF RowsSame
    <2>2. RowsInOrder'
        BY <1>0, <1>1, <2>1 DEF RowsSame, RowsInOrder
    <2> QED BY <1>0, <1>1, <2>2 DEF RowsSame, NoSecondRetryByOneRunner
<1>2. ASSUME NEW e \in Execs, RowAdded(e)
      PROVE  /\ IsFiniteSet(rows')
             /\ \A x, y \in Execs : x < y /\ Exists(y)' => Exists(x)'
             /\ ~Exists(e) /\ Exists(e)'
             /\ \A s \in Execs : Exists(s) => s < e
    <2>1. rows' = rows \cup {e} /\ ~Exists(e) /\ Exists(e)'
        BY <1>2 DEF RowAdded, NextRow, Exists
    <2>2. \A x \in Execs : x < e => Exists(x)
        BY <1>2 DEF RowAdded, NextRow, Exists
    <2>3. ASSUME NEW s \in Execs, Exists(s)
          PROVE  s < e
        <3>1. ~(e < s) /\ s # e
            BY <1>0, <2>1, <2>3 DEF RowsInOrder
        <3> QED BY <1>0, <3>1
    <2>4. ASSUME NEW x \in Execs, NEW y \in Execs, x < y, Exists(y)'
          PROVE  Exists(x)'
        BY <1>0, <1>2, <2>2, <2>4 DEF RowAdded, RowsInOrder
    <2>5. IsFiniteSet(rows')
        BY <1>0, <2>1, FS_AddElement DEF RowsInOrder
    <2> QED BY <2>1, <2>3, <2>4, <2>5
<1>3. ASSUME NEW e \in Execs, RowAdded(e), UNCHANGED <<madeBy, madeFor>>
      PROVE  RowsInOrder' /\ NoSecondRetryByOneRunner'
    <2>1. /\ ~Exists(e) /\ madeBy[e] = NoOne
          /\ \A x \in Execs \ {e} : parent'[x] = parent[x]
          /\ \A x \in Execs : Exists(x) => Exists(x)'
        BY <1>0, <1>2, <1>3 DEF RowsInOrder, RowAdded
    <2>2. RowsInOrder'
        BY <1>0, <1>2, <1>3, <2>1 DEF RowsInOrder
    <2>3. NoSecondRetryByOneRunner'
        BY <1>0, <1>3, <2>1 DEF NoSecondRetryByOneRunner
    <2> QED BY <2>2, <2>3
<1>4. ASSUME NEW r \in Runners, NEW e \in Execs, RetryCreated(r, e), RowAdded(e)
      PROVE  RowsInOrder' /\ NoSecondRetryByOneRunner'
    <2>1. /\ \A x \in Execs \ {e} : /\ parent'[x] = parent[x]
                                    /\ madeBy'[x] = madeBy[x]
                                    /\ madeFor'[x] = madeFor[x]
          /\ \A x \in Execs : Exists(x) => Exists(x)'
          /\ parent'[e] = row[r] /\ madeBy'[e] = r /\ row[r] \in Execs
          /\ rpc[r] = "retry"
        BY <1>0, <1>4 DEF RowAdded, RetryCreated, TypeOK
    <2>2. Exists(row[r]) /\ \A f \in Execs : madeBy[f] = r => parent[f] # row[r]
        BY <2>1 DEF EInv, Retries
    <2>3. row[r] < e
        BY <1>2, <1>4, <2>1, <2>2
    <2>4. RowsInOrder'
        BY <1>0, <1>2, <1>4, <2>1, <2>3 DEF RowsInOrder
    <2>5. ASSUME NEW x \in Execs, NEW y \in Execs,
                 madeBy'[x] # NoOne, madeBy'[x] = madeBy'[y], parent'[x] = parent'[y]
          PROVE  x = y
        <3>1. CASE x # e /\ y # e
            BY <1>0, <2>1, <2>5, <3>1 DEF NoSecondRetryByOneRunner
        <3>2. CASE x = e /\ y # e
            BY <2>1, <2>2, <2>5, <3>2
        <3>3. CASE x # e /\ y = e
            BY <2>1, <2>2, <2>5, <3>3
        <3> QED BY <3>1, <3>2, <3>3
    <2>6. NoSecondRetryByOneRunner'
        BY <2>5 DEF NoSecondRetryByOneRunner
    <2> QED BY <2>4, <2>6
<1> QED BY <1>0, <1>1, <1>3, <1>4, RowStep

\* A status that becomes executing or executed is what a committing session
\* remembers of a plan it has flushed.
LEMMA StatusStep ==
    ASSUME TypeOK, [Next]_vars, NEW p \in Plans,
           status'[p] \in {"executing", "executed"}, status'[p] # status[p]
    PROVE  \E r \in Runners :
              /\ planLock[p] = r /\ status'[p] = mem[r][p]
              /\ CommitBatch(r) \/ \E e \in Execs : RetryCreated(r, e)
<1> USE DEF planVars
<1>1. CASE UserNext
    <2>1. ASSUME NEW u \in Proposers, NEW q \in Plans, ProposeInsert(u, q)
          PROVE  FALSE
        BY <2>1 DEF ProposeInsert, TypeOK
    <2>2. ASSUME NEW u \in Reviewers, Approve(u) \/ Reject(u)
          PROVE  FALSE
        BY <2>2 DEF Approve, Reject, Decided, TypeOK
    <2> QED BY <1>1, <2>1, <2>2 DEF UserNext, ProposeCheck, DecideCheck
<1>2. CASE OtherNext \/ UNCHANGED vars
    BY <1>2 DEF OtherNext, Arrive, Finish, ManualRetry, SetPaused, vars
<1>3. ASSUME NEW r \in Runners, CommitBatch(r) \/ \E e \in Execs : RetryCreated(r, e)
      PROVE  planLock[p] = r /\ status'[p] = mem[r][p]
    BY <1>3 DEF CommitBatch, RetryCreated, CommitPlans
<1>4. ASSUME NEW r \in Runners,
             \/ Abort(r) \/ Pick(r) \/ \E q \in Plans : Claim(r, q) \/ FlushRow(r, q)
             \/ Block(r) \/ ResumeGuard(r) \/ RetryRefused(r) \/ TagRetry(r)
             \/ PlanFails(r) \/ \E s \in Execs : FindSource(r, s)
      PROVE  FALSE
    BY <1>4 DEF Abort, Pick, Claim, FlushRow, Block, ResumeGuard, RetryRefused, TagRetry,
                PlanFails, FindSource, Settle
<1> QED BY <1>1, <1>2, <1>3, <1>4 DEF Next, RunnerNext, ExecutePlan

\* A claim becomes visible with the retry it is for, executed with its effect.
LEMMA VisibleStep ==
    ASSUME IInv, EInv, [Next]_vars
    PROVE  VisibleClaimHasEffect'
<1>0. TypeOK
    BY DEF IInv
<1> SUFFICES ASSUME NEW p \in Plans, status'[p] \in {"executing", "executed"}
             PROVE  HasRetry(p)' \/ (kind'[p] = "resume_guard" /\ status'[p] = "executed")
    BY DEF VisibleClaimHasEffect, HasRetry
<1>1. CASE status'[p] = status[p]
    <2>1. HasRetry(p) \/ (kind[p] = "resume_guard" /\ status[p] = "executed")
        BY <1>1 DEF EInv, VisibleClaimHasEffect, HasRetry
    <2> QED BY <1>1, <2>1, PlansKept, EffectsKept
<1>2. ASSUME NEW r \in Runners, planLock[p] = r, status'[p] = mem[r][p],
             CommitBatch(r) \/ \E e \in Execs : RetryCreated(r, e)
      PROVE  HasRetry(p)' \/ (kind'[p] = "resume_guard" /\ status'[p] = "executed")
    <2>1. Remembers(r) /\ Retries(r)
        BY DEF EInv
    <2>2. status[p] # "absent"
        BY <1>2, <2>1 DEF Remembers
    <2>3. CASE mem[r][p] = "executed"
        <3>1. HasRetry(p) \/ kind[p] = "resume_guard"
            BY <2>1, <2>3 DEF Remembers
        <3> QED BY <1>2, <2>2, <2>3, <3>1, PlansKept, EffectsKept
    <2>4. CASE mem[r][p] = "executing"
        <3>1. p = cur[r] /\ rpc[r] \in AtWork
            BY <2>1, <2>4 DEF Remembers
        <3>2. PICK e \in Execs : RetryCreated(r, e)
            BY <1>2, <3>1 DEF CommitBatch, AtCommit, AtWork
        <3>3. madeFor'[e] = p /\ rpc[r] = "retry"
            BY <1>0, <3>1, <3>2 DEF RetryCreated, TypeOK
        <3>4. kind'[p] = "approval_gated_retry"
            BY <2>1, <2>2, <3>1, <3>3, PlansKept DEF Retries
        <3> QED BY <3>3, <3>4 DEF HasRetry
    <2> QED BY <1>2, <2>3, <2>4
<1> QED BY <1>0, <1>1, <1>2, StatusStep

LEMMA InitEInv ==
    Init => EInv
<1> SUFFICES ASSUME Init
             PROVE  EInv
    OBVIOUS
<1>1. \A r \in Runners : Remembers(r) /\ Retries(r) /\ Guards(r)
    BY DEF Init, Remembers, Retries, Guards, AtWork
<1>2. \A e \in Execs : Exists(e) <=> e \in OldDeadLetters
    BY DEF Init, Exists
<1>3. RowsInOrder
    <2>1. {e \in Execs : Exists(e)} = OldDeadLetters
        BY <1>2, PlansAssumption DEF PlansAssumption
    <2>2. \A x, y \in Execs : x < y /\ Exists(y) => Exists(x)
        BY <1>2, HistoryAssumption DEF HistoryAssumption
    <2> QED BY <2>1, <2>2, HistoryAssumption DEF HistoryAssumption, RowsInOrder, Init
<1>4. VisibleClaimHasEffect /\ NoSecondRetryByOneRunner
    BY DEF Init, VisibleClaimHasEffect, NoSecondRetryByOneRunner
<1> QED BY <1>1, <1>3, <1>4 DEF EInv

LEMMA EInvStep ==
    IInv /\ EInv /\ [Next]_vars => EInv'
BY SessionsStep, RowsInOrderStep, VisibleStep DEF EInv

\* Workflows are resumed by a commit, together with the guard it is for.
LEMMA ResumedStep ==
    ASSUME IInv, EInv, [Next]_vars, paused, ~paused'
    PROVE  \/ UNCHANGED runnerVars
           \/ \E p \in Plans : kind[p] = "resume_guard" /\ status'[p] = "executed"
<1>1. CASE UserNext \/ OtherNext \/ UNCHANGED vars
    BY <1>1 DEF UserNext, ProposeCheck, ProposeInsert, DecideCheck, Approve, Reject,
                Decided, OtherNext, Arrive, Finish, ManualRetry, SetPaused, rowVars,
                lockVars, runnerVars, vars
<1>2. ASSUME NEW r \in Runners, CommitPlans(r), unflushed[r] = {}
      PROVE  \E p \in Plans : kind[p] = "resume_guard" /\ status'[p] = "executed"
    <2>1. resumes[r]
        BY <1>2 DEF CommitPlans
    <2>2. PICK p \in Plans : kind[p] = "resume_guard" /\ mem[r][p] = "executed"
                             /\ planLock[p] = r
        BY <1>2, <2>1 DEF EInv, Guards
    <2>3. status'[p] = "executed"
        BY <1>2, <2>2 DEF CommitPlans
    <2> QED BY <2>2, <2>3
<1>3. ASSUME NEW r \in Runners, CommitBatch(r)
      PROVE  CommitPlans(r) /\ unflushed[r] = {}
    BY <1>3 DEF CommitBatch
<1>4. ASSUME NEW r \in Runners, NEW e \in Execs, RetryCreated(r, e)
      PROVE  CommitPlans(r) /\ unflushed[r] = {}
    BY <1>4 DEF RetryCreated, EInv, Guards
<1>5. ASSUME NEW r \in Runners,
             \/ Abort(r) \/ Pick(r) \/ \E q \in Plans : Claim(r, q) \/ FlushRow(r, q)
             \/ Block(r) \/ ResumeGuard(r) \/ RetryRefused(r) \/ TagRetry(r)
             \/ PlanFails(r) \/ \E s \in Execs : FindSource(r, s)
      PROVE  FALSE
    BY <1>5 DEF Abort, Pick, Claim, FlushRow, Block, ResumeGuard, RetryRefused, TagRetry,
                PlanFails, FindSource, Settle, rowVars, lockVars
<1> QED BY <1>1, <1>2, <1>3, <1>4, <1>5 DEF Next, RunnerNext, ExecutePlan

LEMMA EffectsInvariant ==
    Spec => [](IInv /\ EInv)
BY InitIInv, IInvStep, InitEInv, EInvStep, PTL DEF Spec

-----------------------------------------------------------------------------
(* Theorems *)

\* Rows, locks and sessions of the plan worker and of the plan requests keep their
\* types.
THEOREM PlansTypeCorrect ==
    Spec => []TypeOK
<1>1. IInv => TypeOK
    BY DEF IInv
<1> QED BY <1>1, InitIInv, IInvStep, PTL DEF Spec

\* run_dispatch_automation_plan_worker_once creates at most one retry execution
\* per caller and approval of a plan: late approvals, callers that work on the same
\* plan, rollbacks and crashes at any point included.
THEOREM OncePerApprovalHolds ==
    Spec => []OncePerApproval
<1>1. IInv => OncePerApproval
    BY DEF IInv, OncePerApproval, Paid
<1> QED BY <1>1, InitIInv, IInvStep, PTL DEF Spec

\* A plan that other sessions see as executed has had its effect: its retry exists,
\* or it is a guard.  One they see as executing has its retry too, so a worker that
\* dies between the two commits leaves a claim that must not be taken up again.
THEOREM VisibleClaimHasEffectHolds ==
    Spec => []VisibleClaimHasEffect
<1>1. EInv => VisibleClaimHasEffect
    BY DEF EInv
<1> QED BY <1>1, EffectsInvariant, PTL

\* The two checks of _find_next_retry_source see the rows the same caller has
\* committed: it retries no execution twice, whatever else fails or is retried.
THEOREM NoSecondRetryHolds ==
    Spec => []NoSecondRetryByOneRunner
<1>1. EInv => NoSecondRetryByOneRunner
    BY DEF EInv
<1> QED BY <1>1, EffectsInvariant, PTL

\* Unless a user does it, workflows are resumed only by the commit in which the
\* guard they are resumed for becomes executed.
THEOREM ResumeIsRecordedHolds ==
    Spec => ResumeIsRecorded
<1>1. /\ IInv /\ EInv
      /\ [Next]_vars
      => [paused /\ ~paused' =>
            \/ UNCHANGED runnerVars
            \/ \E p \in Plans : kind[p] = "resume_guard" /\ status'[p] = "executed"]_vars
    BY ResumedStep
<1> QED BY <1>1, EffectsInvariant, PTL DEF Spec, ResumeIsRecorded
=============================================================================
