------------------------ MODULE SequentialPlanProofs ------------------------
(***************************************************************************)
(* Safety of the sequential plan orchestrator for every number of workers, *)
(* steps, attempts and compilations and every set of compile requests.     *)
(***************************************************************************)
EXTENDS SequentialPlan, TLAPS

\* Promotion turns pending steps into ready ones and touches nothing else.
LEMMA PromotedSteps ==
    ASSUME TypeOK
    PROVE  /\ DOMAIN Promoted = DOMAIN steps
           /\ \A i \in DOMAIN steps :
                /\ Promoted[i] \in StepRecords
                /\ Promoted[i].attempts = steps[i].attempts
                /\ Promoted[i].max = steps[i].max
                /\ Promoted[i].reopened = steps[i].reopened
                /\ Promoted[i].token = steps[i].token
                /\ \/ Promoted[i].status = steps[i].status
                   \/ Promoted[i].status = "ready" /\ steps[i].status = "pending"
  BY DEF Promoted, TypeOK, StepRecords, StepStatuses

\* The promoted steps are step rows.
LEMMA PromotedType ==
    ASSUME TypeOK
    PROVE  \E n \in 0..MaxSteps : /\ DOMAIN steps = 1..n
                                  /\ Promoted \in [1..n -> StepRecords]
  <1>1. PICK n \in 0..MaxSteps : steps \in [1..n -> StepRecords]
    BY DEF TypeOK
  <1>2. \A i \in 1..n : Promoted[i] \in StepRecords
    BY <1>1, PromotedSteps
  <1>3. Promoted \in [1..n -> StepRecords]
    BY <1>1, <1>2 DEF Promoted
  <1> QED
    BY <1>1, <1>3

\* Updating the status, and the claim columns, of one step keeps the types.
LEMMA StatusUpdate ==
    ASSUME NEW n \in Nat, NEW f \in [1..n -> StepRecords], NEW i \in 1..n,
           NEW st \in StepStatuses
    PROVE  [f EXCEPT ![i].status = st] \in [1..n -> StepRecords]
  BY DEF StepRecords

\* Writing the claim columns of a row keeps its type.
LEMMA RecordUpdate ==
    ASSUME NEW s \in StepRecords, NEW st \in StepStatuses, NEW t \in Nat,
           NEW a \in Nat
    PROVE  [s EXCEPT !.status = st, !.token = t, !.attempts = a] \in StepRecords
  BY DEF StepRecords

\* Claiming one step of a plan keeps the types.
LEMMA ClaimUpdate ==
    ASSUME NEW n \in Nat, NEW f \in [1..n -> StepRecords], NEW i \in 1..n,
           NEW st \in StepStatuses, NEW t \in Nat
    PROVE  [f EXCEPT ![i].status = st, ![i].token = t, ![i].attempts = @ + 1]
                \in [1..n -> StepRecords]
  <1>1. f[i] \in StepRecords /\ f[i].attempts + 1 \in Nat
    BY DEF StepRecords
  <1>2. [f[i] EXCEPT !.status = st, !.token = t, !.attempts = f[i].attempts + 1]
            \in StepRecords
    BY <1>1, RecordUpdate
  <1>3. [f EXCEPT ![i] = [f[i] EXCEPT !.status = st, !.token = t,
                                      !.attempts = f[i].attempts + 1]]
            \in [1..n -> StepRecords]
    BY <1>2
  <1> QED
    BY <1>3

\* The step claimNextStep selects is ready, or pending and promoted.
LEMMA NextStep ==
    ASSUME TypeOK, NEW i \in DOMAIN steps, IsNext(i)
    PROVE  Promoted[i].status = "ready" /\ steps[i].status \in {"pending", "ready"}
  BY PromotedSteps DEF IsNext, ReadySteps

\* A valid request compiles to step rows, its max_attempts clamped.
LEMMA CompiledSteps ==
    ASSUME NEW r \in Requests, ValidRequest(r), NEW i \in 1..Len(r)
    PROVE  CompiledStep(r, i) \in StepRecords
  <1>1. Len(r) \in 1..MaxSteps /\ r \in Seq(SourceSteps)
    BY RequestsAssumption DEF ValidRequest
  <1>2. r[i] \in SourceSteps
    BY <1>1
  <1>3. ClampAttempts(r[i].attempts) \in 1..AttemptCap
    BY <1>2, BoundsAssumption DEF ClampAttempts, SourceSteps
  <1>4. {j \in 1..Len(r) : r[j].key \in DependsOn(r, i)} \in SUBSET (1..MaxSteps)
    BY <1>1, BoundsAssumption
  <1>5. r[i].type \in StepTypes
    BY DEF ValidRequest
  <1> QED
    BY <1>2, <1>3, <1>4, <1>5, BoundsAssumption
    DEF CompiledStep, StepRecords, SourceSteps, StepStatuses

\* At the end of a tick the worker executes nothing; the others go on.
LEMMA TickEnds ==
    ASSUME TypeOK, NEW w \in Workers, NEW stop, NEW status, EndTick(w, stop, status)
    PROVE  /\ pc' \in [Workers -> {"idle", "run", "internal", "receipt",
                                   "dispatch", "record", "finalize"}]
           /\ job' \in [Workers -> Jobs]
           /\ out' \in [Workers -> {NoOut} \cup Outcomes \cup Verdicts]
           /\ ~Executing(w)'
           /\ \A v \in Workers \ {w} :
                pc'[v] = pc[v] /\ job'[v] = job[v] /\ out'[v] = out[v]
  <1>1. LoopTargets(stop, status) \subseteq {"idle", "run"}
    BY DEF LoopTargets
  <1>2. NoJob \in Jobs
    BY BoundsAssumption DEF NoJob, Jobs
  <1> QED
    BY <1>1, <1>2 DEF EndTick, TypeOK, Executing

\* The claim transaction that takes a step.
LEMMA ClaimStepType ==
    ASSUME ClaimInv, NEW w \in Workers, NEW i \in DOMAIN steps, ClaimStep(w, i)
    PROVE  TypeOK'
  <1> USE DEF ClaimInv
  <1>1. \E n \in 0..MaxSteps : steps' \in [1..n -> StepRecords]
    <2>1. PICK n \in 0..MaxSteps : /\ DOMAIN steps = 1..n
                                   /\ Promoted \in [1..n -> StepRecords]
      BY PromotedType
    <2>2. "claimed" \in StepStatuses /\ claims + 1 \in Nat /\ n \in Nat
      BY BoundsAssumption DEF StepStatuses, TypeOK
    <2> QED
      BY <2>1, <2>2, ClaimUpdate DEF ClaimStep
  <1>2. gen \in 1..MaxCompiles /\ i \in 1..MaxSteps /\ claims' \in Nat
    BY BoundsAssumption DEF ClaimStep, TypeOK, StepsAreCompiled
  <1>3. ExecutorEntry(w, steps[i].type) \in
            {"internal", "receipt", "dispatch", "finalize"}
    BY DEF ExecutorEntry, TypeOK, StepRecords, StepTypes
  <1>4. job' \in [Workers -> Jobs]
    BY <1>2 DEF ClaimStep, TypeOK, Jobs
  <1>5. out' \in [Workers -> {NoOut} \cup Outcomes \cup Verdicts]
    BY DEF ClaimStep, TypeOK, Verdicts
  <1> QED
    BY <1>1, <1>2, <1>3, <1>4, <1>5 DEF ClaimStep, TypeOK, PlanStatuses

\* The claim transaction that opens a hold.
LEMMA ClaimHoldType ==
    ASSUME ClaimInv, NEW w \in Workers, NEW i \in DOMAIN steps, ClaimHold(w, i)
    PROVE  TypeOK'
  <1> USE DEF ClaimInv
  <1>1. \E n \in 0..MaxSteps : steps' \in [1..n -> StepRecords]
    <2>1. PICK n \in 0..MaxSteps : /\ DOMAIN steps = 1..n
                                   /\ Promoted \in [1..n -> StepRecords]
      BY PromotedType
    <2>2. "awaiting_approval" \in StepStatuses /\ n \in Nat
      BY BoundsAssumption DEF StepStatuses
    <2> QED
      BY <2>1, <2>2, StatusUpdate DEF ClaimHold
  <1>2. gen \in 1..MaxCompiles /\ i \in 1..MaxSteps
    BY BoundsAssumption DEF ClaimHold, TypeOK, StepsAreCompiled
  <1>3. NewHold \in HoldIds
    BY DEF ClaimHold, FreshHolds, NewHold
  <1>4. holds' \subseteq [id : HoldIds, gen : 1..MaxCompiles, idx : 1..MaxSteps]
    BY <1>2, <1>3 DEF ClaimHold, TypeOK
  <1> QED
    BY <1>1, <1>4, TickEnds DEF ClaimHold, TypeOK, PlanStatuses

\* All claim transactions.
LEMMA ClaimType ==
    ASSUME ClaimInv, NEW w \in Workers, Claim(w)
    PROVE  TypeOK'
  <1> USE DEF ClaimInv
  <1>1. CASE ClaimNothing(w)
    BY <1>1, TickEnds DEF ClaimNothing, TypeOK
  <1>2. CASE ClaimCheckpoint(w)
    <2>1. CheckpointStatus \in PlanStatuses
      BY DEF CheckpointStatus, PlanStatuses
    <2> QED
      BY <1>2, <2>1, TickEnds DEF ClaimCheckpoint, TypeOK
  <1>3. ASSUME NEW i \in DOMAIN steps, ClaimBlocked(w, i)
        PROVE  TypeOK'
    <2>1. \E n \in 0..MaxSteps : steps' \in [1..n -> StepRecords]
      <3>1. PICK n \in 0..MaxSteps : /\ DOMAIN steps = 1..n
                                     /\ Promoted \in [1..n -> StepRecords]
        BY PromotedType
      <3>2. "blocked" \in StepStatuses /\ n \in Nat
        BY BoundsAssumption DEF StepStatuses
      <3> QED
        BY <1>3, <3>1, <3>2, StatusUpdate DEF ClaimBlocked
    <2> QED
      BY <1>3, <2>1, TickEnds DEF ClaimBlocked, TypeOK, PlanStatuses
  <1>4. ASSUME NEW i \in DOMAIN steps, ClaimRejected(w, i)
        PROVE  TypeOK'
    BY <1>4, TickEnds DEF ClaimRejected, TypeOK
  <1> QED
    BY <1>1, <1>2, <1>3, <1>4, ClaimHoldType, ClaimStepType DEF Claim

\* A worker that executes a step knows a plan_step_id the receipts table has.
LEMMA JobStepId ==
    ASSUME TypeOK, ClaimsMatchSteps, NEW w \in Workers, Executing(w)
    PROVE  Sid(job[w]) \in StepIds
  BY BoundsAssumption DEF TypeOK, ClaimsMatchSteps, Jobs, Sid, StepIds

\* A replayed receipt gives a verdict.
LEMMA ReplayVerdicts ==
    \A r : ReplayVerdict(r) \in Verdicts
  BY DEF ReplayVerdict, Verdicts

\* Every outcome of a dispatch has a receipt status and a verdict.
LEMMA DispatchOutcomes ==
    \A o \in Outcomes : /\ ReceiptOf(o) \in ReceiptStates
                        /\ VerdictOf(o) \in Verdicts
                        /\ PlainVerdict(o) \in Verdicts
  BY DEF Outcomes, ReceiptOf, VerdictOf, PlainVerdict, ReceiptStates, Verdicts

\* The steps of the executor.
LEMMA ExecuteType ==
    ASSUME ClaimInv, NEW w \in Workers, Execute(w)
    PROVE  TypeOK'
  <1> USE DEF ClaimInv
  <1>0. Executing(w) /\ Sid(job[w]) \in StepIds
    <2>1. pc[w] \in {"internal", "receipt", "dispatch", "record"}
      BY DEF Execute, ExecuteInternal, ReplayReceipt, RefuseReceipt, OpenReceipt,
             ReceiptUnavailable, Dispatch, RecordReceipt, RecordSuccessFails,
             RecordFails
    <2> QED
      BY <2>1, JobStepId DEF Executing
  <1>1. CASE ExecuteInternal(w)
    BY <1>1 DEF ExecuteInternal, Reach, TypeOK, Verdicts
  <1>2. CASE ReplayReceipt(w)
    BY <1>2, ReplayVerdicts DEF ReplayReceipt, Reach, TypeOK
  <1>3. CASE RefuseReceipt(w)
    BY <1>3 DEF RefuseReceipt, Reach, TypeOK, Verdicts
  <1>4. CASE OpenReceipt(w)
    BY <1>4, <1>0 DEF OpenReceipt, Reach, TypeOK, ReceiptStates
  <1>5. CASE ReceiptUnavailable(w)
    BY <1>5 DEF ReceiptUnavailable, Reach, TypeOK, Verdicts
  <1>6. ASSUME NEW o \in Outcomes, Dispatch(w, o)
        PROVE  TypeOK'
    <2>1. effects' \subseteq Jobs
      BY <1>6 DEF Dispatch, TypeOK
    <2>2. CASE w \in DurableWorkers
      BY <1>6, <2>1, <2>2 DEF Dispatch, Reach, TypeOK
    <2>3. CASE w \notin DurableWorkers
      BY <1>6, <2>1, <2>3, DispatchOutcomes DEF Dispatch, Reach, TypeOK
    <2> QED
      BY <2>2, <2>3
  <1>7. CASE RecordSuccessFails(w)
    BY <1>7, <1>0 DEF RecordSuccessFails, Reach, TypeOK, ReceiptStates, Verdicts
  <1>8. CASE RecordFails(w)
    BY <1>8 DEF RecordFails, Reach, TypeOK, Verdicts
  <1>9. CASE RecordReceipt(w)
    <2>1. ReceiptOf(out[w]) \in ReceiptStates /\ VerdictOf(out[w]) \in Verdicts
      BY DEF ReceiptOf, VerdictOf, ReceiptStates, Verdicts
    <2> QED
      BY <1>9, <1>0, <2>1 DEF RecordReceipt, Reach, TypeOK
  <1> QED
    BY <1>1, <1>2, <1>3, <1>4, <1>5, <1>6, <1>7, <1>8, <1>9 DEF Execute

\* The finalising transaction.
LEMMA FinalizeType ==
    ASSUME ClaimInv, NEW w \in Workers, Finalize(w)
    PROVE  TypeOK'
  <1> USE DEF ClaimInv
  <1>1. CASE FinalizeClaim(w)
    <2> DEFINE i == job[w].idx
               status == FinalStatus(steps[i], out[w])
    <2>1. i \in DOMAIN steps /\ status \in StepStatuses
      BY <1>1 DEF FinalizeClaim, ClaimHeld, FinalStatus, StepStatuses
    <2>2. steps' = [steps EXCEPT ![i].status = status, ![i].token = 0]
      BY <1>1 DEF FinalizeClaim
    <2>3. \E n \in 0..MaxSteps : steps' \in [1..n -> StepRecords]
      <3> HIDE DEF i, status
      <3>1. PICK n \in 0..MaxSteps : steps \in [1..n -> StepRecords]
        BY DEF TypeOK
      <3>2. [steps[i] EXCEPT !.status = status, !.token = 0] \in StepRecords
        BY <2>1, <3>1 DEF StepRecords
      <3>3. [steps EXCEPT ![i] = [steps[i] EXCEPT !.status = status, !.token = 0]]
                \in [1..n -> StepRecords]
        BY <3>1, <3>2
      <3> QED
        BY <2>2, <3>3
    <2>4. plan' \in PlanStatuses /\ EndTick(w, FALSE, plan')
      BY <1>1 DEF FinalizeClaim, PlanStatuses
    <2> QED
      BY <1>1, <2>3, <2>4, TickEnds DEF FinalizeClaim, TypeOK
  <1>2. CASE ClaimLost(w)
    BY <1>2, TickEnds DEF ClaimLost, TypeOK
  <1> QED
    BY <1>1, <1>2 DEF Finalize

\* A compilation replaces the steps under a new generation.
LEMMA CompileType ==
    ASSUME ClaimInv, NEW r \in Requests, Compile(r)
    PROVE  TypeOK' /\ gen' \in 1..MaxCompiles /\ DOMAIN steps' = 1..Len(r)
  <1> USE DEF ClaimInv
  <1>1. Len(r) \in 0..MaxSteps
    BY BoundsAssumption DEF Compile, ValidRequest
  <1>2. steps' \in [1..Len(r) -> StepRecords]
    BY CompiledSteps DEF Compile
  <1> QED
    BY <1>1, <1>2, BoundsAssumption
    DEF Compile, TypeOK, PlanStatuses, workerVars

RowKept(i) ==
    /\ steps'[i].type = steps[i].type
    /\ steps'[i].deps = steps[i].deps
    /\ steps'[i].required = steps[i].required
    /\ steps'[i].grant = steps[i].grant

\* The writes of a reconciliation: the receipt and the row of one step.
Reconciled(i, rc) ==
    /\ Reconcilable(i) /\ <<gen, i>> \in StepIds
    /\ receipts' = [receipts EXCEPT ![<<gen, i>>] = rc]
    /\ DOMAIN steps' = DOMAIN steps
    /\ \A j \in DOMAIN steps \ {i} : steps'[j] = steps[j]
    /\ \E n \in 0..MaxSteps : steps' \in [1..n -> StepRecords]
    /\ steps'[i] \in StepRecords /\ RowKept(i)
    /\ steps'[i].approved = steps[i].approved
    /\ steps'[i].attempts = steps[i].attempts
    /\ steps'[i].max = steps[i].max
    /\ steps'[i].token = 0
    /\ \/ /\ steps'[i].status = "completed"
          /\ rc = "reconciled_ok" /\ Effected(i)
          /\ steps'[i].reopened = steps[i].reopened
       \/ /\ steps'[i].status = "blocked"
          /\ rc \in {"reconciled_bad", "unknown_outcome"}
          /\ steps'[i].reopened = Reopened(steps[i])

\* reconcileGrowthControlMutationReceipt touches one receipt, one row and the
\* plan's status: no worker, no hold and no effect.
LEMMA Reconciliation ==
    ASSUME ClaimInv, Reconcile
    PROVE  /\ \E i \in DOMAIN steps, rc \in ReceiptStates : Reconciled(i, rc)
           /\ plan' \in {"blocked", "validated"}
           /\ gen' = gen /\ holds' = holds /\ claims' = claims
           /\ effects' = effects /\ expired' = expired
           /\ pc' = pc /\ job' = job /\ out' = out
  <1>0. PICK n \in 0..MaxSteps : steps \in [1..n -> StepRecords]
    BY DEF ClaimInv, TypeOK
  <1>a. /\ plan' \in {"blocked", "validated"}
        /\ gen' = gen /\ holds' = holds /\ claims' = claims
        /\ effects' = effects /\ expired' = expired
        /\ pc' = pc /\ job' = job /\ out' = out
    BY DEF Reconcile, ReconcileApplied, ReconcileBlocked, workerVars
  <1>b. ASSUME NEW i \in DOMAIN steps
        PROVE  <<gen, i>> \in StepIds /\ steps[i] \in StepRecords
    BY <1>0, <1>b, BoundsAssumption DEF ClaimInv, TypeOK, StepsAreCompiled, StepIds
  <1>1. ASSUME NEW i \in DOMAIN steps, ReconcileApplied(i)
        PROVE  Reconciled(i, "reconciled_ok")
    <2>1. /\ steps[i] \in StepRecords /\ <<gen, i>> \in StepIds
          /\ Reconcilable(i) /\ Effected(i)
          /\ receipts' = [receipts EXCEPT ![<<gen, i>>] = "reconciled_ok"]
      BY <1>1, <1>b DEF ReconcileApplied
    <2> DEFINE t == [steps[i] EXCEPT !.status = "completed", !.token = 0]
    <2>a. /\ t \in StepRecords /\ t.status = "completed" /\ t.token = 0
          /\ t.type = steps[i].type /\ t.deps = steps[i].deps
          /\ t.required = steps[i].required /\ t.grant = steps[i].grant
          /\ t.approved = steps[i].approved
          /\ t.attempts = steps[i].attempts /\ t.max = steps[i].max
          /\ t.reopened = steps[i].reopened
      BY <2>1 DEF StepRecords, StepStatuses
    <2>b. steps' = [steps EXCEPT ![i] = t]
      BY <1>1 DEF ReconcileApplied
    <2> HIDE DEF t
    <2>2. /\ DOMAIN steps' = DOMAIN steps
          /\ \A j \in DOMAIN steps \ {i} : steps'[j] = steps[j]
          /\ steps'[i] = t
      BY <1>0, <2>b
    <2>3. /\ steps'[i] \in StepRecords /\ RowKept(i)
          /\ steps'[i].approved = steps[i].approved
          /\ steps'[i].attempts = steps[i].attempts
          /\ steps'[i].max = steps[i].max
          /\ steps'[i].token = 0 /\ steps'[i].status = "completed"
          /\ steps'[i].reopened = steps[i].reopened
      BY <2>a, <2>2 DEF RowKept
    <2>4. steps' \in [1..n -> StepRecords]
      BY <1>0, <2>a, <2>b
    <2> QED
      BY <2>1, <2>2, <2>3, <2>4 DEF Reconciled
  <1>2. ASSUME NEW i \in DOMAIN steps, NEW found, ReconcileBlocked(i, found)
        PROVE  Reconciled(i, IF found = "unknown" THEN "unknown_outcome"
                                                  ELSE "reconciled_bad")
    <2> DEFINE k == Reopened(steps[i])
               rc == IF found = "unknown" THEN "unknown_outcome" ELSE "reconciled_bad"
    <2>1. /\ steps[i] \in StepRecords /\ <<gen, i>> \in StepIds
          /\ Reconcilable(i)
          /\ receipts' = [receipts EXCEPT ![<<gen, i>>] = rc]
          /\ rc \in {"reconciled_bad", "unknown_outcome"}
      BY <1>2, <1>b DEF ReconcileBlocked
    <2> DEFINE t == [steps[i] EXCEPT !.status = "blocked", !.token = 0,
                                     !.reopened = k]
    <2>b. steps' = [steps EXCEPT ![i] = t]
      BY <1>2 DEF ReconcileBlocked
    <2> HIDE DEF t
    <2>2. /\ DOMAIN steps' = DOMAIN steps
          /\ \A j \in DOMAIN steps \ {i} : steps'[j] = steps[j]
          /\ steps'[i] = t
      BY <1>0, <2>b
    <2>3. k \in 0..MaxReopens /\ "blocked" \in StepStatuses
      BY <1>2, <2>1, BoundsAssumption
      DEF ReconcileBlocked, Reopened, StepRecords, StepStatuses
    <2>4. /\ steps'[i] \in StepRecords /\ RowKept(i)
          /\ steps'[i].approved = steps[i].approved
          /\ steps'[i].attempts = steps[i].attempts
          /\ steps'[i].max = steps[i].max
          /\ steps'[i].token = 0 /\ steps'[i].status = "blocked"
          /\ steps'[i].reopened = k
      <3> HIDE DEF k
      <3>1. t = [steps[i] EXCEPT !.status = "blocked", !.token = 0, !.reopened = k]
        BY DEF t
      <3>2. /\ t \in StepRecords /\ t.status = "blocked" /\ t.token = 0
            /\ t.reopened = k
            /\ t.type = steps[i].type /\ t.deps = steps[i].deps
            /\ t.required = steps[i].required /\ t.grant = steps[i].grant
            /\ t.approved = steps[i].approved
            /\ t.attempts = steps[i].attempts /\ t.max = steps[i].max
        BY <2>1, <2>3, <3>1 DEF StepRecords
      <3> QED
        BY <2>2, <3>2 DEF RowKept
    <2> HIDE DEF rc
    <2>5. steps' \in [1..n -> StepRecords]
      <3>1. t \in StepRecords
        BY <2>2, <2>4
      <3> QED
        BY <1>0, <2>b, <3>1
    <2>6. Reconciled(i, rc)
      BY <2>1, <2>2, <2>4, <2>5 DEF Reconciled
    <2> QED
      BY <2>6 DEF rc
  <1>3. \A rc \in {"reconciled_ok", "reconciled_bad", "unknown_outcome"} :
            rc \in ReceiptStates
    BY DEF ReceiptStates
  <1> QED
    BY <1>a, <1>1, <1>2, <1>3 DEF Reconcile

\* The operators' transactions.
LEMMA OperatorType ==
    ASSUME ClaimInv, Operator
    PROVE  TypeOK'
  <1> USE DEF ClaimInv
  <1>0. PICK n \in 0..MaxSteps : steps \in [1..n -> StepRecords]
    BY DEF TypeOK
  <1>1. ASSUME NEW r \in Requests, Compile(r)
        PROVE  TypeOK'
    BY <1>1, CompileType
  <1>2. ASSUME NEW h \in holds, NEW d \in Decisions, Decide(h, d)
        PROVE  TypeOK'
    <2> DEFINE s == steps[h.idx]
    <2>1. h.idx \in 1..n /\ s \in StepRecords
      BY <1>0, <1>2 DEF Decide
    <2>2. DecidedStep(s, d) \in StepStatuses /\ DecidedPlan(d) \in PlanStatuses
      BY DEF DecidedStep, DecidedPlan, Decisions, StepStatuses, PlanStatuses
    <2>3. [s EXCEPT !.status = DecidedStep(s, d), !.approved = (d = "approved")]
              \in StepRecords
      <3>1. (d = "approved") \in BOOLEAN
        OBVIOUS
      <3> QED
        BY <2>1, <2>2, <3>1 DEF StepRecords
    <2>4. steps' = [steps EXCEPT ![h.idx] =
                       [s EXCEPT !.status = DecidedStep(s, d),
                                 !.approved = (d = "approved")]]
      BY <1>2 DEF Decide
    <2>5. steps' \in [1..n -> StepRecords]
      <3> HIDE DEF s
      <3> QED
        BY <1>0, <2>3, <2>4
    <2>6. holds' \subseteq holds
      BY <1>2 DEF Decide, CloseHold
    <2> QED
      BY <1>2, <2>2, <2>5, <2>6 DEF Decide, TypeOK, workerVars
  <1>3. CASE Resume
    <2>1. steps' \in [1..n -> StepRecords]
      <3>1. \A i \in 1..n : [steps[i] EXCEPT !.status = "ready"] \in StepRecords
        BY <1>0 DEF StepRecords, StepStatuses
      <3> QED
        BY <1>0, <1>3, <3>1 DEF Resume
    <2> QED
      BY <1>3, <2>1 DEF Resume, TypeOK, PlanStatuses, workerVars
  <1>4. ASSUME NEW to \in PlanStatuses, Transition(to)
        PROVE  TypeOK'
    BY <1>4 DEF Transition, TypeOK, workerVars
  <1>5. CASE Cancel
    <2>1. steps' \in [1..n -> StepRecords]
      <3>1. \A i \in 1..n :
              [steps[i] EXCEPT !.status = "cancelled", !.token = 0] \in StepRecords
        BY <1>0 DEF StepRecords, StepStatuses
      <3> QED
        BY <1>0, <1>5, <3>1 DEF Cancel
    <2> QED
      BY <1>5, <2>1 DEF Cancel, TypeOK, PlanStatuses, workerVars
  <1>6. CASE Reconcile
    <2>1. PICK i \in DOMAIN steps, rc \in ReceiptStates : Reconciled(i, rc)
      BY <1>6, Reconciliation
    <2>2. \E k \in 0..MaxSteps : steps' \in [1..k -> StepRecords]
      BY <2>1 DEF Reconciled
    <2>3. receipts' \in [StepIds -> ReceiptStates]
      BY <2>1 DEF Reconciled, TypeOK
    <2> QED
      BY <1>6, <2>2, <2>3, Reconciliation DEF TypeOK, PlanStatuses
  <1> QED
    BY <1>1, <1>2, <1>3, <1>4, <1>5, <1>6 DEF Operator

\* Every step of the plan keeps the types.
LEMMA TypeStep ==
    ASSUME ClaimInv, [Next]_vars
    PROVE  TypeOK'
  <1>1. ASSUME NEW w \in Workers, StartRun(w)
        PROVE  TypeOK'
    BY <1>1 DEF StartRun, TypeOK, ClaimInv
  <1>2. ASSUME NEW w \in Workers, WorkerStep(w)
        PROVE  TypeOK'
    BY <1>2, ClaimType, ExecuteType, FinalizeType DEF WorkerStep
  <1>3. ASSUME NEW w \in Workers, WorkerLost(w)
        PROVE  TypeOK'
    <2>1. NoJob \in Jobs
      BY BoundsAssumption DEF NoJob, Jobs
    <2> QED
      BY <1>3, <2>1 DEF WorkerLost, TypeOK, ClaimInv
  <1>4. CASE GrantExpires
    BY <1>4 DEF GrantExpires, TypeOK, ClaimInv, workerVars
  <1>5. CASE UNCHANGED vars
    BY <1>5 DEF vars, TypeOK, ClaimInv
  <1> QED
    BY <1>1, <1>2, <1>3, <1>4, <1>5, OperatorType DEF Next

-----------------------------------------------------------------------------
(* Claims: at most one worker executes a step.                             *)

\* No step exists before the first compilation.
LEMMA CompilationStep ==
    ASSUME ClaimInv, [Next]_vars
    PROVE  StepsAreCompiled'
  <1> USE DEF ClaimInv
  <1>1. ASSUME NEW r \in Requests, Compile(r)
        PROVE  StepsAreCompiled'
    BY <1>1, CompileType DEF StepsAreCompiled
  <1>2. CASE gen' = gen /\ DOMAIN steps' = DOMAIN steps
    BY <1>2 DEF StepsAreCompiled
  <1>3. ASSUME NEW w \in Workers, Claim(w)
        PROVE  gen' = gen /\ DOMAIN steps' = DOMAIN steps
    BY <1>3, PromotedSteps
    DEF Claim, ClaimNothing, ClaimCheckpoint, ClaimHold, ClaimBlocked,
        ClaimRejected, ClaimStep
  <1>4. ASSUME NEW w \in Workers, Execute(w)
        PROVE  gen' = gen /\ steps' = steps
    BY <1>4
    DEF Execute, ExecuteInternal, ReplayReceipt, RefuseReceipt, OpenReceipt,
        ReceiptUnavailable, Dispatch, RecordReceipt, RecordSuccessFails,
        RecordFails, Reach
  <1>5. ASSUME NEW w \in Workers, Finalize(w)
        PROVE  gen' = gen /\ DOMAIN steps' = DOMAIN steps
    BY <1>5 DEF Finalize, FinalizeClaim, ClaimLost
  <1>6. ASSUME NEW h \in holds, NEW d \in Decisions, Decide(h, d)
        PROVE  gen' = gen /\ DOMAIN steps' = DOMAIN steps
    BY <1>6 DEF Decide
  <1>7. CASE Resume \/ Cancel
    BY <1>7, <1>2 DEF Resume, Cancel
  <1>10. CASE Reconcile
    BY <1>10, <1>2, Reconciliation DEF Reconciled
  <1>8. ASSUME NEW w \in Workers, StartRun(w) \/ WorkerLost(w)
        PROVE  gen' = gen /\ steps' = steps
    BY <1>8 DEF StartRun, WorkerLost
  <1>9. CASE \/ UNCHANGED vars \/ GrantExpires
             \/ \E to \in PlanStatuses : Transition(to)
    BY <1>9, <1>2 DEF vars, GrantExpires, Transition
  <1> QED
    BY <1>1, <1>2, <1>3, <1>4, <1>5, <1>6, <1>7, <1>8, <1>9, <1>10
    DEF Next, WorkerStep, Operator

\* A step no worker may hold any more is none of the executing workers'.
LEMMA ClaimStepExclusive ==
    ASSUME ClaimInv, NEW w \in Workers, NEW i \in DOMAIN steps, ClaimStep(w, i)
    PROVE  (ClaimsMatchSteps /\ ExclusiveExecution)'
  <1> USE DEF ClaimInv
  <1>1. steps[i].status \in {"pending", "ready"}
    BY NextStep DEF ClaimStep
  <1>2. \A v \in Workers \ {w} : /\ Executing(v)' <=> Executing(v)
                                 /\ job'[v] = job[v]
    BY DEF ClaimStep, Executing, TypeOK
  <1>3. job'[w] = [gen |-> gen, idx |-> i, token |-> claims + 1]
    BY DEF ClaimStep, TypeOK
  <1>4. \A v \in Workers \ {w} : Executing(v) => ~(job[v].gen = gen /\ job[v].idx = i)
    BY <1>1 DEF ClaimsMatchSteps
  <1>5. gen' = gen /\ gen \in 1..MaxCompiles /\ i \in 1..MaxSteps
    BY BoundsAssumption DEF ClaimStep, TypeOK, StepsAreCompiled
  <1>6. /\ DOMAIN steps' = DOMAIN steps
        /\ steps'[i].status = "claimed"
        /\ \A j \in DOMAIN steps \ {i} : steps'[j].status = Promoted[j].status
    BY PromotedSteps DEF ClaimStep, StepRecords
  <1>7. \A j \in DOMAIN steps \ {i} :
            steps[j].status \in {"claimed", "cancelled"} =>
                steps'[j].status = steps[j].status
    BY <1>6, PromotedSteps
  <1>8. ClaimsMatchSteps'
    BY <1>2, <1>3, <1>4, <1>5, <1>6, <1>7 DEF ClaimsMatchSteps
  <1>9. ExclusiveExecution'
    BY <1>2, <1>3, <1>4 DEF ExclusiveExecution, Sid
  <1> QED
    BY <1>8, <1>9

\* A step in which no worker starts to execute, the compilation stays and no
\* claimed or cancelled step that some worker executes leaves these statuses.
LEMMA QuietStep ==
    ASSUME ClaimInv, gen' = gen, DOMAIN steps' = DOMAIN steps,
           \A w \in Workers :
                Executing(w)' => Executing(w) /\ job'[w] = job[w],
           \A w \in Workers : \A j \in DOMAIN steps :
                /\ Executing(w)' /\ job[w].gen = gen /\ job[w].idx = j
                /\ steps[j].status \in {"claimed", "cancelled"}
                => steps'[j].status \in {"claimed", "cancelled"}
    PROVE  (ClaimsMatchSteps /\ ExclusiveExecution)'
  BY DEF ClaimInv, ClaimsMatchSteps, ExclusiveExecution

\* Every step of the plan keeps claims matched with rows and exclusive.
LEMMA ClaimsStep ==
    ASSUME ClaimInv, [Next]_vars
    PROVE  (ClaimsMatchSteps /\ ExclusiveExecution)'
  <1> USE DEF ClaimInv
  <1>1. ASSUME NEW r \in Requests, Compile(r)
        PROVE  (ClaimsMatchSteps /\ ExclusiveExecution)'
    <2>1. /\ gen' = gen + 1 /\ pc' = pc /\ job' = job
          /\ gen \in Nat
      BY <1>1, BoundsAssumption DEF Compile, TypeOK, workerVars
    <2>2. \A w \in Workers : Executing(w)' <=> Executing(w)
      BY <2>1 DEF Executing
    <2> QED
      BY <2>1, <2>2 DEF ClaimsMatchSteps, ExclusiveExecution
  <1>2. ASSUME NEW w \in Workers, NEW i \in DOMAIN steps,
               ClaimHold(w, i) \/ ClaimBlocked(w, i)
        PROVE  (ClaimsMatchSteps /\ ExclusiveExecution)'
    <2>1. steps[i].status \in {"pending", "ready"}
      BY <1>2, NextStep DEF ClaimHold, ClaimBlocked
    <2>2. gen' = gen /\ DOMAIN steps' = DOMAIN steps
      BY <1>2, PromotedSteps DEF ClaimHold, ClaimBlocked
    <2>3. \A j \in DOMAIN steps \ {i} : steps'[j].status = Promoted[j].status
      BY <1>2, PromotedSteps DEF ClaimHold, ClaimBlocked, StepRecords
    <2>4. \A v \in Workers : Executing(v)' => Executing(v) /\ job'[v] = job[v]
      BY <1>2, TickEnds DEF ClaimHold, ClaimBlocked, Executing
    <2>5. \A j \in DOMAIN steps :
            steps[j].status \in {"claimed", "cancelled"} =>
                steps'[j].status \in {"claimed", "cancelled"}
      BY <2>1, <2>3, PromotedSteps
    <2> QED
      BY <2>2, <2>4, <2>5, QuietStep
  <1>3. ASSUME NEW w \in Workers,
               \/ ClaimNothing(w) \/ ClaimCheckpoint(w)
               \/ \E i \in DOMAIN steps : ClaimRejected(w, i)
               \/ ClaimLost(w)
        PROVE  (ClaimsMatchSteps /\ ExclusiveExecution)'
    <2>1. /\ gen' = gen /\ steps' = steps
          /\ \E stop, status : EndTick(w, stop, status)
      BY <1>3 DEF ClaimNothing, ClaimCheckpoint, ClaimRejected, ClaimLost
    <2>2. \A v \in Workers : Executing(v)' => Executing(v) /\ job'[v] = job[v]
      BY <2>1, TickEnds DEF Executing
    <2> QED
      BY <2>1, <2>2, QuietStep
  <1>4. ASSUME NEW w \in Workers, Execute(w)
        PROVE  (ClaimsMatchSteps /\ ExclusiveExecution)'
    <2>1. pc[w] \in {"internal", "receipt", "dispatch", "record"}
      BY <1>4
      DEF Execute, ExecuteInternal, ReplayReceipt, RefuseReceipt, OpenReceipt,
          ReceiptUnavailable, Dispatch, RecordReceipt, RecordSuccessFails,
          RecordFails
    <2>2. /\ gen' = gen /\ steps' = steps /\ job' = job
          /\ \E next : pc' = [pc EXCEPT ![w] = next]
      BY <1>4
      DEF Execute, ExecuteInternal, ReplayReceipt, RefuseReceipt, OpenReceipt,
          ReceiptUnavailable, Dispatch, RecordReceipt, RecordSuccessFails,
          RecordFails, Reach
    <2>3. \A v \in Workers : Executing(v)' => Executing(v)
      BY <2>1, <2>2 DEF Executing, TypeOK
    <2> QED
      BY <2>2, <2>3, QuietStep
  <1>5. ASSUME NEW w \in Workers, FinalizeClaim(w)
        PROVE  (ClaimsMatchSteps /\ ExclusiveExecution)'
    <2> DEFINE i == job[w].idx
    <2>1. /\ Executing(w) /\ job[w].gen = gen /\ i \in DOMAIN steps
          /\ gen' = gen
          /\ DOMAIN steps' = DOMAIN steps
          /\ \A j \in DOMAIN steps \ {i} : steps'[j] = steps[j]
          /\ EndTick(w, FALSE, plan')
      BY <1>5 DEF FinalizeClaim, ClaimHeld, Executing
    <2>2. ~Executing(w)' /\ \A v \in Workers \ {w} :
                pc'[v] = pc[v] /\ job'[v] = job[v]
      BY <2>1, TickEnds
    <2>3. \A v \in Workers : Executing(v)' => v # w /\ Executing(v) /\ job'[v] = job[v]
      BY <2>2 DEF Executing
    <2>4. \A v \in Workers \ {w} :
            Executing(v) => ~(job[v].gen = gen /\ job[v].idx = i)
      BY <2>1 DEF ExclusiveExecution, Sid
    <2> QED
      BY <2>1, <2>3, <2>4, QuietStep
  <1>6. ASSUME NEW h \in holds, NEW d \in Decisions, Decide(h, d)
        PROVE  (ClaimsMatchSteps /\ ExclusiveExecution)'
    <2>1. /\ gen' = gen /\ DOMAIN steps' = DOMAIN steps /\ pc' = pc /\ job' = job
          /\ steps[h.idx].status = "awaiting_approval"
          /\ \A j \in DOMAIN steps \ {h.idx} : steps'[j] = steps[j]
      BY <1>6 DEF Decide, workerVars
    <2> QED
      BY <2>1, QuietStep DEF Executing
  <1>7. CASE Resume
    <2>1. /\ gen' = gen /\ DOMAIN steps' = DOMAIN steps /\ pc' = pc /\ job' = job
          /\ \A j \in DOMAIN steps :
                steps[j].status # "blocked" => steps'[j] = steps[j]
      BY <1>7 DEF Resume, Resumable, workerVars
    <2> QED
      BY <2>1, QuietStep DEF Executing
  <1>8. CASE Cancel
    <2>1. /\ gen' = gen /\ DOMAIN steps' = DOMAIN steps /\ pc' = pc /\ job' = job
          /\ \A j \in DOMAIN steps :
                steps'[j].status \in {"cancelled", steps[j].status}
      BY <1>8 DEF Cancel, workerVars, TypeOK, StepRecords
    <2> QED
      BY <2>1, QuietStep DEF Executing
  <1>9. ASSUME NEW w \in Workers, StartRun(w) \/ WorkerLost(w)
        PROVE  (ClaimsMatchSteps /\ ExclusiveExecution)'
    <2>1. /\ gen' = gen /\ steps' = steps
          /\ \A v \in Workers : Executing(v)' => Executing(v) /\ job'[v] = job[v]
      BY <1>9 DEF StartRun, WorkerLost, Executing, TypeOK
    <2> QED
      BY <2>1, QuietStep
  <1>10. CASE \/ UNCHANGED vars \/ GrantExpires
              \/ \E to \in PlanStatuses : Transition(to)
    <2>1. gen' = gen /\ steps' = steps /\ pc' = pc /\ job' = job
      BY <1>10 DEF vars, GrantExpires, Transition, workerVars
    <2> QED
      BY <2>1, QuietStep DEF Executing
  <1>11. CASE Reconcile
    <2>1. PICK i \in DOMAIN steps, rc \in ReceiptStates : Reconciled(i, rc)
      BY <1>11, Reconciliation
    <2>2. /\ gen' = gen /\ DOMAIN steps' = DOMAIN steps /\ pc' = pc /\ job' = job
          /\ steps[i].status \in {"failed", "blocked"}
          /\ \A j \in DOMAIN steps \ {i} : steps'[j] = steps[j]
      BY <1>11, <2>1, Reconciliation DEF Reconciled, Reconcilable
    <2> QED
      BY <2>2, QuietStep DEF Executing
  <1> QED
    BY <1>1, <1>2, <1>3, <1>4, <1>5, <1>6, <1>7, <1>8, <1>9, <1>10, <1>11,
       ClaimStepExclusive
    DEF Next, WorkerStep, Operator, Claim, Finalize

\* The claim invariant holds of a plan that was never compiled.
LEMMA ClaimInvInit == Init => ClaimInv
  <1> SUFFICES ASSUME Init PROVE ClaimInv
    OBVIOUS
  <1>1. NoJob \in Jobs
    BY BoundsAssumption DEF NoJob, Jobs
  <1>2. TypeOK
    <2>1. steps \in [1..0 -> StepRecords]
      BY DEF Init
    <2>2. 0 \in 0..MaxSteps /\ 0 \in 0..MaxCompiles
      BY BoundsAssumption
    <2> QED
      BY <1>1, <2>1, <2>2 DEF Init, TypeOK, PlanStatuses, ReceiptStates
  <1>3. \A w \in Workers : ~Executing(w)
    BY DEF Init, Executing
  <1> QED
    BY <1>2, <1>3
    DEF ClaimInv, Init, StepsAreCompiled, ClaimsMatchSteps, ExclusiveExecution

\* The claim invariant is inductive.
LEMMA ClaimInvNext == ClaimInv /\ [Next]_vars => ClaimInv'
  BY TypeStep, CompilationStep, ClaimsStep DEF ClaimInv

\* The rows and the workers of a plan keep their types, whatever operators,
\* workers and failures do (every transaction of the three services).
THEOREM TypeCorrect == Spec => []TypeOK
  <1>1. Spec => []ClaimInv
    BY ClaimInvInit, ClaimInvNext, PTL DEF Spec
  <1> QED
    BY <1>1, PTL DEF ClaimInv

\* Two workers never execute the same plan step at the same time: claimNextStep
\* only takes ready steps and finalizeClaim is the only way out of "claimed"
\* other than cancellation.
THEOREM ExecutionIsExclusive == Spec => []ExclusiveExecution
  <1>1. Spec => []ClaimInv
    BY ClaimInvInit, ClaimInvNext, PTL DEF Spec
  <1> QED
    BY <1>1, PTL DEF ClaimInv

-----------------------------------------------------------------------------
(* Attempts: attempt_count never exceeds max_attempts.                     *)

\* A step of the plan that keeps every attempt count and gives no attempt to
\* a step that had used them up.
LEMMA AttemptsKept ==
    ASSUME AttemptInv, DOMAIN steps' = DOMAIN steps,
           \A j \in DOMAIN steps :
                /\ steps'[j].attempts = steps[j].attempts
                /\ Allowance(steps'[j]) = Allowance(steps[j])
                /\ \/ steps'[j].status \in {"completed", "failed", "cancelled"}
                   \/ steps'[j].status = steps[j].status
                   \/ steps[j].attempts < Allowance(steps[j])
    PROVE  (AttemptsBounded /\ AttemptsLeft)'
  BY DEF AttemptInv, AttemptsBounded, AttemptsLeft

\* Every step of the plan keeps the attempts within max_attempts.
LEMMA AttemptsStep ==
    ASSUME AttemptInv, [Next]_vars
    PROVE  (AttemptsBounded /\ AttemptsLeft)'
  <1> USE DEF AttemptInv, ClaimInv
  <1>0. PICK n \in 0..MaxSteps : steps \in [1..n -> StepRecords]
    BY DEF TypeOK
  <1>1. ASSUME NEW r \in Requests, Compile(r)
        PROVE  (AttemptsBounded /\ AttemptsLeft)'
    <2>1. DOMAIN steps' = 1..Len(r)
      BY <1>1, CompileType
    <2>2. \A i \in 1..Len(r) : /\ steps'[i] \in StepRecords
                               /\ steps'[i].attempts = 0
      BY <1>1, CompiledSteps DEF Compile, CompiledStep
    <2>3. \A i \in 1..Len(r) :
            Allowance(steps'[i]) \in Nat /\ Allowance(steps'[i]) >= 1
      BY <2>2, BoundsAssumption DEF StepRecords, Allowance
    <2> QED
      BY <2>1, <2>2, <2>3 DEF AttemptsBounded, AttemptsLeft
  <1>2. ASSUME NEW w \in Workers, NEW i \in DOMAIN steps, ClaimStep(w, i)
        PROVE  (AttemptsBounded /\ AttemptsLeft)'
    <2>0. \A j \in DOMAIN steps : Allowance(Promoted[j]) = Allowance(steps[j])
      BY PromotedSteps DEF Allowance
    <2>1. Promoted[i].attempts < Allowance(Promoted[i])
      BY <1>2, <2>0, NextStep, PromotedSteps DEF ClaimStep, AttemptsLeft
    <2>2. /\ DOMAIN steps' = DOMAIN steps
          /\ \A j \in DOMAIN steps \ {i} : steps'[j] = Promoted[j]
          /\ steps'[i].max = Promoted[i].max
          /\ steps'[i].reopened = Promoted[i].reopened
          /\ steps'[i].attempts = Promoted[i].attempts + 1
          /\ steps'[i].status = "claimed"
      BY <1>2, PromotedSteps DEF ClaimStep, StepRecords
    <2>3. Promoted[i].attempts \in Nat /\ Allowance(Promoted[i]) \in Nat
      BY PromotedSteps, BoundsAssumption DEF StepRecords, Allowance
    <2>4. steps'[i].attempts <= Allowance(steps'[i])
      <3>1. Allowance(steps'[i]) = Allowance(Promoted[i])
        BY <2>2 DEF Allowance
      <3> QED
        BY <2>1, <2>2, <2>3, <3>1
    <2>5. \A j \in DOMAIN steps \ {i} :
            /\ Promoted[j].attempts <= Allowance(Promoted[j])
            /\ Promoted[j].status \in
                    {"pending", "ready", "awaiting_approval", "blocked"} =>
                Promoted[j].attempts < Allowance(Promoted[j])
      BY <2>0, PromotedSteps DEF AttemptsBounded, AttemptsLeft
    <2> QED
      BY <2>2, <2>4, <2>5 DEF AttemptsBounded, AttemptsLeft
  <1>3. ASSUME NEW w \in Workers, NEW i \in DOMAIN steps,
               ClaimHold(w, i) \/ ClaimBlocked(w, i)
        PROVE  (AttemptsBounded /\ AttemptsLeft)'
    <2>1. steps[i].attempts < Allowance(steps[i])
      BY <1>3, NextStep DEF ClaimHold, ClaimBlocked, AttemptsLeft
    <2>2. /\ DOMAIN steps' = DOMAIN steps
          /\ \A j \in DOMAIN steps \ {i} : steps'[j] = Promoted[j]
          /\ steps'[i].max = Promoted[i].max
          /\ steps'[i].reopened = Promoted[i].reopened
          /\ steps'[i].attempts = Promoted[i].attempts
      <3>1. CASE ClaimHold(w, i)
        BY <3>1, PromotedSteps DEF ClaimHold, StepRecords
      <3>2. CASE ClaimBlocked(w, i)
        BY <3>2, PromotedSteps DEF ClaimBlocked, StepRecords
      <3> QED
        BY <1>3, <3>1, <3>2
    <2>3. \A j \in DOMAIN steps \ {i} :
            \/ Promoted[j].status = steps[j].status
            \/ steps[j].attempts < Allowance(steps[j])
      BY PromotedSteps DEF AttemptsLeft
    <2>4. \A j \in DOMAIN steps : /\ steps'[j].attempts = steps[j].attempts
                                  /\ Allowance(steps'[j]) = Allowance(steps[j])
      BY <2>2, PromotedSteps DEF Allowance
    <2> QED
      BY <2>1, <2>2, <2>3, <2>4, AttemptsKept
  <1>4. ASSUME NEW w \in Workers, FinalizeClaim(w)
        PROVE  (AttemptsBounded /\ AttemptsLeft)'
    <2> DEFINE i == job[w].idx
               status == FinalStatus(steps[i], out[w])
    <2>1. /\ i \in DOMAIN steps
          /\ steps' = [steps EXCEPT ![i].status = status, ![i].token = 0]
      BY <1>4 DEF FinalizeClaim, ClaimHeld
    <2>2. \/ status \in {"completed", "failed", "cancelled"}
          \/ steps[i].attempts < Allowance(steps[i])
      <3>1. /\ steps[i].attempts \in Nat /\ steps[i].max \in Nat
            /\ steps[i].reopened \in Nat
        BY <1>0, <2>1, BoundsAssumption DEF StepRecords
      <3> QED
        BY <3>1 DEF FinalStatus, Retryable, Allowance
    <2> HIDE DEF i, status
    <2>3. /\ DOMAIN steps' = DOMAIN steps
          /\ \A j \in DOMAIN steps \ {i} : steps'[j] = steps[j]
          /\ Allowance(steps'[i]) = Allowance(steps[i])
          /\ steps'[i].attempts = steps[i].attempts
          /\ steps'[i].status = status
      BY <1>0, <2>1 DEF StepRecords, Allowance
    <2> QED
      BY <2>1, <2>2, <2>3, AttemptsKept
  <1>5. ASSUME NEW h \in holds, NEW d \in Decisions, Decide(h, d)
        PROVE  (AttemptsBounded /\ AttemptsLeft)'
    <2>1. /\ h.idx \in DOMAIN steps
          /\ steps[h.idx].status = "awaiting_approval"
          /\ DOMAIN steps' = DOMAIN steps
          /\ \A j \in DOMAIN steps \ {h.idx} : steps'[j] = steps[j]
          /\ Allowance(steps'[h.idx]) = Allowance(steps[h.idx])
          /\ steps'[h.idx].attempts = steps[h.idx].attempts
      BY <1>0, <1>5 DEF Decide, StepRecords, Allowance
    <2>2. steps[h.idx].attempts < Allowance(steps[h.idx])
      BY <2>1 DEF AttemptsLeft
    <2> QED
      BY <2>1, <2>2, AttemptsKept
  <1>6. CASE Resume
    <2>1. /\ DOMAIN steps' = DOMAIN steps
          /\ \A j \in DOMAIN steps :
                /\ steps'[j].attempts = steps[j].attempts
                /\ Allowance(steps'[j]) = Allowance(steps[j])
                /\ steps[j].status = "blocked" \/ steps'[j] = steps[j]
      BY <1>0, <1>6 DEF Resume, Resumable, StepRecords, Allowance
    <2>2. \A j \in DOMAIN steps :
            steps[j].status = "blocked" => steps[j].attempts < Allowance(steps[j])
      BY DEF AttemptsLeft
    <2> QED
      BY <2>1, <2>2, AttemptsKept
  <1>7. CASE Cancel
    <2>1. /\ DOMAIN steps' = DOMAIN steps
          /\ \A j \in DOMAIN steps :
                /\ steps'[j].attempts = steps[j].attempts
                /\ Allowance(steps'[j]) = Allowance(steps[j])
                /\ steps'[j].status \in {"cancelled", steps[j].status}
      BY <1>0, <1>7 DEF Cancel, StepRecords, Allowance
    <2> QED
      BY <2>1, AttemptsKept
  <1>8. CASE steps' = steps
    BY <1>8, AttemptsKept
  <1>9. ASSUME NEW w \in Workers,
               \/ ClaimNothing(w) \/ ClaimCheckpoint(w)
               \/ \E i \in DOMAIN steps : ClaimRejected(w, i)
               \/ Execute(w) \/ ClaimLost(w) \/ StartRun(w) \/ WorkerLost(w)
        PROVE  steps' = steps
    BY <1>9
    DEF ClaimNothing, ClaimCheckpoint, ClaimRejected, ClaimLost, StartRun,
        WorkerLost, Execute, ExecuteInternal, ReplayReceipt, RefuseReceipt,
        OpenReceipt, ReceiptUnavailable, Dispatch, RecordReceipt,
        RecordSuccessFails, RecordFails, Reach
  <1>10. CASE \/ UNCHANGED vars \/ GrantExpires
              \/ \E to \in PlanStatuses : Transition(to)
    BY <1>10, <1>8 DEF vars, GrantExpires, Transition
  <1>11. CASE Reconcile
    <2>1. PICK i \in DOMAIN steps, rc \in ReceiptStates : Reconciled(i, rc)
      BY <1>11, Reconciliation
    <2>2. /\ steps[i].attempts \in Nat /\ steps[i].max \in Nat
          /\ steps[i].reopened \in Nat
          /\ steps'[i].max \in Nat /\ steps'[i].reopened \in Nat
      <3>1. steps[i] \in StepRecords /\ steps'[i] \in StepRecords
        BY <1>0, <2>1 DEF Reconciled
      <3> QED
        BY <3>1, BoundsAssumption DEF StepRecords
    <2>3. /\ steps'[i].attempts <= Allowance(steps'[i])
          /\ steps'[i].status # "completed" =>
                steps'[i].attempts < Allowance(steps'[i])
      <3>1. CASE steps'[i].status = "completed"
        BY <2>1, <2>2, <3>1 DEF Reconciled, AttemptsBounded, Allowance
      <3>2. CASE steps[i].status = "failed" /\ steps'[i].status # "completed"
        BY <2>1, <2>2, <3>2
        DEF Reconciled, Reopened, AttemptsBounded, Allowance
      <3>3. CASE steps[i].status = "blocked" /\ steps'[i].status # "completed"
        BY <2>1, <2>2, <3>3
        DEF Reconciled, Reopened, AttemptsLeft, Allowance
      <3> QED
        BY <2>1, <3>1, <3>2, <3>3 DEF Reconciled, Reconcilable
    <2> QED
      BY <2>1, <2>3 DEF Reconciled, AttemptsBounded, AttemptsLeft
  <1> QED
    BY <1>1, <1>2, <1>3, <1>4, <1>5, <1>6, <1>7, <1>8, <1>9, <1>10, <1>11
    DEF Next, WorkerStep, Operator, Claim, Finalize

\* No step is tried more often than its max_attempts and the times that
\* reconciliation reopened it, over all retries, escalations, resumptions and
\* cancellations.
THEOREM AttemptsAreBounded == Spec => []AttemptsBounded
  <1>1. Init => AttemptInv
    BY ClaimInvInit DEF AttemptInv, AttemptsBounded, AttemptsLeft, Init
  <1>2. AttemptInv /\ [Next]_vars => AttemptInv'
    BY ClaimInvNext, AttemptsStep DEF AttemptInv
  <1>3. AttemptInv => AttemptsBounded
    BY DEF AttemptInv
  <1> QED
    BY <1>1, <1>2, <1>3, PTL DEF Spec

-----------------------------------------------------------------------------
(* Receipts: with the receipt-aware executor a plan step reaches the       *)
(* provider at most once.                                                  *)

ReceiptParts ==
    EffectsAreOfSteps /\ ReceiptGuardsDispatch /\ NoUntrackedEffect
      /\ AtMostOnceDispatch

\* A step in which no worker enters or moves within its dispatch.
LEMMA QuietReceipts ==
    ASSUME ReceiptInv, receipts' = receipts, effects' = effects,
           gen' \in Nat, gen' >= gen,
           \A w \in Workers : pc'[w] \in {"dispatch", "record"} =>
                pc'[w] = pc[w] /\ job'[w] = job[w] /\ out'[w] = out[w]
    PROVE  ReceiptParts'
  <1>1. EffectsAreOfSteps'
    BY BoundsAssumption DEF ReceiptInv, ClaimInv, TypeOK, EffectsAreOfSteps, Jobs
  <1>2. ReceiptGuardsDispatch'
    BY DEF ReceiptInv, ReceiptGuardsDispatch
  <1>3. NoUntrackedEffect' /\ AtMostOnceDispatch'
    BY DEF ReceiptInv, NoUntrackedEffect, AtMostOnceDispatch
  <1> QED
    BY <1>1, <1>2, <1>3 DEF ReceiptParts

\* While one worker executes a step, the others are not at its receipt.
LEMMA OthersElsewhere ==
    ASSUME ClaimInv, NEW w \in Workers, Executing(w), NEW v \in Workers \ {w},
           pc[v] \in {"dispatch", "record"}
    PROVE  Sid(job[v]) # Sid(job[w])
  BY DEF ClaimInv, ExclusiveExecution, Executing

\* The executor's steps, with the receipt as the guard of the dispatch.
LEMMA ReceiptExecute ==
    ASSUME ReceiptInv, DurableWorkers = Workers, NEW w \in Workers, Execute(w)
    PROVE  ReceiptParts'
  <1> USE DEF ReceiptInv, ClaimInv
  <1> DEFINE s == Sid(job[w])
  <1>0. pc[w] \in {"internal", "receipt", "dispatch", "record"}
    BY DEF Execute, ExecuteInternal, ReplayReceipt, RefuseReceipt, OpenReceipt,
           ReceiptUnavailable, Dispatch, RecordReceipt, RecordSuccessFails,
           RecordFails
  <1>1. Executing(w) /\ s \in StepIds
    BY <1>0, JobStepId DEF Executing
  <1>2. /\ gen' = gen /\ job' = job /\ gen \in Nat
        /\ \A v \in Workers \ {w} : pc'[v] = pc[v] /\ out'[v] = out[v]
    BY BoundsAssumption
    DEF Execute, ExecuteInternal, ReplayReceipt, RefuseReceipt, OpenReceipt,
        ReceiptUnavailable, Dispatch, RecordReceipt, RecordSuccessFails,
        RecordFails, Reach, TypeOK
  <1>3. \A v \in Workers \ {w} :
            pc[v] \in {"dispatch", "record"} => Sid(job[v]) # s
    BY <1>1, OthersElsewhere
  <1>4. EffectsAreOfSteps'
    <2>1. effects' \subseteq effects \cup {job[w]}
      BY DEF Execute, ExecuteInternal, ReplayReceipt, RefuseReceipt, OpenReceipt,
             ReceiptUnavailable, Dispatch, RecordReceipt, RecordSuccessFails,
             RecordFails
    <2> QED
      BY <1>1, <1>2, <2>1 DEF EffectsAreOfSteps, ClaimsMatchSteps
  <1>5. CASE /\ receipts' = receipts /\ effects' = effects
             /\ pc'[w] \notin {"dispatch", "record"}
    BY <1>2, <1>5, QuietReceipts
  <1>6. CASE \/ ExecuteInternal(w) \/ ReplayReceipt(w) \/ RefuseReceipt(w)
             \/ ReceiptUnavailable(w) \/ RecordFails(w)
    BY <1>5, <1>6
    DEF ExecuteInternal, ReplayReceipt, RefuseReceipt, ReceiptUnavailable,
        RecordFails, Reach, TypeOK
  <1>7. CASE OpenReceipt(w)
    <2>1. /\ receipts[s] \in {"none", "failed_pre_dispatch"}
          /\ receipts' = [receipts EXCEPT ![s] = "pending"]
          /\ effects' = effects /\ pc'[w] = "dispatch"
      BY <1>1, <1>7
      DEF OpenReceipt, ReadbackRequired, Replayable, Reach, TypeOK, ReceiptStates
    <2>2. \A e \in effects : Sid(e) # s
      BY <2>1 DEF NoUntrackedEffect
    <2>3. \A x \in StepIds : x # s => receipts'[x] = receipts[x]
      BY <2>1 DEF TypeOK
    <2>4. receipts'[s] = "pending"
      BY <1>1, <2>1 DEF TypeOK
    <2>5. \A e \in effects : receipts'[Sid(e)] = receipts[Sid(e)]
      BY <2>1, <2>2 DEF TypeOK
    <2>6. \A v \in Workers \ {w} : pc[v] \in {"dispatch", "record"} =>
            receipts'[Sid(job[v])] = receipts[Sid(job[v])]
      BY <1>3, <2>1 DEF TypeOK
    <2> HIDE DEF s
    <2>7. ReceiptGuardsDispatch'
      BY <1>2, <2>1, <2>2, <2>4, <2>6 DEF ReceiptGuardsDispatch, s
    <2>8. NoUntrackedEffect' /\ AtMostOnceDispatch'
      BY <2>1, <2>5 DEF NoUntrackedEffect, AtMostOnceDispatch
    <2> QED
      BY <1>4, <2>7, <2>8 DEF ReceiptParts
  <1>8. ASSUME NEW o \in Outcomes, Dispatch(w, o)
        PROVE  ReceiptParts'
    <2>1. /\ pc[w] = "dispatch" /\ receipts' = receipts
          /\ pc'[w] = "record" /\ out'[w] = o
      BY <1>8 DEF Dispatch, Reach, TypeOK
    <2>2. \/ effects' = effects
          \/ o # "err_pre" /\ effects' = effects \cup {job[w]}
      BY <1>8 DEF Dispatch, Reaches
    <2>3. receipts[s] = "pending" /\ \A e \in effects : Sid(e) # s
      BY <2>1 DEF ReceiptGuardsDispatch
    <2>4. ReceiptGuardsDispatch'
      BY <1>2, <1>3, <2>1, <2>2, <2>3 DEF ReceiptGuardsDispatch
    <2>5. NoUntrackedEffect' /\ AtMostOnceDispatch'
      BY <2>1, <2>2, <2>3 DEF NoUntrackedEffect, AtMostOnceDispatch
    <2> QED
      BY <1>4, <2>4, <2>5 DEF ReceiptParts
  <1>9. CASE RecordReceipt(w) \/ RecordSuccessFails(w)
    <2>1. PICK r : /\ receipts' = [receipts EXCEPT ![s] = r]
                   /\ pc[w] = "record" /\ pc'[w] = "finalize"
                   /\ effects' = effects
                   /\ r = ReceiptOf(out[w]) \/ r = "unknown_outcome"
      BY <1>9 DEF RecordReceipt, RecordSuccessFails, Reach, TypeOK
    <2>2. \A e \in effects : Sid(e) = s => out[w] # "err_pre"
      BY <2>1 DEF ReceiptGuardsDispatch
    <2>3. \A e \in effects : Sid(e) = s =>
            r \in {"succeeded_ok", "succeeded_bad", "unknown_outcome"}
      BY <2>1, <2>2 DEF ReceiptOf
    <2>4. \A e \in effects : Sid(e) # s => receipts'[Sid(e)] = receipts[Sid(e)]
      BY <2>1 DEF TypeOK
    <2>5. receipts'[s] = r
      BY <1>1, <2>1 DEF TypeOK
    <2>6. \A v \in Workers \ {w} : pc[v] \in {"dispatch", "record"} =>
            receipts'[Sid(job[v])] = receipts[Sid(job[v])]
      BY <1>3, <2>1 DEF TypeOK
    <2>7. ReceiptGuardsDispatch'
      BY <1>2, <2>1, <2>6 DEF ReceiptGuardsDispatch
    <2>8. NoUntrackedEffect'
      <3> HIDE DEF s
      <3> QED
        BY <2>1, <2>3, <2>4, <2>5 DEF NoUntrackedEffect
    <2>9. AtMostOnceDispatch'
      BY <2>1 DEF AtMostOnceDispatch
    <2> QED
      BY <1>4, <2>7, <2>8, <2>9 DEF ReceiptParts
  <1> QED
    BY <1>6, <1>7, <1>8, <1>9 DEF Execute

\* Every step of the plan keeps effects and receipts matched.
LEMMA ReceiptStep ==
    ASSUME ReceiptInv, DurableWorkers = Workers, [Next]_vars
    PROVE  ReceiptParts'
  <1> USE DEF ReceiptInv, ClaimInv
  <1>0. gen \in Nat
    BY BoundsAssumption DEF TypeOK
  <1>1. ASSUME NEW r \in Requests, Compile(r)
        PROVE  ReceiptParts'
    BY <1>0, <1>1, QuietReceipts DEF Compile, workerVars
  <1>2. ASSUME NEW w \in Workers, NEW i \in DOMAIN steps, ClaimStep(w, i)
        PROVE  ReceiptParts'
    <2>1. ExecutorEntry(w, steps[i].type) \in {"receipt", "internal", "finalize"}
      BY DEF ExecutorEntry, TypeOK, StepRecords, StepTypes
    <2> QED
      BY <1>0, <1>2, <2>1, QuietReceipts DEF ClaimStep, TypeOK
  <1>3. ASSUME NEW w \in Workers,
               \/ ClaimNothing(w) \/ ClaimCheckpoint(w) \/ Finalize(w)
               \/ \E i \in DOMAIN steps : \/ ClaimHold(w, i)
                                          \/ ClaimBlocked(w, i)
                                          \/ ClaimRejected(w, i)
        PROVE  ReceiptParts'
    <2>1. /\ gen' = gen /\ receipts' = receipts /\ effects' = effects
          /\ \E stop, status : EndTick(w, stop, status)
      BY <1>3
      DEF ClaimNothing, ClaimCheckpoint, ClaimHold, ClaimBlocked,
          ClaimRejected, Finalize, FinalizeClaim, ClaimLost
    <2>2. \A v \in Workers : pc'[v] \in {"dispatch", "record"} =>
            pc'[v] = pc[v] /\ job'[v] = job[v] /\ out'[v] = out[v]
      BY <2>1, TickEnds DEF Executing
    <2> QED
      BY <1>0, <2>1, <2>2, QuietReceipts
  <1>4. ASSUME NEW w \in Workers, StartRun(w) \/ WorkerLost(w)
        PROVE  ReceiptParts'
    <2>1. /\ gen' = gen /\ receipts' = receipts /\ effects' = effects
          /\ \A v \in Workers : pc'[v] \in {"dispatch", "record"} =>
                pc'[v] = pc[v] /\ job'[v] = job[v] /\ out'[v] = out[v]
      BY <1>4 DEF StartRun, WorkerLost, TypeOK
    <2> QED
      BY <1>0, <2>1, QuietReceipts
  <1>5. CASE \/ \E h \in holds, d \in Decisions : Decide(h, d)
             \/ Resume \/ Cancel \/ UNCHANGED vars \/ GrantExpires
             \/ \E to \in PlanStatuses : Transition(to)
    <2>1. /\ gen' = gen /\ receipts' = receipts /\ effects' = effects
          /\ pc' = pc /\ job' = job /\ out' = out
      BY <1>5 DEF Decide, Resume, Cancel, vars, GrantExpires, Transition,
                  workerVars
    <2> QED
      BY <1>0, <2>1, QuietReceipts
  <1>6. CASE Reconcile
    <2>1. PICK i \in DOMAIN steps, rc \in ReceiptStates : Reconciled(i, rc)
      BY <1>6, Reconciliation
    <2>2. /\ gen' = gen /\ effects' = effects
          /\ pc' = pc /\ job' = job /\ out' = out
      BY <1>6, Reconciliation
    <2>3. /\ steps[i].status \in {"failed", "blocked"}
          /\ rc \in {"reconciled_ok", "reconciled_bad", "unknown_outcome"}
          /\ receipts' = [receipts EXCEPT ![<<gen, i>>] = rc]
      BY <2>1 DEF Reconciled, Reconcilable
    <2>4. \A w \in Workers : Executing(w) => Sid(job[w]) # <<gen, i>>
      BY <2>3 DEF ClaimsMatchSteps, Sid
    <2>5. \A w \in Workers : pc[w] \in {"dispatch", "record"} =>
            receipts'[Sid(job[w])] = receipts[Sid(job[w])]
      BY <2>3, <2>4 DEF Executing, TypeOK
    <2>6. ReceiptGuardsDispatch'
      BY <2>2, <2>5 DEF ReceiptGuardsDispatch
    <2>7. NoUntrackedEffect' /\ AtMostOnceDispatch' /\ EffectsAreOfSteps'
      BY <2>2, <2>3
      DEF NoUntrackedEffect, AtMostOnceDispatch, EffectsAreOfSteps, TypeOK
    <2> QED
      BY <2>6, <2>7 DEF ReceiptParts
  <1> QED
    BY <1>1, <1>2, <1>3, <1>4, <1>5, <1>6, ReceiptExecute
    DEF Next, WorkerStep, Operator, Claim

\* With receipt-aware workers only, ReceiptInv is an invariant.
LEMMA ReceiptInvariance ==
    ASSUME DurableWorkers = Workers
    PROVE  Spec => []ReceiptInv
  <1>1. Init => ReceiptInv
    BY ClaimInvInit
    DEF ReceiptInv, Init, EffectsAreOfSteps, ReceiptGuardsDispatch,
        NoUntrackedEffect, AtMostOnceDispatch
  <1>2. ReceiptInv /\ [Next]_vars => ReceiptInv'
    BY ClaimInvNext, ReceiptStep DEF ReceiptInv, ReceiptParts
  <1> QED
    BY <1>1, <1>2, PTL DEF Spec

\* When every worker uses createDurableReceiptAwareExecutor, a plan step
\* reaches the provider at most once over all retries, lost workers, failed
\* receipt writes, cancellations and resumptions.
THEOREM DispatchAtMostOnce ==
    ASSUME DurableWorkers = Workers
    PROVE  Spec => []AtMostOnceDispatch
  <1>1. ReceiptInv => AtMostOnceDispatch
    BY DEF ReceiptInv
  <1> QED
    BY <1>1, ReceiptInvariance, PTL

\* When every worker uses createDurableReceiptAwareExecutor, an effect at the
\* provider always has a receipt that stops or replays later attempts.
THEOREM EffectsAreTracked ==
    ASSUME DurableWorkers = Workers
    PROVE  Spec => []NoUntrackedEffect
  <1>1. ReceiptInv => NoUntrackedEffect
    BY DEF ReceiptInv
  <1> QED
    BY <1>1, ReceiptInvariance, PTL

-----------------------------------------------------------------------------
(* Steps: which moves a step's row can make.                               *)

\* A claim token is on claimed rows only, and every executing worker has one:
\* a row that was cancelled or decided is nobody's claim.
TokensMatch ==
    /\ \A i \in DOMAIN steps : steps[i].status # "claimed" => steps[i].token = 0
    /\ \A w \in Workers : Executing(w) => job[w].token # 0

\* claimNextStep: promotion, then a hold, a block or a claim.
ClaimMove(i) ==
    /\ steps'[i].approved = steps[i].approved
    /\ Promoted[i].status = "ready"
    /\ \/ steps'[i].status \in {"ready", "blocked"}
       \/ steps'[i].status = "awaiting_approval" /\ NeedsHold(steps[i])
       \/ steps'[i].status = "claimed" /\ MayClaim(steps[i])

\* finalizeClaim, resumeSequentialPlan and cancelDurableExecution.
WorkMove(i) ==
    /\ steps'[i].approved = steps[i].approved
    /\ \/ /\ steps[i].status = "claimed"
          /\ steps'[i].status \in {"completed", "ready", "failed"}
       \/ steps[i].status = "blocked" /\ steps'[i].status = "ready"
       \/ steps[i].status \notin TerminalStep /\ steps'[i].status = "cancelled"

\* decideSequentialPlanApproval.
DecideMove(i) ==
    /\ steps[i].status = "awaiting_approval"
    /\ \/ /\ steps'[i].status = "completed"
          /\ steps[i].type = "approval" /\ steps'[i].approved
       \/ steps'[i].status \in {"ready", "blocked", "failed"}

\* reconcileGrowthControlMutationReceipt.
ReconcileMove(i) ==
    /\ steps'[i].approved = steps[i].approved
    /\ Reconcilable(i)
    /\ steps'[i].status \in {"completed", "blocked"}

StepMoves ==
    /\ gen' = gen
    /\ DOMAIN steps' = DOMAIN steps
    /\ \A i \in DOMAIN steps :
        /\ RowKept(i)
        /\ steps'[i].status # "claimed" => steps'[i].token = 0
        /\ \/ /\ steps'[i].status = steps[i].status
              /\ steps'[i].approved = steps[i].approved
           \/ ClaimMove(i) \/ WorkMove(i) \/ DecideMove(i) \/ ReconcileMove(i)

\* What promotion does to a row.
LEMMA PromotedRows ==
    ASSUME TypeOK, NEW i \in DOMAIN steps
    PROVE  /\ Promoted[i].type = steps[i].type
           /\ Promoted[i].deps = steps[i].deps
           /\ Promoted[i].required = steps[i].required
           /\ Promoted[i].grant = steps[i].grant
           /\ Promoted[i].approved = steps[i].approved
           /\ Promoted[i].token = steps[i].token
           /\ Promoted[i].status # steps[i].status =>
                /\ Promoted[i].status = "ready" /\ steps[i].status = "pending"
                /\ DependenciesCompleted(steps[i], steps)
  BY DEF Promoted, TypeOK, StepRecords

\* A transaction of claimNextStep that promotes the steps and then rewrites
\* the status, and perhaps the claim columns, of the next one.
LEMMA PromotingMoves ==
    ASSUME ClaimInv, TokensMatch, NEW i \in DOMAIN steps, IsNext(i),
           gen' = gen, DOMAIN steps' = DOMAIN steps,
           \A j \in DOMAIN steps \ {i} : steps'[j] = Promoted[j],
           steps'[i].type = Promoted[i].type,
           steps'[i].deps = Promoted[i].deps,
           steps'[i].required = Promoted[i].required,
           steps'[i].grant = Promoted[i].grant,
           steps'[i].approved = Promoted[i].approved,
           \/ /\ \/ steps'[i].status = "blocked"
                 \/ steps'[i].status = "awaiting_approval" /\ NeedsHold(steps[i])
              /\ steps'[i].token = Promoted[i].token
           \/ steps'[i].status = "claimed" /\ MayClaim(steps[i])
    PROVE  StepMoves
  <1>0. TypeOK
    BY DEF ClaimInv
  <1>1. ASSUME NEW j \in DOMAIN steps \ {i}
        PROVE  /\ RowKept(j)
               /\ steps'[j].status # "claimed" => steps'[j].token = 0
               /\ \/ /\ steps'[j].status = steps[j].status
                     /\ steps'[j].approved = steps[j].approved
                  \/ ClaimMove(j)
    BY <1>0, PromotedRows DEF RowKept, TokensMatch, ClaimMove
  <1>2. /\ RowKept(i) /\ ClaimMove(i)
        /\ steps'[i].status # "claimed" => steps'[i].token = 0
    <2>1. Promoted[i].status = "ready" /\ steps[i].status \in {"pending", "ready"}
      BY <1>0, NextStep
    <2>2. steps[i].token = 0
      BY <2>1 DEF TokensMatch
    <2> QED
      BY <1>0, <2>1, <2>2, PromotedRows DEF RowKept, ClaimMove
  <1> QED
    BY <1>1, <1>2 DEF StepMoves

\* Every transaction but a compilation moves steps along these edges only.
LEMMA StepsMove ==
    ASSUME ClaimInv, TokensMatch, [Next]_vars,
           ~ \E r \in Requests : Compile(r)
    PROVE  StepMoves
  <1> USE DEF ClaimInv
  <1>0. PICK n \in 0..MaxSteps : steps \in [1..n -> StepRecords]
    BY DEF TypeOK
  <1>1. ASSUME gen' = gen, steps' = steps
        PROVE  StepMoves
    BY <1>1 DEF StepMoves, RowKept, TokensMatch
  <1>2. ASSUME NEW w \in Workers, NEW i \in DOMAIN steps, ClaimStep(w, i)
        PROVE  StepMoves
    <2>1. /\ gen' = gen /\ DOMAIN steps' = DOMAIN steps
          /\ \A j \in DOMAIN steps \ {i} : steps'[j] = Promoted[j]
          /\ IsNext(i) /\ MayClaim(steps[i])
      BY <1>2, PromotedSteps DEF ClaimStep
    <2>2. /\ steps'[i].type = Promoted[i].type
          /\ steps'[i].deps = Promoted[i].deps
          /\ steps'[i].required = Promoted[i].required
          /\ steps'[i].grant = Promoted[i].grant
          /\ steps'[i].approved = Promoted[i].approved
          /\ steps'[i].status = "claimed"
      BY <1>2, PromotedSteps DEF ClaimStep, StepRecords
    <2> QED
      BY <2>1, <2>2, PromotingMoves
  <1>3. ASSUME NEW w \in Workers, NEW i \in DOMAIN steps,
               ClaimHold(w, i) \/ ClaimBlocked(w, i)
        PROVE  StepMoves
    <2>1. /\ gen' = gen /\ DOMAIN steps' = DOMAIN steps
          /\ \A j \in DOMAIN steps \ {i} : steps'[j] = Promoted[j]
          /\ IsNext(i)
      BY <1>3, PromotedSteps DEF ClaimHold, ClaimBlocked
    <2>2. /\ steps'[i].type = Promoted[i].type
          /\ steps'[i].deps = Promoted[i].deps
          /\ steps'[i].required = Promoted[i].required
          /\ steps'[i].grant = Promoted[i].grant
          /\ steps'[i].approved = Promoted[i].approved
          /\ steps'[i].token = Promoted[i].token
          /\ \/ steps'[i].status = "blocked"
             \/ steps'[i].status = "awaiting_approval" /\ NeedsHold(steps[i])
      <3>1. CASE ClaimHold(w, i)
        BY <3>1, PromotedSteps DEF ClaimHold, StepRecords
      <3>2. CASE ClaimBlocked(w, i)
        BY <3>2, PromotedSteps DEF ClaimBlocked, StepRecords
      <3> QED
        BY <1>3, <3>1, <3>2
    <2> QED
      BY <2>1, <2>2, PromotingMoves
  <1>4. ASSUME NEW w \in Workers, FinalizeClaim(w)
        PROVE  StepMoves
    <2> DEFINE i == job[w].idx
               status == FinalStatus(steps[i], out[w])
    <2>1. /\ i \in DOMAIN steps /\ Executing(w) /\ job[w].gen = gen
          /\ steps[i].token = job[w].token
          /\ steps' = [steps EXCEPT ![i].status = status, ![i].token = 0]
          /\ gen' = gen
      BY <1>4 DEF FinalizeClaim, ClaimHeld, Executing
    <2>2. status \in {"completed", "ready", "failed"}
      BY DEF FinalStatus
    <2>3. steps[i].status = "claimed"
      BY <2>1 DEF TokensMatch
    <2> HIDE DEF i, status
    <2>4. /\ DOMAIN steps' = DOMAIN steps
          /\ \A j \in DOMAIN steps \ {i} : steps'[j] = steps[j]
          /\ steps'[i].status = status /\ steps'[i].token = 0
          /\ steps'[i].type = steps[i].type /\ steps'[i].deps = steps[i].deps
          /\ steps'[i].required = steps[i].required
          /\ steps'[i].grant = steps[i].grant
          /\ steps'[i].approved = steps[i].approved
      BY <1>0, <2>1 DEF StepRecords
    <2> QED
      BY <2>1, <2>2, <2>3, <2>4 DEF StepMoves, RowKept, WorkMove, TokensMatch
  <1>5. ASSUME NEW h \in holds, NEW d \in Decisions, Decide(h, d)
        PROVE  StepMoves
    <2> DEFINE i == h.idx
    <2>1. /\ i \in DOMAIN steps /\ steps[i].status = "awaiting_approval"
          /\ gen' = gen /\ DOMAIN steps' = DOMAIN steps
          /\ \A j \in DOMAIN steps \ {i} : steps'[j] = steps[j]
      BY <1>5 DEF Decide
    <2>2. /\ steps'[i].status = DecidedStep(steps[i], d)
          /\ d = "approved" => steps'[i].approved
          /\ steps'[i].token = steps[i].token
          /\ steps'[i].type = steps[i].type /\ steps'[i].deps = steps[i].deps
          /\ steps'[i].required = steps[i].required
          /\ steps'[i].grant = steps[i].grant
      <3>1. steps[i] \in StepRecords
        BY <1>0, <2>1
      <3>2. steps' = [steps EXCEPT ![i] =
                        [steps[i] EXCEPT !.status = DecidedStep(steps[i], d),
                                         !.approved = (d = "approved")]]
        BY <1>5 DEF Decide
      <3>3. steps'[i] = [steps[i] EXCEPT !.status = DecidedStep(steps[i], d),
                                         !.approved = (d = "approved")]
        BY <1>0, <2>1, <3>2
      <3>4. steps'[i].approved = (d = "approved")
        BY <3>1, <3>3 DEF StepRecords
      <3>5. d = "approved" => steps'[i].approved
        BY <3>4, Zenon
      <3> HIDE DEF i
      <3>6. /\ steps'[i].status = DecidedStep(steps[i], d)
            /\ steps'[i].token = steps[i].token
            /\ steps'[i].type = steps[i].type /\ steps'[i].deps = steps[i].deps
            /\ steps'[i].required = steps[i].required
            /\ steps'[i].grant = steps[i].grant
        BY <3>1, <3>3 DEF StepRecords
      <3> QED
        BY <3>5, <3>6
    <2>3. \/ /\ DecidedStep(steps[i], d) = "completed"
             /\ steps[i].type = "approval" /\ d = "approved"
          \/ DecidedStep(steps[i], d) \in {"ready", "blocked", "failed"}
      BY DEF Decisions, DecidedStep
    <2> HIDE DEF i
    <2> QED
      BY <2>1, <2>2, <2>3 DEF StepMoves, RowKept, DecideMove, TokensMatch
  <1>6. CASE Resume
    <2>1. /\ gen' = gen /\ DOMAIN steps' = DOMAIN steps
          /\ \A j \in DOMAIN steps :
                \/ steps'[j] = steps[j]
                \/ /\ steps[j].status = "blocked"
                   /\ steps'[j] = [steps[j] EXCEPT !.status = "ready"]
      BY <1>6 DEF Resume, Resumable
    <2>2. \A j \in DOMAIN steps : steps'[j] # steps[j] =>
            /\ RowKept(j) /\ WorkMove(j) /\ steps'[j].token = 0
      BY <1>0, <2>1 DEF RowKept, WorkMove, TokensMatch, StepRecords
    <2> QED
      BY <2>1, <2>2 DEF StepMoves, RowKept, TokensMatch
  <1>7. CASE Cancel
    <2>1. /\ gen' = gen /\ DOMAIN steps' = DOMAIN steps
          /\ \A j \in DOMAIN steps :
                \/ steps'[j] = steps[j]
                \/ /\ steps[j].status \notin TerminalStep
                   /\ steps'[j] = [steps[j] EXCEPT !.status = "cancelled",
                                                   !.token = 0]
      BY <1>7 DEF Cancel, Cancellable
    <2>2. ASSUME NEW j \in DOMAIN steps, steps'[j] # steps[j]
          PROVE  RowKept(j) /\ WorkMove(j) /\ steps'[j].token = 0
      <3>1. steps[j] \in StepRecords
        BY <1>0
      <3>2. steps'[j] = [steps[j] EXCEPT !.status = "cancelled", !.token = 0]
        BY <2>1, <2>2
      <3>3. /\ steps'[j].status = "cancelled" /\ steps'[j].token = 0
            /\ steps'[j].type = steps[j].type /\ steps'[j].deps = steps[j].deps
            /\ steps'[j].required = steps[j].required
            /\ steps'[j].grant = steps[j].grant
            /\ steps'[j].approved = steps[j].approved
        BY <3>1, <3>2 DEF StepRecords
      <3> QED
        BY <2>1, <2>2, <3>3 DEF RowKept, WorkMove
    <2> QED
      BY <2>1, <2>2 DEF StepMoves, RowKept, TokensMatch
  <1>8. ASSUME NEW w \in Workers,
               \/ ClaimNothing(w) \/ ClaimCheckpoint(w)
               \/ \E i \in DOMAIN steps : ClaimRejected(w, i)
               \/ Execute(w) \/ ClaimLost(w) \/ StartRun(w) \/ WorkerLost(w)
        PROVE  StepMoves
    BY <1>8, <1>1
    DEF ClaimNothing, ClaimCheckpoint, ClaimRejected, ClaimLost, StartRun,
        WorkerLost, Execute, ExecuteInternal, ReplayReceipt, RefuseReceipt,
        OpenReceipt, ReceiptUnavailable, Dispatch, RecordReceipt,
        RecordSuccessFails, RecordFails, Reach
  <1>9. CASE \/ UNCHANGED vars \/ GrantExpires
             \/ \E to \in PlanStatuses : Transition(to)
    BY <1>9, <1>1 DEF vars, GrantExpires, Transition
  <1>10. CASE Reconcile
    <2>1. PICK i \in DOMAIN steps, rc \in ReceiptStates : Reconciled(i, rc)
      BY <1>10, Reconciliation
    <2>2. gen' = gen
      BY <1>10, Reconciliation
    <2>3. ReconcileMove(i) /\ RowKept(i) /\ steps'[i].token = 0
      BY <2>1 DEF Reconciled, ReconcileMove
    <2>4. /\ DOMAIN steps' = DOMAIN steps
          /\ \A j \in DOMAIN steps \ {i} : steps'[j] = steps[j]
      BY <2>1 DEF Reconciled
    <2> QED
      BY <2>2, <2>3, <2>4 DEF StepMoves, RowKept, TokensMatch
  <1> QED
    BY <1>2, <1>3, <1>4, <1>5, <1>6, <1>7, <1>8, <1>9, <1>10
    DEF Next, WorkerStep, Operator, Claim, Finalize

\* A worker executes a step that it executed before or has just claimed.
LEMMA WorkersMove ==
    ASSUME ClaimInv, [Next]_vars, NEW v \in Workers, Executing(v)'
    PROVE  \/ Executing(v) /\ job'[v] = job[v]
           \/ \E i \in DOMAIN steps : ClaimStep(v, i)
  <1> USE DEF ClaimInv
  <1>1. ASSUME NEW w \in Workers, NEW i \in DOMAIN steps, ClaimStep(w, i), v # w
        PROVE  Executing(v) /\ job'[v] = job[v]
    BY <1>1 DEF ClaimStep, Executing, TypeOK
  <1>2. ASSUME NEW w \in Workers,
               \/ ClaimNothing(w) \/ ClaimCheckpoint(w) \/ Finalize(w)
               \/ \E i \in DOMAIN steps : \/ ClaimHold(w, i)
                                          \/ ClaimBlocked(w, i)
                                          \/ ClaimRejected(w, i)
        PROVE  Executing(v) /\ job'[v] = job[v]
    <2>1. \E stop, status : EndTick(w, stop, status)
      BY <1>2
      DEF ClaimNothing, ClaimCheckpoint, ClaimHold, ClaimBlocked,
          ClaimRejected, Finalize, FinalizeClaim, ClaimLost
    <2>2. v # w /\ pc'[v] = pc[v] /\ job'[v] = job[v]
      BY <2>1, TickEnds
    <2> QED
      BY <2>2 DEF Executing
  <1>3. ASSUME NEW w \in Workers, Execute(w)
        PROVE  Executing(v) /\ job'[v] = job[v]
    <2>1. /\ pc[w] \in {"internal", "receipt", "dispatch", "record"}
          /\ job' = job /\ \E next : pc' = [pc EXCEPT ![w] = next]
      BY <1>3
      DEF Execute, ExecuteInternal, ReplayReceipt, RefuseReceipt, OpenReceipt,
          ReceiptUnavailable, Dispatch, RecordReceipt, RecordSuccessFails,
          RecordFails, Reach
    <2> QED
      BY <2>1 DEF Executing, TypeOK
  <1>4. ASSUME NEW w \in Workers, StartRun(w) \/ WorkerLost(w)
        PROVE  Executing(v) /\ job'[v] = job[v]
    BY <1>4 DEF StartRun, WorkerLost, Executing, TypeOK
  <1>5. CASE Operator \/ GrantExpires \/ UNCHANGED vars
    <2>1. pc' = pc /\ job' = job
      BY <1>5, Reconciliation
      DEF Operator, Compile, Decide, Resume, Transition, Cancel, GrantExpires,
          vars, workerVars
    <2> QED
      BY <2>1 DEF Executing
  <1> QED
    BY <1>1, <1>2, <1>3, <1>4, <1>5 DEF Next, WorkerStep, Claim

\* The tokens stay matched.
LEMMA TokensStep ==
    ASSUME ClaimInv, TokensMatch, [Next]_vars
    PROVE  TokensMatch'
  <1> USE DEF ClaimInv
  <1>1. \A i \in DOMAIN steps' :
            steps'[i].status # "claimed" => steps'[i].token = 0
    <2>1. ASSUME NEW r \in Requests, Compile(r)
          PROVE  \A i \in DOMAIN steps' : steps'[i].token = 0
      BY <2>1, CompileType DEF Compile, CompiledStep
    <2> QED
      BY <2>1, StepsMove DEF StepMoves
  <1>2. ASSUME NEW v \in Workers, Executing(v)'
        PROVE  job'[v].token # 0
    <2>1. CASE Executing(v) /\ job'[v] = job[v]
      BY <2>1 DEF TokensMatch
    <2>2. ASSUME NEW i \in DOMAIN steps, ClaimStep(v, i)
          PROVE  job'[v].token # 0
      BY <2>2 DEF ClaimStep, TypeOK
    <2> QED
      BY <1>2, <2>1, <2>2, WorkersMove
  <1> QED
    BY <1>1, <1>2 DEF TokensMatch

\* Dependencies are steps of the same plan.
DepsInPlan == \A i \in DOMAIN steps : steps[i].deps \subseteq DOMAIN steps

\* The authority under which claimNextStep dispatches a step.
Authorized(s) ==
    /\ \/ s.approved
       \/ s.grant = "allowed"
       \/ s.grant = "none" /\ s.type # "approval" /\ ~s.required
    /\ s.grant \in {"none", "exact", "allowed"}

\* A step that a worker executes, or that has a receipt, has its authority for
\* good: with it no hold is ever opened again.  Reconciliation relies on this,
\* it completes a step without looking at its approval.
ReceiptAuthority ==
    /\ \A w \in Workers :
        Executing(w) /\ job[w].gen = gen => Authorized(steps[job[w].idx])
    /\ \A i \in DOMAIN steps : receipts[<<gen, i>>] # "none" =>
        Authorized(steps[i]) /\ steps[i].status # "awaiting_approval"
    /\ \A g \in 1..MaxCompiles, i \in 1..MaxSteps :
        g > gen => receipts[<<g, i>>] = "none"

StepInv ==
    ClaimInv /\ TokensMatch /\ DepsInPlan /\ DependencyOrder
      /\ OnlyAuthorizedExecution /\ ReceiptAuthority

\* Moving along the edges, a finished step stays as it is, or is a failed one
\* whose receipt has no known outcome.
LEMMA TerminalMoves ==
    ASSUME TypeOK, StepMoves, NEW i \in DOMAIN steps,
           steps[i].status \in TerminalStep
    PROVE  \/ steps'[i].status = steps[i].status
           \/ /\ steps[i].status = "failed" /\ Reconcilable(i)
              /\ steps'[i].status \in {"completed", "blocked"}
  <1>1. ~ClaimMove(i)
    BY PromotedSteps DEF ClaimMove, TerminalStep
  <1>2. ~WorkMove(i) /\ ~DecideMove(i)
    BY DEF WorkMove, DecideMove, TerminalStep
  <1>3. ReconcileMove(i) =>
            /\ steps[i].status = "failed" /\ Reconcilable(i)
            /\ steps'[i].status \in {"completed", "blocked"}
    BY DEF ReconcileMove, Reconcilable, TerminalStep
  <1> QED
    BY <1>1, <1>2, <1>3 DEF StepMoves

\* A step is taken up only when its dependencies have completed.
LEMMA DependencyMoves ==
    ASSUME StepInv, StepMoves
    PROVE  DepsInPlan' /\ DependencyOrder'
  <1> USE DEF StepInv, ClaimInv
  <1>1. DepsInPlan'
    BY DEF StepMoves, RowKept, DepsInPlan
  <1>2. ASSUME NEW i \in DOMAIN steps,
               steps'[i].status \notin {"pending", "cancelled"},
               NEW d \in steps[i].deps
        PROVE  steps'[d].status = "completed"
    <2>1. d \in DOMAIN steps
      BY DEF DepsInPlan
    <2>2. steps[d].status = "completed"
      <3>1. CASE steps[i].status \notin {"pending", "cancelled"}
        BY <3>1 DEF DependencyOrder
      <3>2. CASE ClaimMove(i)
        <4>1. \/ steps[i].status = "ready"
              \/ DependenciesCompleted(steps[i], steps)
          BY <3>2, PromotedRows DEF ClaimMove
        <4> QED
          BY <4>1 DEF DependencyOrder, DependenciesCompleted
      <3>3. CASE WorkMove(i) \/ DecideMove(i) \/ ReconcileMove(i)
        BY <1>2, <3>1, <3>3 DEF WorkMove, DecideMove, ReconcileMove, Reconcilable
      <3> QED
        BY <1>2, <3>1, <3>2, <3>3 DEF StepMoves
    <2> QED
      BY <2>1, <2>2, TerminalMoves DEF TerminalStep
  <1>3. DependencyOrder'
    BY <1>2 DEF StepMoves, RowKept, DependencyOrder
  <1> QED
    BY <1>1, <1>3

\* What claimNextStep accepts is authorised.
LEMMA ClaimedIsAuthorized ==
    ASSUME TypeOK, NEW i \in DOMAIN steps, MayClaim(steps[i])
    PROVE  Authorized(steps[i])
  <1>1. steps[i].grant \in Grants /\ steps[i].approved \in BOOLEAN
        /\ steps[i].required \in BOOLEAN /\ expired \in BOOLEAN
    BY DEF TypeOK, StepRecords
  <1>2. DelegationDecision(steps[i]) = "dispatch_allowed" =>
          \/ steps[i].grant = "exact" /\ steps[i].approved
          \/ steps[i].grant = "allowed"
    BY <1>1 DEF DelegationDecision, Grants
  <1>3. DelegationDecision(steps[i]) = "no_grant" => steps[i].grant = "none"
    BY <1>1 DEF DelegationDecision, Grants
  <1>4. CASE DelegationDecision(steps[i]) = "dispatch_allowed"
    BY <1>2, <1>4 DEF Authorized
  <1>5. CASE /\ DelegationDecision(steps[i]) = "no_grant"
             /\ ~ApprovalRequired(steps[i])
    BY <1>3, <1>5 DEF ApprovalRequired, Authorized
  <1> QED
    BY <1>4, <1>5 DEF MayClaim

\* An authorised step needs no hold.
LEMMA AuthorizedNeedsNoHold ==
    ASSUME TypeOK, NEW i \in DOMAIN steps, Authorized(steps[i])
    PROVE  ~NeedsHold(steps[i])
  <1>1. steps[i].grant \in Grants /\ steps[i].approved \in BOOLEAN
        /\ steps[i].required \in BOOLEAN /\ expired \in BOOLEAN
    BY DEF TypeOK, StepRecords
  <1>2. steps[i].grant = "exact" => steps[i].approved
    BY DEF Authorized
  <1>3. steps[i].grant \in {"none", "exact", "allowed"}
    BY DEF Authorized
  <1>4. DelegationDecision(steps[i]) # "hold"
    BY <1>1, <1>2, <1>3 DEF DelegationDecision
  <1>5. DelegationDecision(steps[i]) = "no_grant" => steps[i].grant = "none"
    BY <1>1 DEF DelegationDecision, Grants
  <1>6. steps[i].grant = "none" => ~ApprovalRequired(steps[i])
    BY DEF Authorized, ApprovalRequired
  <1> QED
    BY <1>4, <1>5, <1>6 DEF NeedsHold

\* Moving along the edges, a step with authority keeps it.
LEMMA AuthorityKept ==
    ASSUME TypeOK, StepMoves, NEW i \in DOMAIN steps, Authorized(steps[i]),
           steps[i].status # "awaiting_approval"
    PROVE  Authorized(steps'[i]) /\ steps'[i].status # "awaiting_approval"
  <1>1. RowKept(i)
    BY DEF StepMoves
  <1>2. ~DecideMove(i) /\ ~NeedsHold(steps[i])
    BY AuthorizedNeedsNoHold DEF DecideMove
  <1>3. /\ steps'[i].approved = steps[i].approved
        /\ steps'[i].status # "awaiting_approval"
    BY <1>2 DEF StepMoves, ClaimMove, WorkMove, ReconcileMove
  <1> QED
    BY <1>1, <1>3 DEF RowKept, Authorized

\* Only a worker at the receipt of its step makes the first write to it.
LEMMA ReceiptsMove ==
    ASSUME ClaimInv, [Next]_vars, NEW s \in StepIds, receipts'[s] # "none"
    PROVE  receipts[s] # "none" \/ \E w \in Workers : Executing(w) /\ Sid(job[w]) = s
  <1> USE DEF ClaimInv
  <1>1. ASSUME NEW w \in Workers, Claim(w) \/ Finalize(w) \/ StartRun(w) \/ WorkerLost(w)
        PROVE  receipts' = receipts
    BY <1>1
    DEF Claim, ClaimNothing, ClaimCheckpoint, ClaimHold, ClaimBlocked, ClaimRejected,
        ClaimStep, Finalize, FinalizeClaim, ClaimLost, StartRun, WorkerLost
  <1>2. ASSUME NEW w \in Workers, Execute(w), receipts'[s] # receipts[s]
        PROVE  Executing(w) /\ Sid(job[w]) = s
    <2>1. pc[w] \in {"internal", "receipt", "dispatch", "record"}
      BY <1>2
      DEF Execute, ExecuteInternal, ReplayReceipt, RefuseReceipt, OpenReceipt,
          ReceiptUnavailable, Dispatch, RecordReceipt, RecordSuccessFails,
          RecordFails
    <2>2. receipts' = receipts \/ \E r : receipts' = [receipts EXCEPT ![Sid(job[w])] = r]
      BY <1>2
      DEF Execute, ExecuteInternal, ReplayReceipt, RefuseReceipt, OpenReceipt,
          ReceiptUnavailable, Dispatch, RecordReceipt, RecordSuccessFails,
          RecordFails
    <2> QED
      BY <1>2, <2>1, <2>2 DEF Executing, TypeOK
  <1>3. CASE Reconcile
    <2>1. PICK i \in DOMAIN steps, rc \in ReceiptStates : Reconciled(i, rc)
      BY <1>3, Reconciliation
    <2>2. /\ receipts[<<gen, i>>] # "none"
          /\ receipts' = [receipts EXCEPT ![<<gen, i>>] = rc]
      BY <2>1 DEF Reconciled, Reconcilable, ReadbackRequired
    <2> QED
      BY <2>2 DEF TypeOK
  <1>4. CASE \/ \E r \in Requests : Compile(r)
             \/ \E h \in holds, d \in Decisions : Decide(h, d)
             \/ Resume \/ Cancel \/ GrantExpires \/ UNCHANGED vars
             \/ \E to \in PlanStatuses : Transition(to)
    BY <1>4 DEF Compile, Decide, Resume, Cancel, GrantExpires, Transition, vars
  <1> QED
    BY <1>1, <1>2, <1>3, <1>4 DEF Next, WorkerStep, Operator

\* Executed steps and steps with a receipt keep their authority.
LEMMA AuthorityStep ==
    ASSUME StepInv, [Next]_vars
    PROVE  ReceiptAuthority'
  <1> USE DEF StepInv, ClaimInv
  <1>g. gen \in Nat /\ gen \in 0..MaxCompiles
    BY BoundsAssumption DEF TypeOK
  <1>x. ClaimsMatchSteps' /\ TypeOK'
    BY ClaimInvNext
  <1>r. ASSUME NEW g \in 1..MaxCompiles, NEW i \in 1..MaxSteps, g > gen
        PROVE  receipts'[<<g, i>>] = "none"
    <2>1. <<g, i>> \in StepIds /\ receipts[<<g, i>>] = "none"
      BY <1>r DEF StepIds, ReceiptAuthority
    <2>2. \A w \in Workers : Executing(w) => Sid(job[w]) # <<g, i>>
      BY <1>g, <1>r DEF ClaimsMatchSteps, Sid
    <2> QED
      BY <2>1, <2>2, ReceiptsMove
  <1>1. ASSUME NEW r \in Requests, Compile(r)
        PROVE  ReceiptAuthority'
    <2>1. /\ gen' = gen + 1 /\ gen' \in 1..MaxCompiles
          /\ DOMAIN steps' = 1..Len(r) /\ Len(r) \in 1..MaxSteps
          /\ pc' = pc /\ job' = job
      BY <1>1, CompileType DEF Compile, ValidRequest, workerVars
    <2>2. \A w \in Workers : Executing(w)' => job'[w].gen # gen'
      BY <1>g, <2>1 DEF ClaimsMatchSteps, Executing
    <2>3. \A i \in DOMAIN steps' : receipts'[<<gen', i>>] = "none"
      BY <1>g, <1>r, <2>1, BoundsAssumption
    <2> QED
      BY <1>g, <1>r, <2>1, <2>2, <2>3 DEF ReceiptAuthority
  <1>2. ASSUME ~ \E r \in Requests : Compile(r)
        PROVE  ReceiptAuthority'
    <2>1. StepMoves
      BY <1>2, StepsMove
    <2>2. gen' = gen /\ DOMAIN steps' = DOMAIN steps
      BY <2>1 DEF StepMoves
    <2>3. ASSUME NEW w \in Workers, Executing(w), job[w].gen = gen
          PROVE  /\ job[w].idx \in DOMAIN steps
                 /\ Authorized(steps'[job[w].idx])
                 /\ steps'[job[w].idx].status # "awaiting_approval"
      <3>1. /\ job[w].idx \in DOMAIN steps
            /\ steps[job[w].idx].status # "awaiting_approval"
        BY <2>3 DEF ClaimsMatchSteps
      <3>2. Authorized(steps[job[w].idx])
        BY <2>3 DEF ReceiptAuthority
      <3> QED
        BY <2>1, <3>1, <3>2, AuthorityKept
    <2>4. ASSUME NEW w \in Workers, Executing(w)', job'[w].gen = gen
          PROVE  Authorized(steps'[job'[w].idx])
      <3>1. CASE Executing(w) /\ job'[w] = job[w]
        BY <2>3, <2>4, <3>1
      <3>2. ASSUME NEW i \in DOMAIN steps, ClaimStep(w, i)
            PROVE  Authorized(steps'[job'[w].idx])
        <4>1. /\ job'[w].idx = i /\ MayClaim(steps[i])
              /\ steps[i].status # "awaiting_approval"
          BY <3>2, NextStep DEF ClaimStep, TypeOK
        <4> QED
          BY <2>1, <4>1, ClaimedIsAuthorized, AuthorityKept
      <3> QED
        BY <2>4, <3>1, <3>2, WorkersMove
    <2>5. ASSUME NEW i \in DOMAIN steps, receipts'[<<gen, i>>] # "none"
          PROVE  Authorized(steps'[i]) /\ steps'[i].status # "awaiting_approval"
      <3>0. <<gen, i>> \in StepIds
        BY <1>g, BoundsAssumption DEF TypeOK, StepsAreCompiled, StepIds
      <3>1. CASE receipts[<<gen, i>>] # "none"
        BY <2>1, <3>1, AuthorityKept DEF ReceiptAuthority
      <3>2. ASSUME NEW w \in Workers, Executing(w), Sid(job[w]) = <<gen, i>>
            PROVE  Authorized(steps'[i]) /\ steps'[i].status # "awaiting_approval"
        BY <2>3, <3>2 DEF Sid
      <3> QED
        BY <2>5, <3>0, <3>1, <3>2, ReceiptsMove
    <2> QED
      BY <1>r, <2>2, <2>4, <2>5 DEF ReceiptAuthority
  <1> QED
    BY <1>1, <1>2

\* A step gets to claimed, and from there to completed, with its authority.
LEMMA AuthorizedMoves ==
    ASSUME StepInv, StepMoves
    PROVE  OnlyAuthorizedExecution'
  <1> USE DEF StepInv, ClaimInv
  <1>1. ASSUME NEW i \in DOMAIN steps,
               steps'[i].status \in {"claimed", "completed"}
        PROVE  /\ \/ steps'[i].approved
                  \/ steps[i].grant = "allowed"
                  \/ /\ steps[i].grant = "none" /\ steps[i].type # "approval"
                     /\ ~steps[i].required
               /\ steps'[i].status = "claimed" =>
                    steps[i].grant \in {"none", "exact", "allowed"}
    <2>1. CASE /\ steps'[i].status = steps[i].status
               /\ steps'[i].approved = steps[i].approved
      BY <1>1, <2>1 DEF OnlyAuthorizedExecution
    <2>2. CASE ClaimMove(i)
      <3>1. MayClaim(steps[i]) /\ steps'[i].approved = steps[i].approved
        BY <1>1, <2>2 DEF ClaimMove
      <3> QED
        BY <3>1, ClaimedIsAuthorized DEF Authorized
    <2>3. CASE WorkMove(i)
      <3>1. /\ steps[i].status = "claimed" /\ steps'[i].status = "completed"
            /\ steps'[i].approved = steps[i].approved
        BY <1>1, <2>3 DEF WorkMove
      <3> QED
        BY <3>1 DEF OnlyAuthorizedExecution
    <2>4. CASE DecideMove(i)
      BY <1>1, <2>4 DEF DecideMove
    <2>5. CASE ReconcileMove(i)
      <3>1. /\ steps'[i].status = "completed"
            /\ steps'[i].approved = steps[i].approved
            /\ receipts[<<gen, i>>] # "none"
        BY <1>1, <2>5 DEF ReconcileMove, Reconcilable, ReadbackRequired
      <3> QED
        BY <3>1 DEF ReceiptAuthority, Authorized
    <2> QED
      BY <2>1, <2>2, <2>3, <2>4, <2>5 DEF StepMoves
  <1>2. DOMAIN steps' = DOMAIN steps /\ \A i \in DOMAIN steps : RowKept(i)
    BY DEF StepMoves
  <1> QED
    BY <1>1, <1>2 DEF OnlyAuthorizedExecution, RowKept

\* A compilation starts all steps over.
LEMMA CompileStepInv ==
    ASSUME StepInv, NEW r \in Requests, Compile(r)
    PROVE  DepsInPlan' /\ DependencyOrder' /\ OnlyAuthorizedExecution'
  <1>1. /\ DOMAIN steps' = 1..Len(r)
        /\ \A i \in 1..Len(r) : steps'[i] = CompiledStep(r, i)
    BY CompileType DEF Compile, StepInv
  <1>2. \A i \in 1..Len(r) :
            /\ steps'[i].deps = {j \in 1..Len(r) : r[j].key \in DependsOn(r, i)}
            /\ steps'[i].status \in {"ready", "pending"}
            /\ steps'[i].status # "pending" => DependsOn(r, i) = {}
    BY <1>1 DEF CompiledStep
  <1>3. DepsInPlan'
    BY <1>1, <1>2 DEF DepsInPlan
  <1>4. DependencyOrder'
    BY <1>1, <1>2 DEF DependencyOrder
  <1>5. OnlyAuthorizedExecution'
    BY <1>1, <1>2 DEF OnlyAuthorizedExecution
  <1> QED
    BY <1>3, <1>4, <1>5

\* StepInv is an invariant of the plan.
LEMMA StepInvariance == Spec => []StepInv
  <1>1. Init => StepInv
    <2> SUFFICES ASSUME Init PROVE StepInv
      OBVIOUS
    <2>1. ClaimInv /\ DOMAIN steps = {} /\ \A w \in Workers : ~Executing(w)
      BY ClaimInvInit DEF Init, Executing
    <2> QED
      BY <2>1 DEF StepInv, TokensMatch, DepsInPlan, DependencyOrder, Init, StepIds,
                  OnlyAuthorizedExecution, ReceiptAuthority
  <1>2. StepInv /\ [Next]_vars => StepInv'
    <2> SUFFICES ASSUME StepInv, [Next]_vars PROVE StepInv'
      OBVIOUS
    <2>1. ClaimInv' /\ TokensMatch' /\ ReceiptAuthority'
      BY ClaimInvNext, TokensStep, AuthorityStep DEF StepInv
    <2>2. CASE \E r \in Requests : Compile(r)
      BY <2>1, <2>2, CompileStepInv DEF StepInv
    <2>3. CASE ~ \E r \in Requests : Compile(r)
      <3>1. StepMoves
        BY <2>3, StepsMove DEF StepInv
      <3> QED
        BY <2>1, <3>1, DependencyMoves, AuthorizedMoves DEF StepInv
    <2> QED
      BY <2>2, <2>3
  <1> QED
    BY <1>1, <1>2, PTL DEF Spec

\* claimNextStep never takes up a step before all it depends on has completed,
\* and what has completed stays so, for every plan and every interleaving.
THEOREM DependenciesComeFirst == Spec => []DependencyOrder
  <1>1. StepInv => DependencyOrder
    BY DEF StepInv
  <1> QED
    BY <1>1, StepInvariance, PTL

\* A step is claimed or completed only under the authority its policy asks
\* for (claimNextStep's gates, decideSequentialPlanApproval).
THEOREM ExecutionIsAuthorized == Spec => []OnlyAuthorizedExecution
  <1>1. StepInv => OnlyAuthorizedExecution
    BY DEF StepInv
  <1> QED
    BY <1>1, StepInvariance, PTL

\* Within one compilation nothing reopens or relabels a finished step but a
\* reconciliation of a failed step whose receipt has no known outcome: a late
\* finalizer has lost its token, and decisions, resumptions and cancellations
\* look at the status first.
THEOREM TerminalStepsStay == Spec => TerminalStepStays
  <1>1. StepInv /\ [Next]_vars =>
          [gen' = gen =>
            \A i \in DOMAIN steps :
                steps[i].status \in TerminalStep =>
                    \/ steps'[i].status = steps[i].status
                    \/ /\ steps[i].status = "failed"
                       /\ ReadbackRequired(receipts[<<gen, i>>])
                       /\ steps'[i].status \in {"completed", "blocked"}]_vars
    <2> SUFFICES ASSUME StepInv, [Next]_vars, gen' = gen, NEW i \in DOMAIN steps,
                        steps[i].status \in TerminalStep
                 PROVE  \/ steps'[i].status = steps[i].status
                        \/ /\ steps[i].status = "failed"
                           /\ ReadbackRequired(receipts[<<gen, i>>])
                           /\ steps'[i].status \in {"completed", "blocked"}
      OBVIOUS
    <2>1. gen \in Nat
      BY BoundsAssumption DEF StepInv, ClaimInv, TypeOK
    <2>2. ~ \E r \in Requests : Compile(r)
      BY <2>1 DEF Compile
    <2>3. StepMoves
      BY <2>2, StepsMove DEF StepInv
    <2> QED
      BY <2>3, TerminalMoves DEF StepInv, ClaimInv, Reconcilable
  <1> QED
    BY <1>1, StepInvariance, PTL DEF Spec, TerminalStepStays

-----------------------------------------------------------------------------
(* Holds: a step awaiting approval has exactly one open hold.              *)

\* A hold is of a compilation that took place, and of one of its steps.
HoldsOfPlan ==
    \A h \in holds : h.gen <= gen /\ (h.gen = gen => h.idx \in DOMAIN steps)

HoldInv == StepInv /\ HoldsOfPlan /\ HoldsMatchSteps

\* Moving along the edges, a step comes to await approval only from the ready
\* ones, and leaves that status only by a decision or by cancellation.
LEMMA HoldsKept ==
    ASSUME HoldInv, StepMoves, holds' = holds,
           \A i \in DOMAIN steps :
                /\ steps'[i].status = "awaiting_approval" =>
                        steps[i].status = "awaiting_approval"
                /\ steps[i].status = "awaiting_approval" =>
                        steps'[i].status \in {"awaiting_approval", "cancelled"}
    PROVE  HoldsOfPlan' /\ HoldsMatchSteps'
  <1>0. TypeOK /\ gen' = gen /\ DOMAIN steps' = DOMAIN steps
    BY DEF HoldInv, StepInv, ClaimInv, StepMoves
  <1>1. HoldsOfPlan'
    BY <1>0 DEF HoldInv, HoldsOfPlan
  <1>2. ASSUME NEW h \in holds, h.gen = gen
        PROVE  steps'[h.idx].status \in {"awaiting_approval", "cancelled"}
    <2>1. /\ h.idx \in DOMAIN steps
          /\ steps[h.idx].status \in {"awaiting_approval", "cancelled"}
      BY <1>2 DEF HoldInv, HoldsOfPlan, HoldsMatchSteps
    <2> QED
      BY <1>0, <2>1, TerminalMoves DEF TerminalStep
  <1> QED
    BY <1>0, <1>1, <1>2 DEF HoldInv, HoldsMatchSteps

\* createApprovalHold opens the one hold of a step that had none: the holds of
\* a current step belong to steps that await approval or were cancelled.
LEMMA HoldOpened ==
    ASSUME HoldInv, NEW w \in Workers, NEW i \in DOMAIN steps, ClaimHold(w, i)
    PROVE  HoldsOfPlan' /\ HoldsMatchSteps'
  <1> DEFINE k == [id |-> NewHold, gen |-> gen, idx |-> i]
  <1>0. TypeOK /\ gen \in Nat
    <2>1. TypeOK
      BY DEF HoldInv, StepInv, ClaimInv
    <2>2. gen \in 0..MaxCompiles
      BY <2>1 DEF TypeOK
    <2> QED
      BY <2>1, <2>2, BoundsAssumption
  <1>1. /\ gen' = gen /\ DOMAIN steps' = DOMAIN steps
        /\ holds' = holds \cup {k}
        /\ IsNext(i)
    BY <1>0, PromotedSteps DEF ClaimHold
  <1>2. /\ \A j \in DOMAIN steps \ {i} : steps'[j].status = Promoted[j].status
        /\ steps'[i].status = "awaiting_approval"
    BY <1>0, PromotedSteps DEF ClaimHold, StepRecords
  <1>3. steps[i].status \in {"pending", "ready"}
    BY <1>0, <1>1, NextStep
  <1>4. k.gen = gen /\ k.idx = i
    OBVIOUS
  <1> HIDE DEF k
  <1>5. \A h \in holds : ~(h.gen = gen /\ h.idx = i)
    BY <1>3 DEF HoldInv, HoldsMatchSteps
  <1>6. HoldsOfPlan'
    <2>1. \A h \in holds : h.gen <= gen /\ (h.gen = gen => h.idx \in DOMAIN steps)
      BY DEF HoldInv, HoldsOfPlan
    <2> QED
      BY <1>0, <1>1, <1>4, <2>1 DEF HoldsOfPlan
  <1>7. \A j \in DOMAIN steps' : steps'[j].status = "awaiting_approval" =>
            \E h \in holds' : h.gen = gen' /\ h.idx = j
    <2>1. \A j \in DOMAIN steps \ {i} :
            steps'[j].status = "awaiting_approval" =>
                steps[j].status = "awaiting_approval"
      BY <1>0, <1>2, PromotedSteps
    <2> QED
      BY <1>1, <1>4, <2>1 DEF HoldInv, HoldsMatchSteps
  <1>8. \A h, g \in holds' : h.gen = g.gen /\ h.idx = g.idx => h = g
    BY <1>1, <1>4, <1>5 DEF HoldInv, HoldsMatchSteps
  <1>9. \A h \in holds' : h.gen = gen' =>
            steps'[h.idx].status \in {"awaiting_approval", "cancelled"}
    <2>1. ASSUME NEW h \in holds, h.gen = gen
          PROVE  steps'[h.idx].status \in {"awaiting_approval", "cancelled"}
      <3>1. /\ h.idx \in DOMAIN steps \ {i}
            /\ steps[h.idx].status \in {"awaiting_approval", "cancelled"}
        BY <1>5, <2>1 DEF HoldInv, HoldsOfPlan, HoldsMatchSteps
      <3> QED
        BY <1>0, <1>2, <3>1, PromotedSteps
    <2> QED
      BY <1>1, <1>2, <1>4, <2>1
  <1> QED
    BY <1>6, <1>7, <1>8, <1>9 DEF HoldsMatchSteps

\* A decision closes the hold of the step it moves, and no other.
LEMMA HoldDecided ==
    ASSUME HoldInv, NEW h \in holds, NEW d \in Decisions, Decide(h, d)
    PROVE  HoldsOfPlan' /\ HoldsMatchSteps'
  <1>1. /\ gen' = gen /\ DOMAIN steps' = DOMAIN steps
        /\ holds' = holds \ {h}
        /\ h.gen = gen /\ h.idx \in DOMAIN steps
        /\ \A j \in DOMAIN steps \ {h.idx} : steps'[j] = steps[j]
    BY DEF Decide, CloseHold
  <1>2. steps'[h.idx].status # "awaiting_approval"
    <2>1. PICK n \in 0..MaxSteps : steps \in [1..n -> StepRecords]
      BY DEF HoldInv, StepInv, ClaimInv, TypeOK
    <2>2. steps' = [steps EXCEPT ![h.idx] =
                      [steps[h.idx] EXCEPT !.status = DecidedStep(steps[h.idx], d),
                                           !.approved = (d = "approved")]]
      BY DEF Decide
    <2>3. steps'[h.idx].status = DecidedStep(steps[h.idx], d)
      <3>1. steps[h.idx] \in StepRecords
        BY <1>1, <2>1
      <3>2. steps'[h.idx] = [steps[h.idx] EXCEPT
                                !.status = DecidedStep(steps[h.idx], d),
                                !.approved = (d = "approved")]
        BY <1>1, <2>1, <2>2
      <3> QED
        BY <3>1, <3>2 DEF StepRecords
    <2>4. \A s : DecidedStep(s, d) \in {"completed", "ready", "blocked", "failed"}
      BY DEF DecidedStep, Decisions
    <2>5. steps'[h.idx].status \in {"completed", "ready", "blocked", "failed"}
      BY <2>3, <2>4
    <2> QED
      BY <2>5
  <1>3. \A k \in holds' : k \in holds /\ (k.gen = gen => k.idx # h.idx)
    BY <1>1 DEF HoldInv, HoldsMatchSteps
  <1>4. HoldsOfPlan'
    BY <1>1, <1>3 DEF HoldInv, HoldsOfPlan
  <1>5. ASSUME NEW j \in DOMAIN steps, steps'[j].status = "awaiting_approval"
        PROVE  \E k \in holds' : k.gen = gen /\ k.idx = j
    <2>1. j # h.idx /\ steps[j].status = "awaiting_approval"
      BY <1>1, <1>2, <1>5
    <2>2. PICK k \in holds : k.gen = gen /\ k.idx = j
      BY <2>1 DEF HoldInv, HoldsMatchSteps
    <2> QED
      BY <1>1, <2>1, <2>2
  <1>6. \A k \in holds' : k.gen = gen =>
            steps'[k.idx].status \in {"awaiting_approval", "cancelled"}
    BY <1>1, <1>3 DEF HoldInv, HoldsOfPlan, HoldsMatchSteps
  <1>7. \A k, g \in holds' : k.gen = g.gen /\ k.idx = g.idx => k = g
    BY <1>3 DEF HoldInv, HoldsMatchSteps
  <1> QED
    BY <1>1, <1>4, <1>5, <1>6, <1>7 DEF HoldsMatchSteps

\* Every step of the plan keeps holds and steps matched.
LEMMA HoldsStep ==
    ASSUME HoldInv, [Next]_vars
    PROVE  HoldsOfPlan' /\ HoldsMatchSteps'
  <1> USE DEF HoldInv, StepInv, ClaimInv
  <1>0. PICK n \in 0..MaxSteps : steps \in [1..n -> StepRecords]
    BY DEF TypeOK
  <1>1. ASSUME NEW r \in Requests, Compile(r)
        PROVE  HoldsOfPlan' /\ HoldsMatchSteps'
    <2>1. /\ gen' = gen + 1 /\ holds' = holds /\ gen \in Nat
          /\ DOMAIN steps' = 1..Len(r)
          /\ \A i \in 1..Len(r) : steps'[i] = CompiledStep(r, i)
      BY <1>1, CompileType, BoundsAssumption DEF Compile, TypeOK
    <2>2. \A h \in holds : h.gen \in Nat /\ h.gen <= gen
      BY BoundsAssumption DEF TypeOK, HoldsOfPlan
    <2>3. \A h \in holds : h.gen <= gen' /\ h.gen # gen'
      BY <2>1, <2>2
    <2>4. \A i \in 1..Len(r) : steps'[i].status # "awaiting_approval"
      BY <2>1 DEF CompiledStep
    <2> QED
      BY <2>1, <2>3, <2>4 DEF HoldsOfPlan, HoldsMatchSteps
  <1>2. ASSUME gen' = gen
        PROVE  StepMoves
    <2>1. gen \in Nat
      BY BoundsAssumption DEF TypeOK
    <2>2. ~ \E r \in Requests : Compile(r)
      BY <1>2, <2>1 DEF Compile
    <2> QED
      BY <2>2, StepsMove
  <1>3. ASSUME NEW w \in Workers, NEW i \in DOMAIN steps,
               ClaimBlocked(w, i) \/ ClaimStep(w, i)
        PROVE  HoldsOfPlan' /\ HoldsMatchSteps'
    <2>0. IsNext(i) /\ gen' = gen /\ holds' = holds
      BY <1>3 DEF ClaimBlocked, ClaimStep
    <2>1. steps[i].status \in {"pending", "ready"}
      BY <2>0, NextStep
    <2>2. /\ \A j \in DOMAIN steps \ {i} : steps'[j].status = Promoted[j].status
          /\ steps'[i].status \in {"blocked", "claimed"}
      <3>1. CASE ClaimBlocked(w, i)
        BY <3>1, PromotedSteps DEF ClaimBlocked, StepRecords
      <3>2. CASE ClaimStep(w, i)
        BY <3>2, PromotedSteps DEF ClaimStep, StepRecords
      <3> QED
        BY <1>3, <3>1, <3>2
    <2>3. \A j \in DOMAIN steps :
            steps'[j].status = "awaiting_approval" <=>
                steps[j].status = "awaiting_approval"
      BY <2>1, <2>2, PromotedSteps
    <2>4. StepMoves
      BY <1>2, <2>0
    <2> QED
      BY <2>0, <2>3, <2>4, HoldsKept
  <1>4. ASSUME NEW w \in Workers, FinalizeClaim(w)
        PROVE  HoldsOfPlan' /\ HoldsMatchSteps'
    <2> DEFINE i == job[w].idx
               status == FinalStatus(steps[i], out[w])
    <2>1. /\ i \in DOMAIN steps /\ Executing(w) /\ job[w].gen = gen
          /\ steps' = [steps EXCEPT ![i].status = status, ![i].token = 0]
          /\ gen' = gen /\ holds' = holds
      BY <1>4 DEF FinalizeClaim, ClaimHeld, Executing
    <2>2. status \in {"completed", "ready", "failed"}
      BY DEF FinalStatus
    <2>3. steps[i].status \in {"claimed", "cancelled"}
      BY <2>1 DEF ClaimsMatchSteps
    <2> HIDE DEF i, status
    <2>4. /\ \A j \in DOMAIN steps \ {i} : steps'[j] = steps[j]
          /\ steps'[i].status = status
      BY <1>0, <2>1 DEF StepRecords
    <2>5. \A j \in DOMAIN steps :
            steps'[j].status = "awaiting_approval" <=>
                steps[j].status = "awaiting_approval"
      BY <2>2, <2>3, <2>4
    <2>6. StepMoves
      BY <1>2, <2>1
    <2> QED
      BY <2>1, <2>5, <2>6, HoldsKept
  <1>5. CASE Resume \/ Cancel
    <2>1. gen' = gen /\ holds' = holds
      BY <1>5 DEF Resume, Cancel
    <2>2. ASSUME NEW j \in DOMAIN steps
          PROVE  \/ steps'[j] = steps[j]
                 \/ steps'[j].status = "cancelled"
                 \/ steps[j].status = "blocked" /\ steps'[j].status = "ready"
      <3>0. steps[j] \in StepRecords
        BY <1>0
      <3>1. CASE Resume
        <4>1. \/ steps'[j] = steps[j]
              \/ /\ steps[j].status = "blocked"
                 /\ steps'[j] = [steps[j] EXCEPT !.status = "ready"]
          BY <3>1 DEF Resume, Resumable
        <4> QED
          BY <3>0, <4>1 DEF StepRecords
      <3>2. CASE Cancel
        <4>1. \/ steps'[j] = steps[j]
              \/ steps'[j] = [steps[j] EXCEPT !.status = "cancelled", !.token = 0]
          BY <3>2 DEF Cancel
        <4> QED
          BY <3>0, <4>1 DEF StepRecords
      <3> QED
        BY <1>5, <3>1, <3>2
    <2>3. StepMoves
      BY <1>2, <2>1
    <2> QED
      BY <2>1, <2>2, <2>3, HoldsKept
  <1>6. ASSUME gen' = gen, steps' = steps, holds' = holds
        PROVE  HoldsOfPlan' /\ HoldsMatchSteps'
    BY <1>6 DEF HoldsOfPlan, HoldsMatchSteps
  <1>7. ASSUME NEW w \in Workers,
               \/ ClaimNothing(w) \/ ClaimCheckpoint(w)
               \/ \E i \in DOMAIN steps : ClaimRejected(w, i)
               \/ Execute(w) \/ ClaimLost(w) \/ StartRun(w) \/ WorkerLost(w)
        PROVE  gen' = gen /\ steps' = steps /\ holds' = holds
    BY <1>7
    DEF ClaimNothing, ClaimCheckpoint, ClaimRejected, ClaimLost, StartRun,
        WorkerLost, Execute, ExecuteInternal, ReplayReceipt, RefuseReceipt,
        OpenReceipt, ReceiptUnavailable, Dispatch, RecordReceipt,
        RecordSuccessFails, RecordFails, Reach
  <1>8. CASE \/ UNCHANGED vars \/ GrantExpires
             \/ \E to \in PlanStatuses : Transition(to)
    BY <1>8, <1>6 DEF vars, GrantExpires, Transition
  <1>9. CASE Reconcile
    <2>1. PICK i \in DOMAIN steps, rc \in ReceiptStates : Reconciled(i, rc)
      BY <1>9, Reconciliation
    <2>2. gen' = gen /\ holds' = holds
      BY <1>9, Reconciliation
    <2>3. /\ steps[i].status \in {"failed", "blocked"}
          /\ steps'[i].status \in {"completed", "blocked"}
          /\ \A j \in DOMAIN steps \ {i} : steps'[j] = steps[j]
      BY <2>1 DEF Reconciled, Reconcilable
    <2>4. StepMoves
      BY <1>2, <2>2
    <2> QED
      BY <2>2, <2>3, <2>4, HoldsKept
  <1> QED
    BY <1>1, <1>3, <1>4, <1>5, <1>6, <1>7, <1>8, <1>9, HoldOpened, HoldDecided
    DEF Next, WorkerStep, Operator, Claim, Finalize

\* A step that awaits approval has exactly one open hold, and a late decision
\* can never touch a step that moved on (createApprovalHold,
\* decideSequentialPlanApproval, cancelDurableExecution).
THEOREM HoldsAreMatched == Spec => []HoldsMatchSteps
  <1>1. Init => HoldsOfPlan /\ HoldsMatchSteps
    BY DEF Init, HoldsOfPlan, HoldsMatchSteps
  <1>2. /\ HoldsOfPlan /\ HoldsMatchSteps /\ StepInv /\ [Next]_vars
        => HoldsOfPlan' /\ HoldsMatchSteps'
    BY HoldsStep DEF HoldInv
  <1> QED
    BY <1>1, <1>2, StepInvariance, PTL DEF Spec

-----------------------------------------------------------------------------
(* Completion: a completed workflow step reached the provider.             *)

Reached(s) == \E e \in effects : Sid(e) = s

\* A verified success, wherever it is kept between the dispatch and the end of
\* the claim - in the worker or in the receipt a later attempt replays, also a
\* reconciled one - is of
\* a step that reached the provider; an internal step is not a workflow step.
SuccessWasReached ==
    /\ \A s \in StepIds :
        receipts[s] \in {"succeeded_ok", "reconciled_ok"} => Reached(s)
    /\ \A w \in Workers :
        /\ pc[w] = "record" /\ out[w] = "ok" => Reached(Sid(job[w]))
        /\ pc[w] = "internal" /\ job[w].gen = gen
            => steps[job[w].idx].type # "workflow"
        /\ (/\ pc[w] = "finalize" /\ out[w] = "ok_verdict"
            /\ job[w].gen = gen /\ steps[job[w].idx].type = "workflow")
            => Reached(Sid(job[w]))

ReachInv == StepInv /\ SuccessWasReached /\ CompletedWasDispatched

\* Effects at the provider are never undone.
LEMMA EffectsGrow ==
    ASSUME [Next]_vars
    PROVE  effects \subseteq effects'
  <1>1. ASSUME NEW w \in Workers, Claim(w) \/ Finalize(w)
        PROVE  effects' = effects
    BY <1>1 DEF Claim, ClaimNothing, ClaimCheckpoint, ClaimHold, ClaimBlocked,
                ClaimRejected, ClaimStep, Finalize, FinalizeClaim, ClaimLost
  <1>2. ASSUME NEW w \in Workers, Execute(w)
        PROVE  effects \subseteq effects'
    BY <1>2 DEF Execute, ExecuteInternal, ReplayReceipt, RefuseReceipt,
                OpenReceipt, ReceiptUnavailable, Dispatch, RecordReceipt,
                RecordSuccessFails, RecordFails
  <1>3. ASSUME NEW w \in Workers, StartRun(w) \/ WorkerLost(w)
        PROVE  effects' = effects
    BY <1>3 DEF StartRun, WorkerLost
  <1>4. ASSUME Operator \/ GrantExpires \/ UNCHANGED vars
        PROVE  effects' = effects
    BY <1>4 DEF Operator, Compile, Decide, Resume, Transition, Cancel, Reconcile,
                ReconcileApplied, ReconcileBlocked, GrantExpires, vars
  <1> QED
    BY <1>1, <1>2, <1>3, <1>4 DEF Next, WorkerStep

\* The effects are pairs of a compilation and a step.
LEMMA ReachedStep ==
    ASSUME NEW g, NEW i
    PROVE  Reached(<<g, i>>) <=> \E e \in effects : e.gen = g /\ e.idx = i
  BY DEF Reached, Sid

\* A step in which no worker comes to hold a success and no workflow step is
\* completed that had not reached the provider.
LEMMA QuietSuccess ==
    ASSUME ReachInv, StepMoves, effects \subseteq effects',
           \A s \in StepIds : receipts'[s] # receipts[s] /\ receipts'[s] = "reconciled_ok"
                => Reached(s),
           \A s \in StepIds : receipts'[s] = "succeeded_ok" =>
                receipts[s] = "succeeded_ok",
           \A w \in Workers :
                pc'[w] \in {"record", "internal", "finalize"} =>
                    pc'[w] = pc[w] /\ job'[w] = job[w] /\ out'[w] = out[w],
           \A i \in DOMAIN steps :
                steps'[i].status = "completed" /\ steps[i].type = "workflow" =>
                    steps[i].status = "completed" \/ Reached(<<gen, i>>)
    PROVE  (SuccessWasReached /\ CompletedWasDispatched)'
  <1>0. /\ gen' = gen /\ DOMAIN steps' = DOMAIN steps
        /\ \A i \in DOMAIN steps : steps'[i].type = steps[i].type
    BY DEF StepMoves, RowKept
  <1>1. \A s : Reached(s) => \E e \in effects' : Sid(e) = s
    BY DEF Reached
  <1>2. \A w \in Workers :
            pc[w] \in {"record", "internal", "finalize"} /\ job[w].gen = gen =>
                job[w].idx \in DOMAIN steps
    BY DEF ReachInv, StepInv, ClaimInv, ClaimsMatchSteps, Executing
  <1>3. SuccessWasReached'
    <2>1. \A s \in StepIds : receipts'[s] \in {"succeeded_ok", "reconciled_ok"} =>
                \E e \in effects' : Sid(e) = s
      BY <1>1 DEF ReachInv, SuccessWasReached
    <2>2. ASSUME NEW w \in Workers
          PROVE  /\ pc'[w] = "record" /\ out'[w] = "ok" =>
                        \E e \in effects' : Sid(e) = Sid(job'[w])
                 /\ pc'[w] = "internal" /\ job'[w].gen = gen
                        => steps'[job'[w].idx].type # "workflow"
                 /\ (/\ pc'[w] = "finalize" /\ out'[w] = "ok_verdict"
                     /\ job'[w].gen = gen /\ steps'[job'[w].idx].type = "workflow")
                        => \E e \in effects' : Sid(e) = Sid(job'[w])
      BY <1>0, <1>1, <1>2 DEF ReachInv, SuccessWasReached
    <2> QED
      BY <1>0, <2>1, <2>2 DEF SuccessWasReached, Reached, Sid
  <1>4. CompletedWasDispatched'
    <2>1. ASSUME NEW i \in DOMAIN steps, steps[i].type = "workflow",
                 steps'[i].status = "completed"
          PROVE  \E e \in effects' : e.gen = gen /\ e.idx = i
      <3>1. \E e \in effects : e.gen = gen /\ e.idx = i
        <4>1. CASE steps[i].status = "completed"
          BY <2>1, <4>1 DEF ReachInv, CompletedWasDispatched
        <4>2. CASE Reached(<<gen, i>>)
          BY <4>2, ReachedStep
        <4> QED
          BY <2>1, <4>1, <4>2
      <3> QED
        BY <3>1
    <2> QED
      BY <1>0, <2>1 DEF CompletedWasDispatched
  <1> QED
    BY <1>3, <1>4

\* The executor: a success is held only after the provider was reached.
LEMMA ExecuteSuccess ==
    ASSUME ReachInv, NEW w \in Workers, Execute(w), [Next]_vars
    PROVE  (SuccessWasReached /\ CompletedWasDispatched)'
  <1> DEFINE s == Sid(job[w])
  <1> USE DEF ReachInv, StepInv, ClaimInv
  <1>0. pc[w] \in {"internal", "receipt", "dispatch", "record"}
    BY DEF Execute, ExecuteInternal, ReplayReceipt, RefuseReceipt, OpenReceipt,
           ReceiptUnavailable, Dispatch, RecordReceipt, RecordSuccessFails,
           RecordFails
  <1>1. Executing(w) /\ s \in StepIds
    BY <1>0, JobStepId DEF Executing
  <1>2. /\ gen' = gen /\ job' = job /\ steps' = steps
        /\ \A v \in Workers \ {w} : pc'[v] = pc[v] /\ out'[v] = out[v]
    BY DEF Execute, ExecuteInternal, ReplayReceipt, RefuseReceipt, OpenReceipt,
           ReceiptUnavailable, Dispatch, RecordReceipt, RecordSuccessFails,
           RecordFails, Reach, TypeOK
  <1>3. effects \subseteq effects'
    BY EffectsGrow
  <1> HIDE DEF s
  <1>4. \A t : Reached(t) => \E e \in effects' : Sid(e) = t
    BY <1>3 DEF Reached
  <1>5. /\ \A t \in StepIds : receipts'[t] \in {"succeeded_ok", "reconciled_ok"} =>
                receipts[t] = receipts'[t] \/ \E e \in effects' : Sid(e) = t
        /\ pc'[w] = "record" /\ out'[w] = "ok" => \E e \in effects' : Sid(e) = s
        /\ pc'[w] # "internal"
        /\ (/\ pc'[w] = "finalize" /\ out'[w] = "ok_verdict"
            /\ job[w].gen = gen /\ steps[job[w].idx].type = "workflow")
            => \E e \in effects' : Sid(e) = s
    <2>1. CASE ExecuteInternal(w)
      BY <2>1 DEF ExecuteInternal, Reach, TypeOK, SuccessWasReached
    <2>2. CASE ReplayReceipt(w)
      <3>1. /\ pc'[w] = "finalize" /\ receipts' = receipts
            /\ out'[w] = ReplayVerdict(receipts[s])
        BY <2>2 DEF ReplayReceipt, Reach, TypeOK, s
      <3>2. out'[w] = "ok_verdict" => receipts[s] \in {"succeeded_ok", "reconciled_ok"}
        BY <3>1 DEF ReplayVerdict
      <3> QED
        BY <1>1, <1>4, <3>1, <3>2 DEF SuccessWasReached
    <2>3. CASE \/ RefuseReceipt(w) \/ ReceiptUnavailable(w) \/ RecordFails(w)
      BY <2>3 DEF RefuseReceipt, ReceiptUnavailable, RecordFails, Reach, TypeOK
    <2>4. CASE OpenReceipt(w)
      BY <2>4, <1>1 DEF OpenReceipt, Reach, TypeOK, s
    <2>5. ASSUME NEW o \in Outcomes, Dispatch(w, o)
          PROVE  /\ receipts' = receipts
                 /\ pc'[w] = "record" /\ out'[w] = "ok" => job[w] \in effects'
                 /\ pc'[w] # "internal"
                 /\ pc'[w] = "finalize" /\ out'[w] = "ok_verdict"
                        => job[w] \in effects'
      <3>1. o = "ok" => job[w] \in effects'
        BY <2>5 DEF Dispatch, Reaches
      <3>2. \/ pc'[w] = "record" /\ out'[w] = o
            \/ pc'[w] = "finalize" /\ out'[w] = PlainVerdict(o)
        BY <2>5 DEF Dispatch, Reach, TypeOK
      <3> QED
        BY <2>5, <3>1, <3>2 DEF Dispatch, PlainVerdict
    <2>6. CASE RecordReceipt(w)
      <3>1. /\ pc[w] = "record" /\ pc'[w] = "finalize"
            /\ out'[w] = VerdictOf(out[w])
            /\ receipts' = [receipts EXCEPT ![s] = ReceiptOf(out[w])]
        BY <2>6 DEF RecordReceipt, Reach, TypeOK, s
      <3>2. out[w] = "ok" => Reached(s)
        BY <3>1 DEF SuccessWasReached, s
      <3>3. /\ VerdictOf(out[w]) = "ok_verdict" => out[w] = "ok"
            /\ ReceiptOf(out[w]) = "succeeded_ok" => out[w] = "ok"
            /\ ReceiptOf(out[w]) # "reconciled_ok"
        BY DEF VerdictOf, ReceiptOf
      <3>4. \A t \in StepIds :
              receipts'[t] = IF t = s THEN ReceiptOf(out[w]) ELSE receipts[t]
        BY <3>1 DEF TypeOK
      <3> QED
        BY <1>4, <3>1, <3>2, <3>3, <3>4
    <2>7. CASE RecordSuccessFails(w)
      BY <2>7 DEF RecordSuccessFails, Reach, TypeOK
    <2>8. ASSUME NEW o \in Outcomes, Dispatch(w, o)
          PROVE  job[w] \in effects' => \E e \in effects' : Sid(e) = s
      BY DEF s
    <2> QED
      BY <2>1, <2>2, <2>3, <2>4, <2>5, <2>6, <2>7, <2>8 DEF Execute
  <1>6. \A t \in StepIds : receipts'[t] \in {"succeeded_ok", "reconciled_ok"} =>
            \E e \in effects' : Sid(e) = t
    BY <1>4, <1>5 DEF SuccessWasReached
  <1>7. SuccessWasReached'
    <2>1. ASSUME NEW v \in Workers
          PROVE  /\ pc'[v] = "record" /\ out'[v] = "ok" =>
                        \E e \in effects' : Sid(e) = Sid(job[v])
                 /\ pc'[v] = "internal" /\ job[v].gen = gen
                        => steps[job[v].idx].type # "workflow"
                 /\ (/\ pc'[v] = "finalize" /\ out'[v] = "ok_verdict"
                     /\ job[v].gen = gen /\ steps[job[v].idx].type = "workflow")
                        => \E e \in effects' : Sid(e) = Sid(job[v])
      <3> USE DEF s
      <3>a. CASE v = w
        BY <1>5, <3>a
      <3>b. CASE v # w
        BY <1>2, <1>4, <3>b DEF SuccessWasReached
      <3> QED
        BY <3>a, <3>b
    <2> QED
      BY <1>2, <1>6, <2>1 DEF SuccessWasReached, Reached, Sid
  <1>8. CompletedWasDispatched'
    BY <1>2, <1>3 DEF CompletedWasDispatched
  <1> QED
    BY <1>7, <1>8

\* Every step of the plan keeps successes tied to effects.
LEMMA SuccessStep ==
    ASSUME ReachInv, [Next]_vars
    PROVE  (SuccessWasReached /\ CompletedWasDispatched)'
  <1> USE DEF ReachInv, StepInv, ClaimInv
  <1>0. PICK n \in 0..MaxSteps : steps \in [1..n -> StepRecords]
    BY DEF TypeOK
  <1>g. gen \in Nat
    BY BoundsAssumption DEF TypeOK
  <1>e. effects \subseteq effects'
    BY EffectsGrow
  <1>m. ASSUME gen' = gen PROVE StepMoves
    <2>1. ~ \E r \in Requests : Compile(r)
      BY <1>g, <1>m DEF Compile
    <2> QED
      BY <2>1, StepsMove
  <1>1. ASSUME NEW r \in Requests, Compile(r)
        PROVE  (SuccessWasReached /\ CompletedWasDispatched)'
    <2>1. /\ gen' = gen + 1 /\ receipts' = receipts /\ effects' = effects
          /\ pc' = pc /\ job' = job /\ out' = out
          /\ DOMAIN steps' = 1..Len(r)
          /\ \A i \in 1..Len(r) : steps'[i] = CompiledStep(r, i)
      BY <1>1, CompileType DEF Compile, workerVars
    <2>2. \A i \in 1..Len(r) : steps'[i].status # "completed"
      BY <2>1 DEF CompiledStep
    <2>3. \A w \in Workers : pc[w] \in {"record", "internal", "finalize"} =>
            job[w].gen # gen'
      <3>1. \A w \in Workers : Executing(w) => job[w].gen \in 1..gen
        BY DEF ClaimsMatchSteps
      <3> QED
        BY <1>g, <2>1, <3>1 DEF Executing
    <2> QED
      BY <2>1, <2>2, <2>3
      DEF SuccessWasReached, Reached, Sid, CompletedWasDispatched
  <1>2. ASSUME NEW w \in Workers, NEW i \in DOMAIN steps, ClaimStep(w, i)
        PROVE  (SuccessWasReached /\ CompletedWasDispatched)'
    <2>1. /\ gen' = gen /\ receipts' = receipts /\ effects' = effects
          /\ IsNext(i)
          /\ job'[w] = [gen |-> gen, idx |-> i, token |-> claims + 1]
          /\ pc'[w] = ExecutorEntry(w, steps[i].type)
          /\ out'[w] = IF steps[i].type = "approval" THEN "retry_verdict" ELSE NoOut
          /\ \A v \in Workers \ {w} :
                pc'[v] = pc[v] /\ job'[v] = job[v] /\ out'[v] = out[v]
      BY <1>2 DEF ClaimStep, TypeOK
    <2>2. StepMoves
      BY <1>m, <2>1
    <2>3. /\ DOMAIN steps' = DOMAIN steps
          /\ \A j \in DOMAIN steps : steps'[j].type = steps[j].type
      BY <2>2 DEF StepMoves, RowKept
    <2>4. /\ pc'[w] # "record"
          /\ pc'[w] = "internal" => steps[i].type # "workflow"
          /\ out'[w] # "ok_verdict"
      <3>1. steps[i].type \in StepTypes
        BY <1>0 DEF StepRecords
      <3> QED
        BY <2>1, <3>1 DEF ExecutorEntry, StepTypes, NoOut
    <2>5. \A v \in Workers : pc[v] \in {"record", "internal", "finalize"}
            /\ job[v].gen = gen => job[v].idx \in DOMAIN steps
      BY DEF ClaimsMatchSteps, Executing
    <2>6. SuccessWasReached'
      <3>1. \A s \in StepIds : receipts'[s] \in {"succeeded_ok", "reconciled_ok"} =>
              \E e \in effects' : Sid(e) = s
        BY <2>1 DEF SuccessWasReached, Reached
      <3>2. ASSUME NEW v \in Workers
            PROVE  /\ pc'[v] = "record" /\ out'[v] = "ok" =>
                        \E e \in effects' : Sid(e) = Sid(job'[v])
                   /\ pc'[v] = "internal" /\ job'[v].gen = gen
                        => steps'[job'[v].idx].type # "workflow"
                   /\ (/\ pc'[v] = "finalize" /\ out'[v] = "ok_verdict"
                       /\ job'[v].gen = gen /\ steps'[job'[v].idx].type = "workflow")
                        => \E e \in effects' : Sid(e) = Sid(job'[v])
        <4>1. CASE v = w
          BY <2>1, <2>3, <2>4, <4>1
        <4>2. CASE v # w
          BY <2>1, <2>3, <2>5, <4>2 DEF SuccessWasReached, Reached
        <4> QED
          BY <4>1, <4>2
      <3> QED
        BY <2>1, <3>1, <3>2 DEF SuccessWasReached, Reached, Sid
    <2>7. \A j \in DOMAIN steps :
            steps'[j].status = "completed" => steps[j].status = "completed"
      <3>1. /\ \A j \in DOMAIN steps \ {i} : steps'[j].status = Promoted[j].status
            /\ steps'[i].status = "claimed"
        BY <1>2, PromotedSteps DEF ClaimStep, StepRecords
      <3> QED
        BY <3>1, PromotedSteps
    <2>8. CompletedWasDispatched'
      BY <2>1, <2>3, <2>7 DEF CompletedWasDispatched
    <2> QED
      BY <2>6, <2>8
  <1>3. ASSUME NEW w \in Workers,
               \/ ClaimNothing(w) \/ ClaimCheckpoint(w) \/ Finalize(w)
               \/ \E i \in DOMAIN steps : \/ ClaimHold(w, i)
                                          \/ ClaimBlocked(w, i)
                                          \/ ClaimRejected(w, i)
        PROVE  (SuccessWasReached /\ CompletedWasDispatched)'
    <2>1. /\ gen' = gen /\ receipts' = receipts
          /\ \E stop, status : EndTick(w, stop, status)
      BY <1>3
      DEF ClaimNothing, ClaimCheckpoint, ClaimHold, ClaimBlocked,
          ClaimRejected, Finalize, FinalizeClaim, ClaimLost
    <2>2. \A v \in Workers : pc'[v] \in {"record", "internal", "finalize"} =>
            pc'[v] = pc[v] /\ job'[v] = job[v] /\ out'[v] = out[v]
      BY <2>1, TickEnds DEF Executing
    <2>3. ASSUME NEW j \in DOMAIN steps, steps'[j].status = "completed",
                 steps[j].type = "workflow"
          PROVE  steps[j].status = "completed" \/ Reached(<<gen, j>>)
      <3>1. CASE FinalizeClaim(w)
        <4> DEFINE i == job[w].idx
                   status == FinalStatus(steps[i], out[w])
        <4>1. /\ i \in DOMAIN steps /\ job[w].gen = gen /\ pc[w] = "finalize"
              /\ steps' = [steps EXCEPT ![i].status = status, ![i].token = 0]
          BY <3>1 DEF FinalizeClaim, ClaimHeld
        <4>2. status = "completed" => out[w] = "ok_verdict"
          BY DEF FinalStatus
        <4>3. Sid(job[w]) = <<gen, i>>
          BY <4>1 DEF Sid
        <4>4. out[w] = "ok_verdict" /\ steps[i].type = "workflow" =>
                Reached(<<gen, i>>)
          BY <4>1, <4>3 DEF SuccessWasReached
        <4> HIDE DEF i, status
        <4>5. /\ \A k \in DOMAIN steps \ {i} : steps'[k] = steps[k]
              /\ steps'[i].status = status
          BY <1>0, <4>1 DEF StepRecords
        <4> QED
          BY <2>3, <4>1, <4>2, <4>4, <4>5
      <3>2. CASE \/ ClaimNothing(w) \/ ClaimCheckpoint(w) \/ ClaimLost(w)
                 \/ \E i \in DOMAIN steps : ClaimRejected(w, i)
        BY <2>3, <3>2 DEF ClaimNothing, ClaimCheckpoint, ClaimRejected, ClaimLost
      <3>3. ASSUME NEW i \in DOMAIN steps, ClaimHold(w, i) \/ ClaimBlocked(w, i)
            PROVE  steps[j].status = "completed"
        <4>1. /\ \A k \in DOMAIN steps \ {i} : steps'[k].status = Promoted[k].status
              /\ steps'[i].status \in {"awaiting_approval", "blocked"}
          BY <3>3, PromotedSteps DEF ClaimHold, ClaimBlocked, StepRecords
        <4> QED
          BY <2>3, <4>1, PromotedSteps
      <3> QED
        BY <1>3, <3>1, <3>2, <3>3 DEF Finalize
    <2> QED
      BY <1>e, <1>m, <2>1, <2>2, <2>3, QuietSuccess
  <1>4. ASSUME NEW w \in Workers, StartRun(w) \/ WorkerLost(w)
        PROVE  (SuccessWasReached /\ CompletedWasDispatched)'
    <2>1. /\ gen' = gen /\ receipts' = receipts /\ steps' = steps
          /\ \A v \in Workers : pc'[v] \in {"record", "internal", "finalize"} =>
                pc'[v] = pc[v] /\ job'[v] = job[v] /\ out'[v] = out[v]
      BY <1>4 DEF StartRun, WorkerLost, TypeOK
    <2> QED
      BY <1>e, <1>m, <2>1, QuietSuccess
  <1>5. CASE \/ \E h \in holds, d \in Decisions : Decide(h, d)
             \/ Resume \/ Cancel \/ UNCHANGED vars \/ GrantExpires
             \/ \E to \in PlanStatuses : Transition(to)
    <2>1. /\ gen' = gen /\ receipts' = receipts
          /\ pc' = pc /\ job' = job /\ out' = out
      BY <1>5 DEF Decide, Resume, Cancel, vars, GrantExpires, Transition,
                  workerVars
    <2>2. StepMoves
      BY <1>m, <2>1
    <2>3. ASSUME NEW j \in DOMAIN steps, steps'[j].status = "completed",
                 steps[j].type = "workflow"
          PROVE  steps[j].status = "completed"
      <3>1. ~ClaimMove(j) /\ ~DecideMove(j)
        BY <2>3 DEF ClaimMove, DecideMove
      <3>3. ASSUME ReconcileMove(j), steps[j].status # "completed" PROVE FALSE
        <4>1. steps[j].status \in {"failed", "blocked"}
          BY <3>3 DEF ReconcileMove, Reconcilable
        <4>2. steps'[j].status \in {"failed", "blocked", "ready", "cancelled"}
          <5>a. steps[j] \in StepRecords
            BY <1>0
          <5>1. CASE Resume
            <6>1. \/ steps'[j] = steps[j]
                  \/ steps'[j] = [steps[j] EXCEPT !.status = "ready"]
              BY <5>1 DEF Resume
            <6> QED
              BY <4>1, <5>a, <6>1 DEF StepRecords
          <5>4. CASE Cancel
            <6>1. \/ steps'[j] = steps[j]
                  \/ steps'[j] = [steps[j] EXCEPT !.status = "cancelled", !.token = 0]
              BY <5>4 DEF Cancel
            <6> QED
              BY <4>1, <5>a, <6>1 DEF StepRecords
          <5>2. ASSUME NEW h \in holds, NEW d \in Decisions, Decide(h, d)
                PROVE  steps'[j] = steps[j]
            BY <4>1, <5>2 DEF Decide
          <5>3. CASE \/ UNCHANGED vars \/ GrantExpires
                     \/ \E to \in PlanStatuses : Transition(to)
            BY <4>1, <5>3 DEF vars, GrantExpires, Transition
          <5> QED
            BY <1>5, <4>1, <5>1, <5>2, <5>3, <5>4
        <4> QED
          BY <2>3, <4>2
      <3>2. ASSUME WorkMove(j), steps[j].status # "completed" PROVE FALSE
        <4>1. steps[j].status = "claimed"
          BY <2>3, <3>2 DEF WorkMove
        <4>2. CASE Resume \/ Cancel
          <5>1. steps'[j].status \in {"claimed", "cancelled"}
            BY <1>0, <4>1, <4>2 DEF Resume, Resumable, Cancel, StepRecords
          <5> QED
            BY <2>3, <5>1
        <4>3. ASSUME NEW h \in holds, NEW d \in Decisions, Decide(h, d)
              PROVE  FALSE
          <5>1. j # h.idx /\ steps'[j] = steps[j]
            BY <4>1, <4>3 DEF Decide
          <5> QED
            BY <2>3, <3>2, <5>1
        <4>4. CASE \/ UNCHANGED vars \/ GrantExpires
                   \/ \E to \in PlanStatuses : Transition(to)
          BY <2>3, <3>2, <4>4 DEF vars, GrantExpires, Transition
        <4> QED
          BY <1>5, <4>2, <4>3, <4>4
      <3> QED
        BY <2>2, <2>3, <3>1, <3>2, <3>3 DEF StepMoves
    <2> QED
      BY <1>e, <2>1, <2>2, <2>3, QuietSuccess
  <1>6. CASE Reconcile
    <2>1. PICK i \in DOMAIN steps, rc \in ReceiptStates : Reconciled(i, rc)
      BY <1>6, Reconciliation
    <2>2. /\ gen' = gen /\ pc' = pc /\ job' = job /\ out' = out
          /\ receipts' = [receipts EXCEPT ![<<gen, i>>] = rc]
          /\ rc \in {"reconciled_ok", "reconciled_bad", "unknown_outcome"}
          /\ rc = "reconciled_ok" => Reached(<<gen, i>>)
      BY <1>6, <2>1, Reconciliation DEF Reconciled, Effected, Reached
    <2>3. /\ \A s \in StepIds :
                receipts'[s] # receipts[s] /\ receipts'[s] = "reconciled_ok" => Reached(s)
          /\ \A s \in StepIds : receipts'[s] = "succeeded_ok" =>
                receipts[s] = "succeeded_ok"
      BY <2>2 DEF TypeOK
    <2>4. /\ steps'[i].status = "completed" => rc = "reconciled_ok"
          /\ \A j \in DOMAIN steps \ {i} : steps'[j] = steps[j]
      BY <2>1 DEF Reconciled
    <2>5. StepMoves
      BY <1>m, <2>2
    <2> QED
      BY <1>e, <2>2, <2>3, <2>4, <2>5, QuietSuccess
  <1> QED
    BY <1>1, <1>2, <1>3, <1>4, <1>5, <1>6, ExecuteSuccess
    DEF Next, WorkerStep, Operator, Claim

\* A completed workflow step reached the provider, also when its result was
\* replayed from a receipt after a lost worker or confirmed by a
\* reconciliation, and whichever executor the
\* workers use (finalizeClaim, createDurableReceiptAwareExecutor).
THEOREM CompletionIsDispatched == Spec => []CompletedWasDispatched
  <1>1. Init => SuccessWasReached /\ CompletedWasDispatched
    BY DEF Init, SuccessWasReached, CompletedWasDispatched
  <1>2. /\ SuccessWasReached /\ CompletedWasDispatched /\ StepInv /\ [Next]_vars
        => SuccessWasReached' /\ CompletedWasDispatched'
    BY SuccessStep DEF ReachInv
  <1> QED
    BY <1>1, <1>2, StepInvariance, PTL DEF Spec

=============================================================================
