--------------------------- MODULE SequentialPlan ---------------------------
(***************************************************************************)
(* One execution plan driven by the sequential plan orchestrator           *)
(* (sequentialPlanOrchestrator.js) and the durable execution control       *)
(* service (durableExecutionControlService.js), and the reconciliation of  *)
(* its unresolved mutation receipts by the growth control plane            *)
(* (growthControlProviderEffectReconciliationService.js).                  *)
(*                                                                         *)
(* The database rows are the shared state: the plan's effective status     *)
(* (runtime_status, or plan_status before the first compile), the compiled *)
(* steps, the open approval holds and the mutation receipts.  A worker is  *)
(* a process inside tickSequentialPlan / runSequentialPlan; durable        *)
(* workers come from the /tick and /run routes and use the receipt-aware   *)
(* executor, the others are the job queue's sequential_plan_run jobs,      *)
(* which call the default executor.  Every transaction is one action; the  *)
(* executor runs between transactions, so everything else may happen       *)
(* while it runs.  The append-only event rows and the workflow_runs row    *)
(* are evidence that no handler reads back and are left out.               *)
(***************************************************************************)
EXTENDS Integers, Sequences, FiniteSets

CONSTANTS
    Workers,         \* processes that tick or run the plan
    DurableWorkers,  \* those that use createDurableReceiptAwareExecutor
    Requests,        \* step lists submitted to POST .../compile, valid or not
    HoldIds,         \* hold identifiers: more than MaxCompiles * MaxSteps
    MaxSteps,        \* the most steps a plan may have (100 in the code)
    AttemptCap,      \* the largest max_attempts of a step (10 in the code)
    MaxCompiles,     \* bound: compilations of the plan that are explored
    MaxReopens       \* bound: times reconciliation reopens a failed step

ASSUME WorkersAssumption == DurableWorkers \subseteq Workers

ASSUME BoundsAssumption ==
    /\ MaxSteps \in Nat \ {0}
    /\ AttemptCap \in Nat \ {0}
    /\ MaxCompiles \in Nat
    /\ MaxReopens \in Nat

PlanStatuses == {"draft", "validated", "approved", "executing",
                 "awaiting_approval", "paused", "blocked",
                 "completed", "failed", "cancelled"}

TerminalPlan == {"completed", "failed", "cancelled"}

\* The statuses of the ENUM column that some statement of the services
\* leaves behind; "retrying" is overwritten by "ready" in the same transaction.
StepStatuses == {"pending", "ready", "claimed", "awaiting_approval",
                 "blocked", "completed", "failed", "cancelled"}

TerminalStep == {"completed", "failed", "cancelled"}

\* "internal" stands for analysis, checkpoint and stop.
StepTypes == {"workflow", "internal", "approval"}

\* What evaluateDelegationExecutionPolicy can make of the delegation grant
\* snapshot in the step's approval policy: no grant; a hard blocker; drift;
\* agent_recommend_only; the delegator's exact approval needed; an approval
\* needed that no hold decision records (a reserved intent without the
\* explicit flag, a missing independent review); nothing needed.
Grants == {"none", "blocker", "drift", "recommend", "exact", "never", "allowed"}

\* A source step of a compile request is a record with fields key, type,
\* listed (whether depends_on is present), deps (the keys it lists), attempts
\* (max_attempts, 0 when absent), required, approved and grant.

SourceSteps ==
    [key : STRING, type : STRING, listed : BOOLEAN, deps : SUBSET STRING,
     attempts : Int, required : BOOLEAN, approved : BOOLEAN, grant : Grants]

ASSUME RequestsAssumption == Requests \subseteq Seq(SourceSteps)

StepIds == (1..MaxCompiles) \X (1..MaxSteps)

ReceiptStates == {"none", "pending", "succeeded_ok", "succeeded_bad",
                  "failed_pre_dispatch", "unknown_outcome",
                  "reconciled_ok", "reconciled_bad"}

\* What the executor of a step came back with.
Outcomes == {"ok", "bad", "err_pre", "err_other"}

\* What tickSequentialPlan hands to finalizeClaim: a verified result, an
\* error or an unverified result, an error marked non_retryable.
Verdicts == {"ok_verdict", "retry_verdict", "fatal_verdict"}

VARIABLES
    plan,      \* effective status of the plan
    gen,       \* number of compilations; plan_step_id is <<gen, step_order>>
    steps,     \* compiled steps in step_order
    holds,     \* open approval holds
    claims,    \* claims made so far: the next claim_token is claims + 1
    receipts,  \* dispatch_status of the receipt of each plan_step_id
    effects,   \* dispatches that reached the provider
    pc,        \* where each worker is
    job,       \* the claim each worker executes
    out,       \* the outcome, then the verdict, it carries
    expired    \* the delegation grants' expires_at has passed

vars == <<plan, gen, steps, holds, claims, receipts, effects, pc,
          job, out, expired>>

workerVars == <<pc, job, out>>

NoJob == [gen |-> 0, idx |-> 0, token |-> 0]

NoOut == "none"

Sid(j) == <<j.gen, j.idx>>

Init ==
    /\ plan \in {"draft", "validated"}
    /\ gen = 0
    /\ steps = <<>>
    /\ holds = {}
    /\ claims = 0
    /\ receipts = [s \in StepIds |-> "none"]
    /\ effects = {}
    /\ pc = [w \in Workers |-> "idle"]
    /\ job = [w \in Workers |-> NoJob]
    /\ out = [w \in Workers |-> NoOut]
    /\ expired = FALSE

-----------------------------------------------------------------------------
(* Compilation: compileSequentialPlanSteps, persistCompiledSequentialPlan. *)

ClampAttempts(n) ==
    IF n < 1 THEN 1 ELSE IF n > AttemptCap THEN AttemptCap ELSE n

KeysBefore(r, i) == {r[j].key : j \in 1..(i - 1)}

DependsOn(r, i) ==
    IF r[i].listed THEN r[i].deps
    ELSE IF i = 1 THEN {} ELSE {r[i - 1].key}

\* A step may depend on itself or on an earlier step: its own key is already
\* in the set when its dependencies are checked.
ValidRequest(r) ==
    /\ Len(r) \in 1..MaxSteps
    /\ \A i \in 1..Len(r) :
        /\ r[i].key \notin KeysBefore(r, i)
        /\ r[i].type \in StepTypes
        /\ DependsOn(r, i) \subseteq KeysBefore(r, i + 1)

\* The last field is history: how often reconciliation reopened the step.
CompiledStep(r, i) ==
    [type     |-> r[i].type,
     deps     |-> {j \in 1..Len(r) : r[j].key \in DependsOn(r, i)},
     max      |-> ClampAttempts(r[i].attempts),
     required |-> r[i].required,
     approved |-> r[i].approved,
     grant    |-> r[i].grant,
     status   |-> IF i = 1 /\ DependsOn(r, i) = {} THEN "ready" ELSE "pending",
     attempts |-> 0,
     token    |-> 0,
     reopened |-> 0]

Compile(r) ==
    /\ plan \in {"draft", "validated"}
    /\ ValidRequest(r)
    /\ gen < MaxCompiles
    /\ gen' = gen + 1
    /\ steps' = [i \in 1..Len(r) |-> CompiledStep(r, i)]
    /\ plan' = "validated"
    /\ UNCHANGED <<holds, claims, receipts, effects, workerVars,
                   expired>>

-----------------------------------------------------------------------------
(* Claiming: claimNextStep, at the start of every tick.                    *)

MutDependenciesTerminal(s, ss) ==
    \A d \in s.deps : ss[d].status \in TerminalStep

DependenciesCompleted(s, ss) ==
    \A d \in s.deps : ss[d].status = "completed"

\* The steps after the loop that turns unblocked pending steps into ready ones.
Promoted ==
    [i \in DOMAIN steps |->
        IF steps[i].status = "pending" /\ DependenciesCompleted(steps[i], steps)
        THEN [steps[i] EXCEPT !.status = "ready"]
        ELSE steps[i]]

ReadySteps == {i \in DOMAIN steps : Promoted[i].status = "ready"}

IsNext(i) == i \in ReadySteps /\ \A j \in ReadySteps : i <= j

SomeStep(statuses) == \E i \in DOMAIN steps : steps[i].status \in statuses

AllTerminal == \A i \in DOMAIN steps : steps[i].status \in TerminalStep

\* The plan status written when no step is ready.
CheckpointStatus ==
    IF SomeStep({"failed", "blocked"}) THEN "blocked"
    ELSE IF AllTerminal THEN "completed"
    ELSE IF SomeStep({"awaiting_approval"}) THEN "awaiting_approval"
    ELSE IF SomeStep({"claimed"}) THEN "executing"
    ELSE "paused"

MutApprovalByPolicyOnly(s) == ~s.approved /\ s.required

ApprovalRequired(s) == ~s.approved /\ (s.type = "approval" \/ s.required)

\* evaluateSequentialStepDelegationPolicy; an expired grant is a hard blocker.
DelegationDecision(s) ==
    CASE s.grant = "none"                       -> "no_grant"
      [] s.grant = "blocker" \/ (s.grant # "none" /\ expired) -> "blocked"
      [] s.grant = "recommend" /\ ~expired      -> "recommend_only"
      [] s.grant \in {"drift", "never"} /\ ~expired -> "hold"
      [] s.grant = "exact" /\ ~expired          ->
            IF s.approved THEN "dispatch_allowed" ELSE "hold"
      [] s.grant = "allowed" /\ ~expired        -> "dispatch_allowed"

NeedsHold(s) ==
    \/ DelegationDecision(s) = "hold"
    \/ DelegationDecision(s) = "no_grant" /\ ApprovalRequired(s)

MayClaim(s) ==
    \/ DelegationDecision(s) = "dispatch_allowed"
    \/ DelegationDecision(s) = "no_grant" /\ ~ApprovalRequired(s)

\* The loop of runSequentialPlan ends on a stop and on these plan statuses;
\* otherwise it ticks again or, in /tick and at max_ticks, returns.
MutLoopIgnoresStop(stop, status) ==
    IF status \in {"blocked", "failed", "completed", "awaiting_approval", "paused"}
    THEN {"idle"} ELSE {"run"}

LoopTargets(stop, status) ==
    IF stop \/ status \in {"blocked", "failed", "completed",
                           "awaiting_approval", "paused"}
    THEN {"idle"}
    ELSE {"run", "idle"}

EndTick(w, stop, status) ==
    /\ \E t \in LoopTargets(stop, status) : pc' = [pc EXCEPT ![w] = t]
    /\ job' = [job EXCEPT ![w] = NoJob]
    /\ out' = [out EXCEPT ![w] = NoOut]

StartRun(w) ==
    /\ pc[w] = "idle"
    /\ pc' = [pc EXCEPT ![w] = "run"]
    /\ UNCHANGED <<plan, gen, steps, holds, claims, receipts,
                   effects, job, out, expired>>

\* A terminal plan stops the tick; an uncompiled plan makes it throw.
ClaimNothing(w) ==
    /\ pc[w] = "run"
    /\ plan \in TerminalPlan \/ steps = <<>>
    /\ EndTick(w, TRUE, plan)
    /\ UNCHANGED <<plan, gen, steps, holds, claims, receipts,
                   effects, expired>>

ClaimCheckpoint(w) ==
    /\ pc[w] = "run"
    /\ plan \notin TerminalPlan /\ steps # <<>>
    /\ ReadySteps = {}
    /\ plan' = CheckpointStatus
    /\ EndTick(w, TRUE, CheckpointStatus)
    /\ UNCHANGED <<gen, steps, holds, claims, receipts, effects,
                   expired>>

\* A decided hold is dropped from holds: every handler refuses it, so its
\* identifier may be used again.
FreshHolds == HoldIds \ {h.id : h \in holds}

NewHold == CHOOSE n \in FreshHolds : TRUE

\* createApprovalHold, for the orchestrator's and the delegation policy's gate.
ClaimHold(w, i) ==
    /\ pc[w] = "run"
    /\ plan \notin TerminalPlan /\ steps # <<>>
    /\ IsNext(i) /\ NeedsHold(steps[i])
    /\ FreshHolds # {}
    /\ holds' = holds \cup {[id |-> NewHold, gen |-> gen, idx |-> i]}
    /\ steps' = [Promoted EXCEPT ![i].status = "awaiting_approval"]
    /\ plan' = "awaiting_approval"
    /\ EndTick(w, TRUE, "awaiting_approval")
    /\ UNCHANGED <<gen, claims, receipts, effects, expired>>

ClaimBlocked(w, i) ==
    /\ pc[w] = "run"
    /\ plan \notin TerminalPlan /\ steps # <<>>
    /\ IsNext(i) /\ DelegationDecision(steps[i]) = "blocked"
    /\ steps' = [Promoted EXCEPT ![i].status = "blocked"]
    /\ plan' = "blocked"
    /\ EndTick(w, TRUE, "blocked")
    /\ UNCHANGED <<gen, holds, claims, receipts, effects, expired>>

\* recommend_only writes the step status 'paused', which is not a value of
\* the column's ENUM: in strict SQL mode the transaction is rolled back and
\* the tick throws.
ClaimRejected(w, i) ==
    /\ pc[w] = "run"
    /\ plan \notin TerminalPlan /\ steps # <<>>
    /\ IsNext(i) /\ DelegationDecision(steps[i]) = "recommend_only"
    /\ EndTick(w, TRUE, plan)
    /\ UNCHANGED <<plan, gen, steps, holds, claims, receipts,
                   effects, expired>>

\* Where the executor of the claimed step starts.  An approval step has none:
\* it throws sequential_step_executor_missing, an ordinary error.
ExecutorEntry(w, type) ==
    CASE type = "workflow" /\ w \in DurableWorkers    -> "receipt"
      [] type = "workflow" /\ w \notin DurableWorkers -> "dispatch"
      [] type = "internal"                            -> "internal"
      [] type = "approval"                            -> "finalize"

ClaimStep(w, i) ==
    /\ pc[w] = "run"
    /\ plan \notin TerminalPlan /\ steps # <<>>
    /\ IsNext(i) /\ MayClaim(steps[i])
    /\ claims' = claims + 1
    /\ steps' = [Promoted EXCEPT ![i].status = "claimed",
                                 ![i].token = claims + 1,
                                 ![i].attempts = @ + 1]
    /\ plan' = "executing"
    /\ job' = [job EXCEPT ![w] = [gen |-> gen, idx |-> i, token |-> claims + 1]]
    /\ pc' = [pc EXCEPT ![w] = ExecutorEntry(w, steps[i].type)]
    /\ out' = [out EXCEPT ![w] =
                 IF steps[i].type = "approval" THEN "retry_verdict" ELSE NoOut]
    /\ UNCHANGED <<gen, holds, receipts, effects, expired>>

-----------------------------------------------------------------------------
(* Execution: createDurableReceiptAwareExecutor around the step executor.  *)

Reach(w, next, o) ==
    /\ pc' = [pc EXCEPT ![w] = next]
    /\ out' = [out EXCEPT ![w] = o]
    /\ UNCHANGED <<plan, gen, steps, holds, claims, job, expired>>

\* stop, analysis and checkpoint steps succeed unless a required output field
\* is missing.
ExecuteInternal(w) ==
    /\ pc[w] = "internal"
    /\ \E v \in {"ok_verdict", "retry_verdict"} : Reach(w, "finalize", v)
    /\ UNCHANGED <<receipts, effects>>

MutBlockingReceipts(r) == r = "unknown_outcome"

\* A receipt in one of these states makes claimMutationReceipt throw
\* durable_execution_readback_required, marked non_retryable.
ReadbackRequired(r) == r \in {"pending", "unknown_outcome"}

MutReplayVerdict(r) == "ok_verdict"

\* The statuses whose stored result claimMutationReceipt replays.
Replayable(r) == r \in {"succeeded_ok", "succeeded_bad", "reconciled_ok", "reconciled_bad"}

\* verifySequentialStepResult on the stored result.
ReplayVerdict(r) ==
    IF r \in {"succeeded_ok", "reconciled_ok"} THEN "ok_verdict" ELSE "retry_verdict"

ReplayReceipt(w) ==
    /\ pc[w] = "receipt"
    /\ Replayable(receipts[Sid(job[w])])
    /\ Reach(w, "finalize", ReplayVerdict(receipts[Sid(job[w])]))
    /\ UNCHANGED <<receipts, effects>>

RefuseReceipt(w) ==
    /\ pc[w] = "receipt"
    /\ ReadbackRequired(receipts[Sid(job[w])])
    /\ Reach(w, "finalize", "fatal_verdict")
    /\ UNCHANGED <<receipts, effects>>

\* No receipt, or one that failed before dispatch: a pending one is committed.
OpenReceipt(w) ==
    /\ pc[w] = "receipt"
    /\ ~ReadbackRequired(receipts[Sid(job[w])])
    /\ ~Replayable(receipts[Sid(job[w])])
    /\ receipts' = [receipts EXCEPT ![Sid(job[w])] = "pending"]
    /\ Reach(w, "dispatch", NoOut)
    /\ UNCHANGED effects

\* The receipt transaction fails: a database error is a retryable error.
ReceiptUnavailable(w) ==
    /\ pc[w] = "receipt"
    /\ Reach(w, "finalize", "retry_verdict")
    /\ UNCHANGED <<receipts, effects>>

\* An error with a status below 500 comes from the checks before the provider
\* call.  A failed result (dispatchPlan turns a provider exception into
\* ok: false) and any other error may come before or after the effect.
Reaches(o) == CASE o = "ok"      -> {TRUE}
                [] o = "err_pre" -> {FALSE}
                [] OTHER         -> {TRUE, FALSE}

\* The verdict of the default executor's outcome without the receipt wrapper.
PlainVerdict(o) == IF o = "ok" THEN "ok_verdict" ELSE "retry_verdict"

Dispatch(w, o) ==
    /\ pc[w] = "dispatch"
    /\ \E reached \in Reaches(o) :
        effects' = IF reached THEN effects \cup {job[w]} ELSE effects
    /\ IF w \in DurableWorkers
       THEN Reach(w, "record", o)
       ELSE Reach(w, "finalize", PlainVerdict(o))
    /\ UNCHANGED receipts

MutReceiptOf(o) == CASE o = "ok"  -> "succeeded_ok"
                     [] o = "bad" -> "succeeded_bad"
                     [] OTHER     -> "failed_pre_dispatch"

\* finalizeMutationReceipt "succeeded" is written for every returned result,
\* whatever its ok field.
ReceiptOf(o) == CASE o = "ok"      -> "succeeded_ok"
                  [] o = "bad"     -> "succeeded_bad"
                  [] o = "err_pre" -> "failed_pre_dispatch"
                  [] OTHER         -> "unknown_outcome"

VerdictOf(o) == CASE o = "ok" -> "ok_verdict"
                  [] o = "err_other" -> "fatal_verdict"
                  [] OTHER -> "retry_verdict"

RecordReceipt(w) ==
    /\ pc[w] = "record"
    /\ receipts' = [receipts EXCEPT ![Sid(job[w])] = ReceiptOf(out[w])]
    /\ Reach(w, "finalize", VerdictOf(out[w]))
    /\ UNCHANGED effects

\* Writing "succeeded" fails inside the try block: the catch block takes the
\* database error for an unknown outcome.
RecordSuccessFails(w) ==
    /\ pc[w] = "record"
    /\ out[w] \in {"ok", "bad"}
    /\ receipts' = [receipts EXCEPT ![Sid(job[w])] = "unknown_outcome"]
    /\ Reach(w, "finalize", "fatal_verdict")
    /\ UNCHANGED effects

\* The write in the catch block fails too: the receipt stays pending and the
\* error that leaves the executor is not marked non_retryable.
RecordFails(w) ==
    /\ pc[w] = "record"
    /\ Reach(w, "finalize", "retry_verdict")
    /\ UNCHANGED <<receipts, effects>>

-----------------------------------------------------------------------------
(* Finalisation: finalizeClaim.                                            *)

ClaimHeld(w) ==
    /\ job[w].gen = gen
    /\ job[w].idx \in DOMAIN steps
    /\ steps[job[w].idx].token = job[w].token

MutRetryable(s, v) == v = "retry_verdict" /\ s.attempts <= s.max

Retryable(s, v) == v = "retry_verdict" /\ s.attempts < s.max

FinalStatus(s, v) ==
    IF v = "ok_verdict" THEN "completed"
    ELSE IF Retryable(s, v) THEN "ready" ELSE "failed"

FinalizeClaim(w) ==
    /\ pc[w] = "finalize"
    /\ ClaimHeld(w)
    /\ LET i == job[w].idx
           status == FinalStatus(steps[i], out[w])
       IN  /\ steps' = [steps EXCEPT ![i].status = status, ![i].token = 0]
           /\ plan' = IF status = "failed" THEN "blocked" ELSE "executing"
           /\ EndTick(w, FALSE, plan')
    /\ UNCHANGED <<gen, holds, claims, receipts, effects, expired>>

\* The row is gone or its claim_token changed: sequential_step_claim_lost.
ClaimLost(w) ==
    /\ pc[w] = "finalize"
    /\ ~ClaimHeld(w)
    /\ EndTick(w, TRUE, plan)
    /\ UNCHANGED <<plan, gen, steps, holds, claims, receipts,
                   effects, expired>>

\* The process dies, or the finalising transaction is rolled back and the
\* request fails: the worker is gone and its rows stay as they are.
WorkerLost(w) ==
    /\ pc[w] # "idle"
    /\ pc' = [pc EXCEPT ![w] = "idle"]
    /\ job' = [job EXCEPT ![w] = NoJob]
    /\ out' = [out EXCEPT ![w] = NoOut]
    /\ UNCHANGED <<plan, gen, steps, holds, claims, receipts,
                   effects, expired>>

-----------------------------------------------------------------------------
(* Operators: decideSequentialPlanApproval, resumeSequentialPlan,          *)
(* transitionDurableExecution, cancelDurableExecution.                     *)

Decisions == {"approved", "rejected", "escalated"}

DecidedStep(s, d) ==
    CASE d = "approved"  -> IF s.type = "approval" THEN "completed" ELSE "ready"
      [] d = "escalated" -> "blocked"
      [] d = "rejected"  -> "failed"

DecidedPlan(d) == CASE d = "approved"  -> "validated"
                    [] d = "escalated" -> "paused"
                    [] d = "rejected"  -> "blocked"

MutKeepHold(h) == holds

CloseHold(h) == holds \ {h}

Decide(h, d) ==
    /\ h \in holds
    /\ h.gen = gen /\ h.idx \in DOMAIN steps
    /\ steps[h.idx].status = "awaiting_approval"
    /\ holds' = CloseHold(h)
    /\ steps' = [steps EXCEPT ![h.idx].status = DecidedStep(steps[h.idx], d),
                              ![h.idx].approved = (d = "approved")]
    /\ plan' = DecidedPlan(d)
    /\ UNCHANGED <<gen, claims, receipts, effects, workerVars,
                   expired>>

MutResumable(s) == s.status \in {"blocked", "claimed"}

\* 'paused' and 'retrying', the other two statuses the code looks for, are
\* never left in a row.
Resumable(s) == s.status = "blocked"

Resume ==
    /\ steps # <<>>
    /\ plan' = "validated"
    /\ steps' = [i \in DOMAIN steps |->
                    IF /\ Resumable(steps[i])
                       /\ \A j \in 1..(i - 1) : ~Resumable(steps[j])
                    THEN [steps[i] EXCEPT !.status = "ready"]
                    ELSE steps[i]]
    /\ UNCHANGED <<gen, holds, claims, receipts, effects, workerVars,
                   expired>>

PlanTransitions ==
    [draft |-> {"validated", "cancelled"},
     validated |-> {"approved", "executing", "paused", "blocked", "cancelled"},
     approved |-> {"executing", "paused", "blocked", "cancelled"},
     executing |-> {"awaiting_approval", "paused", "blocked", "completed",
                    "failed", "cancelled"},
     awaiting_approval |-> {"validated", "executing", "paused", "blocked",
                            "failed", "cancelled"},
     paused |-> {"validated", "executing", "blocked", "cancelled"},
     blocked |-> {"validated", "paused", "failed", "cancelled"},
     completed |-> {}, failed |-> {}, cancelled |-> {}]

\* PATCH /planner/plans/:id/status: the plan row only, never its steps.
Transition(to) ==
    /\ to \in PlanTransitions[plan]
    /\ plan' = to
    /\ UNCHANGED <<gen, steps, holds, claims, receipts, effects,
                   workerVars, expired>>

Cancellable(s) == s.status \notin TerminalStep

\* Every unfinished step is cancelled and its claim_token dropped; an open
\* approval hold stays open.
Cancel ==
    /\ plan \notin TerminalPlan
    /\ plan' = "cancelled"
    /\ steps' = [i \in DOMAIN steps |->
                    IF Cancellable(steps[i])
                    THEN [steps[i] EXCEPT !.status = "cancelled", !.token = 0]
                    ELSE steps[i]]
    /\ UNCHANGED <<gen, holds, claims, receipts, effects, workerVars,
                   expired>>

-----------------------------------------------------------------------------
(* reconcileGrowthControlMutationReceipt: one transaction over the receipt,  *)
(* the step and the plan, on evidence read back from the provider.           *)

MutReconcilable(i) ==
    /\ steps[i].status \in {"failed", "blocked"}
    /\ receipts[<<gen, i>>] # "none"

\* Only a receipt without a known outcome, of a failed or blocked step; any
\* other receipt is refused, or answered from its stored reconciliation.
Reconcilable(i) ==
    /\ steps[i].status \in {"failed", "blocked"}
    /\ ReadbackRequired(receipts[<<gen, i>>])

\* The provider has the step's effect.
Effected(i) == \E e \in effects : Sid(e) = <<gen, i>>

Blocker(i) == steps[i].status \in {"failed", "blocked"}

\* confirmed_applied.  The plan's own status is not looked at.
ReconcileApplied(i) ==
    /\ Reconcilable(i) /\ Effected(i)
    /\ receipts' = [receipts EXCEPT ![<<gen, i>>] = "reconciled_ok"]
    /\ steps' = [steps EXCEPT ![i] = [@ EXCEPT !.status = "completed", !.token = 0]]
    /\ plan' = IF \E j \in DOMAIN steps \ {i} : Blocker(j) THEN "blocked" ELSE "validated"
    /\ UNCHANGED <<gen, holds, claims, effects, workerVars, expired>>

Reopened(s) == IF s.status = "failed" THEN s.reopened + 1 ELSE s.reopened

\* confirmed_not_applied, partial_effect or inconclusive.  Evidence need only be
\* younger than the receipt, which is older than the dispatch: "not_applied"
\* may have been observed before the effect took place.
ReconcileBlocked(i, found) ==
    /\ Reconcilable(i)
    /\ found = "partial" => Effected(i)
    /\ steps[i].status = "failed" => steps[i].reopened < MaxReopens
    /\ receipts' = [receipts EXCEPT ![<<gen, i>>] =
                        IF found = "unknown" THEN "unknown_outcome" ELSE "reconciled_bad"]
    /\ steps' = [steps EXCEPT ![i] =
                    [@ EXCEPT !.status = "blocked", !.token = 0,
                              !.reopened = Reopened(steps[i])]]
    /\ plan' = "blocked"
    /\ UNCHANGED <<gen, holds, claims, effects, workerVars, expired>>

Reconcile ==
    \E i \in DOMAIN steps :
        \/ ReconcileApplied(i)
        \/ \E found \in {"not_applied", "partial", "unknown"} : ReconcileBlocked(i, found)

-----------------------------------------------------------------------------
\* Time passes; no step without a grant can tell.
GrantExpires ==
    /\ ~expired
    /\ \E i \in DOMAIN steps : steps[i].grant # "none"
    /\ expired' = TRUE
    /\ UNCHANGED <<plan, gen, steps, holds, claims, receipts,
                   effects, workerVars>>

Claim(w) ==
    \/ ClaimNothing(w)
    \/ ClaimCheckpoint(w)
    \/ \E i \in DOMAIN steps :
        ClaimHold(w, i) \/ ClaimBlocked(w, i) \/ ClaimRejected(w, i)
          \/ ClaimStep(w, i)

Execute(w) ==
    \/ ExecuteInternal(w)
    \/ ReplayReceipt(w) \/ RefuseReceipt(w) \/ OpenReceipt(w)
    \/ ReceiptUnavailable(w)
    \/ \E o \in Outcomes : Dispatch(w, o)
    \/ RecordReceipt(w) \/ RecordSuccessFails(w) \/ RecordFails(w)

Finalize(w) == FinalizeClaim(w) \/ ClaimLost(w)

WorkerStep(w) == Claim(w) \/ Execute(w) \/ Finalize(w)

Operator ==
    \/ \E r \in Requests : Compile(r)
    \/ \E h \in holds, d \in Decisions : Decide(h, d)
    \/ Resume
    \/ \E to \in PlanStatuses : Transition(to)
    \/ Cancel
    \/ Reconcile

Next ==
    \/ \E w \in Workers : StartRun(w) \/ WorkerStep(w) \/ WorkerLost(w)
    \/ Operator
    \/ GrantExpires

Spec == Init /\ [][Next]_vars

\* A started request keeps running while its process lives.
RunFairness == \A w \in Workers : WF_vars(WorkerStep(w))

FairSpec == Spec /\ RunFairness

\* Clients keep ticking and operators keep resuming the plan.
RetryingSpec ==
    FairSpec /\ WF_vars(Resume) /\ \A w \in Workers : WF_vars(StartRun(w))

-----------------------------------------------------------------------------
(* Properties. *)

StepRecords ==
    [type : StepTypes, deps : SUBSET (1..MaxSteps), max : 1..AttemptCap,
     required : BOOLEAN, approved : BOOLEAN, grant : Grants,
     status : StepStatuses, attempts : Nat, token : Nat, reopened : 0..MaxReopens]

Jobs == [gen : 0..MaxCompiles, idx : 0..MaxSteps, token : Nat]

Executing(w) == pc[w] \notin {"idle", "run"}

\* Every row and every worker's local state has its type: in particular a
\* compiled step allows between 1 and AttemptCap attempts whatever the
\* request asked for, and a plan has at most MaxSteps steps.
TypeOK ==
    /\ plan \in PlanStatuses
    /\ gen \in 0..MaxCompiles
    /\ \E n \in 0..MaxSteps : steps \in [1..n -> StepRecords]
    /\ holds \subseteq [id : HoldIds, gen : 1..MaxCompiles, idx : 1..MaxSteps]
    /\ claims \in Nat
    /\ receipts \in [StepIds -> ReceiptStates]
    /\ effects \subseteq Jobs
    /\ pc \in [Workers -> {"idle", "run", "internal", "receipt", "dispatch",
                           "record", "finalize"}]
    /\ job \in [Workers -> Jobs]
    /\ out \in [Workers -> {NoOut} \cup Outcomes \cup Verdicts]
    /\ expired \in BOOLEAN

Allowance(s) == s.max + s.reopened

\* No sequence of claims, retries, escalations, resumptions and cancellations
\* gives a step more attempts than its max_attempts, and one more for each time
\* that a reconciliation made the failed step resumable: claimNextStep increments
\* attempt_count without looking at it, only finalizeClaim compares it.
AttemptsBounded ==
    \A i \in DOMAIN steps : steps[i].attempts <= Allowance(steps[i])

\* A step that left "pending" other than by cancellation has all the steps it
\* depends on completed, and they stay completed whatever happens to the plan.
DependencyOrder ==
    \A i \in DOMAIN steps :
        steps[i].status \notin {"pending", "cancelled"} =>
            \A d \in steps[i].deps : steps[d].status = "completed"

\* Two workers never execute the same plan step at the same time, through
\* cancellations, resumptions, recompilations and lost workers: the claim
\* token is unique and nothing but its holder makes a claimed step ready.
ExclusiveExecution ==
    \A v, w \in Workers :
        v # w /\ Executing(v) /\ Executing(w) => Sid(job[v]) # Sid(job[w])

\* A step that awaits approval has exactly one open hold, so that it can be
\* decided; an open hold of a current step belongs to a step that awaits it or
\* was cancelled (cancelDurableExecution leaves holds open), so that a late
\* decision can never touch a step that moved on.
HoldsMatchSteps ==
    /\ \A i \in DOMAIN steps :
        steps[i].status = "awaiting_approval" =>
            \E h \in holds : h.gen = gen /\ h.idx = i
    /\ \A h, k \in holds : h.gen = k.gen /\ h.idx = k.idx => h = k
    /\ \A h \in holds :
        h.gen = gen => steps[h.idx].status \in {"awaiting_approval", "cancelled"}

\* A step is claimed or completed only under the authority its policy asks
\* for: a recorded approval, a delegation grant that allows dispatch, or a
\* policy that requires nothing.  Drifted, blocked, recommend-only and
\* never-approvable delegations are not claimed at all.
OnlyAuthorizedExecution ==
    \A i \in DOMAIN steps :
        LET s == steps[i] IN
        /\ s.status \in {"claimed", "completed"} =>
            \/ s.approved
            \/ s.grant = "allowed"
            \/ s.grant = "none" /\ s.type # "approval" /\ ~s.required
        /\ s.status = "claimed" => s.grant \in {"none", "exact", "allowed"}

\* The provider is reached at most once for a plan step, over all retries,
\* crashes, failing receipt writes and cancellations (receipt-aware executor).
AtMostOnceDispatch == \A e, f \in effects : Sid(e) = Sid(f) => e = f

\* An effect at the provider always has a receipt that blocks or replays a
\* later attempt: it is never unrecorded nor recorded as failed before dispatch
\* (pending_mutation_receipt_required).
NoUntrackedEffect ==
    \A e \in effects :
        receipts[Sid(e)] \notin {"none", "failed_pre_dispatch"}

\* A completed workflow step really reached the provider: neither a replayed
\* receipt nor a reconciled one completes a step whose stored result was not a
\* verified success.
CompletedWasDispatched ==
    \A i \in DOMAIN steps :
        steps[i].type = "workflow" /\ steps[i].status = "completed" =>
            \E e \in effects : e.gen = gen /\ e.idx = i

\* Within one compilation a finished step keeps its status: no late finalizer,
\* approval decision, resume or cancellation reopens or relabels it.  The one
\* exception is a failed step whose receipt has no known outcome: reconciliation
\* may complete or block it, and no failed step is reopened again once its
\* receipt says reconciled (growthControlProviderEffectReconciliationService).
TerminalStepStays ==
    [][gen' = gen =>
        \A i \in DOMAIN steps :
            steps[i].status \in TerminalStep =>
                \/ steps'[i].status = steps[i].status
                \/ /\ steps[i].status = "failed"
                   /\ ReadbackRequired(receipts[<<gen, i>>])
                   /\ steps'[i].status \in {"completed", "blocked"}]_vars

\* A started run ends, without the max_ticks budget: every tick that does not
\* stop the loop uses up one of finitely many attempts.
RunTerminates == \A w \in Workers : pc[w] = "run" ~> pc[w] = "idle"

-----------------------------------------------------------------------------
(* Inductive strengthenings of the properties, for the proofs.             *)

\* Before the first compilation there are no steps.
StepsAreCompiled == gen = 0 => DOMAIN steps = {}

\* A worker's claim is of a compilation that took place; when that is the
\* current one, its step is still claimed, or was cancelled meanwhile.
ClaimsMatchSteps ==
    \A w \in Workers : Executing(w) =>
        /\ job[w].gen \in 1..gen
        /\ job[w].idx \in 1..MaxSteps
        /\ job[w].gen = gen =>
            /\ job[w].idx \in DOMAIN steps
            /\ steps[job[w].idx].status \in {"claimed", "cancelled"}

\* A step that can still be claimed has an attempt left.
AttemptsLeft ==
    \A i \in DOMAIN steps :
        steps[i].status \in {"pending", "ready", "awaiting_approval", "blocked"}
            => steps[i].attempts < Allowance(steps[i])

\* Every effect belongs to a compilation that took place.
EffectsAreOfSteps ==
    \A e \in effects : e.gen \in 1..gen /\ e.idx \in 1..MaxSteps

\* A durable worker about to dispatch owns a pending receipt of a step that
\* never reached the provider; once it has dispatched, the only effect of the
\* step is its own, and there is none if the error came before the dispatch.
ReceiptGuardsDispatch ==
    \A w \in Workers :
        /\ pc[w] = "dispatch" =>
            /\ receipts[Sid(job[w])] = "pending"
            /\ \A e \in effects : Sid(e) # Sid(job[w])
        /\ pc[w] = "record" =>
            /\ receipts[Sid(job[w])] = "pending"
            /\ out[w] \in Outcomes
            /\ \A e \in effects :
                Sid(e) = Sid(job[w]) => e = job[w] /\ out[w] # "err_pre"

ClaimInv ==
    /\ TypeOK
    /\ StepsAreCompiled
    /\ ClaimsMatchSteps
    /\ ExclusiveExecution

AttemptInv == ClaimInv /\ AttemptsBounded /\ AttemptsLeft

ReceiptInv ==
    /\ ClaimInv
    /\ EffectsAreOfSteps
    /\ ReceiptGuardsDispatch
    /\ NoUntrackedEffect
    /\ AtMostOnceDispatch

-----------------------------------------------------------------------------
(* A statement of the repository's documents that the code does not keep.  *)

\* specs/011.../spec.md FR-003: "Operation state is persisted and resumable
\* after transport or process failure" - with clients that keep ticking and
\* resuming the plan, a claimed step does not stay claimed for ever.
ClaimedStepRecovers ==
    \A i \in 1..MaxSteps :
        (i \in DOMAIN steps /\ steps[i].status = "claimed")
            ~> ~(i \in DOMAIN steps /\ steps[i].status = "claimed")

=============================================================================
