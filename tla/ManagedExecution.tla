-------------------------- MODULE ManagedExecution --------------------------
(***************************************************************************)
(* The managed execution lifecycle of http-generic-api: a workflow run     *)
(* with its binding and task ticket, the approval holds that gate it, its  *)
(* steps, the recovery operations (retry, escalate, cancel, rollback) and  *)
(* the administrator's reconciliation.                                     *)
(*                                                                         *)
(* Every operation of the code is one transaction that locks the rows it   *)
(* reads (managedExecutionPersistence.js, SELECT ... FOR UPDATE), so every *)
(* operation is one action here; what is interleaved is the operations     *)
(* themselves, which several operators, approvers and executors call in    *)
(* any order.  A refusal (an error the code throws) rolls the transaction  *)
(* back and is a disabled action; so is a repeated request whose           *)
(* idempotency key is known, and an authority that is no longer effective. *)
(*                                                                         *)
(* Abstractions.  The task ticket and customer_status are always written   *)
(* together with the binding's lifecycle_state, from which they follow;    *)
(* binding.approval_hold_id is always the newest hold.  All runs belong to *)
(* one scope (tenant, requester, parent ticket, capability, resource,      *)
(* effect).  A hold may be found expired at any decision.  A step that a   *)
(* caller gives the rollback key has the managed_op type.  A reassignment  *)
(* changes no variable of this module.                                     *)
(***************************************************************************)
EXTENDS Naturals, FiniteSets

CONSTANTS
    Runs,          \* run ids, one per idempotency key of a create request
    Steps,         \* step ids, one per idempotency key of a step request
    MaxHolds,      \* bound: holds created for one run
    RetryCeiling   \* largest max_attempts a retry request may name (10)

ASSUME BoundsAssumption == MaxHolds \in Nat /\ RetryCeiling \in Nat \ {0}

VARIABLES
    run,       \* workflow_runs.status; "none" before the run exists
    life,      \* managed_execution_bindings.lifecycle_state
    authority, \* the immutable authority snapshot of the run
    holds,     \* approval_holds of the run, in the order of their ids
    nholds,    \* how many of them exist
    step,      \* step_runs.status; "none" before the step exists
    rollback,  \* steps whose step_key is __managed_rollback__
    attempt    \* step_runs.attempt

vars == <<run, life, authority, holds, nholds, step, rollback, attempt>>

-----------------------------------------------------------------------------
RunStatuses == {"pending", "running", "paused", "awaiting_review",
                "awaiting_approval", "completed", "failed", "cancelled"}

TERMINAL_RUN_STATUSES == {"completed", "failed", "cancelled"}

StepStatuses == {"pending", "running", "awaiting", "completed", "failed", "skipped"}

ACTIVE_STEP_STATUSES == {"pending", "running", "awaiting"}

HoldTypes == {"review", "managed_handoff", "supervisor_approval"}

HoldStatuses == {"open", "approved", "rejected", "expired", "escalated"}

Lifecycles == {"ready", "execution_ready", "managed_handoff_required", "awaiting_approval",
               "escalated", "approval_rejected", "approval_expired", "executing",
               "blocked", "verification_pending", "verified", "failed", "cancelled",
               "rollback_executing", "rolled_back"}

\* Lifecycle states createManagedExecutionRun does not count as active.
InactiveLifecycles == {"verified", "failed", "cancelled", "approval_rejected",
                       "approval_expired", "rolled_back"}

HoldIds == 1..MaxHolds

NoHold == [type |-> "none", status |-> "none"]

\* hold_type "none" means that the gate requires no approval; only a
\* read_only effect can have that (EFFECT_POLICIES).
Authorities ==
    {a \in [hold_type : HoldTypes \cup {"none"}, read_only : BOOLEAN,
            mode : {"live", "dry_run"}] : a.hold_type = "none" => a.read_only}

NoAuthority == [hold_type |-> "none", read_only |-> TRUE, mode |-> "live"]

Init ==
    /\ run = [r \in Runs |-> "none"]
    /\ life = [r \in Runs |-> "none"]
    /\ authority = [r \in Runs |-> NoAuthority]
    /\ holds = [r \in Runs |-> [h \in HoldIds |-> NoHold]]
    /\ nholds = [r \in Runs |-> 0]
    /\ step = [r \in Runs |-> [s \in Steps |-> "none"]]
    /\ rollback = [r \in Runs |-> {}]
    /\ attempt = [r \in Runs |-> [s \in Steps |-> 1]]

-----------------------------------------------------------------------------
ApprovalRequired(r) == authority[r].hold_type # "none"

SomeHold(r, statuses) == \E h \in HoldIds : holds[r][h].status \in statuses

NoOpenHold(r) == ~SomeHold(r, {"open"})

\* activeSteps(state, excludedStepRunId) with the excluded steps as a set.
NoActiveStep(r, excluded) ==
    \A s \in Steps \ excluded : step[r][s] \notin ACTIVE_STEP_STATUSES

\* assertManagedExecutionAuthorityStillEffective refuses a dry run outside
\* an approval decision.
LiveAuthority(r) == authority[r].mode = "live"

SetRun(r, status, lifecycle) ==
    /\ run' = [run EXCEPT ![r] = status]
    /\ life' = [life EXCEPT ![r] = lifecycle]

AddHold(hs, n, type) == [hs EXCEPT ![n + 1] = [type |-> type, status |-> "open"]]

CloseHold(hs, h, status) == [hs EXCEPT ![h] = [type |-> @.type, status |-> status]]

-----------------------------------------------------------------------------
(* Creating a run: refused, or answered with the existing binding, while   *)
(* another binding of the scope is active.                                 *)
InitialStatus(type) ==
    CASE type = "none"   -> "pending"
      [] type = "review" -> "awaiting_review"
      [] OTHER           -> "awaiting_approval"

InitialLifecycle(type) ==
    CASE type = "none"            -> "execution_ready"
      [] type = "managed_handoff" -> "managed_handoff_required"
      [] OTHER                    -> "awaiting_approval"

CreateRun(r, a) ==
    /\ run[r] = "none"
    /\ \A q \in Runs \ {r} : run[q] # "none" => life[q] \in InactiveLifecycles
    /\ SetRun(r, InitialStatus(a.hold_type), InitialLifecycle(a.hold_type))
    /\ authority' = [authority EXCEPT ![r] = a]
    /\ \/ /\ a.hold_type = "none"
          /\ UNCHANGED <<holds, nholds>>
       \/ /\ a.hold_type # "none"
          /\ MaxHolds > 0
          /\ holds' = [holds EXCEPT ![r] = AddHold(@, 0, a.hold_type)]
          /\ nholds' = [nholds EXCEPT ![r] = 1]
    /\ UNCHANGED <<step, rollback, attempt>>

(* assertManagedExecutionStepEligibility and the insertion of a step.  The *)
(* caller names the step_key, the rollback key included.                   *)
\* Mutation: of the holds only an open one matters.
MutStepNeedsNoApproval(r) ==
    /\ run[r] \in {"pending", "running"}
    /\ NoOpenHold(r)

StepEligible(r) ==
    /\ run[r] \in {"pending", "running"}
    /\ NoOpenHold(r)
    /\ ~SomeHold(r, {"rejected", "expired"})
    /\ ApprovalRequired(r) => SomeHold(r, {"approved"})

InsertStep(r, s, isRollback) ==
    /\ step[r][s] = "none"
    /\ step' = [step EXCEPT ![r][s] = "pending"]
    /\ rollback' = [rollback EXCEPT ![r] = IF isRollback THEN @ \cup {s} ELSE @]

CreateStep(r, s, isRollback) ==
    /\ StepEligible(r)
    /\ LiveAuthority(r)
    /\ InsertStep(r, s, isRollback)
    /\ UNCHANGED <<run, life, authority, holds, nholds, attempt>>

-----------------------------------------------------------------------------
(* decideManagedExecutionApproval: what the decision does to the run does  *)
(* not depend on the run's status at that moment.                          *)
DecideExpired(r, h) ==
    /\ holds[r][h].status = "open"
    /\ holds' = [holds EXCEPT ![r] = CloseHold(@, h, "expired")]
    /\ SetRun(r, "awaiting_approval", "approval_expired")
    /\ UNCHANGED <<authority, nholds, step, rollback, attempt>>

Decide(r, h, decision) ==
    /\ holds[r][h].status = "open"
    /\ holds' = [holds EXCEPT ![r] = CloseHold(@, h, decision)]
    /\ \/ decision = "approved" /\ SetRun(r, "running", "executing")
       \/ decision = "rejected" /\ SetRun(r, "failed", "approval_rejected")
    /\ UNCHANGED <<authority, nholds, step, rollback, attempt>>

\* Mutation: the escalated hold is left open.
MutEscalateKeepsHold(r, h) ==
    /\ holds[r][h].status = "open"
    /\ nholds[r] < MaxHolds
    /\ holds' = [holds EXCEPT ![r] = AddHold(@, nholds[r], "supervisor_approval")]
    /\ nholds' = [nholds EXCEPT ![r] = @ + 1]
    /\ SetRun(r, "awaiting_approval", "escalated")
    /\ UNCHANGED <<authority, step, rollback, attempt>>

DecideEscalated(r, h) ==
    /\ holds[r][h].status = "open"
    /\ nholds[r] < MaxHolds
    /\ holds' = [holds EXCEPT ![r] = AddHold(CloseHold(@, h, "escalated"), nholds[r],
                                             "supervisor_approval")]
    /\ nholds' = [nholds EXCEPT ![r] = @ + 1]
    /\ SetRun(r, "awaiting_approval", "escalated")
    /\ UNCHANGED <<authority, step, rollback, attempt>>

-----------------------------------------------------------------------------
(* syncManagedExecutionRunStatus.                                          *)
RunTransitions ==
    {<<"pending", "running">>, <<"pending", "cancelled">>,
     <<"running", "paused">>, <<"running", "completed">>,
     <<"running", "failed">>, <<"running", "cancelled">>,
     <<"paused", "running">>, <<"paused", "cancelled">>,
     <<"awaiting_review", "cancelled">>, <<"awaiting_approval", "cancelled">>}

LifecycleOf(next) ==
    CASE next = "completed" -> "verified"
      [] next = "failed"    -> "failed"
      [] next = "cancelled" -> "cancelled"
      [] next = "paused"    -> "blocked"
      [] OTHER              -> "executing"

\* Mutation: failed steps do not keep a run from completing.
MutCompleteWithFailed(r, next) ==
    /\ <<run[r], next>> \in RunTransitions
    /\ next = "completed" => LiveAuthority(r)
    /\ next = "running" => /\ NoOpenHold(r)
                           /\ ApprovalRequired(r) => SomeHold(r, {"approved"})
                           /\ LiveAuthority(r)
    /\ next \in TERMINAL_RUN_STATUSES => NoActiveStep(r, {})
    /\ SetRun(r, next, LifecycleOf(next))
    /\ UNCHANGED <<authority, holds, nholds, step, rollback, attempt>>

SyncRunStatus(r, next) ==
    /\ <<run[r], next>> \in RunTransitions
    /\ next = "completed" => LiveAuthority(r)
    /\ next = "running" => /\ NoOpenHold(r)
                           /\ ApprovalRequired(r) => SomeHold(r, {"approved"})
                           /\ LiveAuthority(r)
    /\ next \in TERMINAL_RUN_STATUSES => NoActiveStep(r, {})
    /\ next = "completed" => \A s \in Steps : step[r][s] # "failed"
    /\ SetRun(r, next, LifecycleOf(next))
    /\ UNCHANGED <<authority, holds, nholds, step, rollback, attempt>>

-----------------------------------------------------------------------------
(* syncManagedExecutionStepStatus.                                         *)
StepTransitions ==
    {<<"pending", "running">>, <<"pending", "failed">>,
     <<"pending", "skipped">>, <<"pending", "awaiting">>,
     <<"running", "completed">>, <<"running", "failed">>,
     <<"running", "skipped">>, <<"running", "awaiting">>,
     <<"awaiting", "pending">>, <<"awaiting", "running">>,
     <<"awaiting", "failed">>, <<"awaiting", "skipped">>}

SyncStepStatus(r, s, next) ==
    /\ <<step[r][s], next>> \in StepTransitions
    /\ next = "running" => /\ NoOpenHold(r)
                           /\ LiveAuthority(r)
                           /\ run[r] \in {"pending", "running", "paused"}
    /\ step' = [step EXCEPT ![r][s] = next]
    /\ \/ /\ next = "running"
          /\ SetRun(r, "running", IF life[r] = "rollback_executing" THEN life[r] ELSE "executing")
       \/ /\ next = "failed"
          /\ SetRun(r, "paused", "blocked")
       \/ /\ next \notin {"running", "failed"}
          /\ UNCHANGED <<run, life>>
    /\ UNCHANGED <<authority, holds, nholds, rollback, attempt>>

(* retryManagedExecutionStep; the request may name the limit itself.       *)
RetryStep(r, s, maxAttempts) ==
    /\ step[r][s] = "failed"
    /\ run[r] \in {"paused", "failed"}
    /\ NoOpenHold(r)
    /\ NoActiveStep(r, {s})
    /\ attempt[r][s] < maxAttempts
    /\ LiveAuthority(r)
    /\ step' = [step EXCEPT ![r][s] = "pending"]
    /\ attempt' = [attempt EXCEPT ![r][s] = @ + 1]
    /\ SetRun(r, "running", "executing")
    /\ UNCHANGED <<authority, holds, nholds, rollback>>

-----------------------------------------------------------------------------
(* escalateManagedExecutionRun: an open supervisor hold is reused, another *)
(* open hold refuses.                                                      *)
\* Mutation: an escalation does not look for running steps.
MutEscalateWhileRunning(r) ==
    /\ run[r] \in {"paused", "failed"}
    /\ NoOpenHold(r)
    /\ nholds[r] < MaxHolds
    /\ holds' = [holds EXCEPT ![r] = AddHold(@, nholds[r], "supervisor_approval")]
    /\ nholds' = [nholds EXCEPT ![r] = @ + 1]
    /\ SetRun(r, "awaiting_approval", "escalated")
    /\ UNCHANGED <<authority, step, rollback, attempt>>

EscalateRun(r) ==
    /\ run[r] \in {"paused", "failed"}
    /\ \A s \in Steps : step[r][s] # "running"
    /\ NoOpenHold(r)
    /\ nholds[r] < MaxHolds
    /\ holds' = [holds EXCEPT ![r] = AddHold(@, nholds[r], "supervisor_approval")]
    /\ nholds' = [nholds EXCEPT ![r] = @ + 1]
    /\ SetRun(r, "awaiting_approval", "escalated")
    /\ UNCHANGED <<authority, step, rollback, attempt>>

(* cancelManagedExecutionRun.                                              *)
\* Mutation: every unfinished step is skipped, the failed ones too.
MutCancelSkipsFailed(r) ==
    /\ run[r] \in RunStatuses \ TERMINAL_RUN_STATUSES
    /\ step' = [step EXCEPT ![r] =
                  [s \in Steps |-> IF @[s] \in {"none", "completed"} THEN @[s] ELSE "skipped"]]
    /\ holds' = [holds EXCEPT ![r] =
                  [h \in HoldIds |-> IF @[h].status = "open"
                                     THEN [type |-> @[h].type, status |-> "rejected"]
                                     ELSE @[h]]]
    /\ SetRun(r, "cancelled", "cancelled")
    /\ UNCHANGED <<authority, nholds, rollback, attempt>>

CancelRun(r) ==
    /\ run[r] \in RunStatuses \ TERMINAL_RUN_STATUSES
    /\ step' = [step EXCEPT ![r] =
                  [s \in Steps |-> IF @[s] \in ACTIVE_STEP_STATUSES THEN "skipped" ELSE @[s]]]
    /\ holds' = [holds EXCEPT ![r] =
                  [h \in HoldIds |-> IF @[h].status = "open"
                                     THEN [type |-> @[h].type, status |-> "rejected"]
                                     ELSE @[h]]]
    /\ SetRun(r, "cancelled", "cancelled")
    /\ UNCHANGED <<authority, nholds, rollback, attempt>>

(* requestManagedExecutionRollback: a rollback step that neither failed    *)
(* nor was skipped is reused, two of them are ambiguous.                   *)
RequestRollback(r, s) ==
    /\ life[r] # "rolled_back"
    /\ run[r] \in {"completed", "failed", "paused", "cancelled"}
    /\ ~authority[r].read_only
    /\ NoOpenHold(r)
    /\ NoActiveStep(r, {})
    /\ Cardinality(rollback[r]) <= 1
    /\ \A t \in rollback[r] : step[r][t] \in {"failed", "skipped"}
    /\ LiveAuthority(r)
    /\ InsertStep(r, s, TRUE)
    /\ SetRun(r, "running", "rollback_executing")
    /\ UNCHANGED <<authority, holds, nholds, attempt>>

(* finalizeManagedExecutionRollback does not look at the run's status or   *)
(* holds.                                                                  *)
\* Mutation: the other steps are not looked at.
MutFinalizeEarly(r, s) ==
    /\ life[r] # "rolled_back"
    /\ s \in rollback[r]
    /\ step[r][s] = "completed"
    /\ SetRun(r, "cancelled", "rolled_back")
    /\ UNCHANGED <<authority, holds, nholds, step, rollback, attempt>>

FinalizeRollback(r, s) ==
    /\ life[r] # "rolled_back"
    /\ s \in rollback[r]
    /\ step[r][s] = "completed"
    /\ NoActiveStep(r, {s})
    /\ SetRun(r, "cancelled", "rolled_back")
    /\ UNCHANGED <<authority, holds, nholds, step, rollback, attempt>>

-----------------------------------------------------------------------------
(* reconcileManagedExecutionState.  latestRelevantHold ranks the holds by  *)
(* decided_at, which counts seconds: of two holds decided in one second it *)
(* takes the older, so any existing hold may come first.                   *)
RelevantHolds(r) ==
    IF nholds[r] = 0 THEN {NoHold} ELSE {holds[r][h] : h \in 1..nholds[r]}

OpenHolds(r) == {h \in HoldIds : holds[r][h].status = "open"}

\* The contradictions that are not repairable, for run status st, lifecycle
\* state lf and latest hold lh.
Blocked(r, st, lf, lh) ==
    \/ Cardinality(OpenHolds(r)) > 1
    \/ Cardinality(rollback[r]) > 1
    \/ ~NoOpenHold(r) /\ st \in {"running", "completed", "cancelled"}
    \/ st \in TERMINAL_RUN_STATUSES /\ ~NoActiveStep(r, {})
    \/ st = "completed" /\ \E s \in Steps : step[r][s] = "failed"
    \/ /\ st = "awaiting_approval"
       /\ NoOpenHold(r)
       /\ lh.status \notin {"approved", "rejected", "expired"}
    \/ lf = "rollback_executing" /\ rollback[r] = {}
    \/ /\ lf = "rolled_back"
       /\ st = "cancelled" => \A s \in rollback[r] : step[r][s] # "completed"

\* canonicalState, for run status st, lifecycle state lf and latest hold lh.
StatusLifecycle(st, lf) ==
    CASE st = "pending"           -> "ready"
      [] st = "running"           -> IF lf = "rollback_executing" THEN lf ELSE "executing"
      [] st = "paused"            -> "blocked"
      [] st = "awaiting_review"   -> "verification_pending"
      [] st = "awaiting_approval" -> "awaiting_approval"
      [] st = "completed"         -> "verified"
      [] st = "failed"            -> IF lf = "approval_rejected" THEN lf ELSE "failed"
      [] OTHER                    -> "cancelled"

RollbackDone(r, st, lf) ==
    \/ lf = "rolled_back"
    \/ st = "cancelled" /\ \E s \in rollback[r] : step[r][s] = "completed"

OpenHoldLifecycle(r) ==
    IF \E h \in OpenHolds(r) : holds[r][h].type = "supervisor_approval"
    THEN "escalated" ELSE "awaiting_approval"

CanonicalState(r, st, lf, lh) ==
    IF RollbackDone(r, st, lf) THEN <<"cancelled", "rolled_back">>
    ELSE IF ~NoOpenHold(r) THEN <<"awaiting_approval", OpenHoldLifecycle(r)>>
    ELSE CASE lh.status = "approved" /\ st = "awaiting_approval" -> <<"running", "executing">>
           [] lh.status = "rejected" -> <<"failed", "approval_rejected">>
           [] lh.status = "expired"  -> <<"awaiting_approval", "approval_expired">>
           [] OTHER                  -> <<st, StatusLifecycle(st, lf)>>

\* The transaction is undone when a contradiction is left after the repair.
Reconcile(r, lh) ==
    /\ run[r] # "none"
    /\ ~Blocked(r, run[r], life[r], lh)
    /\ LET c == CanonicalState(r, run[r], life[r], lh) IN
         /\ ~Blocked(r, c[1], c[2], lh)
         /\ CanonicalState(r, c[1], c[2], lh) = c
         /\ SetRun(r, c[1], c[2])
    /\ UNCHANGED <<authority, holds, nholds, step, rollback, attempt>>

-----------------------------------------------------------------------------
Next ==
    \E r \in Runs :
        \/ \E a \in Authorities : CreateRun(r, a)
        \/ \E s \in Steps, b \in BOOLEAN : CreateStep(r, s, b)
        \/ \E h \in HoldIds : DecideExpired(r, h)
        \/ \E h \in HoldIds, d \in {"approved", "rejected"} : Decide(r, h, d)
        \/ \E h \in HoldIds : DecideEscalated(r, h)
        \/ \E st \in RunStatuses : SyncRunStatus(r, st)
        \/ \E s \in Steps, st \in StepStatuses : SyncStepStatus(r, s, st)
        \/ \E s \in Steps, m \in 1..RetryCeiling : RetryStep(r, s, m)
        \/ EscalateRun(r)
        \/ CancelRun(r)
        \/ \E s \in Steps : RequestRollback(r, s)
        \/ \E s \in Steps : FinalizeRollback(r, s)
        \/ \E lh \in RelevantHolds(r) : Reconcile(r, lh)

Spec == Init /\ [][Next]_vars

-----------------------------------------------------------------------------
TypeOK ==
    /\ run \in [Runs -> RunStatuses \cup {"none"}]
    /\ life \in [Runs -> Lifecycles \cup {"none"}]
    /\ authority \in [Runs -> Authorities]
    /\ holds \in [Runs -> [HoldIds -> [type : HoldTypes \cup {"none"},
                                       status : HoldStatuses \cup {"none"}]]]
    /\ nholds \in [Runs -> 0..MaxHolds]
    /\ step \in [Runs -> [Steps -> StepStatuses \cup {"none"}]]
    /\ rollback \in [Runs -> SUBSET Steps]
    /\ attempt \in [Runs -> [Steps -> 1..RetryCeiling]]

(* At most one approval hold of a run is open, and it is the newest: two   *)
(* escalations, or an escalation and a decision, never leave two decisions *)
(* to take (analyzeManagedExecutionState, multiple_open_holds).            *)
OneOpenHold ==
    \A r \in Runs : \A h \in HoldIds : holds[r][h].status = "open" => h = nholds[r]

(* While a decision is open the run is neither running nor completed and   *)
(* none of its steps runs, whichever way steps fail, retry or roll back    *)
(* (projectManagedExecutionState, run_active_while_approval_open).         *)
NothingRunsWhileApprovalOpen ==
    \A r \in Runs : ~NoOpenHold(r) =>
        /\ run[r] \notin {"running", "completed"}
        /\ \A s \in Steps : step[r][s] # "running"

(* A run in a terminal status has no running step, and a completed run has *)
(* no step that is unfinished or failed (projectManagedExecutionState,     *)
(* terminal_run_has_running_steps, completed_run_has_incomplete_steps).    *)
TerminalRunIsQuiet ==
    \A r \in Runs : \A s \in Steps :
        /\ run[r] \in TERMINAL_RUN_STATUSES => step[r][s] # "running"
        /\ run[r] = "completed" => step[r][s] \in {"none", "completed", "skipped"}

(* An ordinary step of a run whose gate requires approval exists only if   *)
(* some hold of the run was approved: no retry, escalation, rollback or    *)
(* reconciliation gets work past the gate (FR-015).  A compensation step   *)
(* asked for by requestManagedExecutionRollback is not gated.              *)
ApprovalBeforeExecution ==
    \A r \in Runs : \A s \in Steps \ rollback[r] :
        ApprovalRequired(r) /\ step[r][s] # "none" => SomeHold(r, {"approved"})

(* rolled_back means: a compensation step completed, the run is cancelled  *)
(* and no step of it is left active (FR-024).                              *)
RolledBackWasCompensated ==
    \A r \in Runs : life[r] = "rolled_back" =>
        /\ run[r] = "cancelled"
        /\ \E s \in rollback[r] : step[r][s] = "completed"
        /\ NoActiveStep(r, {})

(* A dry run never gets a step and never completes through the generic     *)
(* operations, reconciliation included.                                    *)
DryRunNeverExecutes ==
    \A r \in Runs : authority[r].mode = "dry_run" =>
        /\ run[r] # "completed"
        /\ \A s \in Steps : step[r][s] = "none"

(* A step that completed or was skipped keeps its status for ever, also    *)
(* when its run is retried, cancelled, revived or rolled back, and a       *)
(* failed one only starts over with a further attempt.                     *)
SettledStepStays ==
    [][\A r \in Runs : \A s \in Steps :
         /\ step[r][s] \in {"completed", "skipped"} => step'[r][s] = step[r][s]
         /\ step[r][s] = "failed" /\ step'[r][s] # "failed" =>
              attempt'[r][s] = attempt[r][s] + 1]_vars

(* Refuted by the code: a cancelled run has no open hold left (FR-022).    *)
(* syncManagedExecutionRunStatus cancels a run that awaits a decision and  *)
(* leaves the hold open; a later approval sets the run running again.      *)
CancelledRunHasNoOpenHold ==
    \A r \in Runs : life[r] = "cancelled" => NoOpenHold(r)

=============================================================================
