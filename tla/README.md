# TLA+ models of the governed execution core

This directory specifies, model-checks and proves the parts of
`http-generic-api/` in which several processes share rows of one database and
talk to an outside provider that may fail at any point: the sequential plan
orchestrator with its mutation receipts, the repository operation lease with
the branch reconciliation that relies on it, the platform outbox, managed
execution with its approvals and recovery, the auth e-mail outbox with its two
delivery ledgers, the grants of the remote MCP OAuth server, and the execution
of approved remediation steps by the recovery kernel.

`PROJECT.json` maps every definition to the lines it models and lists the
runs, mutants, findings, hazards and theorems.

## 1. The system and its components

The platform is a Node/Express service over MySQL/MariaDB, with BullMQ for
jobs. Its core keeps no state in memory: a handler is one or more database
transactions with provider calls between them, so the units of interleaving
are transactions and HTTP calls.

| Component | State | Operations | What is hard |
|---|---|---|---|
| Sequential plan orchestrator (`sequentialPlanOrchestrator.js`) | `execution_plans.plan_status/runtime_status`, `execution_plan_steps`, `approval_holds` | compile, tick (claim, execute, finalise), run loop, decide an approval, resume | the executor runs between two transactions; crashes; concurrent ticks; status writes that do not look at the current status |
| Durable execution control (`durableExecutionControlService.js`) | `execution_plan_mutation_receipts` | transition, cancel, receipt-aware executor | unknown outcomes, failing receipt writes, replay |
| Delegation policy (`delegationExecutionPolicyService.js`) | grant snapshot inside the step's policy | evaluate a step, check a decision | snapshots that expire or drift |
| Repository operation lease (`repositoryOperationLeaseService.js`) | `repository_operation_leases` | acquire, reuse, renew, release, expire, assert holder | overlapping acquires, expiry at the boundary |
| Branch reconciliation (`adminBranchReconciliationAdapter.js`) | refs and commits at GitHub | merge commit, fast-forward | about ten HTTP calls with pushes and lease expiry in between |
| Platform outbox (`platformOutbox.js`) | `platform_outbox_events`, `_deliveries`, `_consumers` | enqueue, worker run, loop | claim expiry against a late answer, lost answers, crash at every statement |
| Managed execution (`managedExecutionPersistence.js`, `...RecoveryService.js`, `...ReconciliationService.js`) | `workflow_runs`, `managed_execution_bindings`, `approval_holds`, `step_runs` | create, decide, sync run and step, retry, escalate, cancel, roll back, reconcile | one transaction each, in any order; a decision does not look at the run's status |
| Auth e-mail outbox (`authEmailOutboxWorker.js`, `authEmailOutboxAttemptLedger.js`, `authEmailTargetedDeliveryWorker.js`) | `auth_email_outbox`, `auth_email_outbox_delivery_attempts`, `auth_email_delivery_attempts` | fetch, claim, send, settle; skip; targeted delivery | two senders with separate ledgers; crash between send and settle |
| Remote MCP OAuth store (`remoteMcpOAuthStore.js` and its routes) | authorization codes, grants | consent, issue, exchange, rotate, revoke | racing exchanges and rotations, revocation between two reads |
| Recovery kernel (`recoveryKernel.js`, `productionRecoveryControlStore.js`) | approvals, reservations, tickets, claims, locks, runs, receipts of the control store | challenge, issue a ticket, execute a step, verify a run | some twenty store calls around one provider call, each of which may fail, lose its answer or be the last |
| Job runner and queue (`jobRunner.js`, `jobUtils.js`, `queue.js`, `executionAsync.js`) | jobs in Redis and in memory | submit, claim, run, retry | duplicate submission, retry of a job that did its work |
| Connector executor (`connectorExecutor.js`) | workflow and step rows | dispatch a plan | provider failure |
| Repository governance V6 (`repositoryGovernanceV6.js`) | `repository_mutation_plans_v6`, `repository_mutation_runs_v6` | plan, apply, read back | a readback that races an apply; unknown provider outcomes |
| Reconciliation orchestrator (`repositoryReconciliationOrchestrator.js`) | operation state | dry run, apply | lease released after an unknown outcome |
| Growth control plane (`src/application/growthControlPlane/`) | own tables; its receipt reconciliation also writes `execution_plan_steps`, `execution_plans` and `execution_plan_mutation_receipts` | reconcile an unresolved receipt; invalidations | writes the rows of a plan that other handlers drive, on evidence that may be stale |
| Delegation grants, connected execution, device rebind, break glass, activation sessions, alerts, context kernel | own tables | own life cycles | see section 5 |
| WordPress phases, routes, local manager desktop, schemas, docs, CI | none shared | formatting, parsing, user interface | not modelled |

Interaction: the `/tick` and `/run` routes call the orchestrator with the
receipt-aware executor; a `sequential_plan_run` job calls it with the default
one. Both end in `dispatchPlan` of the connector executor. Approvals and
cancellations arrive from other requests. A merge request first presents a
lease, then works on GitHub only. Business transactions append outbox events;
worker processes deliver them. Managed runs are driven by requests of
executors, approvers and administrators only. The support ticket router queues
auth e-mails, which a batch worker, a skip tool and targeted calls take. The
recovery kernel stands apart: it has a control store of its own and is used
when the rest is broken.

What makes each component correct: a step runs on one worker at a time, under
the authority its policy demands, after its dependencies, within its attempts,
and reaches the provider once; a branch has one lease holder and a
merge replaces exactly the tip it was built on; an event within the backfill's
reach is delivered or dead-lettered and every attempt is counted once; a
managed run does nothing behind an open decision and has no running step after
its end; every e-mail that went out has an attempt of its own, and `sent` is said
of messages that went out; a session that was disconnected stays so; a
remediation step reaches its target once per idempotency key, and what is
called recovered was read back.

## 2. Modules

| Module | Models | Notes |
|---|---|---|
| `SequentialPlan` | orchestrator, receipts, transitions, cancellation, reconciliation of receipts | all operations that write the rows of one plan |
| `SequentialPlanProofs` | | theorems on `SequentialPlan` |
| `BranchLock` | abstract specification of an exclusive branch lock | no code of its own |
| `RepositoryLease` | lease service | refines `BranchLock` (operator `Lock`) |
| `RepositoryLeaseProofs` | | theorems and the refinement proof |
| `BranchReconciliation` | merge commit and fast-forward | extends `RepositoryLease` |
| `BranchReconciliationProofs` | | theorems on `BranchReconciliation`, on top of `RepositoryLeaseProofs` |
| `PlatformOutbox` | outbox, one consumer | |
| `PlatformOutboxProofs` | | theorems on `PlatformOutbox` |
| `ManagedExecution` | runs, holds, steps, recovery, reconciliation | |
| `ManagedExecutionProofs` | | theorems on `ManagedExecution` |
| `AuthEmailOutbox` | batch worker, skip tool, targeted delivery | |
| `AuthEmailOutboxProofs` | | theorems on `AuthEmailOutbox` |
| `RemoteMcpOAuth` | codes, grants and the requests on them | |
| `RemoteMcpOAuthProofs` | | theorems on `RemoteMcpOAuth` |
| `RecoveryKernel` | approvals, tickets, execution and later verification of one step | |
| `RecoveryKernelProofs` | | theorems on `RecoveryKernel` |
| `MC...` | constants, requests and symmetry sets for TLC | |

Operators named `Mut...` are defects a programmer might introduce; each is
used only to show that some property would catch it. Nothing else refers to
them.

### SequentialPlan

State. `plan` is the effective status (`runtime_status`, or `plan_status`
before the first compile). `steps` are the compiled rows in `step_order`, of
compilation number `gen`, so that `<<gen, order>>` stands for the random
`plan_step_id`. `claims` counts claims and yields fresh claim tokens.
`holds` are the open approval holds, `receipts` the `dispatch_status` of the
receipt of each step, split for `succeeded` and `reconciled` by whether the
stored result would verify. A step's `reopened` counts, as history, how often
a reconciliation took it from `failed` back to `blocked`. `effects` is the history of dispatches that reached the provider.
`pc`, `job`, `out` are a worker's locals. `expired` is the one fact about time
that the policies ask for.

Actions. Every transaction is one action. `claimNextStep` is
`ClaimNothing`, `ClaimCheckpoint`, `ClaimHold`, `ClaimBlocked`,
`ClaimRejected` and `ClaimStep`, one for each way it returns; the promotion of
pending steps is part of each. The executor is a sequence of actions through
the locations `receipt`, `dispatch`, `record`: the receipt is opened, replayed
or refused, the provider is called, the outcome is recorded, and each write
may fail. `finalizeClaim` is `FinalizeClaim` or `ClaimLost`. `WorkerLost` may
strike at every location. `Compile`, `Decide`, `Resume`, `Transition` and
`Cancel` are the operators' requests.

`Reconcile` is `reconcileGrowthControlMutationReceipt` of the growth control
plane, one transaction over receipt, step and plan. It takes a `failed` or
`blocked` step whose receipt is `pending` or `unknown_outcome`. Evidence that
the effect took place completes the step (`ReconcileApplied`); any other
finding blocks it (`ReconcileBlocked`), also after its last attempt. The
plan's own status is overwritten unseen. No route calls the service at
present; `test-growth-control-provider-effect-reconciliation.mjs` does, and
asserts both writes. The evidence is the caller's: `applied` and `partial` are
taken to be true, `not_applied` may be out of date, because the service only
asks that it be younger than the receipt, which is older than the dispatch.

Abstractions. Keys are strings and inputs absent; the secret filter on
payloads, event rows, workflow run rows and telemetry are left out because no
handler reads them back. The delegation policy is reduced to the classes of
its result (`Grants`), which change when the grant expires or the step is
approved. `analysis`, `checkpoint` and `stop` steps behave alike
(`internal`). A PATCH to the status the plan already has changes nothing and
is no action. The child plan that a workflow step inserts is part of the
dispatch.

Environment choices. A result or error of the provider is nondeterministic. An
error with a status below 500 means the provider was not reached; a failed
result and any other error may come before or after the effect (`Reaches`).
MySQL is taken to run in strict mode: writing the step status `paused`, which
the ENUM lacks, rolls the claim back.

### RepositoryLease and BranchLock

State. `leases` are the rows in order of creation, `now` the database clock,
`txn` the acquire and renew transactions in flight.

`acquireRepositoryOperationLease` and `renewRepositoryOperationLease` are split
where callers may overlap and where the clock is read again. `AcquireBegin`
marks stale rows (not yet visible to others, but locked) and finds no active
one; `AcquireInsert` inserts and commits, subject to the UNIQUE key over active
rows as the other transactions have committed them. `AcquireReuse` and `Renew`
find a row active and unexpired and lock it; `WriteExpiry` writes its new
expiry, from the clock of that statement and without a look at the old expiry.
`Rollback` is a duplicate key, a deadlock or a lost connection. `Release` and
`ExpireStale` lock first and are single actions; calls that throw change
nothing and are no actions.

`BranchLock` says what a caller may rely on: at most one grant per branch in
force, a new one only when none is, and no grant twice. A lapsed grant may
resume, as a lease does that lapses between the check and the write of its own
renewal or reuse, but only while it is not ended: by its release, by the sweep
or by the next grant of the branch. The mapping takes the unexpired active rows
as the grants in force, so the clock ticking is a lapse, and the active rows as
the grants not ended.

### BranchReconciliation

GitHub is external: `anc` holds the ancestors of each commit, `head` the refs.
`Push` is anybody's push without force. A request goes through the GitHub
calls one by one: the two refs in either order, the comparison (which names
refs, not SHAs), the merge commit on the SHAs read, the update with
`force: false`, and the readbacks, which the code issues in parallel and the
model in every order. `RequestFails` ends it anywhere; the answer to an update
may be lost after it took effect. The files of the resolution commit are left
out: a request with an invalid resolution ends. The lease is the state of
`RepositoryLease`, whose actions interleave.

### PlatformOutbox

One consumer. A row of `platform_outbox_deliveries` keeps status,
`attempt_count`, claim token and two facts of the clock: whether the claim has
lapsed and whether the next attempt is due. A worker is
`runPlatformOutboxWorker` statement by statement, with what it read: the
readiness of the consumer at the start, the batch and the attempt counts at
the claim. `markBatchFailed` takes one step per row. `MarkBatchDeliveredThrows`
and `MarkBatchFailedThrows` follow the exception into the catch clause.
`Abandon` is a crash or an exception that leaves the worker. Producers,
operators and the clock are `Enqueue`, `Configure`, `ClaimLapses`,
`RetryComesDue` and `Retire`. `claims` and `received` are history variables.
An attempt is found to be the last one in two places, in SQL (`ReleasedRow`)
and in JavaScript (`FailedRow`), each from a count of its own. The backfill
looks at the oldest `WindowFactor * Limit` unexpired events (4 times the limit
in the code), whether or not they have a row (`Window`); an event that was
enqueued while the consumer was off and lies behind them gets no row until
older ones pass their retention.
The receiver is external and takes a batch whole or not at all.

### ManagedExecution

State. `run` is `workflow_runs.status`, `life` the binding's
`lifecycle_state`, `authority` the immutable snapshot reduced to the three
facts that guards ask for (`hold_type`, `read_only`, `mode`), `holds` the
approval holds in the order of their ids, `step`, `attempt` and `rollback` the
step rows.

Actions. Every operation locks what it reads and is one transaction, hence one
action: `CreateRun`, `CreateStep`, `Decide`, `DecideExpired`,
`DecideEscalated`, `SyncRunStatus`, `SyncStepStatus`, `RetryStep`,
`EscalateRun`, `CancelRun`, `RequestRollback`, `FinalizeRollback`,
`Reconcile`. A thrown error rolls back and is a disabled action.
`Reconcile` is the analysis (`Blocked`), the projection (`CanonicalState`) and
the second analysis that undoes the transaction if a contradiction is left.

Abstractions. The task ticket and the customer's status follow from
`lifecycle_state` and are always written with it. Events and payloads are left
out. `latestRelevantHold` orders by a timestamp in seconds, so any hold may
come out first.

### AuthEmailOutbox

State. `row` is the outbox status, `reserved` the attempt id in its metadata,
`batch` the ledger of the batch worker by attempt number, `target` the
targeted calls with their own ledger row, `sends` the messages the provider
took, a history variable.

Actions follow a process from one transaction or provider call to the next:
`Fetch`, `ReadNumber`, `InsertClaim` or `ClaimConflict`, `SendSucceeds` or
`SendFails`, `Finish` or `Fail`. `GiveUp` is a crash or a failed transaction
at any location; a transaction may also commit and lose its answer. The
targeted call is `Reserve`, `TargetSend`, `TargetFinish`, `TargetFail`. Tickets
close and reopen at any time (`TicketChanges`), which is what eligibility
depends on.

### RemoteMcpOAuth

State. `code` and `grant` are the two tables, `request` the place of each HTTP
request between its queries with what it has read, `now` the clock in the unit
of the two terms. `consented` and `started` are history variables.

Actions. `Consent` and `IssueCode` are the two halves of the code route,
`ReadCode`, `Consume`, `CreateGrant` the exchange, `ReadGrant`, `RotateRead`,
`Swap` the refresh, `RevokeByAccessJti`, `RevokeRead`,
`RevokeByRefreshToken` the revocation. A rotation's insert is invisible until
its compare-and-set commits, so both are `Swap`.

Abstractions. One client, user, tenant and resource. Signatures, PKCE, redirect
URIs and client secrets are checked before any write and change nothing.
The registration of clients and the access token's own expiry are left out.

### RecoveryKernel

State. One step of one plan on one target. `approval`, `index`, `reservation`,
`claims`, `ticket`, `lock`, `binding`, `stored` and `receipt` are the tables of
the control store, reduced to the columns that guards read; `call` is the
place of each `executeRemediationStep` between two store calls, `verify` the
`verifyRemediationStep` in progress. The model has one verification in flight
at a time and `MaxVerify` of them in all, where the code admits several at
once. A call stands for its run. `reached`, `proven`, `readBack` and `failed`
are history variables; `readBack` records the readbacks that took place while
their call held the lock, with their result.

Actions. An action is one store call or provider call: `Begin`,
`CheckApproval`, `Claim`, `ReserveApproval`,
`AcquireLock` or `LockRefused`, `RecordRun`, `FenceBeforeProvider`,
`ReserveTicket`, `StartExecution`, `Send` or `NoExecutor`, `Acknowledge` or
`OutcomeUnknown`, `StartReadback`, `Readback`, `CheckBeforeFinalization`,
`FinalizeTicket`, `ConsumeApproval`, `Complete`, `Seal`, `PutReceipt`,
`Unlock`. `Abort` and `Catch` are the catch clause before and after the provider boundary.
`CreateApproval` and `IssueReserve`, `IssuePut`, `IssueFail` precede a call,
`VerifyRead`, `VerifyPassed`, `VerifyFailed` follow it. Four kinds of action
stand for several store calls: phases of a run that are written in a row
(`RecordRun`, `Append`), the releases of a catch clause (`GiveUp`, `Abort`,
`IssueFail`), of which a fault may lose any one, the reads that precede a
reservation (`IssueReserve`) or a claim (`Begin`, `CheckApproval`), and a fence
check followed by the phase it protects (`Acknowledge`, `StartReadback`).

Faults. A store call may fail, or commit and lose its answer (`Fault`). A
crash needs no action: a call that takes no further step is a dead process,
and no fairness is assumed. The lock may expire whenever it is held; a
heartbeat keeps nothing, it only checks.

Abstractions. Plan, trust checks, attestations and signatures are fixed and
accepted; a call they refuse changes nothing. The five phases written in a row
before the first fence check are one, as are the two that follow the
provider's answer. The caches in memory and the migration ledger are left out:
the store answers first, and the ledger is external.

## 3. Runs

| Run | Instance | Shows |
|---|---|---|
| `plan_gated` | 2 receipt-aware workers, a retried mutation then a step that needs an approval, 2 compilations, 1 reopening of a failed step | exclusive execution, one dispatch per step, tracked effects, holds consistent with steps, finished steps stay unless an unknown outcome is reconciled |
| `plan_mixed` | 1 receipt-aware and 1 queue worker, fair; a fork joined by an approval step, a gated mutation, one-step plans over all delegation classes, refused requests, 1 reopening | attempts bounded, dependency order, completed means dispatched, only authorised execution, each run ends |
| `lease` | 2 branches, 2 runs, 2 callers, ttl 1 and 2, clock 0..3, 3 rows | one active lease, refinement of `BranchLock` |
| `reconciliation` | 1 branch and the default, 2 requests, 5 commits, 1 lease | merge replaces the tip it read, verified stays true |
| `outbox` | 2 events, 2 workers, 2 attempts | attempt ledger, dead letters at the limit, settled is final |
| `outbox_settles` | 2 events, 1 worker, a backfill window of 1 event, fair | an event with a row or in the window settles |
| `managed` | 1 run, 3 steps, 3 holds, retry limits 1 and 2 | one open decision, nothing runs behind it, terminal runs are quiet, the gate holds, rollback is compensated, settled steps stay |
| `auth_email` | 2 e-mails, 2 workers, 2 targeted calls, 3 attempts | a sender never repeats, each message has its attempt, row and ledgers agree, settled rows stay |
| `mcp_oauth` | 2 codes, 2 requests, 2 scopes, 3 grants, code term 1, refresh term 2, clock 0..2 | one chain of grants per code, successors keep the terms, no session outlives its term, scopes were consented to, disconnecting is final |
| `recovery` | 2 approvals, keys, tickets and calls, 1 fault, 1 verification | one dispatch per key, consumed tickets and receipts are evidenced, recovered was read back, an approval is used once |

Bounds. Two workers are the smallest number that race, and a third adds no new
kind of partner since workers interact through rows only. Two attempts reach
success, retry and exhaustion; two compilations let a worker finish a claim of
the compilation before. One reopening (`MaxReopens`) lets a failed step
be blocked, resumed, claimed beyond its maximum and fail again. Three lease rows and four clock values allow a lease
to lapse, be taken over and lapse again while an old acquire is still open.
Five commits allow a push to either side before and after a merge commit. Two
events with two workers allow a batch to be split between holders; with a
window of one (`WindowFactor`, `Limit`) the second event is behind it until the
first retires. A managed
run with three steps can have one that failed, one that runs and one that
compensates, and three holds an initial decision with two escalations; runs of
one scope exclude each other only in `CreateRun`. Three attempts per e-mail are
more than two workers and lost answers can use before the row settles. Three
grants allow two chains or a chain rotated twice, and the clock passes the term
of a code and of a session. Two calls of the recovery kernel may use one key,
one ticket or one approval, or nothing in common but the lock; one fault
(`MaxFaults`) combines with a crash of either call at any place, and one later
verification (`MaxVerify`) can read before a phase is written and write after
it. The theorems
below remove the bounds for the properties they state. `CHECK_DEADLOCK` is off
where the bounded instance stops: when no compilation, commit, lease row or
clock value is left, when every call of the kernel has ended, and plans that
are finished.

Fairness. `RunFairness` says only that a started request takes its next step
while its process lives; a lost worker stops being in a run, so crashes are not
excluded. `RetryingSpec` adds clients that keep ticking and operators that keep
resuming: the strongest help that FR-003 may expect, under which the claimed
step is still stuck. `FairSpec` of the outbox says that the loop
(`runPlatformOutboxLoop`, every few seconds) keeps starting runs, that its
statements are not killed every single time, and that time passes. Nothing is
assumed about the receiver.

### Statements of the documents that the code does not keep

Each is a run that TLC refutes.

| Run | Statement | What happens |
|---|---|---|
| `plan_stuck_claim` | FR-003: resumable after process failure | nothing but cancel moves a claimed step |
| `managed_cancelled` | FR-022 of `specs/017`: cancelling ends open approvals | `syncManagedExecutionRunStatus` cancels a run that awaits a decision and leaves its hold open; a later approval sets the cancelled run running |

`plan_gated` contains these situations and shows what survives them:
exclusivity and single dispatch hold also when a finished plan is reopened,
because the claim token and the receipt belong to the step row's identity and
not to the plan's status.

Further disagreements are behaviours of the models that no run is spent on:

- `resumeSequentialPlan` (line 451) sets a cancelled or completed plan
  `validated`, although FR-004 says that terminal states cannot return to
  execution.
- Resume during a claim makes the plan `validated`, and compile then replaces
  the claimed step, although recompilation is forbidden after execution starts.
- Queue workers use no receipts, so a step with an unknown outcome can reach
  the provider twice through them. `plan_gated` has receipt-aware workers only
  for `AtMostOnceDispatch`; `plan_mixed` has both kinds.
- The reconciliation of a receipt completes or blocks a `failed` step, although
  `TERMINAL_STEP_STATUSES` has `failed`, and sets a finished or cancelled plan
  `validated` or `blocked`. `TerminalStepStays` names this exception.
- A readback that was taken before the dispatch but after the receipt may
  reconcile a step as not applied that the provider applies later; the receipt
  then replays a failed result. It still blocks a second dispatch.
- An `inconclusive` readback blocks a failed step; resumed, it is claimed once
  more than its `max_attempts`, and only the receipt stops it. `AttemptsBounded`
  counts these reopenings.
- A lease that lapses between the check and the write of its renewal is in
  force again (lines 437-462, and 231-267 for a reuse), so that for a moment
  `assertRepositoryOperationLeaseHolder` refuses a holder whose renewal then
  succeeds. Nobody else can have been granted the branch meanwhile.
- Outbox events that were enqueued while the consumer was disabled get a row
  only from the backfill, which looks at the oldest `4 * limit` unexpired events
  and counts those that are settled already (lines 311-325): behind them an
  event may wait for ever, and past its retention it is never delivered.
- A merge presents its lease once, at the start. The lease may lapse and be
  granted again before the ref is updated; what protects the branch is GitHub's
  refusal of a non-fast-forward (`MergeIsCompareAndSwap`).
- A stalled outbox worker sends after its claim was taken over, so a delivered
  row is transmitted again; the attempt ledger stays right.
- `compileSequentialPlanSteps` (line 154) adds a step's own key to the known
  keys before it checks the dependencies, although
  `docs/sequential-plan-orchestration-architecture.md` says "backward-only
  dependencies"; such a step never becomes ready (`SelfDependent` in
  `plan_mixed`).
- `assertRepositoryReconciliationMergeLease` (line 411) compares the lease with
  values of the request itself and never with the branch that is merged;
  `MergeStart` accordingly takes any live lease.
- A managed approval is decided whatever the run's status is, and a retry
  request may name a limit of up to ten attempts where FR-019 speaks of three.
- Two batch workers that fetched the same queued e-mail may send it once each,
  one after the other; a targeted call may send a third copy of an e-mail a
  batch worker holds. A `started` attempt never expires, so a crash before
  the settlement parks the e-mail for good.
- Revoking a refresh token that was rotated in the meantime answers 200 and
  leaves its successor active.
- A ticket of the recovery kernel is issued as `single_use: true` (line 1246),
  but when a second issue under the same key fails, line 1248 releases the
  reservation that the first ticket relies on, and a ticket of another key may
  use the same approval. `ApprovalIsSingleUse` shows that this is the only way.
- `docs/recovery-action-ticket-bridge.md` has unknown outcomes marked
  `reconciliation_required: true`. When the run cannot be written after the
  provider was reached, `appendStateEvent` stores `failed_closed` in its place;
  if the process then dies, a repetition of the key is told `failed_closed`.
- `verifyRemediationStep` and the catch clause write a run without looking at
  the stored phase, so `recovered` may be overwritten; a run in
  `execution_outcome_unknown` stays there whatever a later readback says.
- A call that stalls after its fence check may reach the target after another
  call took the lock over; the provider sees the fencing token, which is what
  it has to compare.

## 4. Theorems

Every invariant and every action property that a passing run checks is also
proved, by TLAPS, for arbitrary constants that satisfy the named assumptions
(`WorkersAssumption`, `BoundsAssumption` of `SequentialPlan` and of
`ManagedExecution`, `RequestsAssumption`, `LeaseAssumption`,
`ReconciliationAssumption`, `OutboxAssumption`, `AttemptsAssumption`,
`NamesAssumption`, `TermsAssumption`, `BoundAssumption`, `NoneAssumption`).
These say that bounds are natural numbers, that requests are sequences of
source steps, that the default branch is none of those under lease and that
`None` and `NoEmail` are no identifiers; TLC evaluates them in every run. The
bounds that keep TLC's instances finite (`MaxLeases`, `MaxCommits`,
`MaxGrants`, `MaxAttempts`, ...) stay in the guards, but they are arbitrary.

**SequentialPlan.** `TypeCorrect`, `ExecutionIsExclusive`,
`AttemptsAreBounded`, `DependenciesComeFirst`, `ExecutionIsAuthorized`,
`TerminalStepsStay`, `HoldsAreMatched`, `CompletionIsDispatched`, and, when
`DurableWorkers = Workers`, `DispatchAtMostOnce` and `EffectsAreTracked`.

- Exclusivity is not inductive: it needs that a worker which executes a step
  of the current compilation finds it `claimed` or `cancelled`
  (`ClaimsMatchSteps`), so that no second worker can find it ready.
  `ClaimInv` is the conjunction with the types.
- Attempts: a step that can still be claimed has fewer attempts than its
  maximum and its reopenings allow (`AttemptsLeft`); the finaliser is the only way back from a claim.
- Dispatch: a worker between opening and recording a receipt owns a `pending`
  receipt of a step without effect, or with its own only
  (`ReceiptGuardsDispatch`); exclusivity keeps others away, and the receipts
  of finished compilations never change status to a permissive one.
  `ReceiptInv` collects these.
- Steps: every action but `Compile` moves the steps along a few edges
  (`StepMoves`: what a claim, a finaliser, a decision, a resumption, a
  cancellation and a reconciliation may do). From the edges alone follow that finished steps stay,
  that a step starts after its dependencies and that it has its authority.
  `StepInv` adds to `ClaimInv` that a row bears a token only while it is
  claimed (`TokensMatch`), so that a late finaliser finds nothing, that
  dependencies are steps of the plan (`DepsInPlan`), and that a step with a
  receipt had its authority when it was claimed (`ReceiptAuthority`): a
  reconciliation completes it without asking again.
- Holds: `HoldInv` adds that a hold is of a compilation that took place
  (`HoldsOfPlan`); a recompilation therefore starts without holds of its own.
- Completion: `ReachInv` follows a verified success from the dispatch to the
  end of the claim, in the worker's locals or in the receipt from which a
  later attempt replays it (`SuccessWasReached`). It needs no assumption on
  which executor the workers use.

**RepositoryLease.** `LeaseTypeCorrect`, `ActiveLeaseIsUnique` and
`InactiveLeaseIsFinal` follow from `LeaseInv`, whose strengthening `LocksHold` says that rows
marked by open transactions are stale and marked by one transaction only, and
that a row about to get a new expiry is active and marked by none.
`LeaseImplementsLock` is the refinement: an insert is a grant, because the
UNIQUE key and the marks leave no unexpired lease of the branch; the write of a
new expiry is a resumption, because the row has stayed locked and active since
it was found; every other step is a lapse.

**BranchReconciliation.** `TypeCorrect`, `VerifiedForGood` and
`MergesCompareAndSwap` follow from `ReconInv`, the conjunction of `LeaseInv`,
whose lemmas cover every step of the lease service, and `GitInv`:

- the ancestors of a commit are closed under ancestry and not younger than it
  (`Ancestry`), so that a ref which moves to a descendant keeps everything;
- what a request has read of the refs is still in them (`Pinned`), and a
  branch that had diverged from the base has not been merged into it since;
- a merge commit that is not yet written is known to its request alone
  (`Unpublished`), so that nobody else can have put it on the branch.

The compare-and-swap needs all of them: the new commit descends from the tip
and the base that were read, so GitHub accepts it as a fast-forward only if the
branch's present head is among those ancestors; the head contains the tip, is
not in the base, and is not the unpublished commit, so it is the tip. The lease
plays no part in the argument: it may lapse in between.

**PlatformOutbox.** `TypeCorrect`, `AttemptsAreLedgered`, `DeadLettersAtLimit`,
`DeliveredRowsWereReceived` and `SettledRowsAreFinal` follow from `OutboxInv`:
a row bears a token exactly while it is claimed, and while it bears a worker's
token the attempt count that worker read is the row's. Late outcomes find no
row under their token, and current ones write the right count.

**ManagedExecution.** `ManagedTypeOK`, `OneDecisionAtATime`,
`NothingRunsMeanwhile`, `TerminalIsQuiet`, `GateHolds`, `RollbackIsCompensated`, `DryRunsStayDry` and
`SettledStepsAreFinal` follow from `ManagedInv`, the types and, for every run,
`RunInv`: a run that does not exist has nothing (`Fresh`), holds are allocated
in order (`Allocated`), only the newest is open (`Newest`), an open hold means
that no step runs and the run waits (`Waiting`), terminal runs have no running
step (`Quiet`), and the gate, compensation and dry run facts (`Gated`,
`Compensated`, `Dry`). They need each other: an approval sets the run running
whatever it was, which keeps `Waiting` only because no second hold is open
(`Newest`), and a cancelled run stays compensated only because a rolled back
run has no active step that could start it again.

**AuthEmailOutbox.** `TypeCorrect`, `SendersNeverRepeat`,
`MessagesHaveAttempts`, `QueuedRowsWereNotTried`, `SentRowsAreEvidenced` and
`SettledEmailsStay` follow from `EmailInv`:

- a worker past its claim owns a `started` attempt (`Claimed`), which no other
  worker has (`Owners`);
- under that attempt no message went out before the call to the provider, and
  one did when the worker is about to say so (`Covered`);
- a worker that is about to send an e-mail has not sent it (`Unsent`). This is
  what an open attempt stands for: after a message the attempt stays `started`,
  which keeps the e-mail out of the next fetch, until it is settled together
  with the row, which leaves the queue (`QueuedWasNotTried`);
- a targeted call settles its ledger row once and as `sent` only after the
  provider took the message (`TargetInv`).

**RemoteMcpOAuth.** `TypeCorrect`, `CodeGrantsOnce`, `SuccessorsKeepTerms`,
`TermIsFixed`, `ScopesAreConsented` and `DisconnectedForGood` follow from
`OAuthInv`: what a request has read still exists (`ReadsExist`); between
consuming a code and creating its grant a request is the only one to do so, and
the code has no grant yet (`SoleCreator`); and every grant descends from a
spent code (`Descends`), so no second exchange can start another chain. A
rotation succeeds only on an active grant, which by `OneGrantPerCode` is the
newest of its chain, so the chain does not fork.

**RecoveryKernel.** `TypeCorrect`, `DispatchedOnce`, `ConsumedWasReadBack`,
`RecoveryWasReadBack`, `ReceiptEvidence` and `ApprovalUsedOnce` follow from
`KernelInv`, the types and, for every call, `CallInv`:

- a key is bound to its run before the call comes near the provider and stays
  bound to it (`Bound`), which makes the dispatch unique;
- a readback under the lock is only of a call that reached the provider, and a
  call that is past its readback and holds the lock was read back under it,
  because the lock does not come back to a call that lost it; the check before
  the ticket is consumed therefore stops every other call (`Fences`);
- the late phases are written, or carried by a verification that read them
  earlier, only for runs that reached the provider, and the good ones only for
  runs that were read back (`Phased`, `VerifyPhased`);
- consumed tickets and receipts name a run that was read back
  (`TicketEvidenced`, `ReceiptEvidenced`);
- while a call owns a claim no other call holds it, and the key is bound to no
  other run (`Owned`, `Fresh`); its reservation is released by nobody but an
  issue that fails under the same key (`Reserved`).

The argument is split by whose step it is: a step of one call changes of the
others nothing but what `Frame` allows.

Only model-checked: liveness (`RunTerminates`, `EventSettles`), because the
prover has no support for fairness, and the two statements that TLC refutes.
Types of most modules and four further properties are theorems without a run:
`InactiveLeaseIsFinal`, `DeliveredRowsWereReceived`, `DryRunsStayDry` and
`QueuedRowsWereNotTried`. What the theorems inherit from the models are the
abstractions of section 2 and the bounds in the guards.

## 5. Plan and what is not modelled

Models, in this order:

1. `DelegationGrants`: the versions of a grant and their compare-and-set
   updates, in one transaction each, and the decision as an operator over
   grant, execution and approval, checked against the classes that
   `SequentialPlan` uses. The life cycle service is a shadow without a public
   route at present.
2. The mutation runs of `repositoryGovernanceV6.js` and the reconciliation
   orchestrator, which share `repository_mutation_runs_v6`, composed with
   `BranchReconciliation`. The UNIQUE key of plan and item admits one run; what
   needs a model is a readback request that races the status writes of the
   apply call it reads, a plan whose status is decided by the item that ended
   last, and a repeated orchestrator call that is refused as a replay and then
   releases the lease the first call still works under. The orchestrator's
   apply path is not reachable through a route at present.
3. `ConnectorDispatch`: workflow and step rows, and its reading of
   `plan_status` where the orchestrator reads `runtime_status`.
4. The invalidation consumer of the growth control plane, the part of it that
   `SequentialPlan` does not cover, as a second client of
   the outbox tables.

Proofs: each new model comes with the inductive invariant of its properties.
For the present ones what is left is to compose: that a delegation decided by
the grant's fields lies in the classes `SequentialPlan` assumes, and that the
abstract lock is enough for the callers of the lease.

Not modelled, and why:

- Runtime break glass: a pure planner that returns what it would do and
  changes nothing.
- Local connector rebind: its two phases are sequential code whose effects
  are all in injected adapters that the repository does not contain.
- Connected execution worker: one compare-and-set claim followed by writes
  outside any transaction; the claim is never given back after a crash, and
  little more can be said of it.
- Activation sessions: updates of a status where the last writer wins.
- Job runner: caches in memory and in Redis without compare-and-set; what it
  runs is modelled where it matters (`SequentialPlan` has workers without
  receipts for it).
- Operational alerts and context kernel: reporting, and reading of pinned
  context.
- WordPress content phases, route parsing, the desktop application, schemas,
  generated documents and CI: they format data or call the operating system
  and share no state that a model would check.

## 6. Running

    tlc -config PlatformOutbox.cfg MCPlatformOutbox
    tlapm PlatformOutboxProofs.tla
