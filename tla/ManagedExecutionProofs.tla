----------------------- MODULE ManagedExecutionProofs -----------------------
(***************************************************************************)
(* The managed execution lifecycle, for any number of runs, steps, holds   *)
(* and retries: at most one decision is open and nothing runs meanwhile,   *)
(* terminal runs are quiet, no ordinary step gets past the approval gate,  *)
(* rolled_back was compensated, dry runs never execute and settled steps   *)
(* stay settled.                                                           *)
(*                                                                         *)
(* The properties are inductive together once two facts about creation are *)
(* added: a run that does not exist has no holds and no steps, and hold    *)
(* ids above the counter are unused.  An approval can start work only      *)
(* because the hold it closes was the only open one, and a rejection can   *)
(* end a run only because nothing ran while the hold was open.             *)
(***************************************************************************)
EXTENDS ManagedExecution, TLAPS

\* A run that does not exist has no holds and no steps.
Fresh(r) ==
    run[r] = "none" => /\ nholds[r] = 0
                       /\ \A s \in Steps : step[r][s] = "none"

\* Hold ids above the counter are unused.
Allocated(r) == \A h \in HoldIds : h > nholds[r] => holds[r][h].status = "none"

\* The parts of the checked invariants, for one run.
Newest(r) == \A h \in HoldIds : holds[r][h].status = "open" => h = nholds[r]

Waiting(r) ==
    ~NoOpenHold(r) =>
        /\ run[r] \notin {"running", "completed"}
        /\ \A s \in Steps : step[r][s] # "running"

Quiet(r) ==
    \A s \in Steps :
        /\ run[r] \in TERMINAL_RUN_STATUSES => step[r][s] # "running"
        /\ run[r] = "completed" => step[r][s] \in {"none", "completed", "skipped"}

Gated(r) ==
    \A s \in Steps \ rollback[r] :
        ApprovalRequired(r) /\ step[r][s] # "none" => SomeHold(r, {"approved"})

Compensated(r) ==
    life[r] = "rolled_back" =>
        /\ run[r] = "cancelled"
        /\ \E s \in rollback[r] : step[r][s] = "completed"
        /\ NoActiveStep(r, {})

Dry(r) ==
    authority[r].mode = "dry_run" =>
        /\ run[r] # "completed"
        /\ \A s \in Steps : step[r][s] = "none"

RunInv(r) ==
    /\ Fresh(r) /\ Allocated(r) /\ Newest(r) /\ Waiting(r)
    /\ Quiet(r) /\ Gated(r) /\ Compensated(r) /\ Dry(r)

ManagedInv == TypeOK /\ \A r \in Runs : RunInv(r)

\* Nothing of run q changes.
Same(q) ==
    /\ run'[q] = run[q] /\ life'[q] = life[q] /\ authority'[q] = authority[q]
    /\ holds'[q] = holds[q] /\ nholds'[q] = nholds[q] /\ step'[q] = step[q]
    /\ rollback'[q] = rollback[q]

-----------------------------------------------------------------------------
(* Facts the steps share. *)

LEMMA SameRunInv ==
    ASSUME NEW q \in Runs, RunInv(q), Same(q)
    PROVE  RunInv(q)'
BY DEF RunInv, Same, Fresh, Allocated, Newest, Waiting, Quiet, Gated, Compensated, Dry,
       NoOpenHold, SomeHold, ApprovalRequired, NoActiveStep

\* A step of one run keeps the invariant if it keeps it for that run.
LEMMA OneRun ==
    ASSUME ManagedInv, NEW r \in Runs, TypeOK', RunInv(r)',
           \A q \in Runs \ {r} : Same(q)
    PROVE  ManagedInv'
<1>1. ASSUME NEW q \in Runs PROVE RunInv(q)'
  <2>1. CASE q = r
    BY <2>1
  <2>2. CASE q # r
    BY <2>2, SameRunInv DEF ManagedInv
  <2> QED BY <2>1, <2>2
<1> QED BY <1>1 DEF ManagedInv

LEMMA InitManagedInv == Init => ManagedInv
<1> SUFFICES ASSUME Init PROVE ManagedInv
  OBVIOUS
<1>1. TypeOK
  BY BoundsAssumption DEF Init, TypeOK, NoAuthority, Authorities, NoHold, HoldIds
<1>2. ASSUME NEW r \in Runs PROVE RunInv(r)
  <2>1. Fresh(r) /\ Allocated(r) /\ Newest(r) /\ Waiting(r)
    BY DEF Init, Fresh, Allocated, Newest, Waiting, NoOpenHold, SomeHold, NoHold
  <2>2. Quiet(r) /\ Gated(r) /\ Compensated(r) /\ Dry(r)
    BY DEF Init, Quiet, Gated, Compensated, Dry, NoAuthority, TERMINAL_RUN_STATUSES
  <2> QED BY <2>1, <2>2 DEF RunInv
<1> QED BY <1>1, <1>2 DEF ManagedInv

-----------------------------------------------------------------------------
(* The operations that change run and lifecycle state, but neither holds   *)
(* nor steps.                                                              *)

LEMMA SyncRunKeeps ==
    ASSUME ManagedInv, NEW r \in Runs, NEW next \in RunStatuses, SyncRunStatus(r, next)
    PROVE  ManagedInv'
<1>1. TypeOK'
  BY DEF ManagedInv, TypeOK, SyncRunStatus, SetRun, LifecycleOf, Lifecycles
<1>2. \A q \in Runs \ {r} : Same(q)
  BY DEF ManagedInv, TypeOK, SyncRunStatus, SetRun, Same
<1>3. /\ run'[r] = next /\ life'[r] = LifecycleOf(next)
      /\ authority'[r] = authority[r] /\ holds'[r] = holds[r] /\ nholds'[r] = nholds[r]
      /\ step'[r] = step[r] /\ rollback'[r] = rollback[r]
  BY DEF ManagedInv, TypeOK, SyncRunStatus, SetRun
<1>4. RunInv(r)
  BY DEF ManagedInv
<1>5. run[r] # "none" /\ next # "none" /\ life'[r] # "rolled_back"
  BY <1>3 DEF SyncRunStatus, RunTransitions, LifecycleOf, RunStatuses
<1>6. (Fresh(r) /\ Allocated(r) /\ Newest(r) /\ Gated(r) /\ Compensated(r))'
  BY <1>3, <1>4, <1>5 DEF RunInv, Fresh, Allocated, Newest, Gated, Compensated,
     ApprovalRequired, SomeHold
<1>7. Waiting(r)'
  BY <1>3, <1>4 DEF RunInv, Waiting, SyncRunStatus, RunTransitions, NoOpenHold, SomeHold
<1>8. Quiet(r)'
  <2> SUFFICES ASSUME NEW s \in Steps
               PROVE  /\ next \in TERMINAL_RUN_STATUSES => step[r][s] # "running"
                      /\ next = "completed" => step[r][s] \in {"none", "completed", "skipped"}
    BY <1>3 DEF Quiet
  <2>1. step[r][s] \in StepStatuses \cup {"none"}
    BY DEF ManagedInv, TypeOK
  <2> QED BY <2>1 DEF SyncRunStatus, NoActiveStep, ACTIVE_STEP_STATUSES, StepStatuses,
             TERMINAL_RUN_STATUSES
<1>9. Dry(r)'
  BY <1>3, <1>4 DEF RunInv, Dry, SyncRunStatus, LiveAuthority
<1> QED BY <1>1, <1>2, <1>6, <1>7, <1>8, <1>9, OneRun DEF RunInv

LEMMA FinalizeKeeps ==
    ASSUME ManagedInv, NEW r \in Runs, NEW s \in Steps, FinalizeRollback(r, s)
    PROVE  ManagedInv'
<1>1. TypeOK'
  BY DEF ManagedInv, TypeOK, FinalizeRollback, SetRun, RunStatuses, Lifecycles
<1>2. \A q \in Runs \ {r} : Same(q)
  BY DEF ManagedInv, TypeOK, FinalizeRollback, SetRun, Same
<1>3. /\ run'[r] = "cancelled" /\ life'[r] = "rolled_back"
      /\ authority'[r] = authority[r] /\ holds'[r] = holds[r] /\ nholds'[r] = nholds[r]
      /\ step'[r] = step[r] /\ rollback'[r] = rollback[r]
  BY DEF ManagedInv, TypeOK, FinalizeRollback, SetRun
<1>4. RunInv(r)
  BY DEF ManagedInv
<1>5. s \in rollback[r] /\ step[r][s] = "completed" /\ NoActiveStep(r, {})
  BY DEF FinalizeRollback, NoActiveStep, ACTIVE_STEP_STATUSES
<1>6. (Fresh(r) /\ Allocated(r) /\ Newest(r) /\ Gated(r) /\ Dry(r))'
  BY <1>3, <1>4 DEF RunInv, Fresh, Allocated, Newest, Gated, Dry, ApprovalRequired, SomeHold
<1>7. (Waiting(r) /\ Compensated(r))'
  BY <1>3, <1>4, <1>5 DEF RunInv, Waiting, Compensated, NoOpenHold, SomeHold, NoActiveStep
<1>8. Quiet(r)'
  BY <1>3, <1>5 DEF Quiet, NoActiveStep, ACTIVE_STEP_STATUSES
<1> QED BY <1>1, <1>2, <1>6, <1>7, <1>8, OneRun DEF RunInv

\* What reconcileManagedExecutionState may write.
LEMMA CanonicalFacts ==
    ASSUME ManagedInv, NEW r \in Runs, NEW lh \in RelevantHolds(r), Reconcile(r, lh)
    PROVE  /\ run'[r] \in RunStatuses /\ life'[r] \in Lifecycles
           /\ ~Blocked(r, run'[r], life'[r], lh)
           /\ run'[r] = "completed" => run[r] = "completed"
           /\ life'[r] = "rolled_back" => run'[r] = "cancelled" /\ RollbackDone(r, run[r], life[r])
<1> DEFINE c == CanonicalState(r, run[r], life[r], lh)
<1>1. /\ run'[r] = c[1] /\ life'[r] = c[2] /\ ~Blocked(r, c[1], c[2], lh)
      /\ run[r] \in RunStatuses /\ life[r] \in Lifecycles \cup {"none"}
  BY DEF ManagedInv, TypeOK, Reconcile, SetRun
<1> HIDE DEF c
<1>2. /\ c[1] \in RunStatuses /\ c[2] \in Lifecycles
      /\ c[1] = "completed" => run[r] = "completed"
      /\ c[2] = "rolled_back" => c[1] = "cancelled" /\ RollbackDone(r, run[r], life[r])
  <2>1. CASE RollbackDone(r, run[r], life[r])
    BY <2>1 DEF c, CanonicalState, RunStatuses, Lifecycles
  <2>2. CASE ~RollbackDone(r, run[r], life[r]) /\ ~NoOpenHold(r)
    BY <2>2 DEF c, CanonicalState, OpenHoldLifecycle, RunStatuses, Lifecycles
  <2>3. CASE ~RollbackDone(r, run[r], life[r]) /\ NoOpenHold(r)
    <3>1. /\ StatusLifecycle(run[r], life[r]) \in Lifecycles
          /\ StatusLifecycle(run[r], life[r]) # "rolled_back"
      BY <1>1 DEF StatusLifecycle, RunStatuses, Lifecycles
    <3>2. c \in { <<"running", "executing">>, <<"failed", "approval_rejected">>,
                  <<"awaiting_approval", "approval_expired">>,
                  <<run[r], StatusLifecycle(run[r], life[r])>> }
      BY <2>3 DEF c, CanonicalState
    <3> QED BY <1>1, <3>1, <3>2 DEF RunStatuses, Lifecycles
  <2> QED BY <2>1, <2>2, <2>3
<1> QED BY <1>1, <1>2

LEMMA ReconcileKeeps ==
    ASSUME ManagedInv, NEW r \in Runs, NEW lh \in RelevantHolds(r), Reconcile(r, lh)
    PROVE  ManagedInv'
<1>1. TypeOK'
  BY CanonicalFacts DEF ManagedInv, TypeOK, Reconcile, SetRun
<1>2. \A q \in Runs \ {r} : Same(q)
  BY DEF ManagedInv, TypeOK, Reconcile, SetRun, Same
<1>3. /\ authority'[r] = authority[r] /\ holds'[r] = holds[r] /\ nholds'[r] = nholds[r]
      /\ step'[r] = step[r] /\ rollback'[r] = rollback[r] /\ run[r] # "none"
  BY DEF ManagedInv, TypeOK, Reconcile
<1>4. RunInv(r)
  BY DEF ManagedInv
<1>5. run'[r] # "none"
  BY CanonicalFacts DEF RunStatuses
<1>6. (Fresh(r) /\ Allocated(r) /\ Newest(r) /\ Gated(r) /\ Dry(r))'
  BY <1>3, <1>4, <1>5, CanonicalFacts
     DEF RunInv, Fresh, Allocated, Newest, Gated, Dry, ApprovalRequired, SomeHold
<1>7. /\ NoOpenHold(r) \/ run'[r] \notin {"running", "completed"}
      /\ run'[r] \in TERMINAL_RUN_STATUSES => NoActiveStep(r, {})
      /\ run'[r] = "completed" => \A s \in Steps : step[r][s] # "failed"
  BY CanonicalFacts DEF Blocked
<1>8. Waiting(r)'
  BY <1>3, <1>4, <1>7 DEF RunInv, Waiting, NoOpenHold, SomeHold
<1>9. Quiet(r)'
  <2> SUFFICES ASSUME NEW s \in Steps
               PROVE  /\ run'[r] \in TERMINAL_RUN_STATUSES => step[r][s] # "running"
                      /\ run'[r] = "completed" => step[r][s] \in {"none", "completed", "skipped"}
    BY <1>3 DEF Quiet
  <2>1. step[r][s] \in StepStatuses \cup {"none"}
    BY DEF ManagedInv, TypeOK
  <2> QED BY <1>7, <2>1 DEF NoActiveStep, ACTIVE_STEP_STATUSES, StepStatuses, TERMINAL_RUN_STATUSES
<1>10. Compensated(r)'
  <2> SUFFICES ASSUME life'[r] = "rolled_back"
               PROVE  /\ run'[r] = "cancelled"
                      /\ \E s \in rollback[r] : step[r][s] = "completed"
                      /\ NoActiveStep(r, {})
    BY <1>3 DEF Compensated, NoActiveStep
  <2>1. run'[r] = "cancelled" /\ RollbackDone(r, run[r], life[r])
    BY CanonicalFacts
  <2>2. NoActiveStep(r, {})
    BY <1>7, <2>1 DEF TERMINAL_RUN_STATUSES
  <2> QED BY <1>4, <2>1, <2>2 DEF RollbackDone, RunInv, Compensated
<1> QED BY <1>1, <1>2, <1>6, <1>8, <1>9, <1>10, OneRun DEF RunInv

-----------------------------------------------------------------------------
(* The decisions: they close the one open hold. *)

LEMMA ClosedHold ==
    ASSUME ManagedInv, NEW r \in Runs, NEW h \in HoldIds, NEW status \in HoldStatuses
    PROVE  /\ CloseHold(holds[r], h, status) \in
                [HoldIds -> [type : HoldTypes \cup {"none"}, status : HoldStatuses \cup {"none"}]]
           /\ CloseHold(holds[r], h, status)[h].status = status
           /\ \A k \in HoldIds \ {h} : CloseHold(holds[r], h, status)[k] = holds[r][k]
BY DEF ManagedInv, TypeOK, CloseHold

\* A decision that does not escalate: whatever it writes into the run, nothing
\* was running and nothing else was open.
LEMMA DecisionKeeps ==
    ASSUME ManagedInv, NEW r \in Runs, NEW h \in HoldIds,
           NEW status \in {"approved", "rejected", "expired"},
           NEW st \in {"running", "failed", "awaiting_approval"},
           NEW lf \in {"executing", "approval_rejected", "approval_expired"},
           holds[r][h].status = "open",
           holds' = [holds EXCEPT ![r] = CloseHold(@, h, status)],
           SetRun(r, st, lf),
           UNCHANGED <<authority, nholds, step, rollback, attempt>>
    PROVE  ManagedInv'
<1> DEFINE hs == CloseHold(holds[r], h, status)
<1>1. /\ hs \in [HoldIds -> [type : HoldTypes \cup {"none"}, status : HoldStatuses \cup {"none"}]]
      /\ hs[h].status = status /\ \A k \in HoldIds \ {h} : hs[k] = holds[r][k]
  BY ClosedHold DEF HoldStatuses
<1>2. holds' = [holds EXCEPT ![r] = hs]
  OBVIOUS
<1> HIDE DEF hs
<1>3. TypeOK'
  BY <1>1, <1>2 DEF ManagedInv, TypeOK, SetRun, RunStatuses, Lifecycles
<1>4. \A q \in Runs \ {r} : Same(q)
  BY <1>2 DEF ManagedInv, TypeOK, SetRun, Same
<1>5. /\ run'[r] = st /\ life'[r] = lf /\ holds'[r] = hs
      /\ authority'[r] = authority[r] /\ nholds'[r] = nholds[r]
      /\ step'[r] = step[r] /\ rollback'[r] = rollback[r]
  BY <1>2 DEF ManagedInv, TypeOK, SetRun
<1>6. RunInv(r)
  BY DEF ManagedInv
<1>7. \A k \in HoldIds : hs[k].status # "open"
  BY <1>1, <1>6 DEF RunInv, Newest
<1>8. \A s \in Steps : step[r][s] # "running"
  BY <1>6 DEF RunInv, Waiting, NoOpenHold, SomeHold
<1>9. (Fresh(r) /\ Newest(r) /\ Waiting(r) /\ Quiet(r) /\ Compensated(r) /\ Dry(r))'
  BY <1>5, <1>6, <1>7, <1>8 DEF RunInv, Fresh, Newest, Waiting, Quiet, Compensated, Dry,
     NoOpenHold, SomeHold
<1>10. Allocated(r)'
  BY <1>1, <1>5, <1>6 DEF RunInv, Allocated
<1>11. Gated(r)'
  <2>1. SomeHold(r, {"approved"}) => SomeHold(r, {"approved"})'
    BY <1>1, <1>5 DEF SomeHold
  <2> QED BY <2>1, <1>5, <1>6 DEF RunInv, Gated, ApprovalRequired
<1> QED BY <1>3, <1>4, <1>9, <1>10, <1>11, OneRun DEF RunInv

LEMMA DecideKeeps ==
    ASSUME ManagedInv, NEW r \in Runs, NEW h \in HoldIds,
           \/ DecideExpired(r, h)
           \/ \E d \in {"approved", "rejected"} : Decide(r, h, d)
    PROVE  ManagedInv'
<1>1. CASE DecideExpired(r, h)
  BY <1>1, DecisionKeeps DEF DecideExpired
<1>2. CASE \E d \in {"approved", "rejected"} : Decide(r, h, d)
  <2> PICK d \in {"approved", "rejected"} : Decide(r, h, d)
    BY <1>2
  <2>1. CASE SetRun(r, "running", "executing")
    BY <2>1, DecisionKeeps DEF Decide
  <2>2. CASE SetRun(r, "failed", "approval_rejected")
    BY <2>2, DecisionKeeps DEF Decide
  <2> QED BY <2>1, <2>2 DEF Decide
<1> QED BY <1>1, <1>2

-----------------------------------------------------------------------------
(* The operations that open a hold. *)

HoldRow == [type : HoldTypes \cup {"none"}, status : HoldStatuses \cup {"none"}]

LEMMA AddedHold ==
    ASSUME NEW hs \in [HoldIds -> HoldRow], NEW n \in 0..MaxHolds, n < MaxHolds,
           NEW type \in HoldTypes
    PROVE  /\ AddHold(hs, n, type) \in [HoldIds -> HoldRow]
           /\ n + 1 \in HoldIds
           /\ AddHold(hs, n, type)[n + 1].status = "open"
           /\ \A k \in HoldIds \ {n + 1} : AddHold(hs, n, type)[k] = hs[k]
BY BoundsAssumption DEF AddHold, HoldRow, HoldIds, HoldStatuses

\* An escalation: hs are the holds with the decided one closed.
LEMMA EscalationKeeps ==
    ASSUME ManagedInv, NEW r \in Runs, NEW hs \in [HoldIds -> HoldRow],
           \A k \in HoldIds : hs[k].status # "open",
           \A k \in HoldIds : holds[r][k].status = "approved" => hs[k].status = "approved",
           \A k \in HoldIds : k > nholds[r] => hs[k].status = "none",
           \A s \in Steps : step[r][s] # "running",
           nholds[r] < MaxHolds,
           holds' = [holds EXCEPT ![r] = AddHold(hs, nholds[r], "supervisor_approval")],
           nholds' = [nholds EXCEPT ![r] = @ + 1],
           SetRun(r, "awaiting_approval", "escalated"),
           UNCHANGED <<authority, step, rollback, attempt>>
    PROVE  ManagedInv'
<1> DEFINE new == AddHold(hs, nholds[r], "supervisor_approval")
<1>1. nholds[r] \in 0..MaxHolds
  BY DEF ManagedInv, TypeOK
<1>2. /\ new \in [HoldIds -> HoldRow] /\ nholds[r] + 1 \in HoldIds
      /\ new[nholds[r] + 1].status = "open"
      /\ \A k \in HoldIds \ {nholds[r] + 1} : new[k] = hs[k]
  BY <1>1, AddedHold DEF HoldTypes
<1>3. holds' = [holds EXCEPT ![r] = new]
  OBVIOUS
<1> HIDE DEF new
<1>4. TypeOK'
  BY <1>1, <1>2, <1>3, BoundsAssumption
     DEF ManagedInv, TypeOK, SetRun, RunStatuses, Lifecycles, HoldRow, HoldIds
<1>5. \A q \in Runs \ {r} : Same(q)
  BY <1>3 DEF ManagedInv, TypeOK, SetRun, Same
<1>6. /\ run'[r] = "awaiting_approval" /\ life'[r] = "escalated" /\ holds'[r] = new
      /\ authority'[r] = authority[r] /\ nholds'[r] = nholds[r] + 1
      /\ step'[r] = step[r] /\ rollback'[r] = rollback[r]
  BY <1>3 DEF ManagedInv, TypeOK, SetRun
<1>7. RunInv(r)
  BY DEF ManagedInv
<1>8. (Newest(r) /\ Allocated(r))'
  <2>1. ASSUME NEW k \in HoldIds
        PROVE  /\ new[k].status = "open" => k = nholds[r] + 1
               /\ k > nholds[r] + 1 => new[k].status = "none"
    <3>1. k \in Nat
      BY DEF HoldIds
    <3>2. CASE k = nholds[r] + 1
      BY <1>1, <3>2
    <3>3. CASE k # nholds[r] + 1
      <4>1. new[k] = hs[k] /\ hs[k].status # "open"
        BY <1>2, <3>3
      <4>2. k > nholds[r] + 1 => k > nholds[r]
        BY <1>1, <3>1
      <4> QED BY <4>1, <4>2
    <3> QED BY <3>2, <3>3
  <2> QED BY <2>1, <1>6 DEF Newest, Allocated
<1>9. (Fresh(r) /\ Waiting(r) /\ Quiet(r) /\ Compensated(r) /\ Dry(r))'
  BY <1>6, <1>7 DEF RunInv, Fresh, Waiting, Quiet, Compensated, Dry, TERMINAL_RUN_STATUSES
<1>10. Gated(r)'
  <2>1. SomeHold(r, {"approved"}) => SomeHold(r, {"approved"})'
    <3> SUFFICES ASSUME NEW k \in HoldIds, holds[r][k].status = "approved"
                 PROVE  new[k].status = "approved"
      BY <1>6 DEF SomeHold
    <3>1. k # nholds[r] + 1
      BY <1>1, <1>7 DEF RunInv, Allocated, HoldIds
    <3> QED BY <3>1, <1>2
  <2> QED BY <2>1, <1>6, <1>7 DEF RunInv, Gated, ApprovalRequired
<1> QED BY <1>4, <1>5, <1>8, <1>9, <1>10, OneRun DEF RunInv

LEMMA DecideEscalatedKeeps ==
    ASSUME ManagedInv, NEW r \in Runs, NEW h \in HoldIds, DecideEscalated(r, h)
    PROVE  ManagedInv'
<1> DEFINE hs == CloseHold(holds[r], h, "escalated")
<1>1. holds[r][h].status = "open" /\ RunInv(r) /\ nholds[r] \in 0..MaxHolds
  BY DEF ManagedInv, TypeOK, DecideEscalated
<1>2. /\ hs \in [HoldIds -> HoldRow] /\ hs[h].status = "escalated"
      /\ \A k \in HoldIds \ {h} : hs[k] = holds[r][k]
  BY ClosedHold DEF HoldRow, HoldStatuses
<1>3. /\ holds' = [holds EXCEPT ![r] = AddHold(hs, nholds[r], "supervisor_approval")]
      /\ nholds[r] < MaxHolds /\ nholds' = [nholds EXCEPT ![r] = @ + 1]
      /\ SetRun(r, "awaiting_approval", "escalated")
      /\ UNCHANGED <<authority, step, rollback, attempt>>
  BY DEF DecideEscalated
<1> HIDE DEF hs
<1>4. h = nholds[r] /\ \A k \in HoldIds : hs[k].status # "open"
  BY <1>1, <1>2 DEF RunInv, Newest
<1>5. \A s \in Steps : step[r][s] # "running"
  BY <1>1 DEF RunInv, Waiting, NoOpenHold, SomeHold
<1>6. \A k \in HoldIds : k > nholds[r] => hs[k].status = "none"
  BY <1>1, <1>2, <1>4 DEF RunInv, Allocated, HoldIds
<1>7. \A k \in HoldIds : holds[r][k].status = "approved" => hs[k].status = "approved"
  BY <1>1, <1>2
<1> QED BY <1>2, <1>3, <1>4, <1>5, <1>6, <1>7, EscalationKeeps

LEMMA EscalateRunKeeps ==
    ASSUME ManagedInv, NEW r \in Runs, EscalateRun(r)
    PROVE  ManagedInv'
<1>1. holds[r] \in [HoldIds -> HoldRow] /\ RunInv(r)
  BY DEF ManagedInv, TypeOK, HoldRow
<1>2. \A k \in HoldIds : holds[r][k].status # "open"
  BY DEF EscalateRun, NoOpenHold, SomeHold
<1>3. /\ holds' = [holds EXCEPT ![r] = AddHold(holds[r], nholds[r], "supervisor_approval")]
      /\ nholds[r] < MaxHolds /\ nholds' = [nholds EXCEPT ![r] = @ + 1]
      /\ SetRun(r, "awaiting_approval", "escalated")
      /\ UNCHANGED <<authority, step, rollback, attempt>>
      /\ \A s \in Steps : step[r][s] # "running"
  BY DEF EscalateRun
<1>4. \A k \in HoldIds : k > nholds[r] => holds[r][k].status = "none"
  BY <1>1 DEF RunInv, Allocated
<1> QED BY <1>1, <1>2, <1>3, <1>4, EscalationKeeps

LEMMA CreateRunKeeps ==
    ASSUME ManagedInv, NEW r \in Runs, NEW a \in Authorities, CreateRun(r, a)
    PROVE  ManagedInv'
<1> DEFINE type == a.hold_type
<1>1. /\ run[r] = "none" /\ RunInv(r) /\ nholds[r] = 0
      /\ \A s \in Steps : step[r][s] = "none"
      /\ \A k \in HoldIds : holds[r][k].status = "none"
  BY DEF ManagedInv, CreateRun, RunInv, Fresh, Allocated, HoldIds
<1>2. /\ InitialStatus(type) \in {"pending", "awaiting_review", "awaiting_approval"}
      /\ InitialLifecycle(type) \in Lifecycles /\ InitialLifecycle(type) # "rolled_back"
      /\ type \in HoldTypes \cup {"none"}
  BY DEF InitialStatus, InitialLifecycle, Lifecycles, Authorities
<1>3. CASE type = "none"
  <2>1. TypeOK'
    BY <1>2, <1>3 DEF ManagedInv, TypeOK, CreateRun, SetRun, RunStatuses
  <2>2. \A q \in Runs \ {r} : Same(q)
    BY <1>3 DEF ManagedInv, TypeOK, CreateRun, SetRun, Same
  <2>3. /\ run'[r] = InitialStatus(type) /\ life'[r] = InitialLifecycle(type)
        /\ holds'[r] = holds[r] /\ authority'[r] = a /\ nholds'[r] = 0
        /\ step'[r] = step[r] /\ rollback'[r] = rollback[r]
    BY <1>1, <1>3 DEF ManagedInv, TypeOK, CreateRun, SetRun
  <2> HIDE DEF type
  <2>4. RunInv(r)'
    BY <1>1, <1>2, <2>3 DEF RunInv, Fresh, Allocated, Newest, Waiting, Quiet, Gated,
       Compensated, Dry, NoOpenHold, SomeHold, TERMINAL_RUN_STATUSES
  <2> QED BY <2>1, <2>2, <2>4, OneRun
<1>4. CASE type # "none"
  <2> DEFINE new == AddHold(holds[r], 0, type)
  <2>1. /\ new \in [HoldIds -> HoldRow] /\ 1 \in HoldIds /\ new[1].status = "open"
        /\ \A k \in HoldIds \ {1} : new[k] = holds[r][k]
    <3>1. holds[r] \in [HoldIds -> HoldRow] /\ 0 < MaxHolds
      BY <1>4, BoundsAssumption DEF ManagedInv, TypeOK, HoldRow, CreateRun
    <3> QED BY <1>2, <1>4, <3>1, AddedHold, BoundsAssumption
  <2>2. /\ holds' = [holds EXCEPT ![r] = new] /\ nholds' = [nholds EXCEPT ![r] = 1]
        /\ SetRun(r, InitialStatus(type), InitialLifecycle(type))
        /\ authority' = [authority EXCEPT ![r] = a]
        /\ UNCHANGED <<step, rollback, attempt>> /\ MaxHolds > 0
    BY <1>4 DEF CreateRun
  <2> HIDE DEF new
  <2>3. TypeOK'
    BY <1>2, <2>1, <2>2, BoundsAssumption
       DEF ManagedInv, TypeOK, SetRun, RunStatuses, HoldRow
  <2>4. \A q \in Runs \ {r} : Same(q)
    BY <2>2 DEF ManagedInv, TypeOK, SetRun, Same
  <2>5. /\ run'[r] = InitialStatus(type) /\ life'[r] = InitialLifecycle(type)
        /\ holds'[r] = new /\ authority'[r] = a /\ nholds'[r] = 1
        /\ step'[r] = step[r] /\ rollback'[r] = rollback[r]
    BY <2>2 DEF ManagedInv, TypeOK, SetRun
  <2> HIDE DEF type
  <2>6. (Newest(r) /\ Allocated(r))'
    BY <1>1, <2>1, <2>5 DEF Newest, Allocated, HoldIds
  <2>7. (Fresh(r) /\ Waiting(r) /\ Quiet(r) /\ Gated(r) /\ Compensated(r) /\ Dry(r))'
    BY <1>1, <1>2, <2>5 DEF Fresh, Waiting, Quiet, Gated, Compensated, Dry,
       TERMINAL_RUN_STATUSES
  <2> QED BY <2>3, <2>4, <2>6, <2>7, OneRun DEF RunInv
<1> QED BY <1>3, <1>4

-----------------------------------------------------------------------------
(* The operations on steps. *)

\* A new step of a live run that is, or becomes, running or pending.
LEMMA InsertedStep ==
    ASSUME ManagedInv, NEW r \in Runs, NEW s \in Steps, NEW b \in BOOLEAN,
           InsertStep(r, s, b)
    PROVE  /\ step' \in [Runs -> [Steps -> StepStatuses \cup {"none"}]]
           /\ rollback' \in [Runs -> SUBSET Steps]
           /\ step'[r][s] = "pending" /\ step[r][s] = "none"
           /\ \A t \in Steps \ {s} : step'[r][t] = step[r][t]
           /\ rollback[r] \subseteq rollback'[r]
           /\ rollback'[r] \subseteq rollback[r] \cup {s}
           /\ b => s \in rollback'[r]
           /\ \A q \in Runs \ {r} : step'[q] = step[q] /\ rollback'[q] = rollback[q]
BY DEF ManagedInv, TypeOK, InsertStep, StepStatuses

LEMMA CreateStepKeeps ==
    ASSUME ManagedInv, NEW r \in Runs, NEW s \in Steps, NEW b \in BOOLEAN,
           CreateStep(r, s, b)
    PROVE  ManagedInv'
<1>1. /\ InsertStep(r, s, b) /\ StepEligible(r) /\ LiveAuthority(r) /\ RunInv(r)
      /\ UNCHANGED <<run, life, authority, holds, nholds, attempt>>
  BY DEF ManagedInv, CreateStep
<1>2. TypeOK'
  BY <1>1, InsertedStep DEF ManagedInv, TypeOK
<1>3. \A q \in Runs \ {r} : Same(q)
  BY <1>1, InsertedStep DEF Same
<1>4. run[r] \in {"pending", "running"} /\ NoOpenHold(r)
  BY <1>1 DEF StepEligible
<1>5. (Fresh(r) /\ Allocated(r) /\ Newest(r) /\ Waiting(r) /\ Quiet(r) /\ Compensated(r) /\ Dry(r))'
  BY <1>1, <1>4 DEF RunInv, Fresh, Allocated, Newest, Waiting, Quiet, Compensated, Dry,
     NoOpenHold, SomeHold, LiveAuthority, TERMINAL_RUN_STATUSES
<1>6. Gated(r)'
  <2> SUFFICES ASSUME NEW t \in Steps \ rollback'[r], ApprovalRequired(r), step'[r][t] # "none"
               PROVE  SomeHold(r, {"approved"})
    BY <1>1 DEF Gated, ApprovalRequired, SomeHold
  <2>1. CASE t = s
    BY <1>1 DEF StepEligible
  <2>2. CASE t # s
    BY <1>1, <2>2, InsertedStep DEF RunInv, Gated
  <2> QED BY <2>1, <2>2
<1> QED BY <1>2, <1>3, <1>5, <1>6, OneRun DEF RunInv

LEMMA RequestRollbackKeeps ==
    ASSUME ManagedInv, NEW r \in Runs, NEW s \in Steps, RequestRollback(r, s)
    PROVE  ManagedInv'
<1>1. /\ InsertStep(r, s, TRUE) /\ NoOpenHold(r) /\ NoActiveStep(r, {}) /\ LiveAuthority(r)
      /\ RunInv(r) /\ run[r] # "none" /\ SetRun(r, "running", "rollback_executing")
      /\ UNCHANGED <<authority, holds, nholds, attempt>>
  BY DEF ManagedInv, RequestRollback
<1>2. TypeOK'
  BY <1>1, InsertedStep DEF ManagedInv, TypeOK, SetRun, RunStatuses, Lifecycles
<1>3. \A q \in Runs \ {r} : Same(q)
  <2> SUFFICES ASSUME NEW q \in Runs \ {r} PROVE Same(q)
    OBVIOUS
  <2>1. run'[q] = run[q] /\ life'[q] = life[q]
    BY <1>1 DEF ManagedInv, TypeOK, SetRun
  <2>2. step'[q] = step[q] /\ rollback'[q] = rollback[q]
    BY <1>1, InsertedStep
  <2> QED BY <1>1, <2>1, <2>2 DEF Same
<1>4. run'[r] = "running" /\ life'[r] = "rollback_executing"
  BY <1>1 DEF ManagedInv, TypeOK, SetRun
<1>5. (Fresh(r) /\ Allocated(r) /\ Newest(r) /\ Waiting(r) /\ Quiet(r) /\ Compensated(r) /\ Dry(r))'
  BY <1>1, <1>4 DEF RunInv, Fresh, Allocated, Newest, Waiting, Quiet, Compensated, Dry,
     NoOpenHold, SomeHold, LiveAuthority, TERMINAL_RUN_STATUSES
<1>6. Gated(r)'
  <2> SUFFICES ASSUME NEW t \in Steps \ rollback'[r], ApprovalRequired(r), step'[r][t] # "none"
               PROVE  SomeHold(r, {"approved"})
    BY <1>1 DEF Gated, ApprovalRequired, SomeHold
  <2>1. t # s /\ t \notin rollback[r] /\ step[r][t] # "none"
    BY <1>1, InsertedStep
  <2> QED BY <1>1, <2>1 DEF RunInv, Gated
<1> QED BY <1>2, <1>3, <1>5, <1>6, OneRun DEF RunInv

LEMMA SyncStepKeeps ==
    ASSUME ManagedInv, NEW r \in Runs, NEW s \in Steps, NEW next \in StepStatuses,
           SyncStepStatus(r, s, next)
    PROVE  ManagedInv'
<1>1. /\ RunInv(r) /\ step[r][s] \in ACTIVE_STEP_STATUSES
      /\ step' = [step EXCEPT ![r][s] = next]
      /\ UNCHANGED <<authority, holds, nholds, rollback, attempt>>
  BY DEF ManagedInv, SyncStepStatus, StepTransitions, ACTIVE_STEP_STATUSES
<1>2. \/ next = "running" /\ run' = [run EXCEPT ![r] = "running"]
      \/ next = "failed" /\ run' = [run EXCEPT ![r] = "paused"]
      \/ next \notin {"running", "failed"} /\ run' = run
  BY DEF SyncStepStatus, SetRun
<1>3. \/ /\ next = "running"
         /\ \E lf \in Lifecycles : lf # "rolled_back" /\ life' = [life EXCEPT ![r] = lf]
      \/ next = "failed" /\ life' = [life EXCEPT ![r] = "blocked"]
      \/ next \notin {"running", "failed"} /\ life' = life
  BY DEF SyncStepStatus, SetRun, Lifecycles
<1>4. TypeOK'
  BY <1>1, <1>2, <1>3 DEF ManagedInv, TypeOK, RunStatuses, Lifecycles
<1>5. \A q \in Runs \ {r} : Same(q)
  BY <1>1, <1>2, <1>3 DEF ManagedInv, TypeOK, Same
<1>6. step'[r][s] = next /\ \A t \in Steps \ {s} : step'[r][t] = step[r][t]
  BY <1>1 DEF ManagedInv, TypeOK
<1>7. \/ next = "running" /\ run'[r] = "running"
      \/ next = "failed" /\ run'[r] = "paused"
      \/ next \notin {"running", "failed"} /\ run'[r] = run[r]
  BY <1>2 DEF ManagedInv, TypeOK
<1>8. run[r] \notin {"none", "completed"} /\ life[r] # "rolled_back" /\ LiveAuthority(r)
  <2>1. run[r] \notin {"none", "completed"}
    BY <1>1 DEF RunInv, Fresh, Quiet, ACTIVE_STEP_STATUSES
  <2>2. life[r] # "rolled_back"
    BY <1>1 DEF RunInv, Compensated, NoActiveStep
  <2>3. authority[r].mode \in {"live", "dry_run"}
    BY DEF ManagedInv, TypeOK, Authorities
  <2>4. authority[r].mode # "dry_run"
    BY <1>1 DEF RunInv, Dry, ACTIVE_STEP_STATUSES
  <2> QED BY <2>1, <2>2, <2>3, <2>4 DEF LiveAuthority
<1>9. life'[r] # "rolled_back"
  BY <1>3, <1>8 DEF ManagedInv, TypeOK
<1>10. (Fresh(r) /\ Allocated(r) /\ Newest(r) /\ Compensated(r) /\ Dry(r))'
  BY <1>1, <1>7, <1>8, <1>9 DEF RunInv, Fresh, Allocated, Newest, Compensated, Dry, LiveAuthority
<1>11. Waiting(r)'
  BY <1>1, <1>6, <1>7 DEF RunInv, Waiting, NoOpenHold, SomeHold, SyncStepStatus
<1>12. Quiet(r)'
  BY <1>1, <1>6, <1>7, <1>8 DEF RunInv, Quiet, TERMINAL_RUN_STATUSES
<1>13. Gated(r)'
  BY <1>1, <1>6 DEF RunInv, Gated, ApprovalRequired, SomeHold, ACTIVE_STEP_STATUSES
<1> QED BY <1>4, <1>5, <1>10, <1>11, <1>12, <1>13, OneRun DEF RunInv

LEMMA RetryKeeps ==
    ASSUME ManagedInv, NEW r \in Runs, NEW s \in Steps, NEW m \in 1..RetryCeiling,
           RetryStep(r, s, m)
    PROVE  ManagedInv'
<1>1. /\ RunInv(r) /\ step[r][s] = "failed" /\ NoOpenHold(r) /\ LiveAuthority(r)
      /\ run[r] # "none" /\ attempt[r][s] < m
      /\ step' = [step EXCEPT ![r][s] = "pending"]
      /\ attempt' = [attempt EXCEPT ![r][s] = @ + 1]
      /\ SetRun(r, "running", "executing")
      /\ UNCHANGED <<authority, holds, nholds, rollback>>
  BY DEF ManagedInv, RetryStep
<1>2. TypeOK'
  <2>1. attempt[r][s] \in 1..RetryCeiling /\ attempt[r][s] + 1 \in 1..RetryCeiling
    BY <1>1, BoundsAssumption DEF ManagedInv, TypeOK
  <2>2. attempt' \in [Runs -> [Steps -> 1..RetryCeiling]]
    BY <1>1, <2>1 DEF ManagedInv, TypeOK
  <2> QED BY <1>1, <2>2 DEF ManagedInv, TypeOK, SetRun, RunStatuses, Lifecycles, StepStatuses
<1>3. \A q \in Runs \ {r} : Same(q)
  BY <1>1 DEF ManagedInv, TypeOK, SetRun, Same
<1>4. /\ run'[r] = "running" /\ life'[r] = "executing" /\ step'[r][s] = "pending"
      /\ \A t \in Steps \ {s} : step'[r][t] = step[r][t]
  BY <1>1 DEF ManagedInv, TypeOK, SetRun
<1>5. (Fresh(r) /\ Allocated(r) /\ Newest(r) /\ Waiting(r) /\ Quiet(r) /\ Compensated(r) /\ Dry(r))'
  BY <1>1, <1>4 DEF RunInv, Fresh, Allocated, Newest, Waiting, Quiet, Compensated, Dry,
     NoOpenHold, SomeHold, LiveAuthority, TERMINAL_RUN_STATUSES
<1>6. Gated(r)'
  BY <1>1, <1>4 DEF RunInv, Gated, ApprovalRequired, SomeHold
<1> QED BY <1>2, <1>3, <1>5, <1>6, OneRun DEF RunInv

LEMMA CancelKeeps ==
    ASSUME ManagedInv, NEW r \in Runs, CancelRun(r)
    PROVE  ManagedInv'
<1> DEFINE ss == [s \in Steps |-> IF step[r][s] \in ACTIVE_STEP_STATUSES THEN "skipped" ELSE step[r][s]]
           hs == [h \in HoldIds |-> IF holds[r][h].status = "open"
                                    THEN [type |-> holds[r][h].type, status |-> "rejected"]
                                    ELSE holds[r][h]]
<1>1. /\ RunInv(r) /\ run[r] \notin TERMINAL_RUN_STATUSES
      /\ run[r] # "none"
      /\ step' = [step EXCEPT ![r] = ss] /\ holds' = [holds EXCEPT ![r] = hs]
      /\ SetRun(r, "cancelled", "cancelled")
      /\ UNCHANGED <<authority, nholds, rollback, attempt>>
  BY DEF ManagedInv, CancelRun, RunStatuses
<1>2. /\ ss \in [Steps -> StepStatuses \cup {"none"}]
      /\ \A s \in Steps : ss[s] \notin ACTIVE_STEP_STATUSES
      /\ \A s \in Steps : ss[s] = "none" => step[r][s] = "none"
      /\ \A s \in Steps : step[r][s] = "none" => ss[s] = "none"
  BY DEF ManagedInv, TypeOK, StepStatuses, ACTIVE_STEP_STATUSES
<1>3. /\ hs \in [HoldIds -> HoldRow]
      /\ \A h \in HoldIds : hs[h].status # "open"
      /\ \A h \in HoldIds : holds[r][h].status # "open" => hs[h] = holds[r][h]
  BY DEF ManagedInv, TypeOK, HoldRow, HoldStatuses
<1> HIDE DEF ss, hs
<1>4. TypeOK'
  BY <1>1, <1>2, <1>3 DEF ManagedInv, TypeOK, HoldRow, SetRun, RunStatuses, Lifecycles
<1>5. \A q \in Runs \ {r} : Same(q)
  BY <1>1 DEF ManagedInv, TypeOK, SetRun, Same
<1>6. /\ run'[r] = "cancelled" /\ life'[r] = "cancelled" /\ step'[r] = ss /\ holds'[r] = hs
      /\ authority'[r] = authority[r] /\ nholds'[r] = nholds[r] /\ rollback'[r] = rollback[r]
  BY <1>1 DEF ManagedInv, TypeOK, SetRun
<1>7. (Fresh(r) /\ Newest(r) /\ Waiting(r) /\ Quiet(r) /\ Compensated(r) /\ Dry(r))'
  BY <1>1, <1>2, <1>3, <1>6 DEF RunInv, Fresh, Newest, Waiting, Quiet, Compensated, Dry,
     NoOpenHold, SomeHold, ACTIVE_STEP_STATUSES
<1>8. Allocated(r)'
  BY <1>1, <1>3, <1>6 DEF RunInv, Allocated
<1>9. Gated(r)'
  <2>1. SomeHold(r, {"approved"}) => SomeHold(r, {"approved"})'
    BY <1>3, <1>6 DEF SomeHold
  <2> QED BY <2>1, <1>1, <1>2, <1>6 DEF RunInv, Gated, ApprovalRequired
<1> QED BY <1>4, <1>5, <1>7, <1>8, <1>9, OneRun DEF RunInv

-----------------------------------------------------------------------------
(* The invariant and what it implies. *)

LEMMA StepKeepsManagedInv == ManagedInv /\ [Next]_vars => ManagedInv'
<1> SUFFICES ASSUME ManagedInv, [Next]_vars PROVE ManagedInv'
  OBVIOUS
<1>1. CASE UNCHANGED vars
  <2>1. TypeOK'
    BY <1>1 DEF ManagedInv, TypeOK, vars
  <2>2. ASSUME NEW q \in Runs PROVE RunInv(q)'
    BY <1>1, SameRunInv DEF ManagedInv, Same, vars
  <2> QED BY <2>1, <2>2 DEF ManagedInv
<1>2. CASE Next
  <2> PICK r \in Runs :
        \/ \E a \in Authorities : CreateRun(r, a)
        \/ \E s \in Steps, b \in BOOLEAN : CreateStep(r, s, b)
        \/ \E h \in HoldIds : DecideExpired(r, h)
        \/ \E h \in HoldIds, d \in {"approved", "rejected"} : Decide(r, h, d)
        \/ \E h \in HoldIds : DecideEscalated(r, h)
        \/ \E st \in RunStatuses : SyncRunStatus(r, st)
        \/ \E s \in Steps, st \in StepStatuses : SyncStepStatus(r, s, st)
        \/ \E s \in Steps, m \in 1..RetryCeiling : RetryStep(r, s, m)
        \/ EscalateRun(r)
        \/ CancelRun(r)
        \/ \E s \in Steps : RequestRollback(r, s)
        \/ \E s \in Steps : FinalizeRollback(r, s)
        \/ \E lh \in RelevantHolds(r) : Reconcile(r, lh)
    BY <1>2 DEF Next
  <2>1. CASE \E a \in Authorities : CreateRun(r, a)
    BY <2>1, CreateRunKeeps
  <2>2. CASE \E s \in Steps, b \in BOOLEAN : CreateStep(r, s, b)
    BY <2>2, CreateStepKeeps
  <2>3. CASE \E h \in HoldIds : DecideExpired(r, h)
    BY <2>3, DecideKeeps
  <2>4. CASE \E h \in HoldIds, d \in {"approved", "rejected"} : Decide(r, h, d)
    BY <2>4, DecideKeeps
  <2>5. CASE \E h \in HoldIds : DecideEscalated(r, h)
    BY <2>5, DecideEscalatedKeeps
  <2>6. CASE \E st \in RunStatuses : SyncRunStatus(r, st)
    BY <2>6, SyncRunKeeps
  <2>7. CASE \E s \in Steps, st \in StepStatuses : SyncStepStatus(r, s, st)
    BY <2>7, SyncStepKeeps
  <2>8. CASE \E s \in Steps, m \in 1..RetryCeiling : RetryStep(r, s, m)
    BY <2>8, RetryKeeps
  <2>9. CASE EscalateRun(r)
    BY <2>9, EscalateRunKeeps
  <2>10. CASE CancelRun(r)
    BY <2>10, CancelKeeps
  <2>11. CASE \E s \in Steps : RequestRollback(r, s)
    BY <2>11, RequestRollbackKeeps
  <2>12. CASE \E s \in Steps : FinalizeRollback(r, s)
    BY <2>12, FinalizeKeeps
  <2>13. CASE \E lh \in RelevantHolds(r) : Reconcile(r, lh)
    BY <2>13, ReconcileKeeps
  <2> QED BY <2>1, <2>2, <2>3, <2>4, <2>5, <2>6, <2>7, <2>8, <2>9, <2>10, <2>11, <2>12, <2>13
<1> QED BY <1>1, <1>2

\* The inductive invariant holds in every reachable state.
THEOREM ManagedInvariant == Spec => []ManagedInv
BY InitManagedInv, StepKeepsManagedInv, PTL DEF Spec

\* Every variable keeps its type; a step never exceeds the largest number of
\* attempts a retry may name (retryManagedExecutionStep).
THEOREM ManagedTypeOK == Spec => []TypeOK
<1>1. ManagedInv => TypeOK
  BY DEF ManagedInv
<1> QED BY <1>1, ManagedInvariant, PTL

\* A run never has two decisions to take, through escalations, decisions and
\* reconciliations in any order (escalateManagedExecutionRun).
THEOREM OneDecisionAtATime == Spec => []OneOpenHold
<1>1. ManagedInv => OneOpenHold
  BY DEF ManagedInv, RunInv, Newest, OneOpenHold
<1> QED BY <1>1, ManagedInvariant, PTL

\* While a decision of a run is open, none of its steps is running, although
\* a decision does not look at the run's status (decideManagedExecutionApproval).
THEOREM NothingRunsMeanwhile == Spec => []NothingRunsWhileApprovalOpen
<1>1. ManagedInv => NothingRunsWhileApprovalOpen
  BY DEF ManagedInv, RunInv, Waiting, NothingRunsWhileApprovalOpen
<1> QED BY <1>1, ManagedInvariant, PTL

\* A terminal run has nothing running and a completed one nothing unfinished
\* (syncManagedExecutionRunStatus).
THEOREM TerminalIsQuiet == Spec => []TerminalRunIsQuiet
<1>1. ManagedInv => TerminalRunIsQuiet
  BY DEF ManagedInv, RunInv, Quiet, TerminalRunIsQuiet
<1> QED BY <1>1, ManagedInvariant, PTL

\* No sequence of operations gets an ordinary step past the approval gate
\* (assertManagedExecutionStepEligibility).
THEOREM GateHolds == Spec => []ApprovalBeforeExecution
<1>1. ManagedInv => ApprovalBeforeExecution
  BY DEF ManagedInv, RunInv, Gated, ApprovalBeforeExecution
<1> QED BY <1>1, ManagedInvariant, PTL

\* rolled_back is reached only after compensation, with every step inactive,
\* and reconciliation does not forge it (finalizeManagedExecutionRollback).
THEOREM RollbackIsCompensated == Spec => []RolledBackWasCompensated
<1>1. ManagedInv => RolledBackWasCompensated
  BY DEF ManagedInv, RunInv, Compensated, RolledBackWasCompensated
<1> QED BY <1>1, ManagedInvariant, PTL

\* A dry run gets no step and does not complete
\* (assertManagedExecutionAuthorityStillEffective).
THEOREM DryRunsStayDry == Spec => []DryRunNeverExecutes
<1>1. ManagedInv => DryRunNeverExecutes
  BY DEF ManagedInv, RunInv, Dry, DryRunNeverExecutes
<1> QED BY <1>1, ManagedInvariant, PTL

-----------------------------------------------------------------------------
(* Settled steps, step by step of the specification. *)

SettledStep ==
    \A r \in Runs : \A s \in Steps :
        /\ step[r][s] \in {"completed", "skipped"} => step'[r][s] = step[r][s]
        /\ step[r][s] = "failed" /\ step'[r][s] # "failed" =>
             attempt'[r][s] = attempt[r][s] + 1

\* Only one step, which was not settled, gets a new status.
LEMMA OneStepMoves ==
    ASSUME TypeOK, NEW r \in Runs, NEW s \in Steps,
           step[r][s] \in {"none", "pending", "running", "awaiting"}, NEW status,
           step' = [step EXCEPT ![r][s] = status]
    PROVE  SettledStep
<1> SUFFICES ASSUME NEW q \in Runs, NEW t \in Steps,
                    step[q][t] \in {"completed", "skipped", "failed"}
             PROVE  step'[q][t] = step[q][t]
  BY DEF SettledStep
<1>1. CASE q = r /\ t = s
  BY <1>1
<1>2. CASE q # r \/ t # s
  BY <1>2 DEF TypeOK
<1> QED BY <1>1, <1>2

LEMMA NextIsSettled == TypeOK /\ [Next]_vars => SettledStep
<1> SUFFICES ASSUME TypeOK, [Next]_vars PROVE SettledStep
  OBVIOUS
<1>1. CASE step' = step
  BY <1>1 DEF SettledStep
<1>2. ASSUME NEW r \in Runs, NEW s \in Steps, NEW b \in BOOLEAN,
             CreateStep(r, s, b) \/ RequestRollback(r, s)
      PROVE  SettledStep
  BY <1>2, OneStepMoves DEF CreateStep, RequestRollback, InsertStep
<1>3. ASSUME NEW r \in Runs, NEW s \in Steps, NEW st \in StepStatuses, SyncStepStatus(r, s, st)
      PROVE  SettledStep
  <2>1. step[r][s] \in {"none", "pending", "running", "awaiting"}
    BY <1>3 DEF SyncStepStatus, StepTransitions
  <2>2. step' = [step EXCEPT ![r][s] = st]
    BY <1>3 DEF SyncStepStatus
  <2> QED BY <2>1, <2>2, OneStepMoves
<1>4. ASSUME NEW r \in Runs, NEW s \in Steps, NEW m \in 1..RetryCeiling, RetryStep(r, s, m)
      PROVE  SettledStep
  <2> SUFFICES ASSUME NEW q \in Runs, NEW t \in Steps
               PROVE  /\ step[q][t] \in {"completed", "skipped"} => step'[q][t] = step[q][t]
                      /\ step[q][t] = "failed" /\ step'[q][t] # "failed" =>
                           attempt'[q][t] = attempt[q][t] + 1
    BY DEF SettledStep
  <2>1. /\ step[r][s] = "failed" /\ step' = [step EXCEPT ![r][s] = "pending"]
        /\ attempt' = [attempt EXCEPT ![r][s] = @ + 1]
    BY <1>4 DEF RetryStep
  <2>2. CASE q = r /\ t = s
    BY <2>1, <2>2 DEF TypeOK
  <2>3. CASE q # r \/ t # s
    BY <2>1, <2>3 DEF TypeOK
  <2> QED BY <2>2, <2>3
<1>5. ASSUME NEW r \in Runs, CancelRun(r) PROVE SettledStep
  <2> SUFFICES ASSUME NEW q \in Runs, NEW t \in Steps,
                      step[q][t] \in {"completed", "skipped", "failed"}
               PROVE  step'[q][t] = step[q][t]
    BY DEF SettledStep
  <2>1. CASE q = r
    BY <1>5, <2>1 DEF CancelRun, TypeOK, ACTIVE_STEP_STATUSES
  <2>2. CASE q # r
    BY <1>5, <2>2 DEF CancelRun, TypeOK
  <2> QED BY <2>1, <2>2
<1>6. CASE Next
  <2> PICK r \in Runs :
        \/ step' = step
        \/ \E s \in Steps, b \in BOOLEAN : CreateStep(r, s, b) \/ RequestRollback(r, s)
        \/ \E s \in Steps, st \in StepStatuses : SyncStepStatus(r, s, st)
        \/ \E s \in Steps, m \in 1..RetryCeiling : RetryStep(r, s, m)
        \/ CancelRun(r)
    BY <1>6 DEF Next, CreateRun, DecideExpired, Decide, DecideEscalated, SyncRunStatus,
       EscalateRun, FinalizeRollback, Reconcile
  <2> QED BY <1>1, <1>2, <1>3, <1>4, <1>5
<1> QED BY <1>1, <1>6 DEF vars

\* A completed or skipped step never changes, and a failed one starts over only
\* with a further attempt (retryManagedExecutionStep, cancelManagedExecutionRun).
THEOREM SettledStepsAreFinal == Spec => SettledStepStays
<1>1. TypeOK /\ [Next]_vars =>
        [\A r \in Runs : \A s \in Steps :
           /\ step[r][s] \in {"completed", "skipped"} => step'[r][s] = step[r][s]
           /\ step[r][s] = "failed" /\ step'[r][s] # "failed" =>
                attempt'[r][s] = attempt[r][s] + 1]_vars
  BY NextIsSettled DEF SettledStep
<1> QED BY <1>1, ManagedTypeOK, PTL DEF Spec, SettledStepStays

=============================================================================
