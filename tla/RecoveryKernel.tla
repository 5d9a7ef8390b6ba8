--------------------------- MODULE RecoveryKernel ---------------------------
(***************************************************************************)
(* The execution of one approved step of a recovery plan by the recovery   *)
(* kernel (src/http-generic-api/recoveryKernel.js) over its MySQL control  *)
(* store (src/http-generic-api/productionRecoveryControlStore.js).         *)
(*                                                                         *)
(* An operator's approval of the step is reserved for an idempotency key   *)
(* when an execution ticket is issued under that key.  A call of           *)
(* executeRemediationStep presents a ticket, claims the key, reserves the  *)
(* approval, takes the fenced lock of the target, records its run,         *)
(* reserves the ticket, reaches the provider, reads the result back,       *)
(* consumes ticket and approval and stores a receipt for the key.          *)
(*                                                                         *)
(* Every store call that decides or writes something is an action of its   *)
(* own, but for the phases of a run that are written in a row, the         *)
(* releases of a catch clause, the reads before an issue and a fence check *)
(* with the phase it protects.  One verification is in flight at a time,   *)
(* MaxVerify in all.  A store call may fail, or commit and lose its        *)
(* answer, MaxFaults times in a behaviour, and the lock may expire at any  *)
(* time.  A process that dies is a call that takes no further step:        *)
(* nothing is assumed of the steps that are taken.  The plan, its trust    *)
(* checks and the signature of a ticket do not change and are assumed to   *)
(* be accepted; a call they refuse ends before it changes anything, like   *)
(* one that is not made.                                                   *)
(***************************************************************************)
EXTENDS Naturals, FiniteSets

CONSTANTS Approvals,  \* approval challenges of the step
          Keys,       \* idempotency keys
          Tickets,    \* execution tickets
          Calls,      \* calls of executeRemediationStep; a call names its run
          None,       \* no approval, key, ticket or call
          MaxFaults,  \* store calls that fail or lose their answer
          MaxVerify   \* requests of verifyRemediationStep

ASSUME BoundAssumption == MaxFaults \in Nat /\ MaxVerify \in Nat
ASSUME NoneAssumption == None \notin Approvals \cup Keys \cup Tickets \cup Calls

VARIABLES
  approval,     \* approval record: none, open or used
  index,        \* recovery_control_approval_index: the step's latest approval
  reservation,  \* recovery_control_approval_reservations: the key per approval
  claims,       \* recovery_control_execution_claims: the claimed keys
  ticket,       \* recovery_control_execution_tickets, with requests for them
  lock,         \* recovery_control_locks: who holds the target, not expired?
  binding,      \* recovery_control_run_idempotency: the run of a key
  stored,       \* phase of the run record of each call
  receipt,      \* recovery_control_idempotency_receipts
  call,         \* the calls in progress
  verify,       \* the verifyRemediationStep request in progress
  faults,       \* faults so far
  reached,      \* history: calls that went to the provider
  proven,       \* history: runs whose readback has passed
  readBack,     \* history: result of a call's readback while it held the lock
  failed        \* history: reservations whose ticket could not be issued

storeVars == <<approval, index, reservation, claims, ticket, lock, binding>>
vars == <<storeVars, stored, receipt, call, verify, faults, reached, proven, readBack, failed>>

-----------------------------------------------------------------------------
(* Phases of a run.  "locked" stands for the five phases that are written  *)
(* in a row before the first fence check (created to locked), and          *)
(* "readback_pending" for provider_acknowledged too.                       *)
Phases == {"locked", "executing", "execution_outcome_unknown",
           "readback_pending", "verifying", "verified",
           "partially_verified", "reconciliation_required", "failed_closed",
           "recovered"}

BeforeProvider == {"present", "claim", "approve", "lock", "record", "fence", "ticket",
                   "start", "send", "abort"}
AfterProvider == {"answer", "pending", "readback", "check", "finalize",
                  "consume", "complete", "seal", "put", "catch"}
Active == BeforeProvider \cup AfterProvider \cup {"unlock"}

TicketStates == {"none", "pending", "issued", "reserved", "finalized"}

\* The type invariant.
TypeOK ==
  /\ approval \in [Approvals -> {"none", "open", "used"}]
  /\ index \in Approvals \cup {None}
  /\ reservation \in [Approvals -> Keys \cup {None}]
  /\ claims \in SUBSET Keys
  /\ ticket \in [Tickets -> [state: TicketStates,
                             approval: Approvals \cup {None},
                             key: Keys \cup {None}]]
  /\ lock \in [holder: Calls \cup {None}, live: BOOLEAN]
  /\ binding \in [Keys -> Calls \cup {None}]
  /\ stored \in [Calls -> Phases \cup {"none"}]
  /\ receipt \in [Keys -> {"none", "recovered", "reconciliation_required"}]
  /\ call \in [Calls -> [pc: Active \cup {"idle", "done"},
                         ticket: Tickets \cup {None},
                         reserved: BOOLEAN, passed: BOOLEAN]]
  /\ verify \in [run: Calls \cup {None}, phase: Phases \cup {"none"}, made: 0 .. MaxVerify]
  /\ faults \in 0 .. MaxFaults
  /\ reached \subseteq Calls
  /\ proven \subseteq Calls
  /\ readBack \in [Calls -> {"none", "failed", "passed"}]
  /\ failed \subseteq Approvals \X Keys

Idle == [pc |-> "idle", ticket |-> None, reserved |-> FALSE, passed |-> FALSE]
NoTicket == [state |-> "none", approval |-> None, key |-> None]
NoVerify == [run |-> None, phase |-> "none", made |-> 0]
Free == [holder |-> None, live |-> FALSE]

Init ==
  /\ approval = [a \in Approvals |-> "none"]
  /\ index = None
  /\ reservation = [a \in Approvals |-> None]
  /\ claims = {}
  /\ ticket = [t \in Tickets |-> NoTicket]
  /\ lock = Free
  /\ binding = [k \in Keys |-> None]
  /\ stored = [c \in Calls |-> "none"]
  /\ receipt = [k \in Keys |-> "none"]
  /\ call = [c \in Calls |-> Idle]
  /\ verify = NoVerify
  /\ faults = 0
  /\ readBack = [c \in Calls |-> "none"]
  /\ reached = {} /\ proven = {} /\ failed = {}

\* A store call fails or loses its answer.
Fault == faults < MaxFaults /\ faults' = faults + 1

KeyOf(c) == ticket[call[c].ticket].key
ApprovalOf(c) == ticket[call[c].ticket].approval

At(c, pc) == call[c].pc = pc
Go(c, pc) == call' = [call EXCEPT ![c].pc = pc]

\* The call ends; what it presented is remembered if it reached the provider.
End(c) ==
  call' = [call EXCEPT ![c] =
             [pc |-> "done", ticket |-> IF c \in reached THEN call[c].ticket ELSE None,
              reserved |-> FALSE, passed |-> FALSE]]

-----------------------------------------------------------------------------
(* Approvals and tickets.                                                  *)

\* createApprovalChallenge: the new approval becomes the step's latest one.
CreateApproval(a) ==
  /\ approval[a] = "none"
  /\ approval' = [approval EXCEPT ![a] = "open"]
  /\ index' = a
  /\ UNCHANGED <<reservation, claims, ticket, lock, binding, stored, receipt,
                 call, verify, faults, reached, proven, readBack, failed>>

\* Mutation: reserving does not look at the key that has reserved.
MutReservable(a, k) == approval[a] = "open"

\* reserveApproval of the store: the approval is unused and free, or
\* reserved under the same key.
Reservable(a, k) == approval[a] = "open" /\ reservation[a] \in {None, k}

\* releaseApprovalReservation, which any request under the key may do.
Released(a, k) ==
  [reservation EXCEPT ![a] = IF @ = k THEN None ELSE @]

\* createExecutionTicket up to the reservation of the latest approval.
IssueReserve(t, k) ==
  /\ ticket[t].state = "none"
  /\ index # None
  /\ Reservable(index, k)
  /\ reservation' = [reservation EXCEPT ![index] = k]
  /\ ticket' = [ticket EXCEPT ![t] = [state |-> "pending", approval |-> index, key |-> k]]
  /\ UNCHANGED <<approval, index, claims, lock, binding, stored, receipt,
                 call, verify, faults, reached, proven, readBack, failed>>

\* The ticket is signed and stored.
IssuePut(t) ==
  /\ ticket[t].state = "pending"
  /\ ticket' = [ticket EXCEPT ![t].state = "issued"]
  /\ UNCHANGED <<approval, index, reservation, claims, lock, binding, stored,
                 receipt, call, verify, faults, reached, proven, readBack, failed>>

\* Signing or storing fails: the reservation is released, whoever else uses
\* it under the same key, and the ticket's identity is never known.
IssueFail(t) ==
  LET a == ticket[t].approval
      k == ticket[t].key
  IN
  /\ ticket[t].state = "pending"
  /\ Fault
  /\ ticket' = [ticket EXCEPT ![t] = NoTicket]
  /\ reservation' = Released(a, k)
  /\ failed' = failed \cup {<<a, k>>}
  /\ UNCHANGED <<approval, index, claims, lock, binding, stored, receipt,
                 call, verify, reached, proven, readBack>>

-----------------------------------------------------------------------------
(* executeRemediationStep up to the provider.                              *)

\* A call presents a ticket; its key has neither a receipt nor a run (with
\* one of them the call is a replay and changes nothing).
Begin(c, t) ==
  /\ At(c, "idle")
  /\ ticket[t].state \in {"issued", "reserved", "finalized"}
  /\ binding[ticket[t].key] = None
  /\ receipt[ticket[t].key] = "none"
  /\ call' = [call EXCEPT ![c] = [Idle EXCEPT !.pc = "present", !.ticket = t]]
  /\ UNCHANGED <<storeVars, stored, receipt, verify, faults, reached, proven, readBack, failed>>

\* verifyAndBuildApprovalBinding: the ticket is of the step's latest approval,
\* which is unused.
CheckApproval(c) ==
  /\ At(c, "present")
  /\ index = ApprovalOf(c)
  /\ approval[index] = "open"
  /\ Go(c, "claim")
  /\ UNCHANGED <<storeVars, stored, receipt, verify, faults, reached, proven, readBack, failed>>

\* claimExecution: without a free claim the call answers that reconciliation
\* is required.
Claim(c) ==
  /\ At(c, "claim")
  /\ claims' = claims \cup {KeyOf(c)}
  /\ \/ KeyOf(c) \notin claims /\ Go(c, "approve") /\ UNCHANGED faults
     \/ KeyOf(c) \in claims /\ End(c) /\ UNCHANGED faults
     \/ Fault /\ End(c)
  /\ UNCHANGED <<approval, index, reservation, ticket, lock, binding, stored,
                 receipt, verify, reached, proven, readBack, failed>>

\* The call gives up before it has the lock: it releases its claim and, once
\* it has reserved it, the approval.  Errors of the releases are swallowed.
GiveUp(c, res) ==
  /\ End(c)
  /\ \/ claims' = claims \ {KeyOf(c)} /\ reservation' = res /\ UNCHANGED faults
     \/ Fault /\ claims' = claims /\ reservation' \in {res, reservation}
     \/ Fault /\ claims' = claims \ {KeyOf(c)} /\ reservation' = reservation

\* The second reserveApproval, which answers with the reservation of the
\* ticket's issue unless that is gone.
ReserveApproval(c) ==
  LET a == ApprovalOf(c)
      k == KeyOf(c)
  IN
  /\ At(c, "approve")
  /\ \/ /\ Reservable(a, k)
        /\ reservation' = [reservation EXCEPT ![a] = k]
        /\ Go(c, "lock")
        /\ UNCHANGED <<claims, faults>>
     \/ ~Reservable(a, k) /\ GiveUp(c, reservation)
     \/ /\ Fault
        /\ claims' = claims \ {k}
        /\ reservation' \in {reservation, [reservation EXCEPT ![a] = IF Reservable(a, k) THEN k ELSE @]}
        /\ End(c)
  /\ UNCHANGED <<approval, index, ticket, lock, binding, stored, receipt,
                 verify, reached, proven, readBack, failed>>

\* acquireLock: an expired lock is taken over.
AcquireLock(c) ==
  /\ At(c, "lock")
  /\ ~lock.live
  /\ lock' = [holder |-> c, live |-> TRUE]
  /\ Go(c, "record")
  /\ UNCHANGED <<approval, index, reservation, claims, ticket, binding, stored,
                 receipt, verify, faults, reached, proven, readBack, failed>>

\* The lock is busy, or the answer is lost with the lock taken.
LockRefused(c) ==
  /\ At(c, "lock")
  /\ \/ lock.live /\ GiveUp(c, Released(ApprovalOf(c), KeyOf(c))) /\ UNCHANGED lock
     \/ /\ Fault
        /\ lock' \in {lock, IF lock.live THEN lock ELSE [holder |-> c, live |-> TRUE]}
        /\ claims' = claims \ {KeyOf(c)}
        /\ reservation' = Released(ApprovalOf(c), KeyOf(c))
        /\ End(c)
  /\ UNCHANGED <<approval, index, ticket, binding, stored, receipt, verify,
                 reached, proven, readBack, failed>>

\* Mutation: INSERT IGNORE without the collision check.
MutBindable(c) == TRUE

\* putRun binds the key to the run for ever; a key of another run is refused.
Bindable(c) == binding[KeyOf(c)] \in {None, c}

\* The run is recorded, phase by phase, up to "locked".
RecordRun(c) ==
  /\ At(c, "record")
  /\ \/ /\ Bindable(c)
        /\ binding' = [binding EXCEPT ![KeyOf(c)] = IF @ = None THEN c ELSE @]
        /\ \/ stored' = [stored EXCEPT ![c] = "locked"] /\ Go(c, "fence") /\ UNCHANGED faults
           \/ /\ Fault
              /\ \E s \in {"locked", "failed_closed"} : stored' = [stored EXCEPT ![c] = s]
              /\ Go(c, "abort")
     \/ ~Bindable(c) /\ Go(c, "abort") /\ UNCHANGED <<binding, stored, faults>>
     \/ Fault /\ Go(c, "abort") /\ UNCHANGED <<binding, stored>>
  /\ UNCHANGED <<approval, index, reservation, claims, ticket, lock, receipt,
                 verify, reached, proven, readBack, failed>>

\* heartbeatLease followed by assertLeaseFence: the lock is still this
\* call's and has not expired.  The heartbeat renews it only then.
Fenced(c) == lock.holder = c /\ lock.live

\* The check says no, or cannot be made.
FenceLost(c) ==
  \/ ~Fenced(c) /\ UNCHANGED faults
  \/ Fault

FenceBeforeProvider(c) ==
  /\ At(c, "fence")
  /\ \/ Fenced(c) /\ Go(c, "ticket") /\ UNCHANGED faults
     \/ FenceLost(c) /\ Go(c, "abort")
  /\ UNCHANGED <<storeVars, stored, receipt, verify, reached, proven, readBack, failed>>

\* reserveExecutionTicket: an issued ticket becomes reserved; a lost answer
\* leaves it reserved for nobody.
ReserveTicket(c) ==
  LET t == call[c].ticket IN
  /\ At(c, "ticket")
  /\ \/ /\ ticket[t].state = "issued"
        /\ ticket' = [ticket EXCEPT ![t].state = "reserved"]
        /\ \/ /\ call' = [call EXCEPT ![c].pc = "start", ![c].reserved = TRUE]
              /\ UNCHANGED faults
           \/ Fault /\ Go(c, "abort")
     \/ /\ ticket[t].state # "issued"
        /\ Go(c, "abort")
        /\ UNCHANGED <<ticket, faults>>
     \/ Fault /\ Go(c, "abort") /\ UNCHANGED ticket
  /\ UNCHANGED <<approval, index, reservation, claims, lock, binding, stored,
                 receipt, verify, reached, proven, readBack, failed>>

\* appendStateEvent of phase p: the run record, then the evidence event.  A
\* failure of either is answered by storing "failed_closed", which may fail too.
Append(c, p, next, otherwise) ==
  \/ stored' = [stored EXCEPT ![c] = p] /\ Go(c, next) /\ UNCHANGED faults
  \/ /\ Fault
     /\ \E s \in {stored[c], p, "failed_closed"} : stored' = [stored EXCEPT ![c] = s]
     /\ Go(c, otherwise)

StartExecution(c) ==
  /\ At(c, "start")
  /\ Append(c, "executing", "send", "abort")
  /\ UNCHANGED <<storeVars, receipt, verify, reached, proven, readBack, failed>>

\* This server has no executor or broker: the inner catch clause releases
\* approval and claim, and the outer one (Abort) does it again.
NoExecutor(c) ==
  /\ At(c, "send")
  /\ reservation' = Released(ApprovalOf(c), KeyOf(c))
  /\ claims' = claims \ {KeyOf(c)}
  /\ Go(c, "abort")
  /\ UNCHANGED <<approval, index, ticket, lock, binding, stored, receipt,
                 verify, faults, reached, proven, readBack, failed>>

\* The catch clause before the provider boundary.
Abort(c) ==
  LET t == call[c].ticket
      freed == IF call[c].reserved /\ ticket[t].state = "reserved"
                 THEN [ticket EXCEPT ![t].state = "issued"] ELSE ticket
      closed == IF stored[c] = "none" THEN stored ELSE [stored EXCEPT ![c] = "failed_closed"]
  IN
  /\ At(c, "abort")
  /\ \/ /\ ticket' = freed
        /\ reservation' = Released(ApprovalOf(c), KeyOf(c))
        /\ claims' = claims \ {KeyOf(c)}
        /\ stored' = closed
        /\ UNCHANGED faults
     \/ /\ Fault
        /\ ticket' \in {ticket, freed}
        /\ reservation' \in {reservation, Released(ApprovalOf(c), KeyOf(c))}
        /\ claims' \in {claims, claims \ {KeyOf(c)}}
        /\ stored' \in {stored, closed}
  /\ Go(c, "unlock")
  /\ UNCHANGED <<approval, index, lock, binding, receipt, verify, reached, proven, readBack, failed>>

-----------------------------------------------------------------------------
(* executeRemediationStep from the provider on.                            *)

\* The provider boundary: from here on nothing is released.
Send(c) ==
  /\ At(c, "send")
  /\ reached' = reached \cup {c}
  /\ Go(c, "answer")
  /\ UNCHANGED <<storeVars, stored, receipt, verify, faults, proven, readBack, failed>>

\* The provider has answered and the fence stands.
Acknowledge(c) ==
  /\ At(c, "answer")
  /\ Fenced(c)
  /\ Append(c, "readback_pending", "pending", "catch")
  /\ UNCHANGED <<storeVars, receipt, verify, reached, proven, readBack, failed>>

\* The provider has failed, or the fence is lost: the outcome is unknown.
OutcomeUnknown(c) ==
  /\ At(c, "answer")
  /\ Append(c, "execution_outcome_unknown", "unlock", "catch")
  /\ UNCHANGED <<storeVars, receipt, verify, reached, proven, readBack, failed>>

\* A fence check before the readback or before the finalisation.
StartReadback(c) ==
  /\ At(c, "pending")
  /\ \/ Fenced(c) /\ Append(c, "verifying", "readback", "catch")
     \/ FenceLost(c) /\ Go(c, "catch") /\ UNCHANGED stored
  /\ UNCHANGED <<storeVars, receipt, verify, reached, proven, readBack, failed>>

\* The independent verifier answers, or throws; a run that is not verified
\* goes on to consume ticket and approval too.
Readback(c) ==
  /\ At(c, "readback")
  /\ \/ \E passed \in BOOLEAN :
          LET p == IF passed THEN "verified" ELSE "reconciliation_required" IN
          /\ proven' = IF passed THEN proven \cup {c} ELSE proven
          /\ readBack' = IF lock.holder = c
                          THEN [readBack EXCEPT ![c] = IF passed THEN "passed" ELSE "failed"]
                          ELSE readBack
          /\ \/ /\ stored' = [stored EXCEPT ![c] = p]
                /\ call' = [call EXCEPT ![c].pc = "check", ![c].passed = passed]
                /\ UNCHANGED faults
             \/ /\ Fault
                /\ \E s \in {stored[c], p, "failed_closed"} : stored' = [stored EXCEPT ![c] = s]
                /\ Go(c, "catch")
     \/ /\ stored' = [stored EXCEPT ![c] = "reconciliation_required"]
        /\ Go(c, "catch")
        /\ UNCHANGED <<proven, readBack, faults>>
  /\ UNCHANGED <<storeVars, receipt, verify, reached, failed>>

\* Mutation: no fence check after the readback.
MutCheckSkipped(c) ==
  /\ At(c, "check")
  /\ Go(c, "finalize")
  /\ UNCHANGED <<storeVars, stored, receipt, verify, faults, reached, proven, readBack, failed>>

\* The migration ledger is finalised and the fence is checked again.
CheckBeforeFinalization(c) ==
  /\ At(c, "check")
  /\ \/ Fenced(c) /\ Go(c, "finalize") /\ UNCHANGED faults
     \/ FenceLost(c) /\ Go(c, "catch")
  /\ UNCHANGED <<storeVars, stored, receipt, verify, reached, proven, readBack, failed>>

\* finalizeExecutionTicket.
FinalizeTicket(c) ==
  LET t == call[c].ticket
      usable == ticket[t].state \in {"reserved", "finalized"}
      done == IF usable THEN [ticket EXCEPT ![t].state = "finalized"] ELSE ticket
  IN
  /\ At(c, "finalize")
  /\ \/ ticket' = done /\ Go(c, IF usable THEN "consume" ELSE "catch") /\ UNCHANGED faults
     \/ Fault /\ ticket' \in {ticket, done} /\ Go(c, "catch")
  /\ UNCHANGED <<approval, index, reservation, claims, lock, binding, stored,
                 receipt, verify, reached, proven, readBack, failed>>

\* Mutation: a failure to consume the approval is swallowed.
MutConsumeSwallowed(c) ==
  LET used == [approval EXCEPT ![ApprovalOf(c)] = "used"] IN
  /\ At(c, "consume")
  /\ Go(c, "complete")
  /\ \/ approval' = used /\ UNCHANGED faults
     \/ approval' = approval /\ Fault
  /\ UNCHANGED <<index, reservation, claims, ticket, lock, binding, stored,
                 receipt, verify, reached, proven, readBack, failed>>

\* finalizeApproval: an approval that is used already is accepted.
ConsumeApproval(c) ==
  LET used == [approval EXCEPT ![ApprovalOf(c)] = "used"] IN
  /\ At(c, "consume")
  /\ \/ approval' = used /\ Go(c, "complete") /\ UNCHANGED faults
     \/ Fault /\ approval' \in {approval, used} /\ Go(c, "catch")
  /\ UNCHANGED <<index, reservation, claims, ticket, lock, binding, stored,
                 receipt, verify, reached, proven, readBack, failed>>

\* A verified run is recovered.
Complete(c) ==
  /\ At(c, "complete")
  /\ IF call[c].passed THEN Append(c, "recovered", "seal", "catch")
                       ELSE Go(c, "seal") /\ UNCHANGED <<stored, faults>>
  /\ UNCHANGED <<storeVars, receipt, verify, reached, proven, readBack, failed>>

\* The last fence check.
Seal(c) ==
  /\ At(c, "seal")
  /\ \/ Fenced(c) /\ Go(c, "put") /\ UNCHANGED faults
     \/ FenceLost(c) /\ Go(c, "catch")
  /\ UNCHANGED <<storeVars, stored, receipt, verify, reached, proven, readBack, failed>>

\* putIdempotencyReceipt, without a fence: the lock may be lost since.
PutReceipt(c) ==
  LET r == [receipt EXCEPT ![KeyOf(c)] =
              IF call[c].passed THEN "recovered" ELSE "reconciliation_required"]
  IN
  /\ At(c, "put")
  /\ \/ receipt' = r /\ Go(c, "unlock") /\ UNCHANGED faults
     \/ Fault /\ receipt' \in {receipt, r} /\ Go(c, "catch")
  /\ UNCHANGED <<storeVars, stored, verify, reached, proven, readBack, failed>>

\* The catch clause after the provider boundary: the outcome is unknown,
\* whatever phase the run had.
Catch(c) ==
  /\ At(c, "catch")
  /\ Append(c, "execution_outcome_unknown", "unlock", "unlock")
  /\ UNCHANGED <<storeVars, receipt, verify, reached, proven, readBack, failed>>

\* The finally clause.
Unlock(c) ==
  /\ At(c, "unlock")
  /\ lock' = IF lock.holder = c THEN Free ELSE lock
  /\ End(c)
  /\ UNCHANGED <<approval, index, reservation, claims, ticket, binding, stored,
                 receipt, verify, faults, reached, proven, readBack, failed>>

\* The lock's time has passed.
Expire ==
  /\ lock.live
  /\ lock' = [lock EXCEPT !.live = FALSE]
  /\ UNCHANGED <<approval, index, reservation, claims, ticket, binding, stored,
                 receipt, call, verify, faults, reached, proven, readBack, failed>>

-----------------------------------------------------------------------------
(* verifyRemediationStep: a later readback of a stored run.                *)

VerifyRead(c) ==
  /\ verify.run = None
  /\ verify.made < MaxVerify
  /\ stored[c] # "none"
  /\ verify' = [run |-> c, phase |-> stored[c], made |-> verify.made + 1]
  /\ UNCHANGED <<storeVars, stored, receipt, call, faults, reached, proven, readBack, failed>>

\* Mutation: a passed readback recovers a run in any phase.
MutPassing(p) == {"verifying", "verified", "recovered"}

\* The phases a passed readback goes through from the one that was read.
Passing(p) ==
  CASE p \in {"readback_pending", "reconciliation_required"} -> {"verifying", "verified", "recovered"}
    [] p = "verifying" -> {"verified", "recovered"}
    [] p = "verified" -> {"recovered"}
    [] OTHER -> {p}

\* The phases a failed readback goes through.
Failing(p) ==
  CASE p \in {"readback_pending", "verifying"} -> {"partially_verified", "reconciliation_required"}
    [] p = "partially_verified" -> {"reconciliation_required"}
    [] OTHER -> {p}

\* The readback has passed; the run is written as it was read, whatever has
\* happened to it since, and advanced.  The request may end in any phase on
\* the way, or store failed_closed when an event cannot be appended.
VerifyPassed ==
  LET c == verify.run IN
  /\ c # None
  /\ proven' = proven \cup {c}
  /\ \/ \E s \in Passing(verify.phase) : stored' = [stored EXCEPT ![c] = s] /\ UNCHANGED faults
     \/ Fault /\ stored' \in {stored, [stored EXCEPT ![c] = "failed_closed"]}
  /\ verify' = [NoVerify EXCEPT !.made = verify.made]
  /\ UNCHANGED <<storeVars, receipt, call, reached, readBack, failed>>

VerifyFailed ==
  LET c == verify.run IN
  /\ c # None
  /\ \/ \E s \in Failing(verify.phase) : stored' = [stored EXCEPT ![c] = s] /\ UNCHANGED faults
     \/ Fault /\ stored' \in {stored, [stored EXCEPT ![c] = "failed_closed"]}
  /\ verify' = [NoVerify EXCEPT !.made = verify.made]
  /\ UNCHANGED <<storeVars, receipt, call, reached, proven, readBack, failed>>

-----------------------------------------------------------------------------
Issue(t) == (\E k \in Keys : IssueReserve(t, k)) \/ IssuePut(t) \/ IssueFail(t)

Prepare(c) ==
  \/ \E t \in Tickets : Begin(c, t)
  \/ CheckApproval(c) \/ Claim(c) \/ ReserveApproval(c) \/ AcquireLock(c) \/ LockRefused(c)
  \/ RecordRun(c) \/ FenceBeforeProvider(c) \/ ReserveTicket(c)
  \/ StartExecution(c) \/ NoExecutor(c) \/ Abort(c)

Execute(c) ==
  \/ Send(c) \/ Acknowledge(c) \/ OutcomeUnknown(c) \/ StartReadback(c)
  \/ Readback(c) \/ CheckBeforeFinalization(c) \/ FinalizeTicket(c)
  \/ ConsumeApproval(c) \/ Complete(c) \/ Seal(c) \/ PutReceipt(c) \/ Catch(c)

Verify == (\E c \in Calls : VerifyRead(c)) \/ VerifyPassed \/ VerifyFailed

Next ==
  \/ \E a \in Approvals : CreateApproval(a)
  \/ \E t \in Tickets : Issue(t)
  \/ \E c \in Calls : Prepare(c) \/ Execute(c) \/ Unlock(c)
  \/ Expire
  \/ Verify

Spec == Init /\ [][Next]_vars

-----------------------------------------------------------------------------
(* Properties.                                                             *)

\* The provider is reached at most once under an idempotency key, and by the
\* run that a repetition of the key is answered with, whatever calls overlap,
\* crash, lose answers or release the claim of another call of the key.
OneDispatchPerKey ==
  \A c \in reached : binding[KeyOf(c)] = c

\* A consumed ticket stands for one execution whose readback took place, and
\* did so while its call held the target's lock: the fence is checked before
\* and after the readback, never during it.
ConsumedTicketWasReadBack ==
  \A t \in Tickets : ticket[t].state = "finalized" =>
    \E c \in reached : call[c].ticket = t /\ readBack[c] # "none"

\* A run is stored as verified or recovered only if its call reached the
\* provider and a readback of it has passed, although verification requests
\* write back whole runs they read earlier.
RecoveredWasReadBack ==
  \A c \in Calls : stored[c] \in {"verified", "recovered"} => c \in reached \cap proven

\* A receipt of a recovery is the receipt of the key's one run, whose own
\* readback, not that of a later verification, passed under the lock and whose
\* ticket and approval are consumed.
ReceiptIsEvidenced ==
  \A k \in Keys : receipt[k] = "recovered" =>
    LET c == binding[k] IN
    /\ c \in reached /\ readBack[c] = "passed"
    /\ KeyOf(c) = k
    /\ ticket[call[c].ticket].state = "finalized"
    /\ approval[ApprovalOf(c)] = "used"

\* Two executions share an approval only if the issue of a ticket failed
\* under the key of one of them: that failure releases a reservation which
\* an execution under the same key still relies on.
ApprovalIsSingleUse ==
  \A c, d \in reached : c # d /\ ApprovalOf(c) = ApprovalOf(d) =>
    \E k \in {KeyOf(c), KeyOf(d)} : <<ApprovalOf(c), k>> \in failed
=============================================================================
