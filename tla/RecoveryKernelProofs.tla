------------------------ MODULE RecoveryKernelProofs ------------------------
(***************************************************************************)
(* The recovery kernel, for any number of approvals, keys, tickets, calls, *)
(* faults and verification requests: the provider is reached at most once  *)
(* under a key, consumed tickets and receipts are evidenced, recovered     *)
(* runs were read back and an approval is used once.                       *)
(*                                                                         *)
(* Four arguments carry the proof.  A run binds its key before the         *)
(* provider and keeps it (Bound).  A call acquires the lock once, before   *)
(* the provider, so one that still holds it at the check after the         *)
(* readback held it during the readback (Fences).  A phase after the       *)
(* provider is written, or carried by a verification request, only for a   *)
(* run that reached it (Phased).  A claim has one owner as long as the     *)
(* owner's key is bound to no other run, and while it has, nobody but a    *)
(* failing issue releases the owner's reservation (Owned, Reserved).       *)
(***************************************************************************)
EXTENDS RecoveryKernel, TLAPS

Stored == {"issued", "reserved", "finalized"}

\* Locations between the binding of the key and the end of the call.
Bounded == {"fence", "ticket", "start", "send"} \cup AfterProvider

\* Locations from the check that follows the readback to the receipt, and
\* those from the consumption of the ticket to the end.
Consuming == {"consume", "complete", "seal", "put"}
Consumed == Consuming \cup {"catch", "unlock", "done"}

\* Phases that are written after the provider boundary only.
LatePhases == Phases \ {"locked", "executing", "failed_closed"}
GoodPhases == {"verified", "recovered"}

TicketsNamed ==
    \A t \in Tickets : ticket[t].state # "none" =>
        ticket[t].approval \in Approvals /\ ticket[t].key \in Keys

Presented(c) ==
    call[c].pc \in Active \/ c \in reached =>
        call[c].ticket \in Tickets /\ ticket[call[c].ticket].state \in Stored

Located(c) ==
    /\ call[c].pc \in AfterProvider => c \in reached
    /\ call[c].pc \in BeforeProvider \cup {"idle"} => c \notin reached

Bound(c) ==
    call[c].pc \in Bounded \/ c \in reached => binding[KeyOf(c)] = c

\* The call's readback took place under the lock, with the result it knows.
WasReadBack(c) ==
    readBack[c] # "none" /\ (call[c].passed => readBack[c] = "passed")

Fences(c) ==
    /\ readBack[c] # "none" => c \in reached
    /\ call[c].pc = "check" /\ lock.holder = c => WasReadBack(c)
    /\ call[c].pc \in Consuming \cup {"finalize"} => WasReadBack(c)

Progress(c) ==
    /\ call[c].pc \in Consuming => ticket[call[c].ticket].state = "finalized"
    /\ call[c].pc \in {"complete", "seal", "put"} => approval[ApprovalOf(c)] = "used"
    /\ call[c].passed => c \in proven

Phased(c) ==
    /\ stored[c] \in LatePhases => c \in reached
    /\ stored[c] \in GoodPhases => c \in proven

VerifyPhased ==
    verify.run # None =>
        /\ verify.phase \in LatePhases => verify.run \in reached
        /\ verify.phase \in GoodPhases => verify.run \in proven

Evidence(c, t) ==
    /\ c \in reached /\ readBack[c] # "none"
    /\ call[c].ticket = t
    /\ call[c].pc \in Consumed

TicketEvidenced(t) ==
    ticket[t].state = "finalized" => \E c \in Calls : Evidence(c, t)

ReceiptEvidenced(k) ==
    receipt[k] = "recovered" =>
        LET c == binding[k] IN
        /\ c \in Calls
        /\ Evidence(c, call[c].ticket)
        /\ readBack[c] = "passed"
        /\ KeyOf(c) = k
        /\ ticket[call[c].ticket].state = "finalized"
        /\ approval[ApprovalOf(c)] = "used"

\* The call is between its claim and the end of its release, or went on to
\* the provider.
Holding(c) == call[c].pc \in (BeforeProvider \ {"present", "claim"}) \/ c \in reached

\* It holds its key and is not about to release it a second time.
Owner(c) ==
    /\ Holding(c)
    /\ binding[KeyOf(c)] \in {None, c}
    /\ ~(call[c].pc = "abort" /\ binding[KeyOf(c)] = c)

Owned(c) ==
    Owner(c) =>
        /\ KeyOf(c) \in claims
        /\ \A d \in Calls \ {c} : Holding(d) => KeyOf(d) # KeyOf(c)

Reserved(c) ==
    Owner(c) /\ call[c].pc # "approve" =>
        \/ reservation[ApprovalOf(c)] = KeyOf(c)
        \/ <<ApprovalOf(c), KeyOf(c)>> \in failed

\* Nothing is bound to a call before it has claimed its key.
Fresh(c) == call[c].pc \in {"present", "claim"} => binding[KeyOf(c)] # c

CallInv(c) ==
    /\ Presented(c) /\ Located(c) /\ Bound(c) /\ Fences(c) /\ Progress(c)
    /\ Phased(c) /\ Fresh(c) /\ Owned(c) /\ Reserved(c)

KernelInv ==
    /\ TypeOK
    /\ TicketsNamed
    /\ VerifyPhased
    /\ \A c \in Calls : CallInv(c)
    /\ \A t \in Tickets : TicketEvidenced(t)
    /\ \A k \in Keys : ReceiptEvidenced(k)

\* The steps of one call after its first, and those of everybody else.
Proceed(c) ==
    \/ CheckApproval(c) \/ Claim(c) \/ ReserveApproval(c) \/ AcquireLock(c) \/ LockRefused(c)
    \/ RecordRun(c) \/ FenceBeforeProvider(c) \/ ReserveTicket(c)
    \/ StartExecution(c) \/ NoExecutor(c) \/ Abort(c)
    \/ Send(c) \/ Acknowledge(c) \/ OutcomeUnknown(c) \/ StartReadback(c)
    \/ Readback(c) \/ CheckBeforeFinalization(c) \/ FinalizeTicket(c)
    \/ ConsumeApproval(c) \/ Complete(c) \/ Seal(c) \/ PutReceipt(c)
    \/ Catch(c) \/ Unlock(c)

EnvStep ==
    \/ \E a \in Approvals : CreateApproval(a)
    \/ \E t \in Tickets : Issue(t)
    \/ Expire
    \/ Verify

\* Every step is one of a call or one of everybody else.
LEMMA NextCases ==
    ASSUME Next
    PROVE  \/ EnvStep
           \/ \E c \in Calls : Proceed(c)
           \/ \E c \in Calls, t \in Tickets : Begin(c, t)
BY DEF Next, EnvStep, Prepare, Execute, Proceed

-----------------------------------------------------------------------------
(* Types. *)

Locations == Active \cup {"idle", "done"}
CallRecords == [pc: Locations, ticket: Tickets \cup {None}, reserved: BOOLEAN, passed: BOOLEAN]
TicketRecords == [state: TicketStates, approval: Approvals \cup {None}, key: Keys \cup {None}]

\* A call that goes on keeps what it presented; the others are not touched.
LEMMA GoEffect ==
    ASSUME TypeOK, NEW c \in Calls, NEW pc \in Locations, Go(c, pc)
    PROVE  /\ call' \in [Calls -> CallRecords]
           /\ call'[c].pc = pc /\ call'[c].ticket = call[c].ticket
           /\ call'[c].reserved = call[c].reserved /\ call'[c].passed = call[c].passed
           /\ \A d \in Calls \ {c} : call'[d] = call[d]
<1>1. call \in [Calls -> CallRecords]
  BY DEF TypeOK, CallRecords, Locations
<1>2. call' = [call EXCEPT ![c] = [call[c] EXCEPT !.pc = pc]]
  BY <1>1 DEF Go
<1>3. [call[c] EXCEPT !.pc = pc] \in CallRecords
  BY <1>1 DEF CallRecords
<1> QED BY <1>1, <1>2, <1>3 DEF CallRecords

\* A call that ends keeps its ticket only if it reached the provider.
LEMMA EndEffect ==
    ASSUME TypeOK, NEW c \in Calls, End(c)
    PROVE  /\ call' \in [Calls -> CallRecords]
           /\ call'[c].pc = "done" /\ call'[c].passed = FALSE
           /\ c \in reached => call'[c].ticket = call[c].ticket
           /\ \A d \in Calls \ {c} : call'[d] = call[d]
<1>1. call \in [Calls -> CallRecords]
  BY DEF TypeOK, CallRecords, Locations
<1> DEFINE r == [pc |-> "done", ticket |-> IF c \in reached THEN call[c].ticket ELSE None,
                 reserved |-> FALSE, passed |-> FALSE]
<1>3. call' = [call EXCEPT ![c] = r]
  BY DEF End
<1>4. r \in CallRecords
  BY <1>1 DEF CallRecords, Locations
<1> QED BY <1>1, <1>3, <1>4

\* Faults stay within their bound.
LEMMA FaultType ==
    ASSUME TypeOK, Fault
    PROVE  faults' \in 0 .. MaxFaults
BY BoundAssumption DEF TypeOK, Fault

\* What a call in progress presented is known.
LEMMA Named ==
    ASSUME KernelInv, NEW c \in Calls, call[c].pc \in Active \/ c \in reached
    PROVE  /\ call[c].ticket \in Tickets
           /\ ticket[call[c].ticket].state \in Stored
           /\ KeyOf(c) \in Keys /\ ApprovalOf(c) \in Approvals
BY DEF KernelInv, CallInv, Presented, TicketsNamed, KeyOf, ApprovalOf, Stored

\* Only a call in progress proceeds.
LEMMA InProgress ==
    ASSUME NEW c \in Calls, Proceed(c)
    PROVE  call[c].pc \in Active
BY DEF Proceed, At, Active, BeforeProvider, AfterProvider, 
   CheckApproval, Claim, ReserveApproval, AcquireLock, LockRefused, RecordRun, FenceBeforeProvider,
   ReserveTicket, StartExecution, NoExecutor, Abort, Send, Acknowledge, OutcomeUnknown,
   StartReadback, Readback, CheckBeforeFinalization, FinalizeTicket, ConsumeApproval,
   Complete, Seal, PutReceipt, Catch, Unlock

\* Types under the steps of a call in progress.
LEMMA ProceedTypes ==
    ASSUME KernelInv, NEW c \in Calls, Proceed(c)
    PROVE  TypeOK'
<1>1. TypeOK /\ call \in [Calls -> CallRecords] /\ ticket \in [Tickets -> TicketRecords]
  BY DEF KernelInv, TypeOK, CallRecords, Locations, TicketRecords
<1>2. call[c].ticket \in Tickets /\ KeyOf(c) \in Keys /\ ApprovalOf(c) \in Approvals
  BY InProgress, Named
<1>3. Released(ApprovalOf(c), KeyOf(c)) \in [Approvals -> Keys \cup {None}]
  BY <1>1, <1>2 DEF TypeOK, Released
<1> USE <1>1, <1>2
<1>4. CASE Claim(c)
  <2>1. call' \in [Calls -> CallRecords]
    BY <1>4, GoEffect, EndEffect DEF Claim, Locations, Active, BeforeProvider, AfterProvider
  <2>2. claims' \in SUBSET Keys
    BY <1>4 DEF TypeOK, Claim
  <2>3. faults' \in 0 .. MaxFaults
    BY <1>4, FaultType DEF TypeOK, Claim
  <2> QED BY <1>4, <2>1, <2>2, <2>3 DEF TypeOK, Claim, storeVars,
             CallRecords, Locations, TicketRecords
<1>5. CASE ReserveApproval(c)
  <2>1. call' \in [Calls -> CallRecords]
    BY <1>5, GoEffect, EndEffect DEF ReserveApproval, GiveUp, Locations, Active, BeforeProvider, AfterProvider
  <2>2. claims' \in SUBSET Keys
    BY <1>5 DEF TypeOK, ReserveApproval, GiveUp
  <2>3. reservation' \in [Approvals -> Keys \cup {None}]
    BY <1>5 DEF TypeOK, ReserveApproval, GiveUp
  <2>4. faults' \in 0 .. MaxFaults
    BY <1>5, FaultType DEF TypeOK, ReserveApproval, GiveUp
  <2> QED BY <1>5, <2>1, <2>2, <2>3, <2>4 DEF TypeOK, ReserveApproval, GiveUp, storeVars,
             CallRecords, Locations, TicketRecords
<1>6. CASE AcquireLock(c)
  <2>1. call' \in [Calls -> CallRecords]
    BY <1>6, GoEffect, EndEffect DEF AcquireLock, Locations, Active, BeforeProvider, AfterProvider
  <2>2. lock' \in [holder: Calls \cup {None}, live: BOOLEAN]
    BY <1>6 DEF TypeOK, AcquireLock
  <2> QED BY <1>6, <2>1, <2>2 DEF TypeOK, AcquireLock, storeVars,
             CallRecords, Locations, TicketRecords
<1>7. CASE LockRefused(c)
  <2>1. call' \in [Calls -> CallRecords]
    BY <1>7, GoEffect, EndEffect DEF LockRefused, GiveUp, Locations, Active, BeforeProvider, AfterProvider
  <2>2. claims' \in SUBSET Keys
    BY <1>7 DEF TypeOK, LockRefused, GiveUp
  <2>3. reservation' \in [Approvals -> Keys \cup {None}]
    BY <1>3, <1>7 DEF TypeOK, LockRefused, GiveUp
  <2>4. lock' \in [holder: Calls \cup {None}, live: BOOLEAN]
    <3>1. CASE lock' = lock
      BY <3>1 DEF TypeOK
    <3>2. CASE lock' = [holder |-> c, live |-> TRUE]
      BY <3>2
    <3> QED BY <1>7, <3>1, <3>2 DEF LockRefused
  <2>5. faults' \in 0 .. MaxFaults
    BY <1>7, FaultType DEF TypeOK, LockRefused, GiveUp
  <2> QED BY <1>7, <2>1, <2>2, <2>3, <2>4, <2>5 DEF TypeOK, LockRefused, GiveUp, storeVars,
             CallRecords, Locations, TicketRecords
<1>8. CASE RecordRun(c)
  <2>1. call' \in [Calls -> CallRecords]
    BY <1>8, GoEffect, EndEffect DEF RecordRun, Locations, Active, BeforeProvider, AfterProvider
  <2>2. binding' \in [Keys -> Calls \cup {None}]
    BY <1>8 DEF TypeOK, RecordRun
  <2>3. stored' \in [Calls -> Phases \cup {"none"}]
    BY <1>8 DEF TypeOK, RecordRun, Phases
  <2>4. faults' \in 0 .. MaxFaults
    BY <1>8, FaultType DEF TypeOK, RecordRun
  <2> QED BY <1>8, <2>1, <2>2, <2>3, <2>4 DEF TypeOK, RecordRun, storeVars,
             CallRecords, Locations, TicketRecords
<1>9. CASE FenceBeforeProvider(c)
  <2>1. call' \in [Calls -> CallRecords]
    BY <1>9, GoEffect, EndEffect DEF FenceBeforeProvider, Locations, Active, BeforeProvider, AfterProvider
  <2>2. faults' \in 0 .. MaxFaults
    BY <1>9, FaultType DEF TypeOK, FenceBeforeProvider, FenceLost
  <2> QED BY <1>9, <2>1, <2>2 DEF TypeOK, FenceBeforeProvider, storeVars,
             CallRecords, Locations, TicketRecords
<1>10. CASE ReserveTicket(c)
  <2>1. call' \in [Calls -> CallRecords]
    BY <1>10, GoEffect DEF ReserveTicket, CallRecords, Locations, Active, BeforeProvider, AfterProvider
  <2>2. ticket' \in [Tickets -> TicketRecords]
    BY <1>10 DEF ReserveTicket, TicketRecords, TicketStates
  <2>3. faults' \in 0 .. MaxFaults
    BY <1>10, FaultType DEF TypeOK, ReserveTicket
  <2> QED BY <1>10, <2>1, <2>2, <2>3 DEF TypeOK, ReserveTicket, storeVars,
             CallRecords, Locations, TicketRecords
<1>11. CASE StartExecution(c)
  <2>1. call' \in [Calls -> CallRecords]
    BY <1>11, GoEffect, EndEffect DEF StartExecution, Append, Locations, Active, BeforeProvider, AfterProvider
  <2>2. stored' \in [Calls -> Phases \cup {"none"}]
    BY <1>11 DEF TypeOK, StartExecution, Append, Phases
  <2>3. faults' \in 0 .. MaxFaults
    BY <1>11, FaultType DEF TypeOK, StartExecution, Append
  <2> QED BY <1>11, <2>1, <2>2, <2>3 DEF TypeOK, StartExecution, Append, storeVars,
             CallRecords, Locations, TicketRecords
<1>12. CASE NoExecutor(c)
  <2>1. call' \in [Calls -> CallRecords]
    BY <1>12, GoEffect, EndEffect DEF NoExecutor, Locations, Active, BeforeProvider, AfterProvider
  <2>2. claims' \in SUBSET Keys
    BY <1>12 DEF TypeOK, NoExecutor
  <2>3. reservation' \in [Approvals -> Keys \cup {None}]
    BY <1>3, <1>12 DEF TypeOK, NoExecutor
  <2> QED BY <1>12, <2>1, <2>2, <2>3 DEF TypeOK, NoExecutor, storeVars,
             CallRecords, Locations, TicketRecords
<1>13. CASE Abort(c)
  <2>1. call' \in [Calls -> CallRecords]
    BY <1>13, GoEffect, EndEffect DEF Abort, Locations, Active, BeforeProvider, AfterProvider
  <2>2. ticket' \in [Tickets -> TicketRecords]
    BY <1>13 DEF Abort, TicketRecords, TicketStates
  <2>3. claims' \in SUBSET Keys
    BY <1>13 DEF TypeOK, Abort
  <2>4. reservation' \in [Approvals -> Keys \cup {None}]
    BY <1>3, <1>13 DEF TypeOK, Abort
  <2>5. stored' \in [Calls -> Phases \cup {"none"}]
    BY <1>13 DEF TypeOK, Abort, Phases
  <2>6. faults' \in 0 .. MaxFaults
    BY <1>13, FaultType DEF TypeOK, Abort
  <2> QED BY <1>13, <2>1, <2>2, <2>3, <2>4, <2>5, <2>6 DEF TypeOK, Abort, storeVars,
             CallRecords, Locations, TicketRecords
<1>14. CASE Send(c)
  <2>1. call' \in [Calls -> CallRecords]
    BY <1>14, GoEffect, EndEffect DEF Send, Locations, Active, BeforeProvider, AfterProvider
  <2>2. reached' \in SUBSET Calls
    BY <1>14 DEF TypeOK, Send
  <2> QED BY <1>14, <2>1, <2>2 DEF TypeOK, Send, storeVars,
             CallRecords, Locations, TicketRecords
<1>15. CASE Acknowledge(c)
  <2>1. call' \in [Calls -> CallRecords]
    BY <1>15, GoEffect, EndEffect DEF Acknowledge, Append, Locations, Active, BeforeProvider, AfterProvider
  <2>2. stored' \in [Calls -> Phases \cup {"none"}]
    BY <1>15 DEF TypeOK, Acknowledge, Append, Phases
  <2>3. faults' \in 0 .. MaxFaults
    BY <1>15, FaultType DEF TypeOK, Acknowledge, Append
  <2> QED BY <1>15, <2>1, <2>2, <2>3 DEF TypeOK, Acknowledge, Append, storeVars,
             CallRecords, Locations, TicketRecords
<1>16. CASE OutcomeUnknown(c)
  <2>1. call' \in [Calls -> CallRecords]
    BY <1>16, GoEffect, EndEffect DEF OutcomeUnknown, Append, Locations, Active, BeforeProvider, AfterProvider
  <2>2. stored' \in [Calls -> Phases \cup {"none"}]
    BY <1>16 DEF TypeOK, OutcomeUnknown, Append, Phases
  <2>3. faults' \in 0 .. MaxFaults
    BY <1>16, FaultType DEF TypeOK, OutcomeUnknown, Append
  <2> QED BY <1>16, <2>1, <2>2, <2>3 DEF TypeOK, OutcomeUnknown, Append, storeVars,
             CallRecords, Locations, TicketRecords
<1>17. CASE StartReadback(c)
  <2>1. call' \in [Calls -> CallRecords]
    BY <1>17, GoEffect, EndEffect DEF StartReadback, Append, Locations, Active, BeforeProvider, AfterProvider
  <2>2. stored' \in [Calls -> Phases \cup {"none"}]
    BY <1>17 DEF TypeOK, StartReadback, Append, FenceLost, Phases
  <2>3. faults' \in 0 .. MaxFaults
    BY <1>17, FaultType DEF TypeOK, StartReadback, Append, FenceLost
  <2> QED BY <1>17, <2>1, <2>2, <2>3 DEF TypeOK, StartReadback, Append, storeVars,
             CallRecords, Locations, TicketRecords
<1>18. CASE Readback(c)
  <2>1. call' \in [Calls -> CallRecords]
    BY <1>18, GoEffect DEF Readback, CallRecords, Locations, Active, BeforeProvider, AfterProvider
  <2>2. stored' \in [Calls -> Phases \cup {"none"}]
    BY <1>18 DEF TypeOK, Readback, Phases
  <2>3. proven' \in SUBSET Calls
    BY <1>18 DEF TypeOK, Readback
  <2>4. readBack' \in [Calls -> {"none", "failed", "passed"}]
    BY <1>18 DEF TypeOK, Readback
  <2>5. faults' \in 0 .. MaxFaults
    BY <1>18, FaultType DEF TypeOK, Readback
  <2> QED BY <1>18, <2>1, <2>2, <2>3, <2>4, <2>5 DEF TypeOK, Readback, storeVars,
             CallRecords, Locations, TicketRecords
<1>19. CASE CheckBeforeFinalization(c)
  <2>1. call' \in [Calls -> CallRecords]
    BY <1>19, GoEffect, EndEffect DEF CheckBeforeFinalization, Locations, Active, BeforeProvider, AfterProvider
  <2>2. faults' \in 0 .. MaxFaults
    BY <1>19, FaultType DEF TypeOK, CheckBeforeFinalization, FenceLost
  <2> QED BY <1>19, <2>1, <2>2 DEF TypeOK, CheckBeforeFinalization, storeVars,
             CallRecords, Locations, TicketRecords
<1>20. CASE FinalizeTicket(c)
  <2>1. call' \in [Calls -> CallRecords]
    BY <1>20, GoEffect, EndEffect DEF FinalizeTicket, Locations, Active, BeforeProvider, AfterProvider
  <2>2. ticket' \in [Tickets -> TicketRecords]
    BY <1>20 DEF FinalizeTicket, TicketRecords, TicketStates
  <2>3. faults' \in 0 .. MaxFaults
    BY <1>20, FaultType DEF TypeOK, FinalizeTicket
  <2> QED BY <1>20, <2>1, <2>2, <2>3 DEF TypeOK, FinalizeTicket, storeVars,
             CallRecords, Locations, TicketRecords
<1>21. CASE ConsumeApproval(c)
  <2>1. call' \in [Calls -> CallRecords]
    BY <1>21, GoEffect, EndEffect DEF ConsumeApproval, Locations, Active, BeforeProvider, AfterProvider
  <2>2. approval' \in [Approvals -> {"none", "open", "used"}]
    BY <1>21 DEF TypeOK, ConsumeApproval
  <2>3. faults' \in 0 .. MaxFaults
    BY <1>21, FaultType DEF TypeOK, ConsumeApproval
  <2> QED BY <1>21, <2>1, <2>2, <2>3 DEF TypeOK, ConsumeApproval, storeVars,
             CallRecords, Locations, TicketRecords
<1>22. CASE Complete(c)
  <2>1. call' \in [Calls -> CallRecords]
    BY <1>22, GoEffect, EndEffect DEF Complete, Append, Locations, Active, BeforeProvider, AfterProvider
  <2>2. stored' \in [Calls -> Phases \cup {"none"}]
    <3>1. "recovered" \in Phases /\ "failed_closed" \in Phases
      BY DEF Phases
    <3> QED BY <1>22, <3>1 DEF TypeOK, Complete, Append
  <2>3. faults' \in 0 .. MaxFaults
    BY <1>22, FaultType DEF TypeOK, Complete, Append
  <2> QED BY <1>22, <2>1, <2>2, <2>3 DEF TypeOK, Complete, Append, storeVars,
             CallRecords, Locations, TicketRecords
<1>23. CASE Seal(c)
  <2>1. call' \in [Calls -> CallRecords]
    BY <1>23, GoEffect, EndEffect DEF Seal, Locations, Active, BeforeProvider, AfterProvider
  <2>2. faults' \in 0 .. MaxFaults
    BY <1>23, FaultType DEF TypeOK, Seal, FenceLost
  <2> QED BY <1>23, <2>1, <2>2 DEF TypeOK, Seal, storeVars,
             CallRecords, Locations, TicketRecords
<1>26. CASE PutReceipt(c)
  <2>1. call' \in [Calls -> CallRecords]
    BY <1>26, GoEffect, EndEffect DEF PutReceipt, Locations, Active, BeforeProvider, AfterProvider
  <2>2. receipt' \in [Keys -> {"none", "recovered", "reconciliation_required"}]
    BY <1>26 DEF TypeOK, PutReceipt
  <2>3. faults' \in 0 .. MaxFaults
    BY <1>26, FaultType DEF TypeOK, PutReceipt
  <2> QED BY <1>26, <2>1, <2>2, <2>3 DEF TypeOK, PutReceipt, storeVars,
             CallRecords, Locations, TicketRecords
<1>27. CASE CheckApproval(c)
  <2>1. call' \in [Calls -> CallRecords]
    BY <1>27, GoEffect, EndEffect DEF CheckApproval, Locations, Active, BeforeProvider, AfterProvider
  <2> QED BY <1>27, <2>1 DEF TypeOK, CheckApproval, storeVars,
             CallRecords, Locations, TicketRecords
<1>24. CASE Catch(c)
  <2>1. call' \in [Calls -> CallRecords]
    BY <1>24, GoEffect, EndEffect DEF Catch, Append, Locations, Active, BeforeProvider, AfterProvider
  <2>2. stored' \in [Calls -> Phases \cup {"none"}]
    BY <1>24 DEF TypeOK, Catch, Append, Phases
  <2>3. faults' \in 0 .. MaxFaults
    BY <1>24, FaultType DEF TypeOK, Catch, Append
  <2> QED BY <1>24, <2>1, <2>2, <2>3 DEF TypeOK, Catch, Append, storeVars,
             CallRecords, Locations, TicketRecords
<1>25. CASE Unlock(c)
  <2>1. call' \in [Calls -> CallRecords]
    BY <1>25, GoEffect, EndEffect DEF Unlock, Locations, Active, BeforeProvider, AfterProvider
  <2>2. lock' \in [holder: Calls \cup {None}, live: BOOLEAN]
    BY <1>25 DEF TypeOK, Unlock, Free
  <2> QED BY <1>25, <2>1, <2>2 DEF TypeOK, Unlock, storeVars,
             CallRecords, Locations, TicketRecords
<1> QED BY <1>4, <1>5, <1>6, <1>7, <1>8, <1>9, <1>10, <1>11, <1>12, <1>13, <1>14, <1>15,
   <1>16, <1>17, <1>18, <1>19, <1>20, <1>21, <1>22, <1>23, <1>24, <1>25, <1>26, <1>27 DEF Proceed

\* Types under the first step of a call.
LEMMA BeginTypes ==
    ASSUME KernelInv, NEW c \in Calls, NEW t \in Tickets, Begin(c, t)
    PROVE  TypeOK'
BY DEF KernelInv, TypeOK, Begin, Idle, storeVars, Active, BeforeProvider

\* Types under the steps of everybody else.
LEMMA EnvTypes ==
    ASSUME KernelInv, EnvStep
    PROVE  TypeOK'
<1>0. TypeOK /\ TicketsNamed /\ ticket \in [Tickets -> TicketRecords]
  BY DEF KernelInv, TypeOK, TicketRecords
<1>1. ASSUME NEW a \in Approvals, CreateApproval(a) PROVE TypeOK'
  BY <1>0, <1>1 DEF TypeOK, CreateApproval
<1>2. ASSUME NEW t \in Tickets, NEW k \in Keys, IssueReserve(t, k) PROVE TypeOK'
  <2>1. index \in Approvals
    BY <1>0, <1>2 DEF TypeOK, IssueReserve
  <2>2. ticket' \in [Tickets -> TicketRecords]
    BY <1>0, <1>2, <2>1 DEF IssueReserve, TicketRecords, TicketStates
  <2> QED BY <1>0, <1>2, <2>1, <2>2 DEF TypeOK, IssueReserve, TicketRecords
<1>3. ASSUME NEW t \in Tickets, IssuePut(t) PROVE TypeOK'
  <2>1. ticket' \in [Tickets -> TicketRecords]
    BY <1>0, <1>3 DEF IssuePut, TicketRecords, TicketStates
  <2> QED BY <1>0, <1>3, <2>1 DEF TypeOK, IssuePut, TicketRecords
<1>4. ASSUME NEW t \in Tickets, IssueFail(t) PROVE TypeOK'
  <2>1. ticket[t].approval \in Approvals /\ ticket[t].key \in Keys
    BY <1>0, <1>4 DEF IssueFail, TicketsNamed
  <2>2. ticket' \in [Tickets -> TicketRecords]
    BY <1>0, <1>4 DEF IssueFail, NoTicket, TicketRecords, TicketStates
  <2>3. reservation' \in [Approvals -> Keys \cup {None}]
    BY <1>0, <1>4, <2>1 DEF TypeOK, IssueFail, Released
  <2>4. failed' \subseteq Approvals \X Keys
    BY <1>0, <1>4, <2>1 DEF TypeOK, IssueFail
  <2>5. faults' \in 0 .. MaxFaults
    BY <1>0, <1>4, FaultType DEF IssueFail
  <2> QED BY <1>0, <1>4, <2>2, <2>3, <2>4, <2>5 DEF TypeOK, IssueFail, TicketRecords
<1>5. CASE Expire
  BY <1>0, <1>5 DEF TypeOK, Expire
<1>6. ASSUME NEW c \in Calls, VerifyRead(c) PROVE TypeOK'
  BY <1>0, <1>6, BoundAssumption DEF TypeOK, VerifyRead, storeVars
<1>7. CASE VerifyPassed \/ VerifyFailed
  <2>1. verify.run \in Calls /\ verify.phase \in Phases \cup {"none"}
    BY <1>0, <1>7 DEF TypeOK, VerifyPassed, VerifyFailed
  <2>2. Passing(verify.phase) \subseteq Phases \cup {"none"} /\ Failing(verify.phase) \subseteq Phases \cup {"none"}
    BY <2>1 DEF Passing, Failing, Phases
  <2>3. stored' \in [Calls -> Phases \cup {"none"}]
    <3>1. "failed_closed" \in Phases
      BY DEF Phases
    <3> QED BY <1>0, <1>7, <2>1, <2>2, <3>1 DEF TypeOK, VerifyPassed, VerifyFailed
  <2>4. faults' \in 0 .. MaxFaults
    BY <1>0, <1>7, FaultType DEF TypeOK, VerifyPassed, VerifyFailed
  <2>5. verify' \in [run: Calls \cup {None}, phase: Phases \cup {"none"}, made: 0 .. MaxVerify]
    BY <1>0, <1>7 DEF TypeOK, VerifyPassed, VerifyFailed, NoVerify
  <2>6. proven' \subseteq Calls
    BY <1>0, <1>7, <2>1 DEF TypeOK, VerifyPassed, VerifyFailed
  <2> QED BY <1>0, <1>7, <2>3, <2>4, <2>5, <2>6 DEF TypeOK, VerifyPassed, VerifyFailed, storeVars
<1> QED BY <1>1, <1>2, <1>3, <1>4, <1>5, <1>6, <1>7 DEF EnvStep, Issue, Verify

-----------------------------------------------------------------------------
(* What a step of one call leaves alone. *)

TicketKept(t) ==
    /\ ticket'[t].approval = ticket[t].approval /\ ticket'[t].key = ticket[t].key
    /\ ticket[t].state \in Stored => ticket'[t].state \in Stored
    /\ ticket[t].state = "none" => ticket'[t].state = "none"
    /\ ticket[t].state = "finalized" => ticket'[t].state = "finalized"

Frame(c) ==
    /\ \A d \in Calls \ {c} : call'[d] = call[d] /\ stored'[d] = stored[d]
    /\ c \in reached => call'[c].ticket = call[c].ticket
    /\ reached \subseteq reached' /\ reached' \subseteq reached \cup {c}
    /\ \A d \in Calls \ {c} : readBack'[d] = readBack[d]
    /\ proven \subseteq proven'
    /\ failed' = failed /\ verify' = verify
    /\ lock'.holder \in {lock.holder, c, None}
    /\ \A t \in Tickets : TicketKept(t)
    /\ \A k \in Keys : binding[k] # None => binding'[k] = binding[k]
    /\ \A k \in Keys : binding'[k] \in {binding[k], c}
    /\ \A a \in Approvals : approval[a] = "used" => approval'[a] = "used"

\* Every step of a call in progress leaves the frame alone.
LEMMA ProceedFrame ==
    ASSUME KernelInv, NEW c \in Calls, Proceed(c)
    PROVE  Frame(c)
<1>1. TypeOK /\ call \in [Calls -> CallRecords] /\ ticket \in [Tickets -> TicketRecords]
  BY DEF KernelInv, TypeOK, CallRecords, Locations, TicketRecords
<1> USE <1>1
<1> DEFINE Rest ==
      /\ \A d \in Calls \ {c} : stored'[d] = stored[d]
      /\ reached \subseteq reached' /\ reached' \subseteq reached \cup {c}
      /\ \A d \in Calls \ {c} : readBack'[d] = readBack[d]
      /\ proven \subseteq proven'
      /\ failed' = failed /\ verify' = verify
      /\ lock'.holder \in {lock.holder, c, None}
      /\ \A k \in Keys : binding[k] # None => binding'[k] = binding[k]
      /\ \A k \in Keys : binding'[k] \in {binding[k], c}
      /\ \A a \in Approvals : approval[a] = "used" => approval'[a] = "used"
<1>2. CASE Claim(c)
  <2>1. (\A d \in Calls \ {c} : call'[d] = call[d]) /\ (c \in reached => call'[c].ticket = call[c].ticket)
    BY <1>2, GoEffect, EndEffect DEF Claim, Locations, Active, BeforeProvider, AfterProvider
  <2>2. \A t \in Tickets : TicketKept(t)
    BY <1>2 DEF Claim, TicketKept, storeVars
  <2>3. Rest
    BY <1>2 DEF TypeOK, Claim, storeVars
  <2> QED BY <2>1, <2>2, <2>3 DEF Frame
<1>3. CASE ReserveApproval(c)
  <2>1. (\A d \in Calls \ {c} : call'[d] = call[d]) /\ (c \in reached => call'[c].ticket = call[c].ticket)
    BY <1>3, GoEffect, EndEffect DEF ReserveApproval, GiveUp, Locations, Active, BeforeProvider, AfterProvider
  <2>2. \A t \in Tickets : TicketKept(t)
    BY <1>3 DEF ReserveApproval, TicketKept, storeVars
  <2>3. Rest
    BY <1>3 DEF TypeOK, ReserveApproval, storeVars
  <2> QED BY <2>1, <2>2, <2>3 DEF Frame
<1>4. CASE AcquireLock(c)
  <2>1. (\A d \in Calls \ {c} : call'[d] = call[d]) /\ (c \in reached => call'[c].ticket = call[c].ticket)
    BY <1>4, GoEffect, EndEffect DEF AcquireLock, Locations, Active, BeforeProvider, AfterProvider
  <2>2. \A t \in Tickets : TicketKept(t)
    BY <1>4 DEF AcquireLock, TicketKept, storeVars
  <2>3. Rest
    BY <1>4 DEF TypeOK, AcquireLock, storeVars
  <2> QED BY <2>1, <2>2, <2>3 DEF Frame
<1>5. CASE LockRefused(c)
  <2>1. (\A d \in Calls \ {c} : call'[d] = call[d]) /\ (c \in reached => call'[c].ticket = call[c].ticket)
    BY <1>5, GoEffect, EndEffect DEF LockRefused, GiveUp, Locations, Active, BeforeProvider, AfterProvider
  <2>2. \A t \in Tickets : TicketKept(t)
    BY <1>5 DEF LockRefused, TicketKept, storeVars
  <2>3. Rest
    BY <1>5 DEF TypeOK, LockRefused, storeVars
  <2> QED BY <2>1, <2>2, <2>3 DEF Frame
<1>6. CASE RecordRun(c)
  <2>1. (\A d \in Calls \ {c} : call'[d] = call[d]) /\ (c \in reached => call'[c].ticket = call[c].ticket)
    BY <1>6, GoEffect, EndEffect DEF RecordRun, Locations, Active, BeforeProvider, AfterProvider
  <2>2. \A t \in Tickets : TicketKept(t)
    BY <1>6 DEF RecordRun, TicketKept, storeVars
  <2>3. Rest
    BY <1>6 DEF TypeOK, RecordRun, storeVars
  <2> QED BY <2>1, <2>2, <2>3 DEF Frame
<1>7. CASE FenceBeforeProvider(c)
  <2>1. (\A d \in Calls \ {c} : call'[d] = call[d]) /\ (c \in reached => call'[c].ticket = call[c].ticket)
    BY <1>7, GoEffect, EndEffect DEF FenceBeforeProvider, Locations, Active, BeforeProvider, AfterProvider
  <2>2. \A t \in Tickets : TicketKept(t)
    BY <1>7 DEF FenceBeforeProvider, TicketKept, storeVars
  <2>3. Rest
    BY <1>7 DEF TypeOK, FenceBeforeProvider, storeVars
  <2> QED BY <2>1, <2>2, <2>3 DEF Frame
<1>8. CASE ReserveTicket(c)
  <2>1. (\A d \in Calls \ {c} : call'[d] = call[d]) /\ (c \in reached => call'[c].ticket = call[c].ticket)
    BY <1>8, GoEffect DEF ReserveTicket, CallRecords, Locations, Active, BeforeProvider, AfterProvider
  <2>2. \A t \in Tickets : TicketKept(t)
    BY <1>8 DEF ReserveTicket, TicketKept, TicketRecords, Stored
  <2>3. Rest
    BY <1>8 DEF TypeOK, ReserveTicket, storeVars
  <2> QED BY <2>1, <2>2, <2>3 DEF Frame
<1>9. CASE StartExecution(c)
  <2>1. (\A d \in Calls \ {c} : call'[d] = call[d]) /\ (c \in reached => call'[c].ticket = call[c].ticket)
    BY <1>9, GoEffect, EndEffect DEF StartExecution, Append, Locations, Active, BeforeProvider, AfterProvider
  <2>2. \A t \in Tickets : TicketKept(t)
    BY <1>9 DEF StartExecution, TicketKept, storeVars
  <2>3. Rest
    BY <1>9 DEF TypeOK, StartExecution, Append, storeVars
  <2> QED BY <2>1, <2>2, <2>3 DEF Frame
<1>10. CASE NoExecutor(c)
  <2>1. (\A d \in Calls \ {c} : call'[d] = call[d]) /\ (c \in reached => call'[c].ticket = call[c].ticket)
    BY <1>10, GoEffect, EndEffect DEF NoExecutor, Locations, Active, BeforeProvider, AfterProvider
  <2>2. \A t \in Tickets : TicketKept(t)
    BY <1>10 DEF NoExecutor, TicketKept, storeVars
  <2>3. Rest
    BY <1>10 DEF TypeOK, NoExecutor, storeVars
  <2> QED BY <2>1, <2>2, <2>3 DEF Frame
<1>11. CASE Abort(c)
  <2>1. (\A d \in Calls \ {c} : call'[d] = call[d]) /\ (c \in reached => call'[c].ticket = call[c].ticket)
    BY <1>11, GoEffect, EndEffect DEF Abort, Locations, Active, BeforeProvider, AfterProvider
  <2>2. \A t \in Tickets : TicketKept(t)
    BY <1>11 DEF Abort, TicketKept, TicketRecords, Stored
  <2>3. Rest
    BY <1>11 DEF TypeOK, Abort, storeVars
  <2> QED BY <2>1, <2>2, <2>3 DEF Frame
<1>12. CASE Send(c)
  <2>1. (\A d \in Calls \ {c} : call'[d] = call[d]) /\ (c \in reached => call'[c].ticket = call[c].ticket)
    BY <1>12, GoEffect, EndEffect DEF Send, Locations, Active, BeforeProvider, AfterProvider
  <2>2. \A t \in Tickets : TicketKept(t)
    BY <1>12 DEF Send, TicketKept, storeVars
  <2>3. Rest
    BY <1>12 DEF TypeOK, Send, storeVars
  <2> QED BY <2>1, <2>2, <2>3 DEF Frame
<1>13. CASE Acknowledge(c)
  <2>1. (\A d \in Calls \ {c} : call'[d] = call[d]) /\ (c \in reached => call'[c].ticket = call[c].ticket)
    BY <1>13, GoEffect, EndEffect DEF Acknowledge, Append, Locations, Active, BeforeProvider, AfterProvider
  <2>2. \A t \in Tickets : TicketKept(t)
    BY <1>13 DEF Acknowledge, TicketKept, storeVars
  <2>3. Rest
    BY <1>13 DEF TypeOK, Acknowledge, Append, storeVars
  <2> QED BY <2>1, <2>2, <2>3 DEF Frame
<1>14. CASE OutcomeUnknown(c)
  <2>1. (\A d \in Calls \ {c} : call'[d] = call[d]) /\ (c \in reached => call'[c].ticket = call[c].ticket)
    BY <1>14, GoEffect, EndEffect DEF OutcomeUnknown, Append, Locations, Active, BeforeProvider, AfterProvider
  <2>2. \A t \in Tickets : TicketKept(t)
    BY <1>14 DEF OutcomeUnknown, TicketKept, storeVars
  <2>3. Rest
    BY <1>14 DEF TypeOK, OutcomeUnknown, Append, storeVars
  <2> QED BY <2>1, <2>2, <2>3 DEF Frame
<1>15. CASE StartReadback(c)
  <2>1. (\A d \in Calls \ {c} : call'[d] = call[d]) /\ (c \in reached => call'[c].ticket = call[c].ticket)
    BY <1>15, GoEffect, EndEffect DEF StartReadback, Append, Locations, Active, BeforeProvider, AfterProvider
  <2>2. \A t \in Tickets : TicketKept(t)
    BY <1>15 DEF StartReadback, TicketKept, storeVars
  <2>3. Rest
    BY <1>15 DEF TypeOK, StartReadback, Append, storeVars
  <2> QED BY <2>1, <2>2, <2>3 DEF Frame
<1>16. CASE Readback(c)
  <2>1. (\A d \in Calls \ {c} : call'[d] = call[d]) /\ (c \in reached => call'[c].ticket = call[c].ticket)
    BY <1>16, GoEffect DEF Readback, CallRecords, Locations, Active, BeforeProvider, AfterProvider
  <2>2. \A t \in Tickets : TicketKept(t)
    BY <1>16 DEF Readback, TicketKept, storeVars
  <2>3. Rest
    BY <1>16 DEF TypeOK, Readback, storeVars
  <2> QED BY <2>1, <2>2, <2>3 DEF Frame
<1>17. CASE CheckBeforeFinalization(c)
  <2>1. (\A d \in Calls \ {c} : call'[d] = call[d]) /\ (c \in reached => call'[c].ticket = call[c].ticket)
    BY <1>17, GoEffect, EndEffect DEF CheckBeforeFinalization, Locations, Active, BeforeProvider, AfterProvider
  <2>2. \A t \in Tickets : TicketKept(t)
    BY <1>17 DEF CheckBeforeFinalization, TicketKept, storeVars
  <2>3. Rest
    BY <1>17 DEF TypeOK, CheckBeforeFinalization, storeVars
  <2> QED BY <2>1, <2>2, <2>3 DEF Frame
<1>18. CASE FinalizeTicket(c)
  <2>1. (\A d \in Calls \ {c} : call'[d] = call[d]) /\ (c \in reached => call'[c].ticket = call[c].ticket)
    BY <1>18, GoEffect, EndEffect DEF FinalizeTicket, Locations, Active, BeforeProvider, AfterProvider
  <2>2. \A t \in Tickets : TicketKept(t)
    BY <1>18 DEF FinalizeTicket, TicketKept, TicketRecords, Stored
  <2>3. Rest
    BY <1>18 DEF TypeOK, FinalizeTicket, storeVars
  <2> QED BY <2>1, <2>2, <2>3 DEF Frame
<1>19. CASE ConsumeApproval(c)
  <2>1. (\A d \in Calls \ {c} : call'[d] = call[d]) /\ (c \in reached => call'[c].ticket = call[c].ticket)
    BY <1>19, GoEffect, EndEffect DEF ConsumeApproval, Locations, Active, BeforeProvider, AfterProvider
  <2>2. \A t \in Tickets : TicketKept(t)
    BY <1>19 DEF ConsumeApproval, TicketKept, storeVars
  <2>3. Rest
    BY <1>19 DEF TypeOK, ConsumeApproval, storeVars
  <2> QED BY <2>1, <2>2, <2>3 DEF Frame
<1>20. CASE Complete(c)
  <2>1. (\A d \in Calls \ {c} : call'[d] = call[d]) /\ (c \in reached => call'[c].ticket = call[c].ticket)
    BY <1>20, GoEffect, EndEffect DEF Complete, Append, Locations, Active, BeforeProvider, AfterProvider
  <2>2. \A t \in Tickets : TicketKept(t)
    BY <1>20 DEF Complete, TicketKept, storeVars
  <2>3. Rest
    BY <1>20 DEF TypeOK, Complete, Append, storeVars
  <2> QED BY <2>1, <2>2, <2>3 DEF Frame
<1>21. CASE Seal(c)
  <2>1. (\A d \in Calls \ {c} : call'[d] = call[d]) /\ (c \in reached => call'[c].ticket = call[c].ticket)
    BY <1>21, GoEffect, EndEffect DEF Seal, Locations, Active, BeforeProvider, AfterProvider
  <2>2. \A t \in Tickets : TicketKept(t)
    BY <1>21 DEF Seal, TicketKept, storeVars
  <2>3. Rest
    BY <1>21 DEF TypeOK, Seal, storeVars
  <2> QED BY <2>1, <2>2, <2>3 DEF Frame
<1>22. CASE Catch(c)
  <2>1. (\A d \in Calls \ {c} : call'[d] = call[d]) /\ (c \in reached => call'[c].ticket = call[c].ticket)
    BY <1>22, GoEffect, EndEffect DEF Catch, Append, Locations, Active, BeforeProvider, AfterProvider
  <2>2. \A t \in Tickets : TicketKept(t)
    BY <1>22 DEF Catch, TicketKept, storeVars
  <2>3. Rest
    BY <1>22 DEF TypeOK, Catch, Append, storeVars
  <2> QED BY <2>1, <2>2, <2>3 DEF Frame
<1>23. CASE Unlock(c)
  <2>1. (\A d \in Calls \ {c} : call'[d] = call[d]) /\ (c \in reached => call'[c].ticket = call[c].ticket)
    BY <1>23, GoEffect, EndEffect DEF Unlock, Locations, Active, BeforeProvider, AfterProvider
  <2>2. \A t \in Tickets : TicketKept(t)
    BY <1>23 DEF Unlock, TicketKept, storeVars
  <2>3. Rest
    BY <1>23 DEF TypeOK, Unlock, storeVars, Free
  <2> QED BY <2>1, <2>2, <2>3 DEF Frame
<1>24. CASE PutReceipt(c)
  <2>1. (\A d \in Calls \ {c} : call'[d] = call[d]) /\ (c \in reached => call'[c].ticket = call[c].ticket)
    BY <1>24, GoEffect, EndEffect DEF PutReceipt, Locations, Active, BeforeProvider, AfterProvider
  <2>2. \A t \in Tickets : TicketKept(t)
    BY <1>24 DEF PutReceipt, TicketKept, storeVars
  <2>3. Rest
    BY <1>24 DEF TypeOK, PutReceipt, storeVars
  <2> QED BY <2>1, <2>2, <2>3 DEF Frame
<1>25. CASE CheckApproval(c)
  <2>1. (\A d \in Calls \ {c} : call'[d] = call[d]) /\ (c \in reached => call'[c].ticket = call[c].ticket)
    BY <1>25, GoEffect, EndEffect DEF CheckApproval, Locations, Active, BeforeProvider, AfterProvider
  <2>2. \A t \in Tickets : TicketKept(t)
    BY <1>25 DEF CheckApproval, TicketKept, storeVars
  <2>3. Rest
    BY <1>25 DEF TypeOK, CheckApproval, storeVars
  <2> QED BY <2>1, <2>2, <2>3 DEF Frame
<1> QED BY <1>2, <1>3, <1>4, <1>5, <1>6, <1>7, <1>8, <1>9, <1>10, <1>11, <1>12, <1>13,
   <1>14, <1>15, <1>16, <1>17, <1>18, <1>19, <1>20, <1>21, <1>22, <1>23, <1>24, <1>25 DEF Proceed

\* So does its first step.
LEMMA BeginFrame ==
    ASSUME KernelInv, NEW c \in Calls, NEW t \in Tickets, Begin(c, t)
    PROVE  Frame(c)
BY DEF KernelInv, TypeOK, CallInv, Located, At, Begin, storeVars, Frame, TicketKept

\* What holds of the other calls by that alone.
LEMMA OtherCalls ==
    ASSUME KernelInv, TypeOK', NEW c \in Calls, Frame(c), NEW d \in Calls \ {c}
    PROVE  (Presented(d) /\ Located(d) /\ Bound(d) /\ Fences(d) /\ Progress(d) /\ Phased(d))'
<1>1. TypeOK /\ CallInv(d)
  BY DEF KernelInv
<1>2. d # None
  BY NoneAssumption
<1>3. /\ call'[d] = call[d] /\ stored'[d] = stored[d]
      /\ d \in reached' <=> d \in reached
      /\ readBack'[d] = readBack[d]
      /\ d \in proven => d \in proven'
      /\ lock'.holder = d => lock.holder = d
  BY <1>2 DEF Frame
<1>4. ASSUME call[d].pc \in Active \/ d \in reached
      PROVE  /\ call[d].ticket \in Tickets /\ TicketKept(call[d].ticket)
             /\ ticket[call[d].ticket].state \in Stored
             /\ KeyOf(d) \in Keys /\ ApprovalOf(d) \in Approvals
             /\ KeyOf(d)' = KeyOf(d) /\ ApprovalOf(d)' = ApprovalOf(d)
  <2>1. call[d].ticket \in Tickets /\ KeyOf(d) \in Keys /\ ApprovalOf(d) \in Approvals
        /\ ticket[call[d].ticket].state \in Stored
    BY <1>4, Named
  <2>2. TicketKept(call[d].ticket)
    BY <2>1 DEF Frame
  <2> QED BY <1>3, <2>1, <2>2 DEF TicketKept, KeyOf, ApprovalOf
<1>5. Presented(d)' /\ Located(d)'
  BY <1>1, <1>3, <1>4 DEF CallInv, Presented, Located, TicketKept
<1>6. Bound(d)'
  <2>1. Bounded \subseteq Active
    BY DEF Bounded, Active, BeforeProvider
  <2> QED BY <1>1, <1>2, <1>3, <1>4, <2>1 DEF CallInv, Bound, Frame
<1>7. Fences(d)' /\ Phased(d)'
  BY <1>1, <1>3 DEF CallInv, Fences, WasReadBack, Phased
<1>8. Progress(d)'
  <2>1. Consuming \subseteq Active /\ {"complete", "seal", "put"} \subseteq Consuming
    BY DEF Consuming, Active, AfterProvider
  <2> QED BY <1>1, <1>3, <1>4, <2>1 DEF CallInv, Progress, TicketKept, Frame
<1> QED BY <1>5, <1>6, <1>7, <1>8

-----------------------------------------------------------------------------
(* What a step of a call does to the call itself. *)

SelfInv(c) ==
    Presented(c) /\ Located(c) /\ Bound(c) /\ Fences(c) /\ Progress(c) /\ Phased(c)

\* The call goes on to one of the locations in S with what it presented.
Moved(c, S) ==
    /\ call'[c].pc \in S
    /\ call'[c].pc # "done" \/ c \in reached => call'[c].ticket = call[c].ticket

\* A step before the provider: the key is bound before the first fence check.
BeforeMove(c) ==
    /\ call[c].pc \in BeforeProvider
    /\ Moved(c, BeforeProvider \cup {"unlock", "done"})
    /\ call'[c].passed => call[c].passed
    /\ call'[c].pc \in Bounded => call[c].pc \in Bounded \/ binding'[KeyOf(c)] = c
    /\ stored'[c] \in {stored[c], "locked", "executing", "failed_closed"}
    /\ reached' = reached /\ readBack' = readBack

\* A step from the provider on: nothing is consumed without the lock, and no
\* phase is written without its evidence.
AfterMove(c) ==
    /\ call[c].pc \in AfterProvider \cup {"send"}
    /\ Moved(c, AfterProvider \cup {"unlock"})
    /\ call'[c].passed => call[c].passed \/ c \in proven'
    /\ c \in reached'
    /\ lock' = lock
    /\ call'[c].pc = "check" /\ lock.holder = c => WasReadBack(c)'
    /\ call'[c].pc \in Consuming \cup {"finalize"} =>
         /\ call[c].pc \in Consuming \cup {"finalize"} \/ (call[c].pc = "check" /\ lock.holder = c)
         /\ readBack' = readBack
         /\ call'[c].passed => call[c].passed
    /\ call'[c].pc \in Consuming =>
         call[c].pc \in Consuming \/ ticket'[call[c].ticket].state = "finalized"
    /\ call'[c].pc \in {"complete", "seal", "put"} =>
         call[c].pc \in {"complete", "seal", "put"} \/ approval'[ApprovalOf(c)] = "used"
    /\ \/ stored'[c] \in {stored[c]} \cup (LatePhases \ GoodPhases) \cup {"failed_closed"}
       \/ stored'[c] \in GoodPhases /\ (c \in proven' \/ call[c].passed)

\* A call that moves on without ending keeps its key and approval.
LEMMA Keeps ==
    ASSUME KernelInv, NEW c \in Calls, Frame(c), call[c].pc \in Active, NEW S, Moved(c, S)
    PROVE  /\ call[c].ticket \in Tickets /\ TicketKept(call[c].ticket)
           /\ ticket[call[c].ticket].state \in Stored
           /\ KeyOf(c) \in Keys /\ ApprovalOf(c) \in Approvals
           /\ call'[c].pc # "done" \/ c \in reached =>
                KeyOf(c)' = KeyOf(c) /\ ApprovalOf(c)' = ApprovalOf(c)
<1>1. call[c].ticket \in Tickets /\ KeyOf(c) \in Keys /\ ApprovalOf(c) \in Approvals
      /\ ticket[call[c].ticket].state \in Stored
  BY Named
<1>2. TicketKept(call[c].ticket)
  BY <1>1 DEF Frame
<1> QED BY <1>1, <1>2 DEF Moved, TicketKept, KeyOf, ApprovalOf

\* A step before the provider keeps the invariant of its call.
LEMMA BeforeMoveKeeps ==
    ASSUME KernelInv, NEW c \in Calls, Frame(c), BeforeMove(c)
    PROVE  SelfInv(c)'
<1>1. CallInv(c) /\ call[c].pc \in Active
  BY DEF KernelInv, BeforeMove, Active
<1>2. /\ call[c].ticket \in Tickets /\ TicketKept(call[c].ticket)
      /\ ticket[call[c].ticket].state \in Stored
      /\ KeyOf(c) \in Keys
      /\ call'[c].pc # "done" => KeyOf(c)' = KeyOf(c) /\ call'[c].ticket = call[c].ticket
  BY <1>1, Keeps DEF BeforeMove, Moved
<1>3. c \notin reached /\ c \notin reached' /\ readBack'[c] = "none"
  BY <1>1 DEF BeforeMove, CallInv, Located, Fences
<1>4. /\ call'[c].pc \in BeforeProvider \cup {"unlock", "done"}
      /\ call'[c].pc \notin AfterProvider \cup Consuming \cup {"complete", "seal", "put", "check", "finalize", "idle"}
      /\ call'[c].pc \in Active => call'[c].pc # "done"
  BY DEF BeforeMove, Moved, Active, BeforeProvider, AfterProvider, Consuming
<1>5. Presented(c)' /\ Located(c)'
  BY <1>2, <1>3, <1>4 DEF Presented, Located, TicketKept
<1>6. Bound(c)'
  <2>1. call'[c].pc \in Bounded => call'[c].pc # "done"
    BY DEF Bounded, AfterProvider
  <2> QED BY <1>1, <1>2, <1>3, <2>1, NoneAssumption DEF CallInv, Bound, BeforeMove, Frame
<1>7. Fences(c)' /\ Progress(c)'
  BY <1>1, <1>3, <1>4 DEF CallInv, Fences, WasReadBack, Progress, BeforeMove, Frame
<1>8. Phased(c)'
  BY <1>1, <1>3 DEF CallInv, Phased, BeforeMove, Frame, LatePhases, GoodPhases, Phases
<1> QED BY <1>5, <1>6, <1>7, <1>8 DEF SelfInv

\* A step from the provider on keeps the invariant of its call.
LEMMA AfterMoveKeeps ==
    ASSUME KernelInv, NEW c \in Calls, Frame(c), AfterMove(c)
    PROVE  SelfInv(c)'
<1>1. CallInv(c) /\ call[c].pc \in Active
  BY DEF KernelInv, AfterMove, Active, BeforeProvider
<1>2. call'[c].pc \in AfterProvider \cup {"unlock"} /\ call'[c].pc \notin BeforeProvider \cup {"idle", "done"}
  BY DEF AfterMove, Moved, BeforeProvider, AfterProvider
<1>3. /\ call[c].ticket \in Tickets /\ TicketKept(call[c].ticket)
      /\ ticket[call[c].ticket].state \in Stored
      /\ KeyOf(c) \in Keys /\ ApprovalOf(c) \in Approvals
      /\ KeyOf(c)' = KeyOf(c) /\ ApprovalOf(c)' = ApprovalOf(c)
      /\ call'[c].ticket = call[c].ticket
  BY <1>1, <1>2, Keeps DEF AfterMove, Moved
<1>4. Presented(c)' /\ Located(c)'
  BY <1>2, <1>3 DEF Presented, Located, TicketKept, AfterMove, Active
<1>5. Bound(c)'
  <2>1. call[c].pc \in Bounded
    BY DEF AfterMove, Bounded
  <2> QED BY <1>1, <1>3, <2>1, NoneAssumption DEF CallInv, Bound, Frame
<1>6. Fences(c)'
  BY <1>1 DEF CallInv, Fences, WasReadBack, AfterMove
<1>7. Progress(c)'
  <2>1. call'[c].pc \in Consuming => ticket'[call'[c].ticket].state = "finalized"
    BY <1>1, <1>3 DEF CallInv, Progress, AfterMove, TicketKept
  <2>2. call'[c].pc \in {"complete", "seal", "put"} => approval'[ApprovalOf(c)'] = "used"
    BY <1>1, <1>3 DEF CallInv, Progress, AfterMove, Frame
  <2> QED BY <1>1, <2>1, <2>2 DEF CallInv, Progress, AfterMove, Frame
<1>8. Phased(c)'
  BY <1>1 DEF CallInv, Phased, Progress, AfterMove, Frame, LatePhases, GoodPhases
<1> QED BY <1>4, <1>5, <1>6, <1>7, <1>8 DEF SelfInv

\* Every step of a call is one of the two kinds, or the release of the lock.
LEMMA ProceedSelf ==
    ASSUME KernelInv, NEW c \in Calls, Proceed(c)
    PROVE  SelfInv(c)'
<1>1. TypeOK /\ CallInv(c) /\ Frame(c) /\ TypeOK'
  BY ProceedFrame, ProceedTypes DEF KernelInv
<1>2. call[c].ticket \in Tickets /\ KeyOf(c) \in Keys /\ ApprovalOf(c) \in Approvals
  BY InProgress, Named
<1> USE <1>1, <1>2
<1>3. CASE Claim(c)
  <2>1. call[c].pc = "claim" /\ Moved(c, {"approve", "done"})
    BY <1>3, GoEffect, EndEffect DEF Claim, At, Moved, Locations, Active, BeforeProvider, AfterProvider
  <2>2. call'[c].passed => call[c].passed
    BY <1>3, GoEffect, EndEffect DEF Claim, Locations, Active, BeforeProvider, AfterProvider
  <2> QED BY <1>3, <2>1, <2>2, BeforeMoveKeeps DEF Claim, BeforeMove, Moved, Bounded, Active, BeforeProvider, AfterProvider
<1>25. CASE CheckApproval(c)
  <2>1. call[c].pc = "present" /\ Moved(c, {"claim"})
    BY <1>25, GoEffect DEF CheckApproval, At, Moved, Locations, Active, BeforeProvider, AfterProvider
  <2>2. call'[c].passed => call[c].passed
    BY <1>25, GoEffect DEF CheckApproval, Locations, Active, BeforeProvider, AfterProvider
  <2> QED BY <1>25, <2>1, <2>2, BeforeMoveKeeps DEF CheckApproval, BeforeMove, Moved, Bounded, Active, BeforeProvider, AfterProvider
<1>4. CASE ReserveApproval(c)
  <2>1. call[c].pc = "approve" /\ Moved(c, {"lock", "done"})
    BY <1>4, GoEffect, EndEffect DEF ReserveApproval, GiveUp, At, Moved, Locations, Active, BeforeProvider, AfterProvider
  <2>2. call'[c].passed => call[c].passed
    BY <1>4, GoEffect, EndEffect DEF ReserveApproval, GiveUp, Locations, Active, BeforeProvider, AfterProvider
  <2> QED BY <1>4, <2>1, <2>2, BeforeMoveKeeps DEF ReserveApproval, BeforeMove, Moved, Bounded, Active, BeforeProvider, AfterProvider
<1>5. CASE AcquireLock(c)
  <2>1. call[c].pc = "lock" /\ Moved(c, {"record"})
    BY <1>5, GoEffect DEF AcquireLock, At, Moved, Locations, Active, BeforeProvider, AfterProvider
  <2>2. call'[c].passed => call[c].passed
    BY <1>5, GoEffect DEF AcquireLock, Locations, Active, BeforeProvider, AfterProvider
  <2> QED BY <1>5, <2>1, <2>2, BeforeMoveKeeps DEF AcquireLock, BeforeMove, Moved, Bounded, Active, BeforeProvider, AfterProvider
<1>6. CASE LockRefused(c)
  <2>1. call[c].pc = "lock" /\ Moved(c, {"done"})
    BY <1>6, EndEffect DEF LockRefused, GiveUp, At, Moved, Locations, Active, BeforeProvider, AfterProvider
  <2>2. call'[c].passed => call[c].passed
    BY <1>6, EndEffect DEF LockRefused, GiveUp, Locations, Active, BeforeProvider, AfterProvider
  <2> QED BY <1>6, <2>1, <2>2, BeforeMoveKeeps DEF LockRefused, BeforeMove, Moved, Bounded, Active, BeforeProvider, AfterProvider
<1>7. CASE RecordRun(c)
  <2>1. call[c].pc = "record" /\ Moved(c, {"fence", "abort"})
    BY <1>7, GoEffect DEF RecordRun, At, Moved, Locations, Active, BeforeProvider, AfterProvider
  <2>2. call'[c].passed => call[c].passed
    BY <1>7, GoEffect DEF RecordRun, Locations, Active, BeforeProvider, AfterProvider
  <2>3. call'[c].pc = "fence" => binding'[KeyOf(c)] = c
    BY <1>7, GoEffect DEF TypeOK, RecordRun, Bindable, Locations, Active, BeforeProvider, AfterProvider
  <2>4. stored'[c] \in {stored[c], "locked", "executing", "failed_closed"}
    BY <1>7 DEF TypeOK, RecordRun
  <2> QED BY <1>7, <2>1, <2>2, <2>3, <2>4, BeforeMoveKeeps DEF RecordRun, BeforeMove, Moved, Bounded, Active, BeforeProvider, AfterProvider
<1>8. CASE FenceBeforeProvider(c)
  <2>1. call[c].pc = "fence" /\ Moved(c, {"ticket", "abort"})
    BY <1>8, GoEffect DEF FenceBeforeProvider, At, Moved, Locations, Active, BeforeProvider, AfterProvider
  <2>2. call'[c].passed => call[c].passed
    BY <1>8, GoEffect DEF FenceBeforeProvider, Locations, Active, BeforeProvider, AfterProvider
  <2> QED BY <1>8, <2>1, <2>2, BeforeMoveKeeps DEF FenceBeforeProvider, BeforeMove, Moved, Bounded, Active, BeforeProvider, AfterProvider
<1>9. CASE ReserveTicket(c)
  <2>1. call[c].pc = "ticket" /\ Moved(c, {"start", "abort"})
    BY <1>9, GoEffect DEF TypeOK, ReserveTicket, At, Moved, Locations, Active, BeforeProvider, AfterProvider
  <2>2. call'[c].passed => call[c].passed
    BY <1>9, GoEffect DEF TypeOK, ReserveTicket, Locations, Active, BeforeProvider, AfterProvider
  <2> QED BY <1>9, <2>1, <2>2, BeforeMoveKeeps DEF ReserveTicket, BeforeMove, Moved, Bounded, Active, BeforeProvider, AfterProvider
<1>10. CASE StartExecution(c)
  <2>1. call[c].pc = "start" /\ Moved(c, {"send", "abort"})
    BY <1>10, GoEffect DEF StartExecution, Append, At, Moved, Locations, Active, BeforeProvider, AfterProvider
  <2>2. call'[c].passed => call[c].passed
    BY <1>10, GoEffect DEF StartExecution, Append, Locations, Active, BeforeProvider, AfterProvider
  <2>3. stored'[c] \in {stored[c], "locked", "executing", "failed_closed"}
    BY <1>10 DEF TypeOK, StartExecution, Append
  <2> QED BY <1>10, <2>1, <2>2, <2>3, BeforeMoveKeeps DEF StartExecution, BeforeMove, Moved, Bounded, Active, BeforeProvider, AfterProvider
<1>11. CASE NoExecutor(c)
  <2>1. call[c].pc = "send" /\ Moved(c, {"abort"})
    BY <1>11, GoEffect DEF NoExecutor, At, Moved, Locations, Active, BeforeProvider, AfterProvider
  <2>2. call'[c].passed => call[c].passed
    BY <1>11, GoEffect DEF NoExecutor, Locations, Active, BeforeProvider, AfterProvider
  <2> QED BY <1>11, <2>1, <2>2, BeforeMoveKeeps DEF NoExecutor, BeforeMove, Moved, Bounded, Active, BeforeProvider, AfterProvider
<1>12. CASE Abort(c)
  <2>1. call[c].pc = "abort" /\ Moved(c, {"unlock"})
    BY <1>12, GoEffect DEF Abort, At, Moved, Locations, Active, BeforeProvider, AfterProvider
  <2>2. call'[c].passed => call[c].passed
    BY <1>12, GoEffect DEF Abort, Locations, Active, BeforeProvider, AfterProvider
  <2>3. stored'[c] \in {stored[c], "locked", "executing", "failed_closed"}
    BY <1>12 DEF TypeOK, Abort
  <2> QED BY <1>12, <2>1, <2>2, <2>3, BeforeMoveKeeps DEF Abort, BeforeMove, Moved, Bounded, Active, BeforeProvider, AfterProvider
<1>13. CASE Send(c)
  <2>1. call[c].pc = "send" /\ Moved(c, {"answer"})
    BY <1>13, GoEffect DEF Send, At, Moved, Locations, Active, BeforeProvider, AfterProvider
  <2>2. call'[c].passed => call[c].passed
    BY <1>13, GoEffect DEF Send, Locations, Active, BeforeProvider, AfterProvider
  <2>3. c \in reached'
    BY <1>13, <2>1 DEF CallInv, Located, Send, AfterProvider
  <2> QED BY <1>13, <2>1, <2>2, <2>3, AfterMoveKeeps
         DEF Send, AfterMove, Moved, Consuming, AfterProvider, storeVars
<1>14. CASE Acknowledge(c)
  <2>1. call[c].pc = "answer" /\ Moved(c, {"pending", "catch"})
    BY <1>14, GoEffect DEF Acknowledge, Append, At, Moved, Locations, Active, BeforeProvider, AfterProvider
  <2>2. call'[c].passed => call[c].passed
    BY <1>14, GoEffect DEF Acknowledge, Append, Locations, Active, BeforeProvider, AfterProvider
  <2>3. \/ stored'[c] \in {stored[c]} \cup (LatePhases \ GoodPhases) \cup {"failed_closed"}
        \/ stored'[c] \in GoodPhases /\ (c \in proven' \/ call[c].passed)
    BY <1>14 DEF TypeOK, Acknowledge, Append, LatePhases, GoodPhases, Phases
  <2>4. c \in reached'
    BY <1>14, <2>1 DEF CallInv, Located, Acknowledge, AfterProvider
  <2> QED BY <1>14, <2>1, <2>2, <2>3, <2>4, AfterMoveKeeps
         DEF Acknowledge, AfterMove, Moved, Consuming, AfterProvider, storeVars
<1>15. CASE OutcomeUnknown(c)
  <2>1. call[c].pc = "answer" /\ Moved(c, {"unlock", "catch"})
    BY <1>15, GoEffect DEF OutcomeUnknown, Append, At, Moved, Locations, Active, BeforeProvider, AfterProvider
  <2>2. call'[c].passed => call[c].passed
    BY <1>15, GoEffect DEF OutcomeUnknown, Append, Locations, Active, BeforeProvider, AfterProvider
  <2>3. \/ stored'[c] \in {stored[c]} \cup (LatePhases \ GoodPhases) \cup {"failed_closed"}
        \/ stored'[c] \in GoodPhases /\ (c \in proven' \/ call[c].passed)
    BY <1>15 DEF TypeOK, OutcomeUnknown, Append, LatePhases, GoodPhases, Phases
  <2>4. c \in reached'
    BY <1>15, <2>1 DEF CallInv, Located, OutcomeUnknown, AfterProvider
  <2> QED BY <1>15, <2>1, <2>2, <2>3, <2>4, AfterMoveKeeps
         DEF OutcomeUnknown, AfterMove, Moved, Consuming, AfterProvider, storeVars
<1>16. CASE StartReadback(c)
  <2>1. call[c].pc = "pending" /\ Moved(c, {"readback", "catch"})
    BY <1>16, GoEffect DEF StartReadback, Append, At, Moved, Locations, Active, BeforeProvider, AfterProvider
  <2>2. call'[c].passed => call[c].passed
    BY <1>16, GoEffect DEF StartReadback, Append, Locations, Active, BeforeProvider, AfterProvider
  <2>3. \/ stored'[c] \in {stored[c]} \cup (LatePhases \ GoodPhases) \cup {"failed_closed"}
        \/ stored'[c] \in GoodPhases /\ (c \in proven' \/ call[c].passed)
    BY <1>16 DEF TypeOK, StartReadback, Append, LatePhases, GoodPhases, Phases
  <2>4. c \in reached'
    BY <1>16, <2>1 DEF CallInv, Located, StartReadback, AfterProvider
  <2> QED BY <1>16, <2>1, <2>2, <2>3, <2>4, AfterMoveKeeps
         DEF StartReadback, AfterMove, Moved, Consuming, AfterProvider, storeVars
<1>17. CASE Readback(c)
  <2>1. call[c].pc = "readback" /\ Moved(c, {"check", "catch"})
    BY <1>17, GoEffect DEF TypeOK, Readback, At, Moved, Locations, Active, BeforeProvider, AfterProvider
  <2>2. call'[c].passed => call[c].passed \/ c \in proven'
    BY <1>17, GoEffect DEF TypeOK, Readback, Locations, Active, BeforeProvider, AfterProvider
  <2>3. \/ stored'[c] \in {stored[c]} \cup (LatePhases \ GoodPhases) \cup {"failed_closed"}
        \/ stored'[c] \in GoodPhases /\ (c \in proven' \/ call[c].passed)
    BY <1>17 DEF TypeOK, Readback, LatePhases, GoodPhases, Phases
  <2>4. c \in reached'
    BY <1>17, <2>1 DEF CallInv, Located, Readback, AfterProvider
  <2>5. call'[c].pc = "check" /\ lock.holder = c => WasReadBack(c)'
    BY <1>17, GoEffect DEF TypeOK, Readback, WasReadBack, Locations, Active, BeforeProvider, AfterProvider
  <2> QED BY <1>17, <2>1, <2>2, <2>3, <2>4, <2>5, AfterMoveKeeps
         DEF Readback, AfterMove, Moved, Consuming, AfterProvider, storeVars
<1>18. CASE CheckBeforeFinalization(c)
  <2>1. call[c].pc = "check" /\ Moved(c, {"finalize", "catch"})
    BY <1>18, GoEffect DEF CheckBeforeFinalization, At, Moved, Locations, Active, BeforeProvider, AfterProvider
  <2>2. call'[c].passed => call[c].passed
    BY <1>18, GoEffect DEF CheckBeforeFinalization, Locations, Active, BeforeProvider, AfterProvider
  <2>3. call'[c].pc = "finalize" => lock.holder = c
    BY <1>18, GoEffect DEF CheckBeforeFinalization, Fenced, Locations, Active, BeforeProvider, AfterProvider
  <2>4. c \in reached'
    BY <1>18, <2>1 DEF CallInv, Located, CheckBeforeFinalization, AfterProvider
  <2> QED BY <1>18, <2>1, <2>2, <2>3, <2>4, AfterMoveKeeps
         DEF CheckBeforeFinalization, AfterMove, Moved, Consuming, AfterProvider, storeVars
<1>19. CASE FinalizeTicket(c)
  <2>1. call[c].pc = "finalize" /\ Moved(c, {"consume", "catch"})
    BY <1>19, GoEffect DEF FinalizeTicket, At, Moved, Locations, Active, BeforeProvider, AfterProvider
  <2>2. call'[c].passed => call[c].passed
    BY <1>19, GoEffect DEF FinalizeTicket, Locations, Active, BeforeProvider, AfterProvider
  <2>3. call'[c].pc = "consume" => ticket'[call[c].ticket].state = "finalized"
    BY <1>19, GoEffect DEF TypeOK, FinalizeTicket, Locations, Active, BeforeProvider, AfterProvider
  <2>4. c \in reached'
    BY <1>19, <2>1 DEF CallInv, Located, FinalizeTicket, AfterProvider
  <2> QED BY <1>19, <2>1, <2>2, <2>3, <2>4, AfterMoveKeeps
         DEF FinalizeTicket, AfterMove, Moved, Consuming, AfterProvider, storeVars
<1>20. CASE ConsumeApproval(c)
  <2>1. call[c].pc = "consume" /\ Moved(c, {"complete", "catch"})
    BY <1>20, GoEffect DEF ConsumeApproval, At, Moved, Locations, Active, BeforeProvider, AfterProvider
  <2>2. call'[c].passed => call[c].passed
    BY <1>20, GoEffect DEF ConsumeApproval, Locations, Active, BeforeProvider, AfterProvider
  <2>3. call'[c].pc = "complete" => approval'[ApprovalOf(c)] = "used"
    BY <1>20, GoEffect DEF TypeOK, ConsumeApproval, Locations, Active, BeforeProvider, AfterProvider
  <2>4. c \in reached'
    BY <1>20, <2>1 DEF CallInv, Located, ConsumeApproval, AfterProvider
  <2> QED BY <1>20, <2>1, <2>2, <2>3, <2>4, AfterMoveKeeps
         DEF ConsumeApproval, AfterMove, Moved, Consuming, AfterProvider, storeVars
<1>21. CASE Complete(c)
  <2>1. call[c].pc = "complete" /\ Moved(c, {"seal", "catch"})
    BY <1>21, GoEffect DEF Complete, Append, At, Moved, Locations, Active, BeforeProvider, AfterProvider
  <2>2. call'[c].passed => call[c].passed
    BY <1>21, GoEffect DEF Complete, Append, Locations, Active, BeforeProvider, AfterProvider
  <2>3. approval[ApprovalOf(c)] = "used"
    BY <2>1 DEF CallInv, Progress
  <2>4. \/ stored'[c] \in {stored[c]} \cup (LatePhases \ GoodPhases) \cup {"failed_closed"}
        \/ stored'[c] \in GoodPhases /\ (c \in proven' \/ call[c].passed)
    BY <1>21 DEF TypeOK, Complete, Append, LatePhases, GoodPhases, Phases
  <2>5. c \in reached'
    BY <1>21, <2>1 DEF CallInv, Located, Complete, AfterProvider
  <2> QED BY <1>21, <2>1, <2>2, <2>3, <2>4, <2>5, AfterMoveKeeps
         DEF Complete, AfterMove, Moved, Consuming, AfterProvider, storeVars
<1>22. CASE Seal(c)
  <2>1. call[c].pc = "seal" /\ Moved(c, {"put", "catch"})
    BY <1>22, GoEffect DEF Seal, At, Moved, Locations, Active, BeforeProvider, AfterProvider
  <2>2. call'[c].passed => call[c].passed
    BY <1>22, GoEffect DEF Seal, Locations, Active, BeforeProvider, AfterProvider
  <2>3. c \in reached'
    BY <1>22, <2>1 DEF CallInv, Located, Seal, AfterProvider
  <2> QED BY <1>22, <2>1, <2>2, <2>3, AfterMoveKeeps
         DEF Seal, AfterMove, Moved, Consuming, AfterProvider, storeVars
<1>26. CASE PutReceipt(c)
  <2>1. call[c].pc = "put" /\ Moved(c, {"unlock", "catch"})
    BY <1>26, GoEffect DEF PutReceipt, At, Moved, Locations, Active, BeforeProvider, AfterProvider
  <2>2. call'[c].passed => call[c].passed
    BY <1>26, GoEffect DEF PutReceipt, Locations, Active, BeforeProvider, AfterProvider
  <2>3. c \in reached'
    BY <1>26, <2>1 DEF CallInv, Located, PutReceipt, AfterProvider
  <2> QED BY <1>26, <2>1, <2>2, <2>3, AfterMoveKeeps
         DEF PutReceipt, AfterMove, Moved, Consuming, AfterProvider, storeVars
<1>23. CASE Catch(c)
  <2>1. call[c].pc = "catch" /\ Moved(c, {"unlock"})
    BY <1>23, GoEffect DEF Catch, Append, At, Moved, Locations, Active, BeforeProvider, AfterProvider
  <2>2. call'[c].passed => call[c].passed
    BY <1>23, GoEffect DEF Catch, Append, Locations, Active, BeforeProvider, AfterProvider
  <2>3. \/ stored'[c] \in {stored[c]} \cup (LatePhases \ GoodPhases) \cup {"failed_closed"}
        \/ stored'[c] \in GoodPhases /\ (c \in proven' \/ call[c].passed)
    BY <1>23 DEF TypeOK, Catch, Append, LatePhases, GoodPhases, Phases
  <2>4. c \in reached'
    BY <1>23, <2>1 DEF CallInv, Located, Catch, AfterProvider
  <2> QED BY <1>23, <2>1, <2>2, <2>3, <2>4, AfterMoveKeeps
         DEF Catch, AfterMove, Moved, Consuming, AfterProvider, storeVars
<1>24. CASE Unlock(c)
  <2>1. call[c].pc = "unlock" /\ Moved(c, {"done"}) /\ call'[c].passed = FALSE
    BY <1>24, EndEffect DEF Unlock, At, Moved
  <2>2. c \in reached =>
          /\ TicketKept(call[c].ticket) /\ ticket[call[c].ticket].state \in Stored
          /\ KeyOf(c)' = KeyOf(c) /\ call'[c].ticket = call[c].ticket
    BY <2>1, Keeps DEF Moved, Active, BeforeProvider, AfterProvider
  <2>3. /\ reached' = reached /\ readBack' = readBack /\ stored' = stored /\ proven' = proven
        /\ lock'.holder \in {lock.holder, None} /\ c # None
    BY <1>24, NoneAssumption DEF Unlock, Free
  <2>4. Presented(c)' /\ Located(c)' /\ Fences(c)' /\ Progress(c)' /\ Phased(c)'
    BY <2>1, <2>2, <2>3 DEF CallInv, Presented, Located, Fences, WasReadBack, Progress, Phased, Moved, TicketKept,
       Active, BeforeProvider, AfterProvider, Consuming
  <2>5. Bound(c)'
    BY <2>1, <2>2, <2>3 DEF CallInv, Bound, Moved, Bounded, AfterProvider, Frame
  <2> QED BY <2>4, <2>5 DEF SelfInv
<1> QED BY <1>3, <1>4, <1>5, <1>6, <1>7, <1>8, <1>9, <1>10, <1>11, <1>12, <1>13, <1>14,
   <1>15, <1>16, <1>17, <1>18, <1>19, <1>20, <1>21, <1>22, <1>23, <1>24, <1>25, <1>26 DEF Proceed

\* A call that begins has nothing to answer for yet.
LEMMA BeginSelf ==
    ASSUME KernelInv, NEW c \in Calls, NEW t \in Tickets, Begin(c, t)
    PROVE  SelfInv(c)'
<1>1. TypeOK /\ CallInv(c)
  BY DEF KernelInv
<1>2. call'[c].pc = "present" /\ call'[c].ticket = t /\ call'[c].passed = FALSE /\ call[c].pc = "idle"
  BY <1>1 DEF TypeOK, Begin, Idle, At
<1>3. /\ c \notin reached /\ reached' = reached /\ readBack'[c] = "none" /\ stored' = stored /\ proven' = proven
      /\ ticket'[t].state \in Stored
  BY <1>1, <1>2 DEF CallInv, Located, Fences, Begin, storeVars, Stored
<1>4. (Presented(c) /\ Located(c) /\ Bound(c) /\ Fences(c) /\ Progress(c))'
  BY <1>2, <1>3 DEF Presented, Located, Bound, Fences, WasReadBack, Progress, Active, BeforeProvider, AfterProvider, Bounded, Consuming
<1>5. Phased(c)'
  BY <1>1, <1>3 DEF CallInv, Phased
<1> QED BY <1>4, <1>5 DEF SelfInv

\* All calls keep their own part of the invariant.
LEMMA CallsKeep ==
    ASSUME KernelInv, NEW c \in Calls, Proceed(c) \/ \E t \in Tickets : Begin(c, t)
    PROVE  TypeOK' /\ Frame(c) /\ \A d \in Calls : SelfInv(d)'
<1>1. TypeOK' /\ Frame(c) /\ SelfInv(c)'
  BY ProceedTypes, ProceedFrame, ProceedSelf, BeginTypes, BeginFrame, BeginSelf
<1>2. ASSUME NEW d \in Calls, d # c PROVE SelfInv(d)'
  BY <1>1, <1>2, OtherCalls DEF SelfInv
<1> QED BY <1>1, <1>2

\* A call that reached the provider keeps what it presented.
LEMMA ReachedKeeps ==
    ASSUME KernelInv, NEW c \in Calls, Frame(c), NEW d \in reached
    PROVE  /\ d \in Calls
           /\ call'[d].ticket = call[d].ticket
           /\ KeyOf(d) \in Keys /\ KeyOf(d)' = KeyOf(d)
           /\ ApprovalOf(d) \in Approvals /\ ApprovalOf(d)' = ApprovalOf(d)
           /\ call[d].ticket \in Tickets /\ TicketKept(call[d].ticket)
<1>1. d \in Calls /\ call'[d].ticket = call[d].ticket
  BY DEF KernelInv, TypeOK, Frame
<1>2. call[d].ticket \in Tickets /\ KeyOf(d) \in Keys /\ ApprovalOf(d) \in Approvals
  BY <1>1, Named
<1>3. TicketKept(call[d].ticket)
  BY <1>2 DEF Frame
<1> QED BY <1>1, <1>2, <1>3 DEF TicketKept, KeyOf, ApprovalOf

-----------------------------------------------------------------------------
(* The evidence of tickets and receipts. *)

\* A call that has consumed its ticket does not read back again.
LEMMA ConsumedStays ==
    ASSUME KernelInv, NEW c \in Calls, Proceed(c), call[c].pc \in Consumed
    PROVE  call'[c].pc \in Consumed /\ readBack' = readBack
<1>1. TypeOK
  BY DEF KernelInv
<1>2. ConsumeApproval(c) \/ Complete(c) \/ Seal(c) \/ PutReceipt(c) \/ Catch(c) \/ Unlock(c)
  BY DEF Proceed, At, Consumed, Consuming,
   CheckApproval, Claim, ReserveApproval, AcquireLock, LockRefused, RecordRun, FenceBeforeProvider,
   ReserveTicket, StartExecution, NoExecutor, Abort, Send, Acknowledge, OutcomeUnknown,
   StartReadback, Readback, CheckBeforeFinalization, FinalizeTicket, ConsumeApproval,
   Complete, Seal, PutReceipt, Catch, Unlock
<1>3. CASE ConsumeApproval(c) \/ Complete(c)
  BY <1>1, <1>3, GoEffect DEF ConsumeApproval, Complete, Append, Consumed, Consuming, Locations, Active, AfterProvider
<1>4. CASE Seal(c) \/ PutReceipt(c) \/ Catch(c)
  BY <1>1, <1>4, GoEffect DEF Seal, PutReceipt, Catch, Append, Consumed, Consuming, Locations, Active, AfterProvider
<1>5. CASE Unlock(c)
  BY <1>1, <1>5, EndEffect DEF Unlock, Consumed
<1> QED BY <1>2, <1>3, <1>4, <1>5

\* Evidence of an execution is never lost.
LEMMA EvidenceStays ==
    ASSUME KernelInv, NEW c \in Calls, Frame(c), Proceed(c) \/ \E t \in Tickets : Begin(c, t),
           NEW d \in Calls, NEW t, Evidence(d, t)
    PROVE  Evidence(d, t)' /\ readBack'[d] = readBack[d]
<1>1. d \in reached' /\ call'[d].ticket = t
  BY ReachedKeeps DEF Evidence, Frame
<1>2. CASE d # c
  BY <1>1, <1>2 DEF Evidence, Frame
<1>3. CASE d = c
  <2>1. Proceed(c)
    BY <1>3 DEF Evidence, Begin, At, Consumed, Consuming
  <2> QED BY <1>1, <1>3, <2>1, ConsumedStays DEF Evidence
<1> QED BY <1>2, <1>3

\* Tickets are consumed by FinalizeTicket only.
LEMMA Finalizes ==
    ASSUME KernelInv, NEW c \in Calls, Proceed(c), NEW t \in Tickets,
           ticket[t].state # "finalized", ticket'[t].state = "finalized"
    PROVE  FinalizeTicket(c) /\ t = call[c].ticket
<1>1. ticket \in [Tickets -> TicketRecords]
  BY DEF KernelInv, TypeOK, TicketRecords
<1>2. ReserveTicket(c) \/ Abort(c) \/ FinalizeTicket(c)
  BY DEF Proceed, storeVars,
   CheckApproval, Claim, ReserveApproval, AcquireLock, LockRefused, RecordRun, FenceBeforeProvider,
   ReserveTicket, StartExecution, NoExecutor, Abort, Send, Acknowledge, OutcomeUnknown,
   StartReadback, Readback, CheckBeforeFinalization, FinalizeTicket, ConsumeApproval,
   Complete, Seal, PutReceipt, Catch, Unlock
<1>3. ~ReserveTicket(c)
  BY <1>1 DEF ReserveTicket, TicketRecords
<1>4. ~Abort(c)
  BY <1>1 DEF Abort, TicketRecords
<1>5. FinalizeTicket(c) => t = call[c].ticket
  BY <1>1 DEF FinalizeTicket, TicketRecords
<1> QED BY <1>2, <1>3, <1>4, <1>5

\* Consumed tickets stay evidenced.
LEMMA TicketsEvidenced ==
    ASSUME KernelInv, NEW c \in Calls, Proceed(c) \/ \E t \in Tickets : Begin(c, t),
           NEW t \in Tickets
    PROVE  TicketEvidenced(t)'
<1>1. Frame(c)
  BY CallsKeep
<1>2. CASE ticket[t].state = "finalized"
  <2>1. PICK d \in Calls : Evidence(d, t)
    BY <1>2 DEF KernelInv, TicketEvidenced
  <2>2. Evidence(d, t)'
    BY <1>1, <2>1, EvidenceStays
  <2> QED BY <2>2 DEF TicketEvidenced
<1>3. CASE ticket[t].state # "finalized" /\ ticket'[t].state = "finalized"
  <2>1. Proceed(c)
    BY <1>3 DEF Begin, storeVars
  <2>2. FinalizeTicket(c) /\ t = call[c].ticket
    BY <1>3, <2>1, Finalizes
  <2>3. c \in reached /\ readBack[c] # "none"
    BY <2>2 DEF KernelInv, CallInv, Located, Fences, WasReadBack, FinalizeTicket, At, AfterProvider
  <2>4. call'[c].pc \in Consumed /\ call'[c].ticket = call[c].ticket
    BY <2>2, GoEffect DEF KernelInv, FinalizeTicket, Consumed, Consuming, Locations, Active, AfterProvider
  <2>5. reached' = reached /\ readBack' = readBack
    BY <2>2 DEF FinalizeTicket
  <2>6. Evidence(c, t)'
    BY <2>2, <2>3, <2>4, <2>5 DEF Evidence
  <2> QED BY <2>6 DEF TicketEvidenced
<1> QED BY <1>2, <1>3 DEF TicketEvidenced

\* Receipts are written by PutReceipt only.
LEMMA Puts ==
    ASSUME KernelInv, NEW c \in Calls, Proceed(c), NEW k \in Keys,
           receipt[k] # "recovered", receipt'[k] = "recovered"
    PROVE  PutReceipt(c) /\ k = KeyOf(c) /\ call[c].passed
<1>1. receipt \in [Keys -> {"none", "recovered", "reconciliation_required"}]
  BY DEF KernelInv, TypeOK
<1>2. PutReceipt(c)
  BY DEF Proceed,
   CheckApproval, Claim, ReserveApproval, AcquireLock, LockRefused, RecordRun, FenceBeforeProvider,
   ReserveTicket, StartExecution, NoExecutor, Abort, Send, Acknowledge, OutcomeUnknown,
   StartReadback, Readback, CheckBeforeFinalization, FinalizeTicket, ConsumeApproval,
   Complete, Seal, PutReceipt, Catch, Unlock
<1> QED BY <1>1, <1>2 DEF PutReceipt

\* Receipts stay evidenced.
LEMMA ReceiptsEvidenced ==
    ASSUME KernelInv, NEW c \in Calls, Proceed(c) \/ \E t \in Tickets : Begin(c, t),
           NEW k \in Keys
    PROVE  ReceiptEvidenced(k)'
<1>1. Frame(c)
  BY CallsKeep
<1>2. CASE receipt[k] = "recovered"
  <2>1. PICK d \in Calls :
          /\ d = binding[k] /\ Evidence(d, call[d].ticket) /\ readBack[d] = "passed" /\ KeyOf(d) = k
          /\ ticket[call[d].ticket].state = "finalized" /\ approval[ApprovalOf(d)] = "used"
    BY <1>2 DEF KernelInv, ReceiptEvidenced
  <2>2. binding'[k] = d
    BY <1>1, <2>1, NoneAssumption DEF Frame
  <2>3. d \in reached
    BY <2>1 DEF Evidence
  <2>4. /\ call'[d].ticket = call[d].ticket
        /\ KeyOf(d)' = KeyOf(d) /\ ApprovalOf(d)' = ApprovalOf(d) /\ ApprovalOf(d) \in Approvals
        /\ TicketKept(call[d].ticket)
    BY <1>1, <2>3, ReachedKeeps
  <2>5. \A u : Evidence(d, u) => Evidence(d, u)' /\ readBack'[d] = readBack[d]
    BY <1>1, EvidenceStays
  <2>6. Evidence(d, call[d].ticket)' /\ readBack'[d] = "passed"
    BY <2>1, <2>4, <2>5 DEF Evidence
  <2>7. ticket'[call'[d].ticket].state = "finalized" /\ approval'[ApprovalOf(d)'] = "used"
    BY <1>1, <2>1, <2>4 DEF Frame, TicketKept
  <2> QED BY <2>1, <2>2, <2>4, <2>6, <2>7 DEF ReceiptEvidenced
<1>3. CASE receipt[k] # "recovered" /\ receipt'[k] = "recovered"
  <2>1. Proceed(c)
    BY <1>3 DEF Begin
  <2>2. PutReceipt(c) /\ k = KeyOf(c) /\ call[c].passed
    BY <1>3, <2>1, Puts
  <2>3. /\ c \in reached /\ readBack[c] = "passed" /\ binding[KeyOf(c)] = c
        /\ ticket[call[c].ticket].state = "finalized" /\ approval[ApprovalOf(c)] = "used"
    BY <2>2 DEF KernelInv, CallInv, Located, Fences, WasReadBack, Bound, Bounded, Progress, PutReceipt, At, Consuming, AfterProvider
  <2>4. call'[c].pc \in Consumed /\ call'[c].ticket = call[c].ticket
    BY <2>2, GoEffect DEF KernelInv, PutReceipt, Consumed, Consuming, Locations, Active, AfterProvider
  <2>5. UNCHANGED <<reached, readBack, binding, ticket, approval>>
    BY <2>2 DEF PutReceipt, storeVars
  <2>6. KeyOf(c)' = KeyOf(c) /\ ApprovalOf(c)' = ApprovalOf(c)
    BY <2>4, <2>5 DEF KeyOf, ApprovalOf
  <2> QED BY <2>2, <2>3, <2>4, <2>5, <2>6 DEF ReceiptEvidenced, Evidence
<1> QED BY <1>2, <1>3 DEF ReceiptEvidenced
-----------------------------------------------------------------------------
(* Claims and reservations. *)

\* What a step of a call does to the claims and reservations of others.
ClaimMove(c) ==
    /\ claims \ {KeyOf(c)} \subseteq claims'
    /\ Holding(c) \/ claims \subseteq claims'
    /\ \A a \in Approvals :
         reservation'[a] = reservation[a] \/ (Holding(c) /\ reservation[a] \in {None, KeyOf(c)})

\* What it does to its own: it comes to hold a claim that was free, and as
\* long as it stays the owner it releases nothing.
OwnMove(c) ==
    /\ Holding(c)' /\ ~Holding(c) =>
         /\ call[c].pc = "claim" /\ call'[c].pc = "approve"
         /\ KeyOf(c) \notin claims /\ KeyOf(c) \in claims'
    /\ Owner(c)' /\ Holding(c) =>
         /\ claims \subseteq claims'
         /\ call[c].pc # "abort"
         /\ \/ reservation' = reservation /\ call[c].pc # "approve"
            \/ reservation'[ApprovalOf(c)] = KeyOf(c)

\* Most steps touch neither claims nor reservations.
LEMMA QuietMove ==
    ASSUME NEW c \in Calls, Located(c), claims' = claims, reservation' = reservation,
           call[c].pc \in Active \ {"present", "claim", "approve", "abort", "unlock"}
    PROVE  ClaimMove(c) /\ OwnMove(c)
<1>1. Holding(c)
  BY DEF Located, Holding, Active
<1> QED BY <1>1 DEF ClaimMove, OwnMove

\* A call that ends before the provider holds nothing.
LEMMA Leaves ==
    ASSUME NEW c \in Calls, c \notin reached', call'[c].pc \in {"unlock", "done"}
    PROVE  ~Holding(c)' /\ ~Owner(c)'
BY DEF Holding, Owner, BeforeProvider

\* A release under a key touches reservations of that key only.
LEMMA ReleasedEffect ==
    ASSUME TypeOK, NEW a \in Approvals, NEW k \in Keys, NEW b \in Approvals
    PROVE  Released(a, k)[b] = reservation[b] \/ reservation[b] = k
BY DEF TypeOK, Released

\* What each step of a call in progress does to claims and reservations.
LEMMA ProceedClaims ==
    ASSUME KernelInv, NEW c \in Calls, Proceed(c)
    PROVE  ClaimMove(c) /\ OwnMove(c)
<1>1. TypeOK /\ CallInv(c) /\ Located(c)
  BY DEF KernelInv, CallInv
<1>2. call[c].ticket \in Tickets /\ KeyOf(c) \in Keys /\ ApprovalOf(c) \in Approvals
  BY InProgress, Named
<1> USE <1>1, <1>2
<1>3. CASE Claim(c)
  <2>1. call[c].pc = "claim" /\ c \notin reached /\ c \notin reached' /\ ~Holding(c)
    BY <1>3 DEF Claim, At, Located, Holding, BeforeProvider
  <2>2. CASE KeyOf(c) \notin claims /\ Go(c, "approve")
    <3>1. call'[c].pc = "approve"
      BY <2>2, GoEffect DEF Locations, Active, BeforeProvider
    <3> QED BY <1>3, <2>1, <2>2, <3>1 DEF Claim, ClaimMove, OwnMove
  <2>3. CASE End(c)
    <3>1. call'[c].pc = "done"
      BY <2>3, EndEffect
    <3> QED BY <1>3, <2>1, <3>1, Leaves DEF Claim, ClaimMove, OwnMove
  <2> QED BY <1>3, <2>2, <2>3 DEF Claim
<1>4. CASE ReserveApproval(c)
  <2>1. call[c].pc = "approve" /\ c \notin reached /\ c \notin reached' /\ Holding(c)
    BY <1>4 DEF ReserveApproval, At, Located, Holding, BeforeProvider
  <2>2. ClaimMove(c)
    BY <1>4, <2>1 DEF TypeOK, ReserveApproval, GiveUp, Reservable, ClaimMove
  <2>3. CASE End(c)
    <3>1. call'[c].pc = "done"
      BY <2>3, EndEffect
    <3> QED BY <2>1, <2>2, <3>1, Leaves DEF OwnMove
  <2>4. CASE reservation' = [reservation EXCEPT ![ApprovalOf(c)] = KeyOf(c)] /\ claims' = claims
    BY <2>1, <2>2, <2>4 DEF TypeOK, OwnMove
  <2> QED BY <1>4, <2>3, <2>4 DEF ReserveApproval, GiveUp
<1>5. CASE LockRefused(c)
  <2>1. call[c].pc = "lock" /\ c \notin reached /\ c \notin reached' /\ Holding(c)
    BY <1>5 DEF LockRefused, At, Located, Holding, BeforeProvider
  <2>2. ClaimMove(c)
    BY <1>5, <2>1, ReleasedEffect DEF LockRefused, GiveUp, ClaimMove
  <2>3. call'[c].pc = "done"
    BY <1>5, EndEffect DEF LockRefused, GiveUp
  <2> QED BY <2>1, <2>2, <2>3, Leaves DEF OwnMove
<1>6. CASE NoExecutor(c)
  <2>1. call[c].pc = "send" /\ c \notin reached /\ Holding(c) /\ binding[KeyOf(c)] = c
    BY <1>6 DEF NoExecutor, At, CallInv, Located, Bound, Holding, BeforeProvider, Bounded
  <2>2. ClaimMove(c)
    BY <1>6, <2>1, ReleasedEffect DEF NoExecutor, ClaimMove
  <2>3. call'[c].pc = "abort" /\ call'[c].ticket = call[c].ticket
    BY <1>6, GoEffect DEF NoExecutor, Locations, Active, BeforeProvider
  <2>4. KeyOf(c)' = KeyOf(c) /\ binding' = binding
    BY <1>6, <2>3 DEF NoExecutor, KeyOf
  <2> QED BY <2>1, <2>2, <2>3, <2>4 DEF OwnMove, Owner
<1>7. CASE Abort(c)
  <2>1. call[c].pc = "abort" /\ c \notin reached /\ c \notin reached' /\ Holding(c)
    BY <1>7 DEF Abort, At, Located, Holding, BeforeProvider
  <2>2. ClaimMove(c)
    BY <1>7, <2>1, ReleasedEffect DEF Abort, ClaimMove
  <2>3. call'[c].pc = "unlock"
    BY <1>7, GoEffect DEF Abort, Locations, Active
  <2> QED BY <2>1, <2>2, <2>3, Leaves DEF OwnMove
<1>8. CASE Unlock(c)
  <2>1. call[c].pc = "unlock" /\ reached' = reached /\ claims' = claims /\ reservation' = reservation
    BY <1>8 DEF Unlock, At
  <2>2. call'[c].pc = "done"
    BY <1>8, EndEffect DEF Unlock
  <2> QED BY <2>1, <2>2 DEF ClaimMove, OwnMove, Holding, BeforeProvider
<1>9. CASE \/ AcquireLock(c) \/ RecordRun(c) \/ FenceBeforeProvider(c) \/ ReserveTicket(c)
           \/ StartExecution(c)
  <2>1. call[c].pc \in {"lock", "record", "fence", "ticket", "start"} /\ claims' = claims /\ reservation' = reservation
    BY <1>9 DEF At, AcquireLock, RecordRun, FenceBeforeProvider, ReserveTicket, StartExecution, storeVars
  <2>2. call[c].pc \in Active \ {"present", "claim", "approve", "abort", "unlock"}
    BY <2>1 DEF Active, BeforeProvider
  <2> QED BY <2>1, <2>2, QuietMove
<1>10. CASE \/ Send(c) \/ Acknowledge(c) \/ OutcomeUnknown(c) \/ StartReadback(c)
            \/ Readback(c) \/ CheckBeforeFinalization(c) \/ FinalizeTicket(c)
            \/ ConsumeApproval(c) \/ Complete(c) \/ Seal(c) \/ PutReceipt(c) \/ Catch(c)
  <2>1. call[c].pc \in AfterProvider \cup {"send"} /\ claims' = claims /\ reservation' = reservation
    BY <1>10 DEF At, AfterProvider, Send, Acknowledge, OutcomeUnknown, StartReadback, Readback,
       CheckBeforeFinalization, FinalizeTicket, ConsumeApproval, Complete, Seal, PutReceipt, Catch, storeVars
  <2>2. call[c].pc \in Active \ {"present", "claim", "approve", "abort", "unlock"}
    BY <2>1 DEF Active, BeforeProvider, AfterProvider
  <2> QED BY <2>1, <2>2, QuietMove
<1>11. CASE CheckApproval(c)
  <2>1. call[c].pc = "present" /\ c \notin reached /\ reached' = reached
        /\ claims' = claims /\ reservation' = reservation
    BY <1>11 DEF CheckApproval, At, Located, BeforeProvider, storeVars
  <2>2. call'[c].pc = "claim"
    BY <1>11, GoEffect DEF CheckApproval, Locations, Active, BeforeProvider
  <2> QED BY <2>1, <2>2 DEF ClaimMove, OwnMove, Holding, BeforeProvider
<1> QED BY <1>3, <1>4, <1>5, <1>6, <1>7, <1>8, <1>9, <1>10, <1>11 DEF Proceed

\* The first step of a call does nothing to them.
LEMMA BeginClaims ==
    ASSUME KernelInv, NEW c \in Calls, NEW t \in Tickets, Begin(c, t)
    PROVE  ClaimMove(c) /\ OwnMove(c)
<1>1. TypeOK /\ Located(c)
  BY DEF KernelInv, CallInv
<1>2. call'[c].pc = "present" /\ call[c].pc = "idle" /\ c \notin reached /\ reached' = reached
      /\ claims' = claims /\ reservation' = reservation
  BY <1>1 DEF TypeOK, Begin, Idle, At, Located, storeVars
<1> QED BY <1>2 DEF ClaimMove, OwnMove, Holding, BeforeProvider

\* A call that holds its claim keeps its key and approval while it does.
LEMMA HoldingKeeps ==
    ASSUME KernelInv, NEW c \in Calls, Frame(c), NEW d \in Calls,
           call'[d].ticket = call[d].ticket, call[d].pc \in Active \/ d \in reached
    PROVE  /\ KeyOf(d) \in Keys /\ KeyOf(d)' = KeyOf(d)
           /\ ApprovalOf(d) \in Approvals /\ ApprovalOf(d)' = ApprovalOf(d)
<1>1. call[d].ticket \in Tickets /\ KeyOf(d) \in Keys /\ ApprovalOf(d) \in Approvals
  BY Named
<1>2. TicketKept(call[d].ticket)
  BY <1>1 DEF Frame
<1> QED BY <1>1, <1>2 DEF TicketKept, KeyOf, ApprovalOf

\* A call that holds a claim is in progress or reached the provider.
LEMMA HoldingActive ==
    ASSUME NEW d \in Calls, Holding(d)
    PROVE  call[d].pc \in Active \/ d \in reached
BY DEF Holding, Active

\* A call in progress keeps its ticket as long as it is in progress.
LEMMA ProceedTicket ==
    ASSUME KernelInv, NEW c \in Calls, Proceed(c), Holding(c)'
    PROVE  call'[c].ticket = call[c].ticket
<1>1. TypeOK
  BY DEF KernelInv
<1>2. c \in reached => call'[c].ticket = call[c].ticket
  BY ProceedFrame DEF Frame
<1>3. c \notin reached' => call'[c].pc # "done"
  BY DEF Holding, BeforeProvider
<1>4. End(c) /\ reached' = reached => call'[c].ticket = call[c].ticket
  BY <1>1, <1>2, <1>3, EndEffect
<1>5. \A pc \in Locations : Go(c, pc) => call'[c].ticket = call[c].ticket
  BY <1>1, GoEffect
<1>6. CASE \/ CheckApproval(c) \/ Claim(c) \/ ReserveApproval(c) \/ AcquireLock(c) \/ LockRefused(c) \/ RecordRun(c)
           \/ FenceBeforeProvider(c) \/ StartExecution(c) \/ NoExecutor(c) \/ Abort(c) \/ Unlock(c)
  BY <1>4, <1>5, <1>6 DEF CheckApproval, Claim, ReserveApproval, GiveUp, AcquireLock, LockRefused, RecordRun,
     FenceBeforeProvider, StartExecution, Append, NoExecutor, Abort, Unlock, Locations, Active, BeforeProvider
<1>7. CASE ReserveTicket(c)
  BY <1>1, <1>5, <1>7 DEF TypeOK, ReserveTicket, Locations, Active, BeforeProvider
<1>8. CASE Send(c)
  BY <1>5, <1>8 DEF Send, Locations, Active, AfterProvider
<1>9. CASE \/ Acknowledge(c) \/ OutcomeUnknown(c) \/ StartReadback(c)
           \/ Readback(c) \/ CheckBeforeFinalization(c) \/ FinalizeTicket(c)
           \/ ConsumeApproval(c) \/ Complete(c) \/ Seal(c) \/ PutReceipt(c) \/ Catch(c)
  <2>1. call[c].pc \in AfterProvider
    BY <1>9 DEF At, AfterProvider, Acknowledge, OutcomeUnknown, StartReadback, Readback,
       CheckBeforeFinalization, FinalizeTicket, ConsumeApproval, Complete, Seal, PutReceipt, Catch
  <2> QED BY <1>2, <2>1 DEF KernelInv, CallInv, Located
<1> QED BY <1>6, <1>7, <1>8, <1>9 DEF Proceed

\* A call comes to its claim once, from the check of its approval.
LEMMA ProceedNotClaim ==
    ASSUME KernelInv, NEW c \in Calls, Proceed(c), ~CheckApproval(c)
    PROVE  call'[c].pc \notin {"present", "claim"}
<1>1. TypeOK
  BY DEF KernelInv
<1>2. \A pc \in Locations : Go(c, pc) => call'[c].pc = pc
  BY <1>1, GoEffect
<1>3. End(c) => call'[c].pc = "done"
  BY <1>1, EndEffect
<1>4. CASE \/ Claim(c) \/ ReserveApproval(c) \/ AcquireLock(c) \/ LockRefused(c) \/ RecordRun(c)
           \/ FenceBeforeProvider(c) \/ StartExecution(c) \/ NoExecutor(c) \/ Abort(c) \/ Unlock(c)
  BY <1>2, <1>3, <1>4 DEF Claim, ReserveApproval, GiveUp, AcquireLock, LockRefused, RecordRun,
     FenceBeforeProvider, StartExecution, Append, NoExecutor, Abort, Unlock, Locations, Active, BeforeProvider
<1>5. CASE ReserveTicket(c) \/ Readback(c)
  BY <1>1, <1>2, <1>5 DEF TypeOK, ReserveTicket, Readback, Locations, Active, BeforeProvider, AfterProvider
<1>6. CASE \/ Send(c) \/ Acknowledge(c) \/ OutcomeUnknown(c) \/ StartReadback(c)
           \/ CheckBeforeFinalization(c) \/ FinalizeTicket(c)
           \/ ConsumeApproval(c) \/ Complete(c) \/ Seal(c) \/ PutReceipt(c) \/ Catch(c)
  BY <1>2, <1>6 DEF Send, Acknowledge, OutcomeUnknown, StartReadback, Append, CheckBeforeFinalization,
     FinalizeTicket, ConsumeApproval, Complete, Seal, PutReceipt, Catch, Locations, Active, AfterProvider
<1> QED BY <1>4, <1>5, <1>6 DEF Proceed

\* A call that begins holds nothing.
LEMMA BeginNotHolding ==
    ASSUME KernelInv, NEW c \in Calls, NEW t \in Tickets, Begin(c, t)
    PROVE  ~Holding(c)'
<1>1. TypeOK /\ Located(c)
  BY DEF KernelInv, CallInv
<1>2. call'[c].pc = "present" /\ c \notin reached'
  BY <1>1 DEF TypeOK, Begin, Idle, At, Located
<1> QED BY <1>2 DEF Holding, BeforeProvider

\* Who owns a key after a step, and held it before, owned it before.
LEMMA OwnerStays ==
    ASSUME KernelInv, NEW c \in Calls, Frame(c), NEW d \in Calls,
           call'[d].ticket = call[d].ticket, Holding(d), Owner(d)',
           d # c \/ call[d].pc # "abort"
    PROVE  Owner(d) /\ KeyOf(d)' = KeyOf(d) /\ ApprovalOf(d)' = ApprovalOf(d)
           /\ KeyOf(d) \in Keys /\ ApprovalOf(d) \in Approvals
<1>1. KeyOf(d)' = KeyOf(d) /\ KeyOf(d) \in Keys /\ ApprovalOf(d)' = ApprovalOf(d) /\ ApprovalOf(d) \in Approvals
  BY HoldingKeeps, HoldingActive
<1>2. binding[KeyOf(d)] # None => binding'[KeyOf(d)] = binding[KeyOf(d)]
  BY <1>1 DEF Frame
<1>3. d # c => call'[d].pc = call[d].pc
  BY DEF Frame
<1> QED BY <1>1, <1>2, <1>3, NoneAssumption DEF Owner

\* A step of one call takes nothing from the owner of another key.
LEMMA OtherOwned ==
    ASSUME KernelInv, NEW c \in Calls, Proceed(c) \/ \E t \in Tickets : Begin(c, t),
           Frame(c), ClaimMove(c), OwnMove(c), NEW d \in Calls \ {c}
    PROVE  Owned(d)' /\ Reserved(d)'
<1>1. CallInv(d)
  BY DEF KernelInv
<1>2. call'[d] = call[d] /\ (d \in reached' <=> d \in reached)
  BY DEF Frame
<1>3. Holding(d)' <=> Holding(d)
  BY <1>2 DEF Holding
<1> SUFFICES ASSUME Owner(d)' PROVE Owned(d)' /\ Reserved(d)'
  BY DEF Owned, Reserved
<1>4. Owner(d) /\ KeyOf(d)' = KeyOf(d) /\ ApprovalOf(d)' = ApprovalOf(d)
      /\ KeyOf(d) \in Keys /\ ApprovalOf(d) \in Approvals /\ Holding(d)
  <2>1. Holding(d)
    BY <1>3 DEF Owner
  <2> QED BY <1>2, <2>1, OwnerStays
<1>5. KeyOf(d) \in claims /\ \A e \in Calls \ {d} : Holding(e) => KeyOf(e) # KeyOf(d)
  BY <1>1, <1>4 DEF CallInv, Owned
<1>6. KeyOf(d) \in claims'
  BY <1>5 DEF ClaimMove
<1>7. ASSUME NEW e \in Calls \ {d}, Holding(e)' PROVE KeyOf(e)' # KeyOf(d)
  <2>1. CASE e # c
    <3>1. call'[e] = call[e] /\ Holding(e)
      BY <1>7, <2>1 DEF Frame, Holding
    <3>2. KeyOf(e)' = KeyOf(e)
      BY <3>1, HoldingKeeps, HoldingActive
    <3> QED BY <1>5, <3>1, <3>2
  <2>2. CASE e = c
    <3>1. Proceed(c)
      BY <1>7, <2>2, BeginNotHolding
    <3>2. call[c].pc \in Active /\ call'[c].ticket = call[c].ticket
      BY <1>7, <2>2, <3>1, InProgress, ProceedTicket
    <3>3. KeyOf(c)' = KeyOf(c)
      BY <3>2, HoldingKeeps
    <3>4. CASE Holding(c)
      BY <1>5, <2>2, <3>3, <3>4
    <3>5. CASE ~Holding(c)
      BY <1>5, <1>7, <2>2, <3>3, <3>5 DEF OwnMove
    <3> QED BY <3>4, <3>5
  <2> QED BY <2>1, <2>2
<1>8. Owned(d)'
  BY <1>4, <1>6, <1>7 DEF Owned
<1>9. Reserved(d)'
  <2>1. reservation[ApprovalOf(d)] = KeyOf(d) => reservation'[ApprovalOf(d)] = KeyOf(d)
    BY <1>4, <1>5, NoneAssumption DEF ClaimMove
  <2> QED BY <1>1, <1>2, <1>4, <2>1 DEF CallInv, Reserved, Frame
<1> QED BY <1>8, <1>9

\* A call becomes an owner only of a claim that nobody else holds.
LEMMA SelfOwned ==
    ASSUME KernelInv, NEW c \in Calls, Proceed(c) \/ \E t \in Tickets : Begin(c, t),
           Frame(c), ClaimMove(c), OwnMove(c)
    PROVE  Owned(c)' /\ Reserved(c)'
<1> SUFFICES ASSUME Owner(c)' PROVE Owned(c)' /\ Reserved(c)'
  BY DEF Owned, Reserved
<1>1. CallInv(c) /\ Holding(c)'
  BY DEF KernelInv, Owner
<1>2. Proceed(c)
  BY <1>1, BeginNotHolding
<1>3. call[c].pc \in Active /\ call'[c].ticket = call[c].ticket
  BY <1>1, <1>2, InProgress, ProceedTicket
<1>4. KeyOf(c)' = KeyOf(c) /\ ApprovalOf(c)' = ApprovalOf(c) /\ KeyOf(c) \in Keys /\ ApprovalOf(c) \in Approvals
  BY <1>3, HoldingKeeps
<1>5. ASSUME NEW e \in Calls \ {c}, Holding(e)' PROVE Holding(e) /\ KeyOf(e)' = KeyOf(e)
  <2>1. call'[e] = call[e] /\ Holding(e)
    BY <1>5 DEF Frame, Holding
  <2> QED BY <2>1, HoldingKeeps, HoldingActive
<1>6. CASE Holding(c)
  <2>1. claims \subseteq claims' /\ call[c].pc # "abort"
        /\ (\/ reservation' = reservation /\ call[c].pc # "approve"
            \/ reservation'[ApprovalOf(c)] = KeyOf(c))
    BY <1>6 DEF OwnMove
  <2>2. Owner(c)
    BY <1>3, <1>6, <2>1, OwnerStays
  <2>3. Owned(c)'
    BY <1>1, <1>4, <1>5, <2>1, <2>2 DEF CallInv, Owned
  <2>4. Reserved(c)'
    BY <1>1, <1>4, <2>1, <2>2 DEF CallInv, Reserved, Frame
  <2> QED BY <2>3, <2>4
<1>7. CASE ~Holding(c)
  <2>1. call[c].pc = "claim" /\ call'[c].pc = "approve" /\ KeyOf(c) \notin claims /\ KeyOf(c) \in claims'
    BY <1>1, <1>7 DEF OwnMove
  <2>2. binding[KeyOf(c)] = None
    <3>1. binding[KeyOf(c)] # c
      BY <1>1, <2>1 DEF CallInv, Fresh
    <3> QED BY <1>4, <3>1 DEF Owner, Frame
  <2>3. ASSUME NEW e \in Calls \ {c}, Holding(e)' PROVE KeyOf(e)' # KeyOf(c)
    <3>1. Holding(e) /\ KeyOf(e)' = KeyOf(e)
      BY <1>5, <2>3
    <3>2. Owned(e)
      BY DEF KernelInv, CallInv
    <3> QED BY <2>1, <2>2, <3>1, <3>2, NoneAssumption DEF Owner, Owned
  <2> QED BY <1>4, <2>1, <2>3 DEF Owned, Reserved
<1> QED BY <1>6, <1>7

\* Keys stay unbound to calls that have not claimed them.
LEMMA FreshKeeps ==
    ASSUME KernelInv, NEW c \in Calls, Proceed(c) \/ \E t \in Tickets : Begin(c, t),
           Frame(c), SelfInv(c)', NEW d \in Calls
    PROVE  Fresh(d)'
<1>1. TypeOK /\ CallInv(d)
  BY DEF KernelInv
<1>2. CASE d # c
  <2> SUFFICES ASSUME call'[d].pc \in {"present", "claim"} PROVE binding'[KeyOf(d)'] # d
    BY DEF Fresh
  <2>1. call'[d] = call[d] /\ call[d].pc \in Active
    BY <1>2 DEF Frame, Active, BeforeProvider
  <2>2. KeyOf(d)' = KeyOf(d) /\ KeyOf(d) \in Keys
    BY <2>1, HoldingKeeps
  <2> QED BY <1>1, <1>2, <2>1, <2>2 DEF CallInv, Fresh, Frame
<1>3. ASSUME d = c, NEW t \in Tickets, Begin(c, t) PROVE Fresh(d)'
  <2>1. call \in [Calls -> CallRecords]
    BY <1>1 DEF TypeOK, CallRecords, Locations
  <2>2. call'[c].ticket = t
    BY <1>3, <2>1 DEF Begin, Idle
  <2>3. ticket' = ticket /\ binding' = binding /\ binding[ticket[t].key] = None
    BY <1>3 DEF Begin, storeVars
  <2> QED BY <1>3, <2>2, <2>3, NoneAssumption DEF Fresh, KeyOf
<1>4. CASE d = c /\ Proceed(c) /\ ~CheckApproval(c)
  <2>1. call'[c].pc \notin {"present", "claim"}
    BY <1>4, ProceedNotClaim
  <2> QED BY <1>4, <2>1 DEF Fresh
<1>5. CASE d = c /\ CheckApproval(c)
  <2>1. call[c].pc = "present" /\ ticket' = ticket /\ binding' = binding
    BY <1>5 DEF CheckApproval, At, storeVars
  <2>2. call'[c].ticket = call[c].ticket
    BY <1>1, <1>5, GoEffect DEF CheckApproval, Locations, Active, BeforeProvider
  <2> QED BY <1>1, <1>5, <2>1, <2>2 DEF CallInv, Fresh, KeyOf
<1> QED BY <1>2, <1>3, <1>4, <1>5

\* The invariant under the steps of a call.
LEMMA CallStepKeeps ==
    ASSUME KernelInv, NEW c \in Calls, Proceed(c) \/ \E t \in Tickets : Begin(c, t)
    PROVE  KernelInv'
<1>1. TypeOK' /\ Frame(c) /\ \A d \in Calls : SelfInv(d)'
  BY CallsKeep
<1>2. ClaimMove(c) /\ OwnMove(c)
  BY ProceedClaims, BeginClaims
<1>3. TicketsNamed'
  BY <1>1 DEF KernelInv, TicketsNamed, Frame, TicketKept
<1>4. VerifyPhased'
  BY <1>1 DEF KernelInv, VerifyPhased, Frame
<1>5. ASSUME NEW d \in Calls PROVE CallInv(d)'
  <2>1. Owned(d)' /\ Reserved(d)'
    BY <1>1, <1>2, OtherOwned, SelfOwned
  <2>2. Fresh(d)'
    BY <1>1, FreshKeeps
  <2> QED BY <1>1, <2>1, <2>2 DEF SelfInv, CallInv
<1>6. (\A t \in Tickets : TicketEvidenced(t)') /\ (\A k \in Keys : ReceiptEvidenced(k)')
  BY TicketsEvidenced, ReceiptsEvidenced
<1> QED BY <1>1, <1>3, <1>4, <1>5, <1>6 DEF KernelInv

-----------------------------------------------------------------------------
(* The steps of everybody else. *)

\* What they leave alone.
EnvFrame ==
    /\ UNCHANGED <<call, reached, readBack, binding, claims, receipt>>
    /\ lock'.holder = lock.holder
    /\ proven \subseteq proven' /\ failed \subseteq failed'
    /\ \A a \in Approvals : approval[a] = "used" => approval'[a] = "used"
    /\ \A t \in Tickets : ticket[t].state \in Stored => ticket'[t] = ticket[t]
    /\ \A t \in Tickets : ticket'[t].state = "finalized" => ticket[t].state = "finalized"

\* A reservation that somebody relies on is lost to a failing issue only.
EnvReservations ==
    \A a \in Approvals : reservation[a] # None =>
        reservation'[a] = reservation[a] \/ <<a, reservation[a]>> \in failed'

\* Issuing a ticket takes a reservation away only by failing.
LEMMA IssueSteps ==
    ASSUME KernelInv, NEW t \in Tickets, Issue(t)
    PROVE  EnvFrame /\ EnvReservations /\ TicketsNamed' /\ stored' = stored /\ verify' = verify
<1>1. TypeOK /\ TicketsNamed /\ ticket \in [Tickets -> TicketRecords]
  BY DEF KernelInv, TypeOK, TicketRecords
<1>2. ASSUME NEW k \in Keys, IssueReserve(t, k)
      PROVE  EnvFrame /\ EnvReservations /\ TicketsNamed' /\ stored' = stored /\ verify' = verify
  <2>1. index \in Approvals
    BY <1>1, <1>2 DEF TypeOK, IssueReserve
  <2>2. EnvFrame
    BY <1>1, <1>2 DEF IssueReserve, EnvFrame, Stored
  <2>3. EnvReservations
    BY <1>1, <1>2, <2>1 DEF TypeOK, IssueReserve, Reservable, EnvReservations
  <2>4. TicketsNamed'
    BY <1>1, <1>2, <2>1 DEF IssueReserve, TicketsNamed
  <2> QED BY <1>2, <2>2, <2>3, <2>4 DEF IssueReserve
<1>3. CASE IssuePut(t)
  <2>1. ticket' = [ticket EXCEPT ![t] = [ticket[t] EXCEPT !.state = "issued"]] /\ ticket[t].state = "pending"
    BY <1>1, <1>3 DEF IssuePut
  <2>2. EnvFrame
    BY <1>1, <1>3, <2>1 DEF IssuePut, EnvFrame, Stored, TicketRecords
  <2>3. TicketsNamed'
    BY <1>1, <2>1 DEF TicketsNamed, TicketRecords
  <2> QED BY <1>3, <2>2, <2>3 DEF IssuePut, EnvReservations
<1>4. CASE IssueFail(t)
  <2>1. ticket[t].approval \in Approvals /\ ticket[t].key \in Keys
    BY <1>1, <1>4 DEF IssueFail, TicketsNamed
  <2>2. EnvFrame
    BY <1>1, <1>4 DEF IssueFail, EnvFrame, Stored, NoTicket
  <2>3. EnvReservations
    BY <1>1, <1>4, <2>1 DEF TypeOK, IssueFail, Released, EnvReservations
  <2>4. TicketsNamed'
    BY <1>1, <1>4 DEF IssueFail, NoTicket, TicketsNamed
  <2> QED BY <1>4, <2>2, <2>3, <2>4 DEF IssueFail
<1> QED BY <1>2, <1>3, <1>4 DEF Issue

\* A verification request writes what it read, or the phases its readback
\* justifies.
LEMMA VerifySteps ==
    ASSUME KernelInv, Verify
    PROVE  EnvFrame /\ EnvReservations /\ TicketsNamed' /\ VerifyPhased' /\ \A c \in Calls : Phased(c)'
<1>1. TypeOK /\ VerifyPhased /\ TicketsNamed /\ \A c \in Calls : Phased(c)
  BY DEF KernelInv, CallInv
<1>2. EnvFrame /\ EnvReservations /\ TicketsNamed' /\ reached' = reached /\ proven \subseteq proven'
  BY <1>1 DEF Verify, VerifyRead, VerifyPassed, VerifyFailed, EnvFrame, EnvReservations, TicketsNamed, storeVars
<1>3. ASSUME NEW c \in Calls, VerifyRead(c) PROVE VerifyPhased' /\ \A d \in Calls : Phased(d)'
  BY <1>1, <1>3 DEF VerifyRead, VerifyPhased, Phased
<1>4. CASE VerifyPassed \/ VerifyFailed
  <2>1. PICK v \in Calls : v = verify.run /\ verify.phase \in Phases \cup {"none"}
    BY <1>1, <1>4 DEF TypeOK, VerifyPassed, VerifyFailed
  <2>2. VerifyPhased'
    BY <1>4 DEF VerifyPassed, VerifyFailed, NoVerify, VerifyPhased
  <2>3. \A d \in Calls \ {v} : stored'[d] = stored[d]
    BY <1>1, <1>4, <2>1 DEF TypeOK, VerifyPassed, VerifyFailed
  <2>4. CASE VerifyPassed
    <3>1. v \in proven'
      BY <2>1, <2>4 DEF VerifyPassed
    <3>2. \A s \in Passing(verify.phase) : s \in LatePhases => v \in reached
      BY <1>1, <2>1, <2>4 DEF VerifyPassed, VerifyPhased, Passing, LatePhases, Phases
    <3>3. stored'[v] \in Passing(verify.phase) \cup {stored[v], "failed_closed"}
      BY <1>1, <2>1, <2>4 DEF TypeOK, VerifyPassed
    <3>4. Phased(v)'
      BY <1>1, <1>2, <2>1, <3>1, <3>2, <3>3 DEF Phased, LatePhases, GoodPhases
    <3>5. ASSUME NEW d \in Calls \ {v} PROVE Phased(d)'
      BY <1>1, <1>2, <2>3 DEF Phased
    <3>6. ASSUME NEW d \in Calls PROVE Phased(d)'
      BY <3>4, <3>5
    <3> QED BY <1>2, <2>2, <3>6
  <2>5. CASE VerifyFailed
    <3>1. \A s \in Failing(verify.phase) :
            (s \in LatePhases => v \in reached) /\ (s \in GoodPhases => v \in proven)
      BY <1>1, <2>1, <2>5 DEF VerifyFailed, VerifyPhased, Failing, LatePhases, GoodPhases, Phases
    <3>2. stored'[v] \in Failing(verify.phase) \cup {stored[v], "failed_closed"}
      BY <1>1, <2>1, <2>5 DEF TypeOK, VerifyFailed
    <3>3. Phased(v)'
      BY <1>1, <1>2, <2>1, <3>1, <3>2 DEF Phased, LatePhases, GoodPhases
    <3>4. ASSUME NEW d \in Calls \ {v} PROVE Phased(d)'
      BY <1>1, <1>2, <2>3 DEF Phased
    <3>5. ASSUME NEW d \in Calls PROVE Phased(d)'
      BY <3>3, <3>4
    <3> QED BY <1>2, <2>2, <3>5
  <2> QED BY <1>4, <2>4, <2>5
<1> QED BY <1>2, <1>3, <1>4 DEF Verify

\* What everybody else's steps leave alone.
LEMMA EnvSteps ==
    ASSUME KernelInv, EnvStep
    PROVE  EnvFrame /\ EnvReservations /\ TicketsNamed' /\ VerifyPhased' /\ \A c \in Calls : Phased(c)'
<1>1. TypeOK /\ VerifyPhased /\ TicketsNamed /\ \A c \in Calls : Phased(c)
  BY DEF KernelInv, CallInv
<1>2. ASSUME NEW a \in Approvals, CreateApproval(a)
      PROVE  EnvFrame /\ EnvReservations /\ TicketsNamed' /\ VerifyPhased' /\ \A c \in Calls : Phased(c)'
  BY <1>1, <1>2 DEF TypeOK, CreateApproval, EnvFrame, EnvReservations, TicketsNamed, VerifyPhased, Phased
<1>3. ASSUME NEW t \in Tickets, Issue(t)
      PROVE  EnvFrame /\ EnvReservations /\ TicketsNamed' /\ VerifyPhased' /\ \A c \in Calls : Phased(c)'
  <2>1. EnvFrame /\ EnvReservations /\ TicketsNamed' /\ stored' = stored /\ verify' = verify
    BY <1>3, IssueSteps
  <2> QED BY <1>1, <2>1 DEF EnvFrame, VerifyPhased, Phased
<1>4. CASE Expire
  BY <1>1, <1>4 DEF TypeOK, Expire, EnvFrame, EnvReservations, TicketsNamed, VerifyPhased, Phased
<1> QED BY <1>2, <1>3, <1>4, VerifySteps DEF EnvStep

\* The invariant under those steps.
LEMMA EnvStepKeeps ==
    ASSUME KernelInv, EnvStep
    PROVE  KernelInv'
<1>1. /\ TypeOK' /\ EnvFrame /\ EnvReservations /\ TicketsNamed' /\ VerifyPhased'
      /\ \A c \in Calls : Phased(c)'
  BY EnvTypes, EnvSteps
<1>2. ASSUME NEW c \in Calls, call[c].pc \in Active \/ c \in reached
      PROVE  /\ ticket'[call[c].ticket] = ticket[call[c].ticket] /\ call[c].ticket \in Tickets
             /\ KeyOf(c)' = KeyOf(c) /\ ApprovalOf(c)' = ApprovalOf(c)
             /\ KeyOf(c) \in Keys /\ ApprovalOf(c) \in Approvals
  <2>1. call[c].ticket \in Tickets /\ ticket[call[c].ticket].state \in Stored
        /\ KeyOf(c) \in Keys /\ ApprovalOf(c) \in Approvals
    BY <1>2, Named
  <2>2. ticket'[call[c].ticket] = ticket[call[c].ticket] /\ call' = call
    BY <1>1, <2>1 DEF EnvFrame
  <2> QED BY <2>1, <2>2 DEF KeyOf, ApprovalOf
<1>3. ASSUME NEW c \in Calls PROVE CallInv(c)'
  <2>1. CallInv(c)
    BY DEF KernelInv
  <2>2. Presented(c)' /\ Located(c)' /\ Fences(c)'
    BY <1>1, <1>2, <2>1 DEF CallInv, Presented, Located, Fences, WasReadBack, EnvFrame
  <2>3. Bounded \cup Consuming \cup {"present", "claim", "complete", "seal", "put"} \subseteq Active
    BY DEF Bounded, Consuming, Active, BeforeProvider, AfterProvider
  <2>4. Bound(c)' /\ Fresh(c)'
    BY <1>1, <1>2, <2>1, <2>3 DEF CallInv, Bound, Fresh, EnvFrame
  <2>5. Progress(c)'
    BY <1>1, <1>2, <2>1, <2>3 DEF CallInv, Progress, EnvFrame
  <2>6. \A d \in Calls : (Holding(d)' <=> Holding(d)) /\ (Holding(d) => KeyOf(d)' = KeyOf(d))
    BY <1>1, <1>2, HoldingActive DEF Holding, EnvFrame
  <2>7. Owner(c)' => Owner(c) /\ Holding(c)
    BY <1>1, <2>6 DEF Owner, EnvFrame
  <2>8. Owned(c)'
    BY <1>1, <2>1, <2>6, <2>7 DEF CallInv, Owned, EnvFrame
  <2>9. Reserved(c)'
    <3> SUFFICES ASSUME Owner(c)', call'[c].pc # "approve"
                 PROVE  \/ reservation'[ApprovalOf(c)'] = KeyOf(c)'
                        \/ <<ApprovalOf(c)', KeyOf(c)'>> \in failed'
      BY DEF Reserved
    <3>1. Owner(c) /\ Holding(c) /\ call' = call
      BY <1>1, <2>7 DEF EnvFrame
    <3>2. /\ KeyOf(c)' = KeyOf(c) /\ ApprovalOf(c)' = ApprovalOf(c)
          /\ KeyOf(c) \in Keys /\ ApprovalOf(c) \in Approvals
      BY <1>2, <3>1, HoldingActive
    <3>3. reservation[ApprovalOf(c)] = KeyOf(c) \/ <<ApprovalOf(c), KeyOf(c)>> \in failed
      BY <2>1, <3>1 DEF CallInv, Reserved
    <3> QED BY <1>1, <3>2, <3>3, NoneAssumption DEF EnvFrame, EnvReservations
  <2> QED BY <1>1, <2>2, <2>4, <2>5, <2>8, <2>9 DEF CallInv
<1>4. \A c \in Calls, t \in Tickets : Evidence(c, t) => Evidence(c, t)'
  BY <1>1 DEF Evidence, EnvFrame
<1>5. ASSUME NEW t \in Tickets PROVE TicketEvidenced(t)'
  BY <1>1, <1>4 DEF KernelInv, TicketEvidenced, EnvFrame
<1>6. ASSUME NEW k \in Keys PROVE ReceiptEvidenced(k)'
  <2> SUFFICES ASSUME receipt'[k] = "recovered" PROVE ReceiptEvidenced(k)'
    BY DEF ReceiptEvidenced
  <2>1. PICK c \in Calls :
          /\ c = binding[k] /\ Evidence(c, call[c].ticket) /\ readBack[c] = "passed" /\ KeyOf(c) = k
          /\ ticket[call[c].ticket].state = "finalized" /\ approval[ApprovalOf(c)] = "used"
    BY <1>1 DEF KernelInv, ReceiptEvidenced, EnvFrame
  <2>2. c \in reached
    BY <2>1 DEF Evidence
  <2>3. /\ ticket'[call[c].ticket] = ticket[call[c].ticket]
        /\ KeyOf(c)' = KeyOf(c) /\ ApprovalOf(c)' = ApprovalOf(c) /\ ApprovalOf(c) \in Approvals
    BY <1>2, <2>2
  <2> QED BY <1>1, <2>1, <2>3 DEF ReceiptEvidenced, Evidence, EnvFrame
<1> QED BY <1>1, <1>3, <1>5, <1>6 DEF KernelInv

-----------------------------------------------------------------------------
(* The theorems. *)

\* The invariant holds initially.
LEMMA InitKernelInv == Init => KernelInv
<1> SUFFICES ASSUME Init PROVE KernelInv
  OBVIOUS
<1>1. TypeOK
  BY BoundAssumption DEF Init, TypeOK, Idle, NoTicket, NoVerify, Free, TicketStates
<1>2. TicketsNamed /\ VerifyPhased
  BY DEF Init, TicketsNamed, VerifyPhased, NoTicket, NoVerify
<1>3. ASSUME NEW c \in Calls PROVE CallInv(c)
  <2>1. call[c].pc = "idle" /\ call[c].passed = FALSE /\ stored[c] = "none"
        /\ reached = {} /\ readBack[c] = "none"
    BY DEF Init, Idle
  <2> QED BY <2>1 DEF CallInv, Presented, Located, Bound, Fences, WasReadBack, Progress, Phased, Fresh, Owned, Reserved,
         Owner, Holding, Active, BeforeProvider, AfterProvider, Bounded, Consuming, LatePhases, GoodPhases, Phases
<1>4. (\A t \in Tickets : TicketEvidenced(t)) /\ (\A k \in Keys : ReceiptEvidenced(k))
  BY DEF Init, NoTicket, TicketEvidenced, ReceiptEvidenced
<1> QED BY <1>1, <1>2, <1>3, <1>4 DEF KernelInv

\* The invariant is about these variables only.
LEMMA StutterKeeps == KernelInv /\ UNCHANGED vars => KernelInv'
<1> SUFFICES ASSUME KernelInv, UNCHANGED vars PROVE KernelInv'
  OBVIOUS
<1>1. UNCHANGED <<approval, index, reservation, claims, ticket, lock, binding, stored, receipt,
                  call, verify, faults, reached, proven, readBack, failed>>
  BY DEF vars, storeVars
<1>2. TypeOK' /\ TicketsNamed' /\ VerifyPhased'
  BY <1>1 DEF KernelInv, TypeOK, TicketsNamed, VerifyPhased
<1>3. ASSUME NEW c \in Calls PROVE CallInv(c)'
  BY <1>1 DEF KernelInv, CallInv, Presented, Located, Bound, Fences, WasReadBack, Progress, Phased, Fresh, Owned,
     Reserved, Owner, Holding, KeyOf, ApprovalOf
<1>4. (\A t \in Tickets : TicketEvidenced(t)') /\ (\A k \in Keys : ReceiptEvidenced(k)')
  BY <1>1 DEF KernelInv, TicketEvidenced, ReceiptEvidenced, Evidence, KeyOf, ApprovalOf
<1> QED BY <1>2, <1>3, <1>4 DEF KernelInv

\* The inductive invariant holds in every state of every behaviour of the
\* kernel, whatever calls overlap, fail, die or lose the lock.
THEOREM KernelInvariant == Spec => []KernelInv
<1>1. KernelInv /\ [Next]_vars => KernelInv'
  <2> SUFFICES ASSUME KernelInv, [Next]_vars PROVE KernelInv'
    OBVIOUS
  <2>1. CASE UNCHANGED vars
    BY <2>1, StutterKeeps
  <2>2. CASE Next
    BY <2>2, NextCases, EnvStepKeeps, CallStepKeeps
  <2> QED BY <2>1, <2>2
<1> QED BY <1>1, InitKernelInv, PTL DEF Spec

\* executeRemediationStep and verifyRemediationStep keep the types of the
\* control store's tables.
THEOREM TypeCorrect == Spec => []TypeOK
<1>1. KernelInv => TypeOK
  BY DEF KernelInv
<1> QED BY <1>1, KernelInvariant, PTL

\* executeRemediationStep reaches the provider at most once under an
\* idempotency key: putRun has bound the key to the call's run before.
THEOREM DispatchedOnce == Spec => []OneDispatchPerKey
<1>1. KernelInv => OneDispatchPerKey
  BY DEF KernelInv, TypeOK, CallInv, Bound, OneDispatchPerKey
<1> QED BY <1>1, KernelInvariant, PTL

\* finalizeExecutionTicket consumes the ticket only of an execution that was
\* read back under the lock, although the fence is never checked during the
\* readback itself.
THEOREM ConsumedWasReadBack == Spec => []ConsumedTicketWasReadBack
<1>1. KernelInv => ConsumedTicketWasReadBack
  BY DEF KernelInv, TicketEvidenced, Evidence, ConsumedTicketWasReadBack
<1> QED BY <1>1, KernelInvariant, PTL

\* A run is stored as verified or recovered only after the provider and a
\* passed readback, although verifyRemediationStep writes back runs it read
\* earlier.
THEOREM RecoveryWasReadBack == Spec => []RecoveredWasReadBack
<1>1. KernelInv => RecoveredWasReadBack
  BY DEF KernelInv, CallInv, Phased, LatePhases, GoodPhases, Phases, RecoveredWasReadBack
<1> QED BY <1>1, KernelInvariant, PTL

\* putIdempotencyReceipt stores a receipt of a recovery only for the key's
\* one run, read back under the lock, with ticket and approval consumed.
THEOREM ReceiptEvidence == Spec => []ReceiptIsEvidenced
<1>1. KernelInv => ReceiptIsEvidenced
  BY DEF KernelInv, ReceiptEvidenced, Evidence, ReceiptIsEvidenced
<1> QED BY <1>1, KernelInvariant, PTL

\* Two executions share an approval only if createExecutionTicket released
\* its reservation under the key of one of them after a failure.
THEOREM ApprovalUsedOnce == Spec => []ApprovalIsSingleUse
<1>1. KernelInv => ApprovalIsSingleUse
  <2> SUFFICES ASSUME KernelInv, NEW c \in reached, NEW d \in reached, c # d, ApprovalOf(c) = ApprovalOf(d)
               PROVE  \E k \in {KeyOf(c), KeyOf(d)} : <<ApprovalOf(c), k>> \in failed
    BY DEF ApprovalIsSingleUse
  <2>1. c \in Calls /\ d \in Calls /\ CallInv(c) /\ CallInv(d)
    BY DEF KernelInv, TypeOK
  <2>2. Holding(c) /\ Holding(d) /\ binding[KeyOf(c)] = c /\ binding[KeyOf(d)] = d
    BY <2>1 DEF CallInv, Bound, Holding
  <2>3. call[c].pc \notin {"abort", "approve"} /\ call[d].pc \notin {"abort", "approve"}
    BY <2>1 DEF CallInv, Located, BeforeProvider
  <2>4. Owner(c) /\ Owner(d)
    BY <2>2, <2>3 DEF Owner
  <2>5. KeyOf(c) # KeyOf(d)
    BY <2>2
  <2> QED BY <2>1, <2>3, <2>4, <2>5 DEF CallInv, Reserved
<1> QED BY <1>1, KernelInvariant, PTL
=============================================================================
