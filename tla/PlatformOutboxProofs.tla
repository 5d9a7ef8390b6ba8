------------------------- MODULE PlatformOutboxProofs -------------------------
(***************************************************************************)
(* The attempt ledger of the platform outbox, for any number of events and *)
(* workers: each claim is counted exactly once, dead letters come with the  *)
(* last attempt, delivered rows were received, and settled rows are final.  *)
(*                                                                         *)
(* The ledger is not inductive by itself.  markBatchFailed writes an        *)
(* attempt count that was read with the claim, so the invariant adds that   *)
(* the count a worker remembers is still the row's as long as the row bears *)
(* the worker's token, and that a row bears a token exactly while claimed.  *)
(***************************************************************************)
EXTENDS PlatformOutbox, TLAPS

\* A row bears a token exactly while it is claimed.
TokenIffClaimed ==
    \A e \in Events : rows[e].token # NoToken <=> rows[e].status = "claimed"

\* Rows exist only for events that were stored, and start with no attempts.
RowsStartFresh ==
    \A e \in Events :
        /\ event[e] = "new" => rows[e].status = "none"
        /\ rows[e].status = "none" => rows[e].attempts = 0

\* While a row bears a worker's token, the attempt count the worker read with
\* the claim is the row's.
SnapshotIsCurrent ==
    \A w \in Workers : \A e \in worker[w].batch :
        Holds(w, e) /\ worker[w].token # NoToken =>
            worker[w].attempts[e] = rows[e].attempts

Busy(w) == worker[w].pc \in {"send", "acking", "rejecting", "failing"}

\* A worker past its claim has a token; what it acknowledges was received.
RunsAreSound ==
    \A w \in Workers :
        /\ Busy(w) => worker[w].token # NoToken
        /\ At(w, "acking") => worker[w].batch \subseteq received
        /\ worker[w].todo \subseteq worker[w].batch

OutboxInv ==
    /\ TypeOK
    /\ AttemptLedger
    /\ DeadLetterAtLimit
    /\ DeliveredWasReceived
    /\ TokenIffClaimed
    /\ RowsStartFresh
    /\ SnapshotIsCurrent
    /\ RunsAreSound

-----------------------------------------------------------------------------
(* The values the steps write. *)

LEMMA IdleType == Idle \in Run /\ Idle.pc = "idle" /\ Idle.batch = {} /\ Idle.todo = {}
BY OutboxAssumption DEF Idle, Run, Locations, NoToken

LEMMA RowTypes == NoRow \in Row /\ PendingRow \in Row
BY OutboxAssumption DEF NoRow, PendingRow, Row, Statuses, NoToken

LEMMA PendingRowFields ==
    /\ PendingRow.status = "pending" /\ PendingRow.attempts = 0
    /\ PendingRow.token = NoToken
BY DEF PendingRow, NoRow

\* One more failed attempt, as a row records it.
Fails(q, n) ==
    /\ q \in Row
    /\ q.status \in {"failed", "dead_letter"}
    /\ q.status = "dead_letter" <=> n = MaxAttempts
    /\ q.attempts = n
    /\ q.token = NoToken

\* The two statements that count an attempt, in SQL and in JavaScript, agree on
\* the limit.
LEMMA ReleasedRowFields ==
    ASSUME NEW r \in Row, r.attempts + 1 \in 1..MaxAttempts
    PROVE  Fails(ReleasedRow(r), r.attempts + 1)
BY OutboxAssumption DEF Fails, ReleasedRow, Row, Statuses, NoToken

LEMMA FailedRowFields ==
    ASSUME NEW n \in Nat, n + 1 \in 1..MaxAttempts
    PROVE  Fails(FailedRow(n), n + 1)
BY OutboxAssumption DEF Fails, FailedRow, Row, Statuses, NoToken

\* A claimed row is below its limit.
LEMMA ClaimedBelowLimit ==
    ASSUME OutboxInv, NEW e \in Events,
           rows[e].status \in {"none", "pending", "failed", "claimed", "delivered"}
    PROVE  rows[e].attempts + 1 \in 1..MaxAttempts
BY OutboxAssumption DEF OutboxInv, TypeOK, DeadLetterAtLimit, Row

THEOREM InitInv == Init => OutboxInv
<1> SUFFICES ASSUME Init PROVE OutboxInv
  OBVIOUS
<1>1. TypeOK
  BY IdleType, RowTypes, OutboxAssumption DEF Init, TypeOK
<1>2. AttemptLedger /\ DeadLetterAtLimit /\ DeliveredWasReceived
  BY OutboxAssumption DEF Init, AttemptLedger, DeadLetterAtLimit, DeliveredWasReceived, NoRow
<1>3. TokenIffClaimed /\ RowsStartFresh
  BY DEF Init, TokenIffClaimed, RowsStartFresh, NoRow
<1>4. SnapshotIsCurrent /\ RunsAreSound
  BY IdleType DEF Init, SnapshotIsCurrent, RunsAreSound, Busy, At
<1> QED BY <1>1, <1>2, <1>3, <1>4 DEF OutboxInv

-----------------------------------------------------------------------------
(* What a step must respect for the worker's memory to stay sound. *)

\* Rows keep the token and the attempts they had, or bear no token.
TokensOnlyDropped ==
    \A e \in Events :
        rows'[e].token # NoToken =>
            rows'[e].token = rows[e].token /\ rows'[e].attempts = rows[e].attempts

\* A worker keeps its claim or returns.
RunsOnlyReturn ==
    \A w \in Workers :
        \/ worker'[w].batch = {}
        \/ /\ worker'[w].batch = worker[w].batch
           /\ worker'[w].token = worker[w].token
           /\ worker'[w].attempts = worker[w].attempts

LEMMA SnapshotKept ==
    ASSUME SnapshotIsCurrent, TokensOnlyDropped, RunsOnlyReturn, TypeOK'
    PROVE  SnapshotIsCurrent'
<1> SUFFICES ASSUME NEW w \in Workers, NEW e \in worker'[w].batch,
                    Holds(w, e)', worker'[w].token # NoToken
             PROVE  worker'[w].attempts[e] = rows'[e].attempts
  BY DEF SnapshotIsCurrent
<1>1. e \in Events
  BY DEF TypeOK, Run
<1>2. /\ e \in worker[w].batch /\ worker'[w].token = worker[w].token
      /\ worker'[w].attempts = worker[w].attempts
  BY DEF RunsOnlyReturn
<1>3. rows'[e].token = rows[e].token /\ rows'[e].attempts = rows[e].attempts
  BY <1>1 DEF TokensOnlyDropped, Holds
<1> QED BY <1>2, <1>3 DEF SnapshotIsCurrent, Holds

\* The conjuncts about rows depend on nothing a worker remembers.
RowsInv ==
    /\ AttemptLedger /\ DeadLetterAtLimit /\ DeliveredWasReceived
    /\ TokenIffClaimed /\ RowsStartFresh

LEMMA RowsUnchanged ==
    ASSUME RowsInv, UNCHANGED <<event, rows, claims>>, received \subseteq received'
    PROVE  RowsInv'
BY DEF RowsInv, AttemptLedger, DeadLetterAtLimit, DeliveredWasReceived,
       TokenIffClaimed, RowsStartFresh

\* A step that only moves workers: they return or keep their claim.
LEMMA WorkersMove ==
    ASSUME OutboxInv, TypeOK', RunsOnlyReturn, RunsAreSound',
           UNCHANGED <<event, rows, claims>>, received \subseteq received'
    PROVE  OutboxInv'
<1>1. RowsInv'
  BY RowsUnchanged DEF OutboxInv, RowsInv
<1>2. SnapshotIsCurrent'
  BY SnapshotKept DEF OutboxInv, TokensOnlyDropped
<1> QED BY <1>1, <1>2 DEF OutboxInv, RowsInv

LEMMA ReturnMoves ==
    ASSUME OutboxInv, NEW w \in Workers, Return(w), received \subseteq received'
    PROVE  RunsOnlyReturn /\ RunsAreSound' /\ worker' \in [Workers -> Run]
<1>1. worker' \in [Workers -> Run]
  BY IdleType DEF OutboxInv, TypeOK, Return
<1>2. RunsOnlyReturn
  BY IdleType DEF OutboxInv, TypeOK, Return, RunsOnlyReturn
<1>3. RunsAreSound'
  BY IdleType DEF OutboxInv, TypeOK, RunsAreSound, Return, Busy, At
<1> QED BY <1>1, <1>2, <1>3

LEMMA GoToMoves ==
    ASSUME OutboxInv, NEW w \in Workers, NEW l \in Locations, GoTo(w, l),
           received \subseteq received',
           l \in {"backfill", "claim"} \/ Busy(w),
           l = "acking" => worker[w].batch \subseteq received'
    PROVE  RunsOnlyReturn /\ RunsAreSound' /\ worker' \in [Workers -> Run]
<1>1. worker' \in [Workers -> Run]
  BY DEF OutboxInv, TypeOK, GoTo, Run
<1>2. RunsOnlyReturn
  BY DEF OutboxInv, TypeOK, Run, GoTo, RunsOnlyReturn
<1>3. RunsAreSound'
  BY DEF OutboxInv, TypeOK, Run, RunsAreSound, GoTo, Busy, At
<1> QED BY <1>1, <1>2, <1>3

LEMMA SetPc == ASSUME NEW r \in Run, NEW l \in Locations PROVE [r EXCEPT !.pc = l] \in Run
BY DEF Run

LEMMA SetTodo == ASSUME NEW r \in Run, NEW S \in SUBSET Events PROVE [r EXCEPT !.todo = S] \in Run
BY DEF Run

LEMMA FailBatchMoves ==
    ASSUME OutboxInv, NEW w \in Workers, NEW l \in {"rejecting", "failing"},
           FailBatch(w, l), Busy(w), received \subseteq received'
    PROVE  RunsOnlyReturn /\ RunsAreSound' /\ worker' \in [Workers -> Run]
<1>1. worker' \in [Workers -> Run]
  <2> DEFINE r == worker[w]
             q == [r EXCEPT !.pc = l]
  <2>1. worker \in [Workers -> Run] /\ r \in Run /\ l \in Locations
    BY DEF OutboxInv, TypeOK, Locations
  <2>2. r.batch \in SUBSET Events
    BY <2>1 DEF Run
  <2>3. q \in Run
    BY <2>1, SetPc
  <2>4. [q EXCEPT !.todo = r.batch] \in Run
    <3> HIDE DEF q
    <3> QED BY <2>2, <2>3, SetTodo
  <2>5. worker' = [worker EXCEPT ![w] = [q EXCEPT !.todo = r.batch]]
    BY DEF FailBatch
  <2> HIDE DEF q, r
  <2> QED BY <2>1, <2>4, <2>5
<1>2. RunsOnlyReturn
  BY DEF OutboxInv, TypeOK, Run, FailBatch, RunsOnlyReturn
<1>3. RunsAreSound'
  BY DEF OutboxInv, TypeOK, Run, RunsAreSound, FailBatch, Busy, At
<1> QED BY <1>1, <1>2, <1>3

-----------------------------------------------------------------------------
(* The environment. *)

\* Steps that leave workers and receiver alone.
LEMMA WorkersStay ==
    ASSUME OutboxInv, TypeOK', RowsInv', TokensOnlyDropped, UNCHANGED <<worker, received>>
    PROVE  OutboxInv'
<1>1. SnapshotIsCurrent'
  BY SnapshotKept DEF OutboxInv, RunsOnlyReturn
<1>2. RunsAreSound'
  BY DEF OutboxInv, RunsAreSound, Busy, At
<1> QED BY <1>1, <1>2 DEF OutboxInv, RowsInv

LEMMA EnqueueInv == ASSUME OutboxInv, NEW e \in Events, Enqueue(e) PROVE OutboxInv'
<1> USE DEF Enqueue, history
<1>1. TypeOK'
  BY RowTypes DEF OutboxInv, TypeOK
<1>2. rows[e].status = "none" /\ rows[e].attempts = 0 /\ rows[e].token = NoToken
  BY DEF OutboxInv, RowsStartFresh, TokenIffClaimed
<1>3. AttemptLedger' /\ DeadLetterAtLimit' /\ DeliveredWasReceived'
  BY <1>2, PendingRowFields, OutboxAssumption
     DEF OutboxInv, TypeOK, AttemptLedger, DeadLetterAtLimit, DeliveredWasReceived
<1>4. TokenIffClaimed' /\ RowsStartFresh' /\ TokensOnlyDropped
  BY <1>2, PendingRowFields
     DEF OutboxInv, TypeOK, TokenIffClaimed, RowsStartFresh, TokensOnlyDropped
<1> QED BY <1>1, <1>3, <1>4, WorkersStay DEF RowsInv

LEMMA ClockInv ==
    ASSUME OutboxInv, NEW e \in Events,
           ClaimLapses(e) \/ RetryComesDue(e) \/ Retire(e)
    PROVE  OutboxInv'
<1> USE DEF ClaimLapses, RetryComesDue, Retire, history
<1>1. TypeOK'
  <2>1. CASE ClaimLapses(e)
    BY <2>1 DEF OutboxInv, TypeOK, Row
  <2>2. CASE RetryComesDue(e)
    BY <2>2 DEF OutboxInv, TypeOK, Row
  <2>3. CASE Retire(e)
    BY <2>3 DEF OutboxInv, TypeOK
  <2> QED BY <2>1, <2>2, <2>3
<1>2. \A f \in Events : /\ rows'[f].status = rows[f].status
                        /\ rows'[f].attempts = rows[f].attempts
                        /\ rows'[f].token = rows[f].token
                        /\ event'[f] = "new" => event[f] = "new"
  BY DEF OutboxInv, TypeOK, Row
<1>3. RowsInv' /\ TokensOnlyDropped
  BY <1>2 DEF OutboxInv, RowsInv, AttemptLedger, DeadLetterAtLimit, DeliveredWasReceived,
              TokenIffClaimed, RowsStartFresh, TokensOnlyDropped
<1> QED BY <1>1, <1>3, WorkersStay

LEMMA ConfigureInv ==
    ASSUME OutboxInv, NEW c \in {"disabled", "enabled", "ready"}, Configure(c)
    PROVE  OutboxInv'
<1> USE DEF Configure, history
<1>1. TypeOK'
  BY DEF OutboxInv, TypeOK
<1>2. RowsInv' /\ TokensOnlyDropped
  BY RowsUnchanged DEF OutboxInv, RowsInv, TokensOnlyDropped
<1> QED BY <1>1, <1>2, WorkersStay

-----------------------------------------------------------------------------
(* The worker's statements. *)

LEMMA StartInv ==
    ASSUME OutboxInv, NEW w \in Workers, NEW dry \in BOOLEAN, Start(w, dry)
    PROVE  OutboxInv'
<1> DEFINE q == [Idle EXCEPT !.pc = "release"]
           r == [q EXCEPT !.apply = ~dry /\ consumer = "ready"]
<1>a. q \in Run /\ q.pc = "release" /\ q.batch = {} /\ q.todo = {}
  BY IdleType DEF Run, Locations
<1>b. r \in Run /\ r.pc = "release" /\ r.batch = {} /\ r.todo = {}
  <2> HIDE DEF q
  <2> QED BY <1>a DEF Run
<1>c. worker' = [worker EXCEPT ![w] = r]
  BY DEF Start
<1> HIDE DEF r
<1>1. /\ worker'[w] = r
      /\ \A v \in Workers \ {w} : worker'[v] = worker[v]
      /\ worker' \in [Workers -> Run]
  BY <1>b, <1>c DEF OutboxInv, TypeOK
<1>2. TypeOK' /\ UNCHANGED <<event, rows, claims, received>>
  BY <1>1 DEF OutboxInv, TypeOK, Start, history
<1>3. RunsOnlyReturn /\ RunsAreSound'
  BY <1>1, <1>2, <1>b DEF OutboxInv, RunsAreSound, RunsOnlyReturn, Busy, At
<1> QED BY <1>2, <1>3, WorkersMove

LEMMA ReturnInv ==
    ASSUME OutboxInv, NEW w \in Workers, Return(w),
           UNCHANGED <<consumer, event, rows, history>>
    PROVE  OutboxInv'
<1>1. UNCHANGED <<consumer, event, rows, claims, received>>
  BY DEF history
<1>2. RunsOnlyReturn /\ RunsAreSound' /\ TypeOK'
  BY <1>1, ReturnMoves DEF OutboxInv, TypeOK
<1> QED BY <1>1, <1>2, WorkersMove

LEMMA SendInv ==
    ASSUME OutboxInv, NEW w \in Workers,
           \/ SendAccepted(w) \/ SendRejected(w) \/ MarkBatchFailedThrows(w)
           \/ \E taken \in BOOLEAN : SendThrows(w, taken)
    PROVE  OutboxInv'
<1>1. /\ UNCHANGED <<consumer, event, rows, claims>>
      /\ received \subseteq received' /\ received' \subseteq Events
  BY DEF OutboxInv, TypeOK, Run, SendAccepted, SendRejected, MarkBatchFailedThrows,
         SendThrows, history
<1>2. Busy(w)
  BY DEF SendAccepted, SendRejected, MarkBatchFailedThrows, SendThrows, Busy, At
<1>3. RunsOnlyReturn /\ RunsAreSound' /\ worker' \in [Workers -> Run]
  <2>1. CASE SendAccepted(w)
    BY <1>1, <1>2, <2>1, GoToMoves DEF SendAccepted, Locations
  <2>2. CASE ~SendAccepted(w)
    <3>1. PICK l \in {"rejecting", "failing"} : FailBatch(w, l)
      BY <2>2 DEF SendRejected, MarkBatchFailedThrows, SendThrows
    <3> QED BY <1>1, <1>2, <3>1, FailBatchMoves
  <2> QED BY <2>1, <2>2
<1>4. TypeOK'
  BY <1>1, <1>3 DEF OutboxInv, TypeOK
<1> QED BY <1>1, <1>3, <1>4, WorkersMove

\* Steps that change rows without touching events, claims or the receiver.
LEMMA RowsMove ==
    ASSUME OutboxInv, RowsInv', TokensOnlyDropped, RunsOnlyReturn, RunsAreSound',
           rows' \in [Events -> Row], worker' \in [Workers -> Run],
           UNCHANGED <<consumer, event, history>>
    PROVE  OutboxInv'
<1>1. TypeOK'
  BY DEF OutboxInv, TypeOK, history
<1>2. SnapshotIsCurrent'
  BY <1>1, SnapshotKept DEF OutboxInv
<1> QED BY <1>1, <1>2 DEF OutboxInv, RowsInv

\* The outcome of one more failed attempt, for the row whose claim ended.
AttemptFailed(e) ==
    /\ rows'[e] \in Row
    /\ rows'[e].token = NoToken
    /\ rows'[e].status \in {"failed", "dead_letter"}
    /\ rows'[e].status = "dead_letter" <=> rows'[e].attempts = MaxAttempts
    /\ claims'[e] = rows'[e].attempts
    /\ event'[e] # "new"

LEMMA FailedAttempt ==
    ASSUME OutboxInv, NEW e \in Events, rows[e].status = "claimed",
           rows'[e] \in {ReleasedRow(rows[e]), FailedRow(rows[e].attempts)},
           UNCHANGED <<event, history>>
    PROVE  AttemptFailed(e)
<1>1. rows[e].attempts + 1 \in 1..MaxAttempts
  BY ClaimedBelowLimit
<1>2. claims[e] = rows[e].attempts + 1 /\ event[e] # "new"
  BY DEF OutboxInv, AttemptLedger, RowsStartFresh
<1>3. rows[e] \in Row /\ rows[e].attempts \in Nat
  BY DEF OutboxInv, TypeOK, Row
<1>4. Fails(rows'[e], rows[e].attempts + 1)
  BY <1>1, <1>3, ReleasedRowFields, FailedRowFields
<1> QED BY <1>2, <1>4 DEF history, AttemptFailed, Fails

LEMMA AttemptsFailed ==
    ASSUME OutboxInv, UNCHANGED <<event, claims, received>>, rows' \in [Events -> Row],
           \A e \in Events : rows'[e] = rows[e] \/ AttemptFailed(e)
    PROVE  RowsInv' /\ TokensOnlyDropped
<1>1. AttemptLedger'
  BY OutboxAssumption DEF OutboxInv, TypeOK, Row, AttemptLedger, AttemptFailed
<1>2. DeadLetterAtLimit'
  BY DEF OutboxInv, DeadLetterAtLimit, AttemptFailed
<1>3. DeliveredWasReceived' /\ TokenIffClaimed' /\ RowsStartFresh' /\ TokensOnlyDropped
  BY DEF OutboxInv, DeliveredWasReceived, TokenIffClaimed, RowsStartFresh,
         TokensOnlyDropped, AttemptFailed
<1> QED BY <1>1, <1>2, <1>3 DEF RowsInv

LEMMA ReleaseExpiredClaimsInv ==
    ASSUME OutboxInv, NEW w \in Workers, ReleaseExpiredClaims(w)
    PROVE  OutboxInv'
<1> USE DEF ReleaseExpiredClaims
<1>1. UNCHANGED <<event, claims, received>>
  BY DEF history
<1>2. ASSUME NEW e \in Events
      PROVE  \/ rows'[e] = rows[e]
             \/ /\ rows[e].status = "claimed"
                /\ rows'[e] = ReleasedRow(rows[e])
  BY DEF Expired
<1>3. ASSUME NEW e \in Events PROVE rows'[e] = rows[e] \/ AttemptFailed(e)
  BY <1>2, FailedAttempt
<1>4. rows' \in [Events -> Row]
  <2>1. \A e \in Events : rows'[e] \in Row
    BY <1>3 DEF AttemptFailed, OutboxInv, TypeOK
  <2> QED BY <2>1
<1>5. RowsInv' /\ TokensOnlyDropped
  BY <1>1, <1>3, <1>4, AttemptsFailed
<1>6. RunsOnlyReturn /\ RunsAreSound' /\ worker' \in [Workers -> Run]
  BY <1>1, GoToMoves DEF Locations
<1> QED BY <1>4, <1>5, <1>6, RowsMove

LEMMA EnsurePendingDeliveriesInv ==
    ASSUME OutboxInv, NEW w \in Workers, EnsurePendingDeliveries(w)
    PROVE  OutboxInv'
<1> USE DEF EnsurePendingDeliveries
<1>1. UNCHANGED <<event, claims, received>>
  BY DEF history
<1>2. ASSUME NEW e \in Events
      PROVE  \/ rows'[e] = rows[e]
             \/ /\ rows'[e] = PendingRow /\ rows[e].status = "none" /\ event[e] # "new"
                /\ rows[e].attempts = 0
  BY DEF Backfilled, Window, Oldest, Stored, OutboxInv, RowsStartFresh
<1>3. rows' \in [Events -> Row]
  BY RowTypes DEF OutboxInv, TypeOK
<1>4. AttemptLedger' /\ DeadLetterAtLimit'
  BY <1>1, <1>2, PendingRowFields, OutboxAssumption
     DEF OutboxInv, AttemptLedger, DeadLetterAtLimit
<1>5. DeliveredWasReceived' /\ TokenIffClaimed' /\ RowsStartFresh' /\ TokensOnlyDropped
  BY <1>1, <1>2, PendingRowFields
     DEF OutboxInv, DeliveredWasReceived, TokenIffClaimed, RowsStartFresh, TokensOnlyDropped
<1>6. RunsOnlyReturn /\ RunsAreSound' /\ worker' \in [Workers -> Run]
  BY <1>1, GoToMoves, ReturnMoves DEF Locations
<1> QED BY <1>3, <1>4, <1>5, <1>6, RowsMove DEF RowsInv

LEMMA MarkBatchInv ==
    ASSUME OutboxInv, NEW w \in Workers, At(w, "acking"), MarkBatch(w),
           UNCHANGED <<consumer, event, history>>
    PROVE  rows' \in [Events -> Row] /\ RowsInv' /\ TokensOnlyDropped
<1>1. UNCHANGED <<event, claims, received>>
  BY DEF history
<1>2. ASSUME NEW e \in Events, e \in worker[w].batch, Holds(w, e)
      PROVE  /\ DeliveredRow(rows[e]) \in Row
             /\ DeliveredRow(rows[e]).status = "delivered"
             /\ DeliveredRow(rows[e]).attempts = rows[e].attempts
             /\ DeliveredRow(rows[e]).token = NoToken
             /\ rows[e].status = "claimed"
             /\ e \in received
  <2>1. rows[e] \in Row
    BY DEF OutboxInv, TypeOK
  <2>2. rows[e].status = "claimed" /\ e \in received
    BY <1>2 DEF OutboxInv, RunsAreSound, TokenIffClaimed, Holds, Busy, At
  <2> QED BY <2>1, <2>2 DEF DeliveredRow, Row, Statuses
<1>3. ASSUME NEW e \in Events
      PROVE  \/ rows'[e] = rows[e]
             \/ /\ rows'[e] \in Row /\ rows'[e].status = "delivered"
                /\ rows'[e].attempts = rows[e].attempts
                /\ rows'[e].token = NoToken
                /\ rows[e].status = "claimed"
                /\ e \in received
  BY <1>2 DEF MarkBatch
<1>4. rows' \in [Events -> Row]
  BY <1>3 DEF MarkBatch, OutboxInv, TypeOK
<1>5. AttemptLedger' /\ DeadLetterAtLimit'
  BY <1>1, <1>3 DEF OutboxInv, AttemptLedger, DeadLetterAtLimit
<1>6. DeliveredWasReceived' /\ TokenIffClaimed' /\ RowsStartFresh' /\ TokensOnlyDropped
  BY <1>1, <1>3
     DEF OutboxInv, DeliveredWasReceived, TokenIffClaimed, RowsStartFresh, TokensOnlyDropped
<1> QED BY <1>4, <1>5, <1>6 DEF RowsInv

LEMMA MarkBatchDeliveredInv ==
    ASSUME OutboxInv, NEW w \in Workers,
           MarkBatchDelivered(w) \/ MarkBatchDeliveredThrows(w)
    PROVE  OutboxInv'
<1>1. /\ At(w, "acking") /\ Busy(w) /\ UNCHANGED <<consumer, event, history>>
      /\ UNCHANGED <<claims, received, event>>
      /\ MarkBatch(w) \/ UNCHANGED rows
      /\ Return(w) \/ FailBatch(w, "failing")
  BY DEF MarkBatchDelivered, MarkBatchDeliveredThrows, Busy, At, history
<1>2. rows' \in [Events -> Row] /\ RowsInv' /\ TokensOnlyDropped
  <2>1. CASE MarkBatch(w)
    BY <1>1, <2>1, MarkBatchInv
  <2>2. CASE UNCHANGED rows
    BY <1>1, <2>2, RowsUnchanged DEF OutboxInv, TypeOK, RowsInv, TokensOnlyDropped
  <2> QED BY <1>1, <2>1, <2>2
<1>3. RunsOnlyReturn /\ RunsAreSound' /\ worker' \in [Workers -> Run]
  BY <1>1, ReturnMoves, FailBatchMoves
<1> QED BY <1>1, <1>2, <1>3, RowsMove

LEMMA MarkRowFailedInv ==
    ASSUME OutboxInv, NEW w \in Workers, MarkRowFailed(w)
    PROVE  OutboxInv'
<1>1. PICK e \in First(worker[w].todo, 1) :
         /\ rows' = IF Holds(w, e)
                    THEN [rows EXCEPT ![e] = FailedRow(worker[w].attempts[e])]
                    ELSE rows
         /\ worker' = [worker EXCEPT ![w].todo = @ \ {e}]
  BY DEF MarkRowFailed
<1>2. /\ UNCHANGED <<consumer, event, history>> /\ UNCHANGED <<event, claims, received>>
      /\ worker[w].pc \in {"rejecting", "failing"} /\ worker[w].token # NoToken
  BY DEF MarkRowFailed, history, OutboxInv, RunsAreSound, Busy, At
<1>3. worker[w] \in Run /\ worker \in [Workers -> Run] /\ rows \in [Events -> Row]
  BY DEF OutboxInv, TypeOK
<1>4. e \in worker[w].batch /\ e \in Events
  BY <1>3 DEF First, OutboxInv, RunsAreSound, Run
<1>5. /\ worker' \in [Workers -> Run]
      /\ \A v \in Workers : /\ worker'[v].pc = worker[v].pc
                            /\ worker'[v].token = worker[v].token
                            /\ worker'[v].batch = worker[v].batch
                            /\ worker'[v].attempts = worker[v].attempts
                            /\ worker'[v].todo \subseteq worker[v].todo
  BY <1>1, <1>3 DEF Run
<1>6. RunsOnlyReturn /\ RunsAreSound'
  BY <1>2, <1>5 DEF OutboxInv, RunsAreSound, RunsOnlyReturn, Busy, At
<1>7. CASE ~Holds(w, e)
  <2>1. UNCHANGED rows
    BY <1>1, <1>7
  <2> QED BY <1>2, <1>3, <1>5, <1>6, <2>1, RowsMove, RowsUnchanged
          DEF OutboxInv, RowsInv, TokensOnlyDropped
<1>8. CASE Holds(w, e)
  <2>1. rows[e].status = "claimed" /\ worker[w].attempts[e] = rows[e].attempts
    BY <1>2, <1>4, <1>8 DEF OutboxInv, TokenIffClaimed, SnapshotIsCurrent, Holds
  <2>2. rows' = [rows EXCEPT ![e] = FailedRow(rows[e].attempts)]
    BY <1>1, <1>8, <2>1
  <2>3. AttemptFailed(e)
    BY <1>2, <1>3, <1>4, <2>1, <2>2, FailedAttempt
  <2>4. rows' \in [Events -> Row] /\ \A f \in Events : rows'[f] = rows[f] \/ AttemptFailed(f)
    BY <1>3, <1>4, <2>2, <2>3 DEF AttemptFailed
  <2> QED BY <1>2, <1>5, <1>6, <2>4, AttemptsFailed, RowsMove
<1> QED BY <1>7, <1>8

LEMMA ClaimPendingRowsInv ==
    ASSUME OutboxInv, NEW w \in Workers, NEW t \in Tokens, ClaimPendingRows(w, t)
    PROVE  OutboxInv'
<1> DEFINE B == First(Due, ClaimLimit)
           q == [pc |-> "send", apply |-> TRUE, token |-> t, batch |-> B, todo |-> {},
                 attempts |-> [e \in Events |-> IF e \in B THEN rows[e].attempts ELSE 0]]
<1>1. /\ rows' = [e \in Events |-> IF e \in B THEN ClaimedRow(rows[e], t) ELSE rows[e]]
      /\ worker' = [worker EXCEPT ![w] = q]
      /\ claims' = [e \in Events |-> IF e \in B THEN claims[e] + 1 ELSE claims[e]]
      /\ UNCHANGED <<consumer, event, received>>
      /\ Unused(t)
  BY DEF ClaimPendingRows, Fresh
<1>2. B \subseteq Events
      /\ \A e \in B : rows[e].status \in {"pending", "failed"} /\ event[e] # "new"
  BY DEF First, Due, Stored
<1>3. /\ t # NoToken /\ rows \in [Events -> Row] /\ worker \in [Workers -> Run]
      /\ claims \in [Events -> 0..MaxAttempts]
  BY OutboxAssumption DEF OutboxInv, TypeOK, NoToken
<1>4. q \in Run
  BY <1>2, <1>3, OutboxAssumption DEF Run, Row, Locations
<1> HIDE DEF B
<1>5. ASSUME NEW e \in Events, e \in B
      PROVE  /\ rows'[e] \in Row /\ rows'[e].status = "claimed" /\ rows'[e].token = t
             /\ rows'[e].attempts = rows[e].attempts
             /\ claims'[e] = claims[e] + 1
             /\ claims[e] = rows[e].attempts
             /\ claims'[e] \in 0..MaxAttempts
             /\ rows'[e].attempts # MaxAttempts
  <2>1. rows[e] \in Row /\ rows'[e] = ClaimedRow(rows[e], t) /\ claims'[e] = claims[e] + 1
    BY <1>1, <1>3, <1>5
  <2>2. rows[e].attempts + 1 \in 1..MaxAttempts /\ claims[e] = rows[e].attempts
    BY <1>2, <1>5, <2>1, ClaimedBelowLimit DEF OutboxInv, AttemptLedger, Row
  <2> QED BY <2>1, <2>2, OutboxAssumption DEF ClaimedRow, Row, Statuses
<1>6. ASSUME NEW e \in Events, e \notin B
      PROVE  rows'[e] = rows[e] /\ claims'[e] = claims[e]
  BY <1>1, <1>6
<1>7. TypeOK'
  <2>1. \A e \in Events : rows'[e] \in Row /\ claims'[e] \in 0..MaxAttempts
    BY <1>3, <1>5, <1>6
  <2>2. worker' \in [Workers -> Run]
    <3> HIDE DEF q
    <3> QED BY <1>1, <1>3, <1>4
  <2>3. rows' \in [Events -> Row] /\ claims' \in [Events -> 0..MaxAttempts]
    BY <1>1, <2>1
  <2> QED BY <1>1, <2>2, <2>3 DEF OutboxInv, TypeOK
<1>8. AttemptLedger' /\ DeadLetterAtLimit'
  BY <1>5, <1>6 DEF OutboxInv, AttemptLedger, DeadLetterAtLimit
<1>9. DeliveredWasReceived' /\ TokenIffClaimed' /\ RowsStartFresh'
  BY <1>1, <1>2, <1>3, <1>5, <1>6
     DEF OutboxInv, DeliveredWasReceived, TokenIffClaimed, RowsStartFresh
<1>10. /\ worker'[w].pc = "send" /\ worker'[w].token = t /\ worker'[w].batch = B
       /\ worker'[w].todo = {}
       /\ \A e \in B : worker'[w].attempts[e] = rows[e].attempts
       /\ \A v \in Workers \ {w} : worker'[v] = worker[v]
  BY <1>1, <1>2, <1>3
<1>11. RunsAreSound'
  BY <1>1, <1>3, <1>10 DEF OutboxInv, RunsAreSound, Busy, At
<1>12. SnapshotIsCurrent'
  <2> SUFFICES ASSUME NEW v \in Workers, NEW e \in worker'[v].batch,
                      Holds(v, e)', worker'[v].token # NoToken
               PROVE  worker'[v].attempts[e] = rows'[e].attempts
    BY DEF SnapshotIsCurrent
  <2>0. e \in Events
    BY <1>7 DEF TypeOK, Run
  <2>1. CASE v = w
    BY <1>2, <1>5, <1>10, <2>0, <2>1
  <2>2. CASE v # w
    <3>1. worker'[v] = worker[v] /\ worker[v].token # t
      BY <1>1, <1>10, <2>2 DEF Unused
    <3>2. e \notin B
      BY <1>5, <2>0, <3>1 DEF Holds
    <3>3. rows'[e] = rows[e]
      BY <1>6, <2>0, <3>2
    <3> QED BY <3>1, <3>3 DEF OutboxInv, SnapshotIsCurrent, Holds
  <2> QED BY <2>1, <2>2
<1> QED BY <1>7, <1>8, <1>9, <1>11, <1>12 DEF OutboxInv

-----------------------------------------------------------------------------
(* The theorems. *)

LEMMA ProgressInv == ASSUME OutboxInv, NEW w \in Workers, Progress(w) PROVE OutboxInv'
<1>1. CASE ClaimNothing(w) \/ MarkBatchFailedDone(w)
  BY <1>1, ReturnInv DEF ClaimNothing, MarkBatchFailedDone
<1> QED BY <1>1, ReleaseExpiredClaimsInv, EnsurePendingDeliveriesInv, ClaimPendingRowsInv,
           SendInv, MarkBatchDeliveredInv, MarkRowFailedInv DEF Progress

THEOREM NextInv == OutboxInv /\ [Next]_vars => OutboxInv'
<1> SUFFICES ASSUME OutboxInv, [Next]_vars PROVE OutboxInv'
  OBVIOUS
<1>1. CASE UNCHANGED vars
  <2>1. TypeOK' /\ RowsInv' /\ TokensOnlyDropped /\ UNCHANGED <<worker, received>>
    BY <1>1, RowsUnchanged DEF vars, OutboxInv, TypeOK, RowsInv, TokensOnlyDropped
  <2> QED BY <2>1, WorkersStay
<1>2. CASE \E e \in Events : Enqueue(e)
  BY <1>2, EnqueueInv
<1>3. CASE \E c \in {"disabled", "enabled", "ready"} : Configure(c)
  BY <1>3, ConfigureInv
<1>4. CASE Clock
  BY <1>4, ClockInv DEF Clock
<1>5. ASSUME NEW w \in Workers,
             Progress(w) \/ Abandon(w) \/ \E dry \in BOOLEAN : Start(w, dry)
      PROVE  OutboxInv'
  <2>1. CASE Abandon(w)
    BY <2>1, ReturnInv DEF Abandon
  <2> QED BY <1>5, <2>1, ProgressInv, StartInv
<1> QED BY <1>1, <1>2, <1>3, <1>4, <1>5 DEF Next

\* The strengthened invariant holds in every reachable state, for any events,
\* workers and attempt limit.
THEOREM OutboxInvariant == Spec => []OutboxInv
<1> QED BY InitInv, NextInv, PTL DEF Spec

\* Rows, batches, tokens and attempt counts keep their types; no count passes
\* max_attempts (markBatchFailed).
THEOREM TypeCorrect == Spec => []TypeOK
<1>1. OutboxInv => TypeOK
  BY DEF OutboxInv
<1> QED BY <1>1, OutboxInvariant, PTL

\* Every claim is counted exactly once, whatever workers crash, stall past
\* their claims or repeat markBatchFailed.
THEOREM AttemptsAreLedgered == Spec => []AttemptLedger
<1>1. OutboxInv => AttemptLedger
  BY DEF OutboxInv
<1> QED BY <1>1, OutboxInvariant, PTL

\* Rows are dead-lettered with the max_attempts-th failure, never earlier.
THEOREM DeadLettersAtLimit == Spec => []DeadLetterAtLimit
<1>1. OutboxInv => DeadLetterAtLimit
  BY DEF OutboxInv
<1> QED BY <1>1, OutboxInvariant, PTL

\* A row that says delivered was taken by the receiver.
THEOREM DeliveredRowsWereReceived == Spec => []DeliveredWasReceived
<1>1. OutboxInv => DeliveredWasReceived
  BY DEF OutboxInv
<1> QED BY <1>1, OutboxInvariant, PTL

LEMMA SettledStep ==
    ASSUME OutboxInv, [Next]_vars, NEW e \in Events, Settled(e)
    PROVE  rows'[e].status = rows[e].status
<1>0. /\ rows[e].status # "claimed" /\ rows[e].token = NoToken /\ rows[e].status # "none"
      /\ rows[e].status \notin {"pending", "failed"}
      /\ rows \in [Events -> Row]
  BY DEF Settled, OutboxInv, TokenIffClaimed, TypeOK
<1>1. CASE UNCHANGED rows
  BY <1>1
<1>2. ASSUME NEW f \in Events, Enqueue(f) PROVE rows'[e].status = rows[e].status
  <2>1. f # e
    BY <1>0, <1>2 DEF OutboxInv, RowsStartFresh, Enqueue
  <2> QED BY <1>0, <1>2, <2>1 DEF Enqueue
<1>3. ASSUME NEW f \in Events, ClaimLapses(f) \/ RetryComesDue(f)
      PROVE  rows'[e].status = rows[e].status
  <2>1. f # e
    BY <1>0, <1>3 DEF ClaimLapses, RetryComesDue
  <2> QED BY <1>0, <1>3, <2>1 DEF ClaimLapses, RetryComesDue
<1>4. ASSUME NEW w \in Workers, ReleaseExpiredClaims(w) \/ EnsurePendingDeliveries(w)
      PROVE  rows'[e].status = rows[e].status
  BY <1>0, <1>4 DEF ReleaseExpiredClaims, EnsurePendingDeliveries, Expired
<1>5. ASSUME NEW w \in Workers, NEW t \in Tokens, ClaimPendingRows(w, t)
      PROVE  rows'[e].status = rows[e].status
  <2>1. e \notin First(Due, ClaimLimit)
    BY <1>0 DEF First, Due
  <2> QED BY <1>0, <1>5, <2>1 DEF ClaimPendingRows
<1>6. ASSUME NEW w \in Workers, At(w, "acking"), MarkBatch(w)
      PROVE  rows'[e].status = rows[e].status
  <2>1. ~Holds(w, e)
    BY <1>0, <1>6 DEF OutboxInv, RunsAreSound, Busy, At, Holds
  <2> QED BY <1>6, <2>1 DEF MarkBatch
<1>7. ASSUME NEW w \in Workers, MarkRowFailed(w)
      PROVE  rows'[e].status = rows[e].status
  <2>1. ~Holds(w, e)
    BY <1>0, <1>7 DEF OutboxInv, RunsAreSound, Busy, At, Holds, MarkRowFailed
  <2> QED BY <1>0, <1>7, <2>1 DEF MarkRowFailed
<1>8. ASSUME NEW w \in Workers, Progress(w) PROVE rows'[e].status = rows[e].status
  BY <1>1, <1>4, <1>5, <1>6, <1>7, <1>8
     DEF Progress, ClaimNothing, SendAccepted, SendRejected, SendThrows, MarkBatchDelivered,
         MarkBatchDeliveredThrows, MarkBatchFailedDone, MarkBatchFailedThrows
<1> QED BY <1>1, <1>2, <1>3, <1>8 DEF Next, Clock, Configure, Retire, Abandon, Start, vars

\* A delivered row or a dead letter is never reopened, by any worker's late
\* outcome, by expiry, by backfill or by a claim.
THEOREM SettledRowsAreFinal == Spec => SettledStays
<1>1. OutboxInv /\ [Next]_vars =>
        [\A e \in Events : Settled(e) => rows'[e].status = rows[e].status]_vars
  BY SettledStep
<1> QED BY <1>1, OutboxInvariant, PTL DEF Spec, SettledStays
=============================================================================
