--------------------------- MODULE PlatformOutbox ---------------------------
(***************************************************************************)
(* The transactional outbox of http-generic-api/platformOutbox.js, for one *)
(* consumer: business transactions append events, and worker processes     *)
(* (cron runs and loops of scripts/platform-outbox-worker.mjs) release      *)
(* expired claims, backfill delivery rows, claim a batch under a random     *)
(* token, POST it, and record the outcome.                                  *)
(*                                                                         *)
(* Every SQL statement (or transaction) is one step, because any number of *)
(* workers interleave between them.  The clock is reduced to the facts the *)
(* queries ask of it: a claim has run out, a retry has come due, an event   *)
(* is past its retention.                                                   *)
(***************************************************************************)
EXTENDS Integers, FiniteSets

CONSTANTS Events,       \* auto-increment ids of platform_outbox_events
          OccurredAt,   \* the occurred_at of each event
          Workers,      \* concurrent runs of runPlatformOutboxWorker
          Tokens,       \* claim tokens; a fresh one is never in use
          MaxAttempts,  \* consumer.max_attempts
          Limit,        \* the worker's bounded limit
          WindowFactor, \* backfill looks at WindowFactor * Limit events (4 in the code)
          BatchSize     \* consumer.batch_size

ASSUME OutboxAssumption ==
    /\ Events \subseteq Nat
    /\ OccurredAt \in [Events -> Nat]
    /\ Tokens \subseteq Nat \ {0}
    /\ MaxAttempts \in Nat \ {0}
    /\ Limit \in Nat \ {0}
    /\ WindowFactor \in Nat \ {0}
    /\ BatchSize \in Nat \ {0}

VARIABLES consumer,  \* "disabled", "enabled" (status shadow or active) or "ready"
          event,     \* each event: "new", "stored" or "retired" (past its retention)
          rows,      \* the delivery row of each event
          worker,    \* what each worker run holds in memory
          claims,    \* history: how often each event was claimed
          received   \* history: the events the receiver has taken

vars == <<consumer, event, rows, worker, claims, received>>

NoToken == 0
Statuses == {"none", "pending", "claimed", "delivered", "failed", "dead_letter"}

Row == [status : Statuses, attempts : 0..MaxAttempts, token : Tokens \cup {NoToken},
        lapsed : BOOLEAN, due : BOOLEAN]

NoRow == [status |-> "none", attempts |-> 0, token |-> NoToken,
          lapsed |-> FALSE, due |-> FALSE]

PendingRow == [status |-> "pending", attempts |-> 0, token |-> NoToken,
               lapsed |-> FALSE, due |-> TRUE]

Locations == {"idle", "release", "backfill", "claim", "send", "acking",
              "rejecting", "failing"}

Run == [pc : Locations, apply : BOOLEAN, token : Tokens \cup {NoToken},
        batch : SUBSET Events, attempts : [Events -> 0..MaxAttempts],
        todo : SUBSET Events]

Idle == [pc |-> "idle", apply |-> FALSE, token |-> NoToken,
         batch |-> {}, attempts |-> [e \in Events |-> 0], todo |-> {}]

Init ==
    /\ consumer = "disabled"
    /\ event = [e \in Events |-> "new"]
    /\ rows = [e \in Events |-> NoRow]
    /\ worker = [w \in Workers |-> Idle]
    /\ claims = [e \in Events |-> 0]
    /\ received = {}

history == <<claims, received>>

-----------------------------------------------------------------------------
(* The environment: producers, operators and the clock. *)

\* The consumer statuses for which deliveries are created.
Enabled == consumer \in {"enabled", "ready"}

\* enqueuePlatformOutboxEvent: the event and, when the consumer is enabled, its
\* delivery row commit together, with the producer's own changes.  Transactions
\* commit in any order of the ids they drew.
Enqueue(e) ==
    /\ event[e] = "new"
    /\ event' = [event EXCEPT ![e] = "stored"]
    /\ rows' = IF Enabled THEN [rows EXCEPT ![e] = PendingRow] ELSE rows
    /\ UNCHANGED <<consumer, worker, history>>

\* retention_expires_at passes, or the event's type is withdrawn.
Retire(e) ==
    /\ event[e] = "stored"
    /\ event' = [event EXCEPT ![e] = "retired"]
    /\ UNCHANGED <<consumer, rows, worker, history>>

\* An operator edits the consumer row, its mask policy or the feature flag.
Configure(c) ==
    /\ consumer # c
    /\ consumer' = c
    /\ UNCHANGED <<event, rows, worker, history>>

\* claim_expires_at passes.
ClaimLapses(e) ==
    /\ rows[e].status = "claimed" /\ ~rows[e].lapsed
    /\ rows' = [rows EXCEPT ![e].lapsed = TRUE]
    /\ UNCHANGED <<consumer, event, worker, history>>

\* next_attempt_at passes.
RetryComesDue(e) ==
    /\ rows[e].status = "failed" /\ ~rows[e].due
    /\ rows' = [rows EXCEPT ![e].due = TRUE]
    /\ UNCHANGED <<consumer, event, worker, history>>

-----------------------------------------------------------------------------
(* runPlatformOutboxWorker, statement by statement. *)

At(w, l) == worker[w].pc = l
GoTo(w, l) == worker' = [worker EXCEPT ![w].pc = l]
Return(w) == worker' = [worker EXCEPT ![w] = Idle]

\* The consumer and its mask policy are read once, and readiness is decided on
\* that copy.  A dry run and a run of an unready consumer have the same effect.
Start(w, dry) ==
    /\ At(w, "idle")
    /\ worker' = [worker EXCEPT ![w] = [Idle EXCEPT
                     !.pc = "release", !.apply = ~dry /\ consumer = "ready"]]
    /\ UNCHANGED <<consumer, event, rows, history>>

MutNeverExpired(e) == rows[e].status = "claimed" /\ rows[e].token = NoToken

Expired(e) == rows[e].status = "claimed" /\ rows[e].lapsed

\* What releaseExpiredClaims writes: one more attempt than the row has, and the
\* limit is tested in SQL.  The row may be retried at once; a dead letter's
\* next_attempt_at is NULL, which the queries read as due.
ReleasedRow(r) ==
    [status   |-> IF r.attempts + 1 >= MaxAttempts THEN "dead_letter" ELSE "failed",
     attempts |-> r.attempts + 1, token |-> NoToken, lapsed |-> FALSE, due |-> TRUE]

MutReleaseUncounted(w) ==
    /\ At(w, "release")
    /\ rows' = [e \in Events |->
                  IF Expired(e) THEN [rows[e] EXCEPT !.status = "failed", !.token = NoToken,
                                                     !.lapsed = FALSE, !.due = TRUE]
                                ELSE rows[e]]
    /\ GoTo(w, "backfill")
    /\ UNCHANGED <<consumer, event, history>>

\* releaseExpiredClaims: an expired claim counts as a failed attempt, whoever
\* held it.
ReleaseExpiredClaims(w) ==
    /\ At(w, "release")
    /\ rows' = [e \in Events |-> IF Expired(e) THEN ReleasedRow(rows[e]) ELSE rows[e]]
    /\ GoTo(w, "backfill")
    /\ UNCHANGED <<consumer, event, history>>

\* The first n events of S in id order (ORDER BY e.id LIMIT n).
Oldest(S, n) == {e \in S : Cardinality({f \in S : f <= e}) <= n}

Stored == {e \in Events : event[e] = "stored"}

\* ensurePendingDeliveries: INSERT IGNORE over the oldest unexpired events,
\* whether or not they have a row already: settled events fill the window
\* until they are past their retention.
Window == Oldest(Stored, WindowFactor * Limit)

Backfilled == IF Enabled THEN Window ELSE {}

\* A dry run, and a run whose consumer was not ready, end here.
EnsurePendingDeliveries(w) ==
    /\ At(w, "backfill")
    /\ rows' = [e \in Events |-> IF e \in Backfilled /\ rows[e].status = "none"
                                 THEN PendingRow ELSE rows[e]]
    /\ IF worker[w].apply THEN GoTo(w, "claim") ELSE Return(w)
    /\ UNCHANGED <<consumer, event, history>>

\* The rows the claim query selects, in the order occurred_at, id.
Due == {e \in Stored : rows[e].status \in {"pending", "failed"} /\ rows[e].due}

Precedes(f, e) ==
    \/ OccurredAt[f] < OccurredAt[e]
    \/ OccurredAt[f] = OccurredAt[e] /\ f <= e

First(S, n) == {e \in S : Cardinality({f \in S : Precedes(f, e)}) <= n}

ClaimLimit == IF Limit < BatchSize THEN Limit ELSE BatchSize

\* randomUUID(): held by no row and no worker.  Taking the least keeps the
\* model finite.
Unused(t) ==
    /\ \A e \in Events : rows[e].token # t
    /\ \A w \in Workers : worker[w].token # t

Fresh(t) == Unused(t) /\ \A u \in Tokens : u < t => ~Unused(u)

ClaimedRow(r, t) == [status |-> "claimed", attempts |-> r.attempts, token |-> t,
                     lapsed |-> FALSE, due |-> r.due]

\* claimPendingRows: one transaction; the rows are locked while it runs.
ClaimPendingRows(w, t) ==
    LET batch == First(Due, ClaimLimit)
    IN  /\ At(w, "claim")
        /\ Due # {}
        /\ Fresh(t)
        /\ rows' = [e \in Events |-> IF e \in batch THEN ClaimedRow(rows[e], t) ELSE rows[e]]
        /\ worker' = [worker EXCEPT ![w] =
             [pc |-> "send", apply |-> TRUE, token |-> t, batch |-> batch, todo |-> {},
              attempts |-> [e \in Events |-> IF e \in batch THEN rows[e].attempts ELSE 0]]]
        /\ claims' = [e \in Events |-> IF e \in batch THEN claims[e] + 1 ELSE claims[e]]
        /\ UNCHANGED <<consumer, event, received>>

ClaimNothing(w) ==
    /\ At(w, "claim")
    /\ Due = {}
    /\ Return(w)
    /\ UNCHANGED <<consumer, event, rows, history>>

\* The catch clause, and the non-2xx branch, fail the batch row by row.
FailBatch(w, l) ==
    worker' = [worker EXCEPT ![w] = [worker[w] EXCEPT !.pc = l, !.todo = worker[w].batch]]

\* fetch: the receiver takes the whole batch or none of it.
\* A 2xx answer arrives.
SendAccepted(w) ==
    /\ At(w, "send")
    /\ received' = received \cup worker[w].batch
    /\ GoTo(w, "acking")
    /\ UNCHANGED <<consumer, event, rows, claims>>

\* Another answer arrives.
SendRejected(w) ==
    /\ At(w, "send")
    /\ FailBatch(w, "rejecting")
    /\ UNCHANGED <<consumer, event, rows, claims, received>>

\* No answer arrives before the timeout: the receiver may have taken the batch.
SendThrows(w, taken) ==
    /\ At(w, "send")
    /\ received' = IF taken THEN received \cup worker[w].batch ELSE received
    /\ FailBatch(w, "failing")
    /\ UNCHANGED <<consumer, event, rows, claims>>

\* The UPDATEs that record an outcome reach only rows still under the token.
Holds(w, e) == rows[e].token = worker[w].token

MutKeepToken(r) == [r EXCEPT !.status = "delivered", !.lapsed = FALSE]

DeliveredRow(r) == [status |-> "delivered", attempts |-> r.attempts, token |-> NoToken,
                    lapsed |-> FALSE, due |-> r.due]

\* markBatchDelivered.
MarkBatch(w) ==
    rows' = [e \in Events |-> IF e \in worker[w].batch /\ Holds(w, e)
                              THEN DeliveredRow(rows[e]) ELSE rows[e]]

MarkBatchDelivered(w) ==
    /\ At(w, "acking")
    /\ MarkBatch(w)
    /\ Return(w)
    /\ UNCHANGED <<consumer, event, history>>

\* Its UPDATE, or the consumer's bookkeeping after it, fails: the exception
\* lands in the catch clause, which fails the batch.
MarkBatchDeliveredThrows(w) ==
    /\ At(w, "acking")
    /\ MarkBatch(w) \/ UNCHANGED rows
    /\ FailBatch(w, "failing")
    /\ UNCHANGED <<consumer, event, history>>

MutFailedRow(n) ==
    LET deadLetter == n >= MaxAttempts
    IN  [status   |-> IF deadLetter THEN "dead_letter" ELSE "failed",
         attempts |-> n + 1, token |-> NoToken, lapsed |-> FALSE, due |-> deadLetter]

\* What markBatchFailed writes after n earlier attempts; the limit is tested in
\* JavaScript.
FailedRow(n) ==
    LET nextAttempt == n + 1
        deadLetter  == nextAttempt >= MaxAttempts
    IN  [status   |-> IF deadLetter THEN "dead_letter" ELSE "failed",
         attempts |-> nextAttempt, token |-> NoToken, lapsed |-> FALSE, due |-> deadLetter]

\* One iteration of markBatchFailed, from the attempt count read with the claim.
MarkRowFailed(w) ==
    /\ At(w, "rejecting") \/ At(w, "failing")
    /\ \E e \in First(worker[w].todo, 1) :
         /\ rows' = IF Holds(w, e)
                    THEN [rows EXCEPT ![e] = FailedRow(worker[w].attempts[e])]
                    ELSE rows
         /\ worker' = [worker EXCEPT ![w].todo = @ \ {e}]
    /\ UNCHANGED <<consumer, event, history>>

MarkBatchFailedDone(w) ==
    /\ At(w, "rejecting") \/ At(w, "failing")
    /\ worker[w].todo = {}
    /\ Return(w)
    /\ UNCHANGED <<consumer, event, rows, history>>

\* markBatchFailed throws inside the try block: the catch clause runs it again
\* from the first row.
MarkBatchFailedThrows(w) ==
    /\ At(w, "rejecting")
    /\ FailBatch(w, "failing")
    /\ UNCHANGED <<consumer, event, rows, history>>

\* The process dies, or an exception leaves runPlatformOutboxWorker.
Abandon(w) ==
    /\ ~At(w, "idle")
    /\ Return(w)
    /\ UNCHANGED <<consumer, event, rows, history>>

-----------------------------------------------------------------------------
Progress(w) ==
    \/ ReleaseExpiredClaims(w)
    \/ EnsurePendingDeliveries(w)
    \/ \E t \in Tokens : ClaimPendingRows(w, t)
    \/ ClaimNothing(w)
    \/ SendAccepted(w)
    \/ SendRejected(w)
    \/ \E taken \in BOOLEAN : SendThrows(w, taken)
    \/ MarkBatchDelivered(w)
    \/ MarkBatchDeliveredThrows(w)
    \/ MarkRowFailed(w)
    \/ MarkBatchFailedDone(w)
    \/ MarkBatchFailedThrows(w)

Clock ==
    \E e \in Events : ClaimLapses(e) \/ RetryComesDue(e) \/ Retire(e)

Next ==
    \/ \E e \in Events : Enqueue(e)
    \/ \E c \in {"disabled", "enabled", "ready"} : Configure(c)
    \/ Clock
    \/ \E w \in Workers : Progress(w) \/ Abandon(w) \/ \E dry \in BOOLEAN : Start(w, dry)

Spec == Init /\ [][Next]_vars

\* Cron or the loop keeps starting apply runs, time passes, and runs that are
\* killed now and then still get each of their statements through eventually.
\* Nothing is assumed of the receiver.
FairSpec ==
    /\ Spec
    /\ \A w \in Workers :
         /\ SF_vars(Start(w, FALSE))
         /\ SF_vars(worker[w].apply /\ ReleaseExpiredClaims(w))
         /\ SF_vars(worker[w].apply /\ EnsurePendingDeliveries(w))
         /\ SF_vars(\E t \in Tokens : ClaimPendingRows(w, t))
         /\ WF_vars(Progress(w))
    /\ \A e \in Events : WF_vars(ClaimLapses(e)) /\ WF_vars(RetryComesDue(e))

-----------------------------------------------------------------------------
(* Properties. *)

\* The variables hold what their columns and locals can hold.  Attempts and
\* claims stay within max_attempts.
TypeOK ==
    /\ consumer \in {"disabled", "enabled", "ready"}
    /\ event \in [Events -> {"new", "stored", "retired"}]
    /\ rows \in [Events -> Row]
    /\ worker \in [Workers -> Run]
    /\ claims \in [Events -> 0..MaxAttempts]
    /\ received \subseteq Events

\* Each claim of a row is accounted for exactly once: it is still open, or it
\* ended in delivery, or attempt_count counts it.  Expiry of the claim, a late
\* answer of its first holder, a second holder, a repeated markBatchFailed and
\* a crash may neither lose an attempt nor count one twice.
AttemptLedger ==
    \A e \in Events :
        claims[e] = rows[e].attempts
                      + (IF rows[e].status \in {"claimed", "delivered"} THEN 1 ELSE 0)

\* A row is dead-lettered with its max_attempts-th failure, never earlier.
DeadLetterAtLimit ==
    \A e \in Events :
        rows[e].status = "dead_letter" <=> rows[e].attempts = MaxAttempts

\* A row says delivered only if the receiver took the event, although the row
\* may be settled by a run whose own answer came late.
DeliveredWasReceived ==
    \A e \in Events : rows[e].status = "delivered" => e \in received

Settled(e) == rows[e].status \in {"delivered", "dead_letter"}

\* A delivered row or a dead letter is final: no late outcome, expiry, backfill
\* or claim of any worker reopens it.
SettledStays ==
    [][\A e \in Events : Settled(e) => rows'[e].status = rows[e].status]_vars

\* Backfill can still give e a row: it has one, or it lies in the window.
InReach(e) == event[e] = "stored" => rows[e].status # "none" \/ e \in Window

\* Once the consumer stays ready, every stored event that has a delivery row or
\* lies in the backfill window is delivered or becomes a dead letter unless it
\* is retired first, whatever was enqueued while the consumer was off and
\* however often workers die.  An event behind the window waits until older
\* ones retire, for ever if they never do (ensurePendingDeliveries).
EventSettles ==
    \A e \in Events :
        <>[](consumer = "ready" /\ InReach(e)) =>
            (event[e] = "stored" ~> (Settled(e) \/ event[e] = "retired"))
=============================================================================
