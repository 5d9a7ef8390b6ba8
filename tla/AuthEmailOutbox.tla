-------------------------- MODULE AuthEmailOutbox --------------------------
(***************************************************************************)
(* The auth e-mail outbox of http-generic-api: rows queued by the support  *)
(* ticket router, the batch worker with its attempt ledger                 *)
(* (authEmailOutboxWorker.js, authEmailOutboxAttemptLedger.js), the skip   *)
(* tool, and the targeted delivery with a ledger of its own                *)
(* (authEmailTargetedDeliveryWorker.js).  Any number of batch workers and  *)
(* targeted calls run at once; between two transactions of one of them the *)
(* others take theirs, and a process may stop at any point.                *)
(*                                                                         *)
(* What a process does between two of its transactions, a call of the mail *)
(* provider included, is one action.  A call that reports an error may     *)
(* have delivered the message, and a transaction that reports an error may *)
(* have committed.  The filters by purpose and by allowed ids let any      *)
(* queued row be the oldest.  A duplicate of a notification is another     *)
(* e-mail here; emailAlreadyQueued only decides whether there is a row.    *)
(***************************************************************************)
EXTENDS Naturals

CONSTANTS
    Emails,      \* auth_email_outbox.email_id
    Workers,     \* processes running the batch worker or the skip tool
    Targets,     \* calls of applyTargetAuthEmailDelivery, one attempt_id each
    MaxAttempts  \* bound: attempt numbers of one e-mail

ASSUME AttemptsAssumption == MaxAttempts \in Nat

VARIABLES
    row,       \* auth_email_outbox.status; "none" before the row exists
    reserved,  \* metadata_json.delivery_attempt_id of a targeted call
    eligible,  \* the ticket the e-mail is about is open
    batch,     \* auth_email_outbox_delivery_attempts.status by number
    worker,    \* batch workers: location, e-mail, attempt number
    target,    \* targeted calls: location, e-mail, auth_email_delivery_attempts.status
    sends      \* messages the provider took from batch workers
               \* (the ones from targeted calls are target[t].received)

vars == <<row, reserved, eligible, batch, worker, target, sends>>

-----------------------------------------------------------------------------
RowStatuses == {"queued", "sent", "failed", "skipped"}

AttemptStatuses == {"started", "sent", "failed"}

TargetStatuses == {"started", "sent", "failed", "unknown"}

Numbers == 1..MaxAttempts

\* No e-mail and no targeted call: values outside both sets.
NoEmail == "no email"

NoTarget == "no attempt"

ASSUME NamesAssumption == NoEmail \notin Emails

WorkerPCs == {"idle", "skip", "claim", "insert", "send", "finish", "failing"}

TargetPCs == {"idle", "send", "finish", "failing", "done"}

Idle == [pc |-> "idle", email |-> NoEmail, n |-> 0]

NoCall == [pc |-> "idle", email |-> NoEmail, status |-> "none",
           called |-> FALSE, received |-> FALSE]

Init ==
    /\ row = [e \in Emails |-> "none"]
    /\ reserved = [e \in Emails |-> NoTarget]
    /\ eligible = [e \in Emails |-> TRUE]
    /\ batch = [e \in Emails |-> [n \in Numbers |-> "none"]]
    /\ worker = [w \in Workers |-> Idle]
    /\ target = [t \in Targets |-> NoCall]
    /\ sends = {}

-----------------------------------------------------------------------------
(* Surroundings: the router queues a row, and tickets close and reopen     *)
(* (evaluateAuthEmailOutboxSendEligibility).                               *)
Enqueue(e) ==
    /\ row[e] = "none"
    /\ row' = [row EXCEPT ![e] = "queued"]
    /\ UNCHANGED <<reserved, eligible, batch, worker, target, sends>>

TicketChanges(e) ==
    /\ row[e] # "none"
    /\ eligible' = [eligible EXCEPT ![e] = ~@]
    /\ UNCHANGED <<row, reserved, batch, worker, target, sends>>

-----------------------------------------------------------------------------
(* The batch worker.                                                       *)
At(w, pc) == worker[w].pc = pc

\* A worker that turns to the next e-mail forgets the last one.
Goto(w, pc) ==
    worker' = [worker EXCEPT ![w] = IF pc = "idle" THEN Idle ELSE [@ EXCEPT !.pc = pc]]

\* Mutation: an open attempt does not count as a claim.
MutOnlySentClaims(e) == \E n \in Numbers : batch[e][n] = "sent"

ActiveClaim(e) == \E n \in Numbers : batch[e][n] = "started"

\* fetchQueuedEmails without a lock; the row is looked at again only when an
\* outcome is written.
Fetch(w, e) ==
    /\ At(w, "idle")
    /\ row[e] = "queued"
    /\ ~ActiveClaim(e)
    /\ worker' = [worker EXCEPT ![w] = [pc |-> IF eligible[e] THEN "claim" ELSE "skip",
                                        email |-> e, n |-> 0]]
    /\ UNCHANGED <<row, reserved, eligible, batch, target, sends>>

\* The skip tool does not leave out e-mails with an active claim.
FetchToSkip(w, e) ==
    /\ At(w, "idle")
    /\ row[e] = "queued"
    /\ ~eligible[e]
    /\ worker' = [worker EXCEPT ![w] = [pc |-> "skip", email |-> e, n |-> 0]]
    /\ UNCHANGED <<row, reserved, eligible, batch, target, sends>>

Skip(w) ==
    /\ At(w, "skip")
    /\ row' = [row EXCEPT ![worker[w].email] = IF @ = "queued" THEN "skipped" ELSE @]
    /\ Goto(w, "idle")
    /\ UNCHANGED <<reserved, eligible, batch, target, sends>>

\* claimAuthEmailOutboxDeliveryAttempt: the next number is read, then the
\* attempt is inserted under two unique keys: the number, the active claim.
UsedNumbers(e) == {n \in Numbers : batch[e][n] # "none"}

ReadNumber(w) ==
    /\ At(w, "claim")
    /\ \E n \in Numbers :
         /\ \A m \in Numbers : m < n <=> m \in UsedNumbers(worker[w].email)
         /\ worker' = [worker EXCEPT ![w] = [pc |-> "insert", email |-> worker[w].email, n |-> n]]
    /\ UNCHANGED <<row, reserved, eligible, batch, target, sends>>

Duplicate(e, n) == batch[e][n] # "none" \/ ActiveClaim(e)

\* The worker goes on, or loses the answer and gives up.
InsertClaim(w, pc) ==
    /\ At(w, "insert")
    /\ pc \in {"send", "idle"}
    /\ ~Duplicate(worker[w].email, worker[w].n)
    /\ batch' = [batch EXCEPT ![worker[w].email][worker[w].n] = "started"]
    /\ Goto(w, pc)
    /\ UNCHANGED <<row, reserved, eligible, target, sends>>

ClaimConflict(w) ==
    /\ At(w, "insert")
    /\ Duplicate(worker[w].email, worker[w].n)
    /\ Goto(w, "idle")
    /\ UNCHANGED <<row, reserved, eligible, batch, target, sends>>

\* No sender, or an error of the provider; the message may be out.
Message(w) == [by |-> w, email |-> worker[w].email, n |-> worker[w].n]

\* Mutation: an error of the provider is ignored.
MutSendErrorIgnored(w, received) ==
    /\ At(w, "send")
    /\ sends' = IF received THEN sends \cup {Message(w)} ELSE sends
    /\ Goto(w, "finish")
    /\ UNCHANGED <<row, reserved, eligible, batch, target>>

SendFails(w, received) ==
    /\ At(w, "send")
    /\ sends' = IF received THEN sends \cup {Message(w)} ELSE sends
    /\ Goto(w, "failing")
    /\ UNCHANGED <<row, reserved, eligible, batch, target>>

\* Mutation: the message goes out before the attempt is inserted.
MutSendBeforeClaim(w) ==
    /\ At(w, "insert")
    /\ sends' = sends \cup {Message(w)}
    /\ Goto(w, "finish")
    /\ UNCHANGED <<row, reserved, eligible, batch, target>>

SendSucceeds(w) ==
    /\ At(w, "send")
    /\ sends' = sends \cup {Message(w)}
    /\ Goto(w, "finish")
    /\ UNCHANGED <<row, reserved, eligible, batch, target>>

\* Mutation: the row is written without looking at its status.
MutFinishUnchecked(w) ==
    /\ At(w, "finish")
    /\ row' = [row EXCEPT ![worker[w].email] = "sent"]
    /\ batch' = [batch EXCEPT ![worker[w].email][worker[w].n] = "sent"]
    /\ Goto(w, "idle")
    /\ UNCHANGED <<reserved, eligible, target, sends>>

\* Row and attempt are settled in one transaction, or neither: then the
\* attempt stays started.
Finish(w) ==
    /\ At(w, "finish")
    /\ row[worker[w].email] = "queued"
    /\ row' = [row EXCEPT ![worker[w].email] = "sent"]
    /\ batch' = [batch EXCEPT ![worker[w].email][worker[w].n] = "sent"]
    /\ Goto(w, "idle")
    /\ UNCHANGED <<reserved, eligible, target, sends>>

\* The row is marked failed only if it is still queued; the attempt always.
Fail(w) ==
    /\ At(w, "failing")
    /\ row' = [row EXCEPT ![worker[w].email] = IF @ = "queued" THEN "failed" ELSE @]
    /\ batch' = [batch EXCEPT ![worker[w].email][worker[w].n] = "failed"]
    /\ Goto(w, "idle")
    /\ UNCHANGED <<reserved, eligible, target, sends>>

\* A crash, a failed transaction, or a finalisation that finds the row settled
\* (the error is recorded in the attempt, which stays started).
GiveUp(w) ==
    /\ ~At(w, "idle")
    /\ Goto(w, "idle")
    /\ UNCHANGED <<row, reserved, eligible, batch, target, sends>>

-----------------------------------------------------------------------------
(* The targeted delivery.                                                  *)
TargetAt(t, pc) == target[t].pc = pc

TargetGoto(t, pc) == target' = [target EXCEPT ![t].pc = pc]

\* One transaction with the row locked.  The reservation is the status failed
\* with the attempt's id; a lost answer ends the call.
Reserve(t, e, pc) ==
    /\ TargetAt(t, "idle")
    /\ pc \in {"send", "done"}
    /\ row[e] = "queued"
    /\ eligible[e]
    /\ row' = [row EXCEPT ![e] = "failed"]
    /\ reserved' = [reserved EXCEPT ![e] = t]
    /\ target' = [target EXCEPT ![t] = [NoCall EXCEPT !.pc = pc, !.email = e, !.status = "started"]]
    /\ UNCHANGED <<eligible, batch, worker, sends>>

TargetNoSender(t) ==
    /\ TargetAt(t, "send")
    /\ TargetGoto(t, "failing")
    /\ UNCHANGED <<row, reserved, eligible, batch, worker, sends>>

TargetSend(t, pc, received) ==
    /\ TargetAt(t, "send")
    /\ pc \in {"finish", "failing"}
    /\ pc = "finish" => received
    /\ target' = [target EXCEPT ![t].pc = pc, ![t].called = TRUE, ![t].received = received]
    /\ UNCHANGED <<row, reserved, eligible, batch, worker, sends>>

HoldsReservation(t) ==
    row[target[t].email] = "failed" /\ reserved[target[t].email] = t

\* Succeeds, or commits and loses the answer.
TargetFinish(t, pc) ==
    /\ TargetAt(t, "finish")
    /\ pc \in {"done", "failing"}
    /\ HoldsReservation(t)
    /\ row' = [row EXCEPT ![target[t].email] = "sent"]
    /\ target' = [target EXCEPT ![t].pc = pc, ![t].status = "sent"]
    /\ UNCHANGED <<reserved, eligible, batch, worker, sends>>

\* The reservation is gone, or the transaction failed.
TargetFinishFails(t) ==
    /\ TargetAt(t, "finish")
    /\ TargetGoto(t, "failing")
    /\ UNCHANGED <<row, reserved, eligible, batch, worker, sends>>

\* The row keeps the status failed; a settled attempt is left alone.
TargetFail(t) ==
    /\ TargetAt(t, "failing")
    /\ target' = [target EXCEPT
                    ![t].pc = "done",
                    ![t].status = IF @ # "started" THEN @
                                  ELSE IF target[t].called THEN "unknown" ELSE "failed"]
    /\ UNCHANGED <<row, reserved, eligible, batch, worker, sends>>

TargetStops(t) ==
    /\ target[t].pc \in {"send", "finish", "failing"}
    /\ TargetGoto(t, "done")
    /\ UNCHANGED <<row, reserved, eligible, batch, worker, sends>>

-----------------------------------------------------------------------------
WorkerStep(w) ==
    \/ \E e \in Emails : Fetch(w, e) \/ FetchToSkip(w, e)
    \/ Skip(w)
    \/ ReadNumber(w)
    \/ \E pc \in WorkerPCs : InsertClaim(w, pc)
    \/ ClaimConflict(w)
    \/ \E received \in BOOLEAN : SendFails(w, received)
    \/ SendSucceeds(w)
    \/ Finish(w)
    \/ Fail(w)
    \/ GiveUp(w)

TargetStep(t) ==
    \/ \E e \in Emails, pc \in TargetPCs : Reserve(t, e, pc)
    \/ TargetNoSender(t)
    \/ \E pc \in TargetPCs, received \in BOOLEAN : TargetSend(t, pc, received)
    \/ \E pc \in TargetPCs : TargetFinish(t, pc)
    \/ TargetFinishFails(t)
    \/ TargetFail(t)
    \/ TargetStops(t)

Next ==
    \/ \E e \in Emails : Enqueue(e) \/ TicketChanges(e)
    \/ \E w \in Workers : WorkerStep(w)
    \/ \E t \in Targets : TargetStep(t)

Spec == Init /\ [][Next]_vars

-----------------------------------------------------------------------------
TypeOK ==
    /\ row \in [Emails -> RowStatuses \cup {"none"}]
    /\ reserved \in [Emails -> Targets \cup {NoTarget}]
    /\ eligible \in [Emails -> BOOLEAN]
    /\ batch \in [Emails -> [Numbers -> AttemptStatuses \cup {"none"}]]
    /\ worker \in [Workers -> [pc : WorkerPCs, email : Emails \cup {NoEmail}, n : 0..MaxAttempts]]
    /\ target \in [Targets -> [pc : TargetPCs, email : Emails \cup {NoEmail},
                               status : TargetStatuses \cup {"none"},
                               called : BOOLEAN, received : BOOLEAN]]
    /\ sends \subseteq [by : Workers, email : Emails, n : Numbers]

(* A worker never sends the same e-mail twice, over all its runs, crashes, *)
(* failed transactions and lost answers (fetchQueuedEmails leaves out open *)
(* attempts, and a settled one takes the row out of the queue).  Two       *)
(* workers can each send it once: the claim does not look at the row again.*)
SenderNeverRepeats ==
    \A x, y \in sends : x.by = y.by /\ x.email = y.email => x = y

(* Every message is covered by an attempt of its own in the ledger, which  *)
(* was there before the message went out: no two messages share one        *)
(* (claimAuthEmailOutboxDeliveryAttempt, the unique keys).                 *)
EachMessageHasItsAttempt ==
    /\ \A x \in sends : batch[x.email][x.n] # "none"
    /\ \A x, y \in sends : x.email = y.email /\ x.n = y.n => x = y

(* A row that is still queued was not tried: it has no targeted attempt    *)
(* and no settled batch attempt, so nothing is retried behind the ledger.  *)
QueuedWasNotTried ==
    \A e \in Emails : row[e] \in {"none", "queued"} =>
        /\ \A n \in Numbers : batch[e][n] \in {"none", "started"}
        /\ \A t \in Targets : target[t].email # e

SentInBatch(e) == {n \in Numbers : batch[e][n] = "sent"}

SentByTarget(e) == {t \in Targets : target[t].email = e /\ target[t].status = "sent"}

(* The row and the two ledgers agree: a row is sent if and only if one     *)
(* attempt of one ledger is, never two, and the message of that attempt    *)
(* did go out.                                                             *)
SentIsEvidenced ==
    \A e \in Emails :
        /\ row[e] = "sent" <=> SentInBatch(e) # {} \/ SentByTarget(e) # {}
        /\ SentInBatch(e) = {} \/ SentByTarget(e) = {}
        /\ \A m, n \in SentInBatch(e) : m = n
        /\ \A t, u \in SentByTarget(e) : t = u
        /\ \A n \in SentInBatch(e) : \E x \in sends : x.email = e /\ x.n = n
        /\ \A t \in SentByTarget(e) : target[t].received

(* Rows never return to the queue, sent and skipped rows and settled       *)
(* attempts are final, and a failed row becomes sent only by the targeted  *)
(* call that reserved it.                                                  *)
SettledEmailStays ==
    [][/\ \A e \in Emails :
            /\ row[e] # "none" /\ row'[e] = "queued" => row[e] = "queued"
            /\ row[e] \in {"sent", "skipped"} => row'[e] = row[e]
            /\ row[e] = "failed" /\ row'[e] # "failed" =>
                 row'[e] = "sent" /\ \E t \in Targets : reserved[e] = t /\ target'[t].status = "sent"
            /\ \A n \in Numbers : batch[e][n] \in {"sent", "failed"} => batch'[e][n] = batch[e][n]
       /\ \A t \in Targets :
            target[t].status \in {"sent", "failed", "unknown"} => target'[t].status = target[t].status
      ]_vars

=============================================================================
