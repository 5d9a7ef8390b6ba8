----------------------- MODULE AuthEmailOutboxProofs -----------------------
(***************************************************************************)
(* The auth e-mail outbox, for any number of e-mails, batch workers,       *)
(* targeted calls and attempts.                                            *)
(*                                                                         *)
(* The unique keys of the attempt ledger give an attempt one worker        *)
(* (Owners), which finds it started until it settles it (Claimed).  An     *)
(* attempt leaves started only together with the row leaving the queue     *)
(* (QueuedWasNotTried), so a worker that fetches a queued e-mail without   *)
(* an open attempt has never sent it (Unsent).  Row and ledgers agree      *)
(* because every settlement finds the row queued, or failed under its own  *)
(* reservation, and so finds no sent attempt in either ledger.             *)
(***************************************************************************)
EXTENDS AuthEmailOutbox, TLAPS

\* Locations of a worker that has an attempt of its own.
InFlight == {"send", "finish", "failing"}

\* The e-mail and the attempt number a worker has read.
Located(w) ==
    /\ worker[w].pc # "idle" => worker[w].email \in Emails /\ row[worker[w].email] # "none"
    /\ worker[w].pc \in InFlight \cup {"insert"} => worker[w].n \in Numbers

Claimed(w) ==
    worker[w].pc \in InFlight => batch[worker[w].email][worker[w].n] = "started"

\* No message went out under the attempt before the call, and one did when the
\* provider said so.
Covered(w) ==
    /\ worker[w].pc = "send" =>
         \A x \in sends : ~(x.email = worker[w].email /\ x.n = worker[w].n)
    /\ worker[w].pc = "finish" => Message(w) \in sends

\* What the worker is about to send it has not sent before.
Unsent(w) ==
    worker[w].pc \in {"claim", "insert", "send"} =>
        \A x \in sends : x.by = w => x.email # worker[w].email

Owners ==
    \A v, w \in Workers :
        /\ worker[v].pc \in InFlight /\ worker[w].pc \in InFlight
        /\ worker[v].email = worker[w].email /\ worker[v].n = worker[w].n
        => v = w

WorkerInv(w) == Located(w) /\ Claimed(w) /\ Covered(w) /\ Unsent(w)

\* A targeted call settles its attempt once, and as sent only after the
\* provider took the message.
TargetInv(t) ==
    /\ target[t].pc # "idle" => target[t].email \in Emails
    /\ target[t].pc = "idle" => target[t].status = "none"
    /\ target[t].pc \in {"send", "finish"} => target[t].status = "started"
    /\ target[t].pc = "finish" \/ target[t].status = "sent" => target[t].received

EmailInv ==
    /\ TypeOK
    /\ \A w \in Workers : WorkerInv(w)
    /\ Owners
    /\ \A t \in Targets : TargetInv(t)
    /\ QueuedWasNotTried
    /\ SenderNeverRepeats
    /\ EachMessageHasItsAttempt
    /\ SentIsEvidenced

-----------------------------------------------------------------------------
(* Types. *)

WorkerStates == [pc : WorkerPCs, email : Emails \cup {NoEmail}, n : 0..MaxAttempts]

TargetStates == [pc : TargetPCs, email : Emails \cup {NoEmail},
                 status : TargetStatuses \cup {"none"}, called : BOOLEAN, received : BOOLEAN]

TypedRows ==
    /\ row \in [Emails -> RowStatuses \cup {"none"}]
    /\ reserved \in [Emails -> Targets \cup {NoTarget}]
    /\ eligible \in [Emails -> BOOLEAN]
TypedBatch == batch \in [Emails -> [Numbers -> AttemptStatuses \cup {"none"}]]
TypedWorker == worker \in [Workers -> WorkerStates]
TypedTarget == target \in [Targets -> TargetStates]
TypedSends == sends \subseteq [by : Workers, email : Emails, n : Numbers]

\* The types are those of the tables, the processes and the history.
LEMMA TypeParts == TypeOK <=> TypedRows /\ TypedBatch /\ TypedWorker /\ TypedTarget /\ TypedSends
BY DEF TypeOK, TypedRows, TypedBatch, TypedWorker, TypedTarget, TypedSends, WorkerStates, TargetStates

\* The same after a step.
LEMMA TypePartsNext ==
    TypedRows' /\ TypedBatch' /\ TypedWorker' /\ TypedTarget' /\ TypedSends' => TypeOK'
BY DEF TypeOK, TypedRows, TypedBatch, TypedWorker, TypedTarget, TypedSends, WorkerStates, TargetStates

\* Where Goto leaves the workers.
LEMMA GotoEffect ==
    ASSUME TypedWorker, NEW w \in Workers, NEW pc \in WorkerPCs, Goto(w, pc)
    PROVE  /\ TypedWorker'
           /\ worker'[w].pc = pc
           /\ pc # "idle" => worker'[w].email = worker[w].email /\ worker'[w].n = worker[w].n
           /\ \A v \in Workers \ {w} : worker'[v] = worker[v]
<1>1. worker[w] \in WorkerStates
  BY DEF TypedWorker
<1>2. Idle \in WorkerStates /\ Idle.pc = "idle"
  BY AttemptsAssumption DEF Idle, WorkerStates, WorkerPCs
<1>3. CASE pc = "idle"
  BY <1>2, <1>3 DEF Goto, TypedWorker
<1>4. CASE pc # "idle"
  <2>1. worker' = [worker EXCEPT ![w] = [worker[w] EXCEPT !.pc = pc]]
    BY <1>4 DEF Goto
  <2>2. [worker[w] EXCEPT !.pc = pc] \in WorkerStates
    BY <1>1 DEF WorkerStates
  <2> QED BY <1>1, <1>4, <2>1, <2>2 DEF TypedWorker, WorkerStates
<1> QED BY <1>3, <1>4

\* A worker begins with an e-mail, or reads an attempt number.
LEMMA BeginEffect ==
    ASSUME TypedWorker, NEW w \in Workers, NEW r \in WorkerStates, worker' = [worker EXCEPT ![w] = r]
    PROVE  TypedWorker' /\ worker'[w] = r /\ \A v \in Workers \ {w} : worker'[v] = worker[v]
BY DEF TypedWorker

\* Where TargetGoto leaves the targeted calls.
LEMMA TargetGotoEffect ==
    ASSUME TypedTarget, NEW t \in Targets, NEW pc \in TargetPCs, TargetGoto(t, pc)
    PROVE  /\ TypedTarget'
           /\ target'[t].pc = pc
           /\ target'[t].email = target[t].email /\ target'[t].status = target[t].status
           /\ target'[t].called = target[t].called /\ target'[t].received = target[t].received
           /\ \A u \in Targets \ {t} : target'[u] = target[u]
BY DEF TargetGoto, TypedTarget, TargetStates

-----------------------------------------------------------------------------
(* Steps that change one worker only. *)

RestInv ==
    /\ Owners /\ QueuedWasNotTried /\ SenderNeverRepeats
    /\ EachMessageHasItsAttempt /\ SentIsEvidenced

\* The invariant in three parts.
LEMMA InvParts ==
    EmailInv <=> TypeOK /\ (\A w \in Workers : WorkerInv(w)) /\ (\A t \in Targets : TargetInv(t)) /\ RestInv
BY DEF EmailInv, RestInv

\* The same after a step.
LEMMA InvPartsNext ==
    TypeOK' /\ (\A w \in Workers : WorkerInv(w))' /\ (\A t \in Targets : TargetInv(t))' /\ RestInv' => EmailInv'
BY DEF EmailInv, RestInv

\* The steps before a worker has an attempt, and the end of its work.
Quiet(w) ==
    \/ \E e \in Emails : Fetch(w, e) \/ FetchToSkip(w, e)
    \/ ReadNumber(w) \/ ClaimConflict(w) \/ GiveUp(w)

\* An e-mail fetched by a worker is queued and has no open attempt, so none
\* of its messages is the worker's.
LEMMA FetchUnsent ==
    ASSUME EmailInv, NEW e \in Emails, row[e] = "queued", ~ActiveClaim(e)
    PROVE  \A x \in sends : x.email # e
<1> SUFFICES ASSUME NEW x \in sends, x.email = e PROVE FALSE
  OBVIOUS
<1>1. x.n \in Numbers
  BY DEF EmailInv, TypeOK
<1>2. batch[e][x.n] # "none" /\ batch[e][x.n] \in {"none", "started"}
  BY <1>1 DEF EmailInv, EachMessageHasItsAttempt, QueuedWasNotTried
<1> QED BY <1>1, <1>2 DEF ActiveClaim

\* Such a step leaves the worker without an attempt.
LEMMA QuietEffect ==
    ASSUME EmailInv, NEW w \in Workers, Quiet(w)
    PROVE  /\ UNCHANGED <<row, reserved, eligible, batch, target, sends>>
           /\ TypedWorker'
           /\ \A v \in Workers \ {w} : worker'[v] = worker[v]
           /\ worker'[w].pc \notin InFlight
           /\ Located(w)' /\ Unsent(w)'
<1>1. TypeOK /\ TypedWorker /\ WorkerInv(w) /\ worker[w] \in WorkerStates
  BY TypeParts DEF EmailInv, TypedWorker
<1>2. ASSUME NEW e \in Emails, Fetch(w, e)
      PROVE  /\ UNCHANGED <<row, reserved, eligible, batch, target, sends>>
             /\ TypedWorker'
             /\ \A v \in Workers \ {w} : worker'[v] = worker[v]
             /\ worker'[w].pc \notin InFlight
             /\ Located(w)' /\ Unsent(w)'
  <2> DEFINE r == [pc |-> IF eligible[e] THEN "claim" ELSE "skip", email |-> e, n |-> 0]
  <2>1. r \in WorkerStates /\ r.pc \in {"claim", "skip"} /\ r.email = e
    BY AttemptsAssumption DEF WorkerStates, WorkerPCs
  <2>2. TypedWorker' /\ worker'[w] = r /\ \A v \in Workers \ {w} : worker'[v] = worker[v]
    BY <1>1, <1>2, <2>1, BeginEffect DEF Fetch
  <2>3. \A x \in sends : x.email # e
    BY <1>2, FetchUnsent DEF Fetch
  <2> HIDE DEF r
  <2> QED BY <1>2, <2>1, <2>2, <2>3 DEF Fetch, InFlight, Located, Unsent
<1>3. ASSUME NEW e \in Emails, FetchToSkip(w, e)
      PROVE  /\ UNCHANGED <<row, reserved, eligible, batch, target, sends>>
             /\ TypedWorker'
             /\ \A v \in Workers \ {w} : worker'[v] = worker[v]
             /\ worker'[w].pc \notin InFlight
             /\ Located(w)' /\ Unsent(w)'
  <2> DEFINE r == [pc |-> "skip", email |-> e, n |-> 0]
  <2>1. r \in WorkerStates /\ r.pc = "skip" /\ r.email = e
    BY AttemptsAssumption DEF WorkerStates, WorkerPCs
  <2>2. TypedWorker' /\ worker'[w] = r /\ \A v \in Workers \ {w} : worker'[v] = worker[v]
    BY <1>1, <1>3, <2>1, BeginEffect DEF FetchToSkip
  <2> HIDE DEF r
  <2> QED BY <1>3, <2>1, <2>2 DEF FetchToSkip, InFlight, Located, Unsent
<1>4. CASE ReadNumber(w)
  <2>1. PICK n \in Numbers :
          worker' = [worker EXCEPT ![w] = [pc |-> "insert", email |-> worker[w].email, n |-> n]]
    BY <1>4 DEF ReadNumber
  <2> DEFINE r == [pc |-> "insert", email |-> worker[w].email, n |-> n]
  <2>2. r \in WorkerStates /\ r.pc = "insert" /\ r.n = n /\ r.email = worker[w].email
    BY <1>1, AttemptsAssumption DEF WorkerStates, WorkerPCs, Numbers
  <2>3. TypedWorker' /\ worker'[w] = r /\ \A v \in Workers \ {w} : worker'[v] = worker[v]
    BY <1>1, <2>1, <2>2, BeginEffect
  <2> HIDE DEF r
  <2> QED BY <1>1, <1>4, <2>2, <2>3 DEF ReadNumber, At, InFlight, WorkerInv, Located, Unsent
<1>5. CASE ClaimConflict(w) \/ GiveUp(w)
  <2>1. Goto(w, "idle") /\ "idle" \in WorkerPCs
    BY <1>5 DEF ClaimConflict, GiveUp, WorkerPCs
  <2> QED BY <1>1, <1>5, <2>1, GotoEffect DEF ClaimConflict, GiveUp, InFlight, Located, Unsent
<1> QED BY <1>2, <1>3, <1>4, <1>5 DEF Quiet

\* It keeps the invariant.
LEMMA QuietKeeps ==
    ASSUME EmailInv, NEW w \in Workers, Quiet(w)
    PROVE  EmailInv'
<1>1. /\ UNCHANGED <<row, reserved, eligible, batch, target, sends>> /\ TypedWorker'
      /\ \A v \in Workers \ {w} : worker'[v] = worker[v]
      /\ worker'[w].pc \notin InFlight /\ Located(w)' /\ Unsent(w)'
  BY QuietEffect
<1>2. TypeOK'
  BY <1>1 DEF EmailInv, TypeOK, TypedWorker, WorkerStates
<1>3. ASSUME NEW v \in Workers PROVE WorkerInv(v)'
  <2>1. CASE v = w
    BY <1>1, <2>1 DEF WorkerInv, Claimed, Covered, InFlight
  <2>2. CASE v # w
    BY <1>1, <2>2 DEF EmailInv, WorkerInv, Located, Claimed, Covered, Unsent, Message
  <2> QED BY <2>1, <2>2
<1>4. (\A t \in Targets : TargetInv(t))'
  BY <1>1 DEF EmailInv, TargetInv
<1>5. Owners'
  BY <1>1 DEF EmailInv, Owners
<1>6. RestInv'
  BY <1>1, <1>5 DEF EmailInv, RestInv, QueuedWasNotTried, SenderNeverRepeats,
     EachMessageHasItsAttempt, SentIsEvidenced, SentInBatch, SentByTarget
<1> QED BY <1>2, <1>3, <1>4, <1>6, InvPartsNext

-----------------------------------------------------------------------------
(* The other steps of a worker. *)

\* Rows that were there stay, and none returns to the queue.
RowsAdvance ==
    \A e \in Emails :
        /\ row[e] # "none" => row'[e] # "none"
        /\ row'[e] \in {"none", "queued"} => row[e] \in {"none", "queued"}

\* A worker that has left its attempt has nothing to answer for.
LEMMA IdleInv ==
    ASSUME NEW w \in Workers, worker'[w].pc = "idle"
    PROVE  WorkerInv(w)'
BY DEF WorkerInv, Located, Claimed, Covered, Unsent, InFlight

\* A worker keeps its invariant through the steps of others, if they leave its
\* attempt alone.
LEMMA OtherWorker ==
    ASSUME EmailInv, NEW v \in Workers, worker'[v] = worker[v], RowsAdvance, sends' = sends,
           worker[v].pc \in InFlight => batch'[worker[v].email][worker[v].n] = "started"
    PROVE  WorkerInv(v)'
<1>1. WorkerInv(v)
  BY DEF EmailInv
<1> QED BY <1>1 DEF WorkerInv, Located, Claimed, Covered, Unsent, Message, RowsAdvance

\* The skip of a queued row disturbs nobody.
LEMMA SkipKeeps ==
    ASSUME EmailInv, NEW w \in Workers, Skip(w)
    PROVE  EmailInv'
<1> DEFINE e == worker[w].email
<1>1. TypeOK /\ TypedWorker /\ WorkerInv(w) /\ RestInv
  BY InvParts, TypeParts
<1>2. e \in Emails /\ row[e] # "none"
  BY <1>1 DEF Skip, At, WorkerInv, Located
<1>3. /\ row'[e] = IF row[e] = "queued" THEN "skipped" ELSE row[e]
      /\ \A f \in Emails \ {e} : row'[f] = row[f]
      /\ UNCHANGED <<reserved, eligible, batch, target, sends>>
  BY <1>1, <1>2 DEF Skip, TypeOK
<1>4. TypedWorker' /\ worker'[w].pc = "idle" /\ \A v \in Workers \ {w} : worker'[v] = worker[v]
  BY <1>1, GotoEffect DEF Skip, WorkerPCs
<1>5. row' \in [Emails -> RowStatuses \cup {"none"}]
  BY <1>1 DEF Skip, TypeOK, RowStatuses
<1>6. TypeOK'
  BY <1>1, <1>3, <1>4, <1>5 DEF TypeOK, TypedWorker, WorkerStates
<1>7. RowsAdvance /\ \A f \in Emails : row'[f] # row[f] => row[f] = "queued" /\ row'[f] = "skipped"
  BY <1>2, <1>3 DEF RowsAdvance
<1>8. ASSUME NEW v \in Workers PROVE WorkerInv(v)'
  <2>1. CASE v = w
    BY <1>4, <2>1, IdleInv
  <2>2. CASE v # w
    BY <1>3, <1>4, <1>7, <2>2, OtherWorker DEF EmailInv, WorkerInv, Claimed
  <2> QED BY <2>1, <2>2
<1>9. (\A t \in Targets : TargetInv(t))'
  BY <1>3 DEF EmailInv, TargetInv
<1>10. Owners' /\ SenderNeverRepeats' /\ EachMessageHasItsAttempt'
  BY <1>1, <1>3, <1>4 DEF RestInv, Owners, SenderNeverRepeats, EachMessageHasItsAttempt, InFlight
<1>11. QueuedWasNotTried'
  BY <1>1, <1>3, <1>7 DEF RestInv, QueuedWasNotTried, RowsAdvance
<1>12. SentIsEvidenced'
  BY <1>1, <1>3, <1>7 DEF RestInv, SentIsEvidenced, SentInBatch, SentByTarget
<1> QED BY <1>6, <1>8, <1>9, <1>10, <1>11, <1>12, InvPartsNext DEF RestInv

\* The attempt inserted is new: no worker and no message had it.
LEMMA InsertKeeps ==
    ASSUME EmailInv, NEW w \in Workers, NEW pc \in WorkerPCs, InsertClaim(w, pc)
    PROVE  EmailInv'
<1> DEFINE e == worker[w].email
           n == worker[w].n
<1>1. TypeOK /\ TypedWorker /\ WorkerInv(w) /\ RestInv
  BY InvParts, TypeParts
<1>2. e \in Emails /\ n \in Numbers /\ batch[e][n] = "none"
  BY <1>1 DEF InsertClaim, At, WorkerInv, Located, Duplicate
<1>3. /\ batch'[e][n] = "started"
      /\ \A f \in Emails, m \in Numbers : f # e \/ m # n => batch'[f][m] = batch[f][m]
      /\ batch' \in [Emails -> [Numbers -> AttemptStatuses \cup {"none"}]]
      /\ UNCHANGED <<row, reserved, eligible, target, sends>>
  BY <1>1, <1>2 DEF InsertClaim, TypeOK, AttemptStatuses
<1>4. /\ TypedWorker' /\ worker'[w].pc = pc /\ pc \in {"send", "idle"} /\ worker[w].pc = "insert"
      /\ pc # "idle" => worker'[w].email = e /\ worker'[w].n = n
      /\ \A v \in Workers \ {w} : worker'[v] = worker[v]
  BY <1>1, GotoEffect DEF InsertClaim, At
<1>5. TypeOK'
  BY <1>1, <1>3, <1>4 DEF TypeOK, TypedWorker, WorkerStates
<1>6. RowsAdvance
  BY <1>3 DEF RowsAdvance
<1>7. \A v \in Workers : worker[v].pc \in InFlight =>
        /\ worker[v].email \in Emails /\ worker[v].n \in Numbers
        /\ batch[worker[v].email][worker[v].n] = "started"
  BY DEF EmailInv, WorkerInv, Located, Claimed, InFlight
<1>8. \A x \in sends : x.email \in Emails /\ x.n \in Numbers /\ ~(x.email = e /\ x.n = n)
  BY <1>1, <1>2 DEF RestInv, EachMessageHasItsAttempt, TypeOK
<1>9. ASSUME NEW v \in Workers PROVE WorkerInv(v)'
  <2>1. CASE v = w /\ pc = "idle"
    BY <1>4, <2>1, IdleInv
  <2>2. CASE v = w /\ pc = "send"
    BY <1>1, <1>2, <1>3, <1>4, <1>8, <2>2 DEF WorkerInv, Located, Claimed, Covered, Unsent, InFlight
  <2>3. CASE v # w
    BY <1>2, <1>3, <1>4, <1>6, <1>7, <2>3, OtherWorker
  <2> QED BY <1>4, <2>1, <2>2, <2>3
<1>10. (\A t \in Targets : TargetInv(t))'
  BY <1>3 DEF EmailInv, TargetInv
<1>11. Owners'
  BY <1>1, <1>2, <1>4, <1>7 DEF RestInv, Owners, InFlight
<1>12. SenderNeverRepeats' /\ EachMessageHasItsAttempt'
  BY <1>1, <1>3, <1>8 DEF RestInv, SenderNeverRepeats, EachMessageHasItsAttempt
<1>13. QueuedWasNotTried'
  BY <1>1, <1>3 DEF RestInv, QueuedWasNotTried
<1>14. SentIsEvidenced'
  <2>1. \A f \in Emails : SentInBatch(f)' = SentInBatch(f)
    BY <1>2, <1>3 DEF SentInBatch
  <2> QED BY <1>1, <1>3, <2>1 DEF RestInv, SentIsEvidenced, SentByTarget
<1> QED BY <1>5, <1>9, <1>10, <1>11, <1>12, <1>13, <1>14, InvPartsNext DEF RestInv

\* A message goes out under an attempt that had none, from a worker that has
\* not sent the e-mail before.
LEMMA SendKeeps ==
    ASSUME EmailInv, NEW w \in Workers, SendSucceeds(w) \/ \E received \in BOOLEAN : SendFails(w, received)
    PROVE  EmailInv'
<1> DEFINE e == worker[w].email
           n == worker[w].n
<1>1. TypeOK /\ TypedWorker /\ WorkerInv(w) /\ RestInv
  BY InvParts, TypeParts
<1>2. PICK pc \in {"finish", "failing"} : Goto(w, pc)
  BY DEF SendSucceeds, SendFails
<1>3. /\ worker[w].pc = "send"
      /\ sends' \in {sends, sends \cup {Message(w)}}
      /\ SendSucceeds(w) => Message(w) \in sends'
      /\ UNCHANGED <<row, reserved, eligible, batch, target>>
  BY DEF SendSucceeds, SendFails, At
<1>4. /\ TypedWorker' /\ worker'[w].pc = pc
      /\ worker'[w].email = e /\ worker'[w].n = n
      /\ \A v \in Workers \ {w} : worker'[v] = worker[v]
  BY <1>1, <1>2, GotoEffect DEF WorkerPCs
<1>5. /\ e \in Emails /\ n \in Numbers /\ row[e] # "none" /\ batch[e][n] = "started"
      /\ \A x \in sends : ~(x.email = e /\ x.n = n)
      /\ \A x \in sends : x.by = w => x.email # e
  BY <1>1, <1>3 DEF WorkerInv, Located, Claimed, Covered, Unsent, InFlight
<1>6. Message(w) \in [by : Workers, email : Emails, n : Numbers] /\ Message(w)' = Message(w)
  BY <1>4, <1>5 DEF Message
<1>7. Message(w).by = w /\ Message(w).email = e /\ Message(w).n = n
  BY DEF Message
<1>8. TypeOK'
  BY <1>1, <1>3, <1>4, <1>6 DEF TypeOK, TypedWorker, WorkerStates
<1>9. pc = "finish" => Message(w) \in sends'
  <2>1. CASE SendSucceeds(w)
    BY <1>3, <2>1
  <2>2. CASE \E received \in BOOLEAN : SendFails(w, received)
    <3>1. Goto(w, "failing")
      BY <2>2 DEF SendFails
    <3> QED BY <1>1, <1>4, <3>1, GotoEffect DEF WorkerPCs
  <2> QED BY <2>1, <2>2
<1>10. ASSUME NEW v \in Workers PROVE WorkerInv(v)'
  <2>1. CASE v = w
    BY <1>3, <1>4, <1>5, <1>6, <1>9, <2>1 DEF WorkerInv, Located, Claimed, Covered, Unsent, InFlight
  <2>2. CASE v # w
    <3>1. WorkerInv(v) /\ worker'[v] = worker[v] /\ Message(v)' = Message(v)
      BY <1>4, <2>2 DEF EmailInv, Message
    <3>2. Located(v)' /\ Claimed(v)'
      BY <1>3, <3>1 DEF WorkerInv, Located, Claimed
    <3>3. Unsent(v)'
      BY <1>3, <1>7, <2>2, <3>1 DEF WorkerInv, Unsent
    <3>4. Covered(v)'
      <4>1. worker[v].pc = "send" => ~(e = worker[v].email /\ n = worker[v].n)
        BY <1>1, <1>3, <2>2 DEF RestInv, Owners, InFlight
      <4> QED BY <1>3, <1>7, <3>1, <4>1 DEF WorkerInv, Covered
    <3> QED BY <3>1, <3>2, <3>3, <3>4 DEF WorkerInv
  <2> QED BY <2>1, <2>2
<1>11. (\A t \in Targets : TargetInv(t))'
  BY <1>3 DEF EmailInv, TargetInv
<1>12. Owners'
  BY <1>1, <1>3, <1>4 DEF RestInv, Owners, InFlight
<1>13. SenderNeverRepeats'
  BY <1>1, <1>3, <1>5, <1>7 DEF RestInv, SenderNeverRepeats
<1>14. EachMessageHasItsAttempt'
  BY <1>1, <1>3, <1>5, <1>7 DEF RestInv, EachMessageHasItsAttempt
<1>15. QueuedWasNotTried'
  BY <1>1, <1>3 DEF RestInv, QueuedWasNotTried
<1>16. SentIsEvidenced'
  <2>1. sends \subseteq sends'
    BY <1>3
  <2>2. \A f \in Emails : SentInBatch(f)' = SentInBatch(f) /\ SentByTarget(f)' = SentByTarget(f)
    BY <1>3 DEF SentInBatch, SentByTarget
  <2> QED BY <1>1, <1>3, <2>1, <2>2 DEF RestInv, SentIsEvidenced
<1> QED BY <1>8, <1>10, <1>11, <1>12, <1>13, <1>14, <1>15, <1>16, InvPartsNext DEF RestInv

\* The row and the attempt are settled together: the row was queued, so
\* neither ledger had a sent attempt of the e-mail.
LEMMA FinishKeeps ==
    ASSUME EmailInv, NEW w \in Workers, Finish(w)
    PROVE  EmailInv'
<1> DEFINE e == worker[w].email
           n == worker[w].n
<1>1. TypeOK /\ TypedWorker /\ WorkerInv(w) /\ RestInv
  BY InvParts, TypeParts
<1>2. /\ worker[w].pc = "finish" /\ e \in Emails /\ n \in Numbers
      /\ batch[e][n] = "started" /\ row[e] = "queued" /\ Message(w) \in sends
  BY <1>1 DEF Finish, At, WorkerInv, Located, Claimed, Covered, InFlight
<1>3. /\ row'[e] = "sent" /\ \A f \in Emails \ {e} : row'[f] = row[f]
      /\ row' \in [Emails -> RowStatuses \cup {"none"}]
      /\ UNCHANGED <<reserved, eligible, target, sends>>
  BY <1>1, <1>2 DEF Finish, TypeOK, RowStatuses
<1>4. /\ batch'[e][n] = "sent"
      /\ \A f \in Emails, m \in Numbers : f # e \/ m # n => batch'[f][m] = batch[f][m]
      /\ batch' \in [Emails -> [Numbers -> AttemptStatuses \cup {"none"}]]
  BY <1>1, <1>2 DEF Finish, TypeOK, AttemptStatuses
<1>5. TypedWorker' /\ worker'[w].pc = "idle" /\ \A v \in Workers \ {w} : worker'[v] = worker[v]
  BY <1>1, GotoEffect DEF Finish, WorkerPCs
<1>6. TypeOK'
  BY <1>1, <1>3, <1>4, <1>5 DEF TypeOK, TypedWorker, WorkerStates
<1>7. RowsAdvance
  BY <1>2, <1>3 DEF RowsAdvance
<1>8. ASSUME NEW v \in Workers PROVE WorkerInv(v)'
  <2>1. CASE v = w
    BY <1>5, <2>1, IdleInv
  <2>2. CASE v # w
    <3>1. worker[v].pc \in InFlight =>
            /\ worker[v].email \in Emails /\ worker[v].n \in Numbers
            /\ batch[worker[v].email][worker[v].n] = "started"
            /\ worker[v].email # e \/ worker[v].n # n
      BY <1>1, <1>2, <2>2 DEF EmailInv, WorkerInv, Located, Claimed, RestInv, Owners, InFlight
    <3> QED BY <1>3, <1>4, <1>5, <1>7, <2>2, <3>1, OtherWorker
  <2> QED BY <2>1, <2>2
<1>9. (\A t \in Targets : TargetInv(t))'
  BY <1>3 DEF EmailInv, TargetInv
<1>10. Owners' /\ SenderNeverRepeats'
  BY <1>1, <1>3, <1>5 DEF RestInv, Owners, SenderNeverRepeats, InFlight
<1>11. EachMessageHasItsAttempt'
  BY <1>1, <1>2, <1>3, <1>4 DEF RestInv, EachMessageHasItsAttempt, TypeOK
<1>12. QueuedWasNotTried'
  BY <1>1, <1>3, <1>4 DEF RestInv, QueuedWasNotTried
<1>13. SentIsEvidenced'
  <2> PICK k \in Emails, i \in Numbers : k = e /\ i = n
    BY <1>2
  <2>1. SentInBatch(k) = {} /\ SentByTarget(k) = {}
    BY <1>1, <1>2 DEF RestInv, SentIsEvidenced
  <2>2. SentInBatch(k)' = {i} /\ SentByTarget(k)' = {}
    BY <1>2, <1>3, <1>4, <2>1 DEF SentInBatch, SentByTarget
  <2>3. \A f \in Emails \ {k} : SentInBatch(f)' = SentInBatch(f) /\ SentByTarget(f)' = SentByTarget(f)
    BY <1>3, <1>4 DEF SentInBatch, SentByTarget
  <2>4. Message(w).email = e /\ Message(w).n = n
    BY DEF Message
  <2> SUFFICES ASSUME NEW f \in Emails
               PROVE  /\ row'[f] = "sent" <=> SentInBatch(f)' # {} \/ SentByTarget(f)' # {}
                      /\ SentInBatch(f)' = {} \/ SentByTarget(f)' = {}
                      /\ \A m, j \in SentInBatch(f)' : m = j
                      /\ \A t, u \in SentByTarget(f)' : t = u
                      /\ \A m \in SentInBatch(f)' : \E x \in sends' : x.email = f /\ x.n = m
                      /\ \A t \in SentByTarget(f)' : target'[t].received
    BY DEF SentIsEvidenced
  <2>5. CASE f = k
    BY <1>2, <1>3, <2>2, <2>4, <2>5
  <2>6. CASE f # k
    BY <1>1, <1>3, <2>3, <2>6 DEF RestInv, SentIsEvidenced
  <2> QED BY <2>5, <2>6
<1> QED BY <1>6, <1>8, <1>9, <1>10, <1>11, <1>12, <1>13, InvPartsNext DEF RestInv

\* A failed attempt takes a queued row with it and leaves any other alone.
LEMMA FailKeeps ==
    ASSUME EmailInv, NEW w \in Workers, Fail(w)
    PROVE  EmailInv'
<1> DEFINE e == worker[w].email
           n == worker[w].n
<1>1. TypeOK /\ TypedWorker /\ WorkerInv(w) /\ RestInv
  BY InvParts, TypeParts
<1>2. /\ worker[w].pc = "failing" /\ e \in Emails /\ n \in Numbers
      /\ batch[e][n] = "started" /\ row[e] # "none"
  BY <1>1 DEF Fail, At, WorkerInv, Located, Claimed, InFlight
<1>3. /\ row'[e] = IF row[e] = "queued" THEN "failed" ELSE row[e]
      /\ \A f \in Emails \ {e} : row'[f] = row[f]
      /\ row' \in [Emails -> RowStatuses \cup {"none"}]
      /\ UNCHANGED <<reserved, eligible, target, sends>>
  BY <1>1, <1>2 DEF Fail, TypeOK, RowStatuses
<1>4. /\ batch'[e][n] = "failed"
      /\ \A f \in Emails, m \in Numbers : f # e \/ m # n => batch'[f][m] = batch[f][m]
      /\ batch' \in [Emails -> [Numbers -> AttemptStatuses \cup {"none"}]]
  BY <1>1, <1>2 DEF Fail, TypeOK, AttemptStatuses
<1>5. TypedWorker' /\ worker'[w].pc = "idle" /\ \A v \in Workers \ {w} : worker'[v] = worker[v]
  BY <1>1, GotoEffect DEF Fail, WorkerPCs
<1>6. TypeOK'
  BY <1>1, <1>3, <1>4, <1>5 DEF TypeOK, TypedWorker, WorkerStates
<1>7. RowsAdvance /\ row'[e] \notin {"none", "queued"} /\ \A f \in Emails : row'[f] = "sent" <=> row[f] = "sent"
  BY <1>2, <1>3 DEF RowsAdvance
<1>8. ASSUME NEW v \in Workers PROVE WorkerInv(v)'
  <2>1. CASE v = w
    BY <1>5, <2>1, IdleInv
  <2>2. CASE v # w
    <3>1. worker[v].pc \in InFlight =>
            /\ worker[v].email \in Emails /\ worker[v].n \in Numbers
            /\ batch[worker[v].email][worker[v].n] = "started"
            /\ worker[v].email # e \/ worker[v].n # n
      BY <1>1, <1>2, <2>2 DEF EmailInv, WorkerInv, Located, Claimed, RestInv, Owners, InFlight
    <3> QED BY <1>3, <1>4, <1>5, <1>7, <2>2, <3>1, OtherWorker
  <2> QED BY <2>1, <2>2
<1>9. (\A t \in Targets : TargetInv(t))'
  BY <1>3 DEF EmailInv, TargetInv
<1>10. Owners' /\ SenderNeverRepeats'
  BY <1>1, <1>3, <1>5 DEF RestInv, Owners, SenderNeverRepeats, InFlight
<1>11. EachMessageHasItsAttempt'
  BY <1>1, <1>2, <1>3, <1>4 DEF RestInv, EachMessageHasItsAttempt, TypeOK
<1>12. QueuedWasNotTried'
  BY <1>1, <1>3, <1>4, <1>7 DEF RestInv, QueuedWasNotTried
<1>13. SentIsEvidenced'
  <2>1. \A f \in Emails : SentInBatch(f)' = SentInBatch(f) /\ SentByTarget(f)' = SentByTarget(f)
    BY <1>2, <1>3, <1>4 DEF SentInBatch, SentByTarget
  <2> QED BY <1>1, <1>3, <1>7, <2>1 DEF RestInv, SentIsEvidenced
<1> QED BY <1>6, <1>8, <1>9, <1>10, <1>11, <1>12, <1>13, InvPartsNext DEF RestInv

-----------------------------------------------------------------------------
(* Steps of targeted calls and of the surroundings: no worker moves and    *)
(* the batch ledger stays as it is.                                        *)

Outside == UNCHANGED <<batch, worker, sends>> /\ RowsAdvance

\* The workers, and what only they change.
LEMMA OutsideKeeps ==
    ASSUME EmailInv, Outside
    PROVE  /\ \A v \in Workers : WorkerInv(v)'
           /\ Owners' /\ SenderNeverRepeats' /\ EachMessageHasItsAttempt'
<1>1. ASSUME NEW v \in Workers PROVE WorkerInv(v)'
  BY OtherWorker DEF Outside, EmailInv, WorkerInv, Claimed
<1>2. Owners' /\ SenderNeverRepeats' /\ EachMessageHasItsAttempt'
  BY DEF Outside, EmailInv, Owners, SenderNeverRepeats, EachMessageHasItsAttempt
<1> QED BY <1>1, <1>2

\* A row is queued, or a ticket changes.
LEMMA EnvKeeps ==
    ASSUME EmailInv, NEW e \in Emails, Enqueue(e) \/ TicketChanges(e)
    PROVE  EmailInv'
<1>1. TypeOK /\ RestInv
  BY InvParts
<1>2. UNCHANGED <<reserved, batch, worker, target, sends>>
  BY DEF Enqueue, TicketChanges
<1>3. \A f \in Emails : row'[f] # row[f] => row[f] = "none" /\ row'[f] = "queued"
  BY <1>1 DEF Enqueue, TicketChanges, TypeOK
<1>4. TypeOK'
  BY <1>1 DEF Enqueue, TicketChanges, TypeOK, RowStatuses
<1>5. Outside
  BY <1>2, <1>3 DEF Outside, RowsAdvance
<1>6. (\A t \in Targets : TargetInv(t))'
  BY <1>2 DEF EmailInv, TargetInv
<1>7. QueuedWasNotTried' /\ SentIsEvidenced'
  BY <1>1, <1>2, <1>3 DEF RestInv, QueuedWasNotTried, SentIsEvidenced, SentInBatch, SentByTarget
<1> QED BY <1>4, <1>5, <1>6, <1>7, OutsideKeeps, InvPartsNext DEF RestInv

\* The reservation takes a queued row, which no call had tried before.
LEMMA ReserveKeeps ==
    ASSUME EmailInv, NEW t \in Targets, NEW e \in Emails, NEW pc \in TargetPCs, Reserve(t, e, pc)
    PROVE  EmailInv'
<1>1. TypeOK /\ RestInv /\ \A u \in Targets : TargetInv(u)
  BY InvParts
<1>2. /\ row[e] = "queued" /\ row'[e] = "failed" /\ \A f \in Emails \ {e} : row'[f] = row[f]
      /\ UNCHANGED <<eligible, batch, worker, sends>>
  BY <1>1 DEF Reserve, TypeOK
<1>3. /\ target'[t].pc = pc /\ pc \in {"send", "done"} /\ target'[t].email = e
      /\ target'[t].status = "started"
      /\ \A u \in Targets \ {t} : target'[u] = target[u]
  BY <1>1 DEF Reserve, NoCall, TypeOK
<1>4. target[t].status = "none"
  BY <1>1 DEF Reserve, TargetAt, TargetInv
<1>5. TypeOK'
  <2> DEFINE r == [NoCall EXCEPT !.pc = pc, !.email = e, !.status = "started"]
  <2>1. r \in TargetStates
    BY DEF NoCall, TargetStates, TargetStatuses
  <2>2. target' = [target EXCEPT ![t] = r]
    BY DEF Reserve
  <2> HIDE DEF r
  <2>3. TypedTarget'
    BY <1>1, <2>1, <2>2, TypeParts DEF TypedTarget
  <2>4. TypedRows'
    BY <1>1 DEF Reserve, TypeOK, TypedRows, RowStatuses
  <2> QED BY <1>1, <1>2, <2>3, <2>4, TypeParts, TypePartsNext DEF TypedBatch, TypedWorker, TypedSends
<1>6. Outside
  BY <1>2 DEF Outside, RowsAdvance
<1>7. ASSUME NEW u \in Targets PROVE TargetInv(u)'
  <2>1. CASE u = t
    BY <1>3, <2>1 DEF TargetInv
  <2>2. CASE u # t
    BY <1>1, <1>3, <2>2 DEF TargetInv
  <2> QED BY <2>1, <2>2
<1>8. QueuedWasNotTried'
  BY <1>1, <1>2, <1>3 DEF RestInv, QueuedWasNotTried
<1>9. SentIsEvidenced'
  <2>1. \A f \in Emails : SentInBatch(f)' = SentInBatch(f) /\ SentByTarget(f)' = SentByTarget(f)
    BY <1>2, <1>3, <1>4 DEF SentInBatch, SentByTarget
  <2>2. \A f \in Emails : \A u \in SentByTarget(f) : target'[u] = target[u]
    BY <1>3, <1>4 DEF SentByTarget
  <2>3. \A f \in Emails : row'[f] = "sent" <=> row[f] = "sent"
    BY <1>2
  <2> QED BY <1>1, <1>2, <2>1, <2>2, <2>3 DEF RestInv, SentIsEvidenced
<1> QED BY <1>5, <1>6, <1>7, <1>8, <1>9, OutsideKeeps, InvPartsNext DEF RestInv

\* The steps of a call that change its own attempt and no row.
Private(t) ==
    \/ TargetNoSender(t) \/ TargetFinishFails(t) \/ TargetFail(t) \/ TargetStops(t)
    \/ \E pc \in TargetPCs, received \in BOOLEAN : TargetSend(t, pc, received)

\* They settle no attempt as sent.
LEMMA PrivateEffect ==
    ASSUME EmailInv, NEW t \in Targets, Private(t)
    PROVE  /\ UNCHANGED <<row, reserved, eligible, batch, worker, sends>>
           /\ TypedTarget' /\ TargetInv(t)'
           /\ target'[t].email = target[t].email
           /\ target'[t].status = "sent" <=> target[t].status = "sent"
           /\ \A u \in Targets \ {t} : target'[u] = target[u]
<1>1. TypedTarget /\ TargetInv(t) /\ target[t] \in TargetStates
  BY InvParts, TypeParts DEF TypedTarget
<1>2. CASE TargetNoSender(t) \/ TargetFinishFails(t) \/ TargetStops(t)
  <2>1. PICK pc \in {"failing", "done"} : TargetGoto(t, pc)
    BY <1>2 DEF TargetNoSender, TargetFinishFails, TargetStops
  <2>2. target[t].pc # "idle"
    BY <1>2 DEF TargetNoSender, TargetFinishFails, TargetStops, TargetAt
  <2> QED BY <1>1, <1>2, <2>1, <2>2, TargetGotoEffect DEF TargetNoSender, TargetFinishFails, TargetStops,
             TargetInv, TargetPCs
<1>3. CASE TargetFail(t)
  <2>1. /\ target'[t].pc = "done" /\ target'[t].email = target[t].email
        /\ target'[t].status \in TargetStatuses \cup {"none"}
        /\ target'[t].status = "sent" <=> target[t].status = "sent"
        /\ target'[t].called = target[t].called /\ target'[t].received = target[t].received
        /\ \A u \in Targets \ {t} : target'[u] = target[u]
    BY <1>1, <1>3 DEF TargetFail, TypedTarget, TargetStates, TargetStatuses
  <2>2. TypedTarget'
    BY <1>1, <1>3, <2>1 DEF TargetFail, TypedTarget, TargetStates, TargetStatuses, TargetPCs
  <2>3. target[t].pc = "failing"
    BY <1>3 DEF TargetFail, TargetAt
  <2> QED BY <1>1, <1>3, <2>1, <2>2, <2>3 DEF TargetFail, TargetInv
<1>4. ASSUME NEW pc \in TargetPCs, NEW received \in BOOLEAN, TargetSend(t, pc, received)
      PROVE  /\ UNCHANGED <<row, reserved, eligible, batch, worker, sends>>
             /\ TypedTarget' /\ TargetInv(t)'
             /\ target'[t].email = target[t].email
             /\ target'[t].status = "sent" <=> target[t].status = "sent"
             /\ \A u \in Targets \ {t} : target'[u] = target[u]
  <2>1. /\ target'[t].pc = pc /\ target'[t].email = target[t].email
        /\ target'[t].status = target[t].status /\ target'[t].received = received
        /\ \A u \in Targets \ {t} : target'[u] = target[u]
    BY <1>1, <1>4 DEF TargetSend, TypedTarget, TargetStates
  <2>2. TypedTarget'
    BY <1>1, <1>4 DEF TargetSend, TypedTarget, TargetStates
  <2>3. target[t].pc = "send" /\ pc \in {"finish", "failing"} /\ (pc = "finish" => received)
    BY <1>4 DEF TargetSend, TargetAt
  <2> QED BY <1>1, <1>4, <2>1, <2>2, <2>3 DEF TargetSend, TargetInv
<1> QED BY <1>2, <1>3, <1>4 DEF Private

\* They keep the invariant.
LEMMA PrivateKeeps ==
    ASSUME EmailInv, NEW t \in Targets, Private(t)
    PROVE  EmailInv'
<1>1. /\ UNCHANGED <<row, reserved, eligible, batch, worker, sends>>
      /\ TypedTarget' /\ TargetInv(t)'
      /\ target'[t].email = target[t].email
      /\ target'[t].status = "sent" <=> target[t].status = "sent"
      /\ \A u \in Targets \ {t} : target'[u] = target[u]
  BY PrivateEffect
<1>2. TypeOK'
  BY <1>1, InvParts, TypeParts, TypePartsNext DEF TypedRows, TypedBatch, TypedWorker, TypedSends
<1>3. Outside
  BY <1>1 DEF Outside, RowsAdvance
<1>4. ASSUME NEW u \in Targets PROVE TargetInv(u)'
  <2>1. CASE u = t
    BY <1>1, <2>1
  <2>2. CASE u # t
    BY <1>1, <2>2 DEF EmailInv, TargetInv
  <2> QED BY <2>1, <2>2
<1>5. QueuedWasNotTried'
  BY <1>1 DEF EmailInv, QueuedWasNotTried
<1>6. SentIsEvidenced'
  <2>1. \A f \in Emails : SentInBatch(f)' = SentInBatch(f) /\ SentByTarget(f)' = SentByTarget(f)
    BY <1>1 DEF SentInBatch, SentByTarget
  <2>2. \A f \in Emails : \A u \in SentByTarget(f)' : target'[u].received
    BY <1>4 DEF SentByTarget, TargetInv
  <2> QED BY <1>1, <2>1, <2>2 DEF EmailInv, SentIsEvidenced
<1> QED BY <1>2, <1>3, <1>4, <1>5, <1>6, OutsideKeeps, InvPartsNext DEF RestInv

\* The row was failed under the call's reservation, so neither ledger had a
\* sent attempt of the e-mail.
LEMMA TargetFinishKeeps ==
    ASSUME EmailInv, NEW t \in Targets, NEW pc \in TargetPCs, TargetFinish(t, pc)
    PROVE  EmailInv'
<1> DEFINE e == target[t].email
<1>1. TypeOK /\ TypedTarget /\ RestInv /\ \A u \in Targets : TargetInv(u)
  BY InvParts, TypeParts
<1>2. /\ target[t].pc = "finish" /\ e \in Emails /\ target[t].received
      /\ row[e] = "failed" /\ pc \in {"done", "failing"}
  BY <1>1 DEF TargetFinish, TargetAt, TargetInv, HoldsReservation
<1>3. /\ row'[e] = "sent" /\ \A f \in Emails \ {e} : row'[f] = row[f]
      /\ UNCHANGED <<reserved, eligible, batch, worker, sends>>
  BY <1>1, <1>2 DEF TargetFinish, TypeOK
<1>4. /\ target'[t].pc = pc /\ target'[t].email = e /\ target'[t].status = "sent"
      /\ target'[t].received = target[t].received
      /\ \A u \in Targets \ {t} : target'[u] = target[u]
  BY <1>1 DEF TargetFinish, TypedTarget, TargetStates
<1>5. TypeOK'
  <2>1. TypedTarget'
    BY <1>1 DEF TargetFinish, TypedTarget, TargetStates, TargetStatuses
  <2>2. TypedRows'
    BY <1>1 DEF TargetFinish, TypeOK, TypedRows, RowStatuses
  <2> QED BY <1>1, <1>3, <2>1, <2>2, TypeParts, TypePartsNext DEF TypedBatch, TypedWorker, TypedSends
<1>6. Outside
  BY <1>2, <1>3 DEF Outside, RowsAdvance
<1>7. ASSUME NEW u \in Targets PROVE TargetInv(u)'
  <2>1. CASE u = t
    BY <1>2, <1>4, <2>1 DEF TargetInv
  <2>2. CASE u # t
    BY <1>1, <1>4, <2>2 DEF TargetInv
  <2> QED BY <2>1, <2>2
<1>8. QueuedWasNotTried'
  BY <1>1, <1>3, <1>4 DEF RestInv, QueuedWasNotTried
<1>9. SentIsEvidenced'
  <2> PICK k \in Emails : k = e
    BY <1>2
  <2>1. SentInBatch(k) = {} /\ SentByTarget(k) = {}
    BY <1>1, <1>2 DEF RestInv, SentIsEvidenced
  <2>2. SentInBatch(k)' = {} /\ SentByTarget(k)' = {t}
    BY <1>3, <1>4, <2>1 DEF SentInBatch, SentByTarget
  <2>3. \A f \in Emails \ {k} :
          /\ SentInBatch(f)' = SentInBatch(f) /\ SentByTarget(f)' = SentByTarget(f)
          /\ \A u \in SentByTarget(f) : target'[u] = target[u]
    BY <1>3, <1>4 DEF SentInBatch, SentByTarget
  <2> SUFFICES ASSUME NEW f \in Emails
               PROVE  /\ row'[f] = "sent" <=> SentInBatch(f)' # {} \/ SentByTarget(f)' # {}
                      /\ SentInBatch(f)' = {} \/ SentByTarget(f)' = {}
                      /\ \A m, j \in SentInBatch(f)' : m = j
                      /\ \A u, v \in SentByTarget(f)' : u = v
                      /\ \A m \in SentInBatch(f)' : \E x \in sends' : x.email = f /\ x.n = m
                      /\ \A u \in SentByTarget(f)' : target'[u].received
    BY DEF SentIsEvidenced
  <2>4. CASE f = k
    BY <1>2, <1>3, <1>4, <2>2, <2>4
  <2>5. CASE f # k
    BY <1>1, <1>3, <2>3, <2>5 DEF RestInv, SentIsEvidenced
  <2> QED BY <2>4, <2>5
<1> QED BY <1>5, <1>6, <1>7, <1>8, <1>9, OutsideKeeps, InvPartsNext DEF RestInv

-----------------------------------------------------------------------------
\* At the start nothing is queued and nobody works.
LEMMA InitEmailInv == Init => EmailInv
<1> SUFFICES ASSUME Init PROVE EmailInv
  OBVIOUS
<1>1. TypeOK
  BY AttemptsAssumption DEF Init, TypeOK, Idle, NoCall, WorkerPCs, TargetPCs, Numbers
<1>2. (\A w \in Workers : WorkerInv(w)) /\ Owners
  BY DEF Init, Idle, WorkerInv, Located, Claimed, Covered, Unsent, InFlight, Owners
<1>3. \A t \in Targets : TargetInv(t)
  BY DEF Init, NoCall, TargetInv
<1>4. QueuedWasNotTried
  BY NamesAssumption DEF Init, NoCall, QueuedWasNotTried
<1>5. SentIsEvidenced
  BY DEF Init, NoCall, SentIsEvidenced, SentInBatch, SentByTarget
<1> QED BY <1>1, <1>2, <1>3, <1>4, <1>5 DEF Init, EmailInv, SenderNeverRepeats, EachMessageHasItsAttempt

\* Every step is of one of these kinds.
LEMMA NextCases ==
    ASSUME Next
    PROVE  \/ \E e \in Emails : Enqueue(e) \/ TicketChanges(e)
           \/ \E w \in Workers :
                \/ Quiet(w) \/ Skip(w) \/ Finish(w) \/ Fail(w)
                \/ \E pc \in WorkerPCs : InsertClaim(w, pc)
                \/ SendSucceeds(w) \/ \E received \in BOOLEAN : SendFails(w, received)
           \/ \E t \in Targets :
                \/ \E e \in Emails, pc \in TargetPCs : Reserve(t, e, pc)
                \/ Private(t)
                \/ \E pc \in TargetPCs : TargetFinish(t, pc)
BY DEF Next, WorkerStep, TargetStep, Quiet, Private

\* Every step keeps the invariant.
LEMMA EmailStep ==
    ASSUME EmailInv, [Next]_vars
    PROVE  EmailInv'
<1>1. CASE UNCHANGED vars
  <2>1. UNCHANGED <<row, reserved, eligible, batch, worker, target, sends>>
    BY <1>1 DEF vars
  <2>2. Outside
    BY <2>1 DEF Outside, RowsAdvance
  <2>3. TypeOK' /\ (\A t \in Targets : TargetInv(t))' /\ QueuedWasNotTried'
    BY <2>1 DEF EmailInv, TypeOK, TargetInv, QueuedWasNotTried
  <2>4. SentIsEvidenced'
    BY <2>1 DEF EmailInv, SentIsEvidenced, SentInBatch, SentByTarget
  <2> QED BY <2>2, <2>3, <2>4, OutsideKeeps, InvPartsNext DEF RestInv
<1>2. CASE Next
  BY <1>2, NextCases, EnvKeeps, QuietKeeps, SkipKeeps, FinishKeeps, FailKeeps, InsertKeeps,
     SendKeeps, ReserveKeeps, PrivateKeeps, TargetFinishKeeps
<1> QED BY <1>1, <1>2

\* The invariant holds throughout.
LEMMA EmailInvariant == Spec => []EmailInv
<1>1. EmailInv /\ [Next]_vars => EmailInv'
  BY EmailStep
<1> QED BY <1>1, InitEmailInv, PTL DEF Spec

-----------------------------------------------------------------------------
\* The tables of the outbox and its two ledgers keep their types.
THEOREM TypeCorrect == Spec => []TypeOK
<1>1. EmailInv => TypeOK
  BY DEF EmailInv
<1> QED BY <1>1, EmailInvariant, PTL

\* fetchQueuedEmails and claimAuthEmailOutboxDeliveryAttempt keep a worker
\* from sending an e-mail it has sent before.
THEOREM SendersNeverRepeat == Spec => []SenderNeverRepeats
<1>1. EmailInv => SenderNeverRepeats
  BY DEF EmailInv
<1> QED BY <1>1, EmailInvariant, PTL

\* The unique keys of auth_email_outbox_delivery_attempts give every message
\* an attempt of its own.
THEOREM MessagesHaveAttempts == Spec => []EachMessageHasItsAttempt
<1>1. EmailInv => EachMessageHasItsAttempt
  BY DEF EmailInv
<1> QED BY <1>1, EmailInvariant, PTL

\* A row leaves the queue in the transaction that settles its first attempt,
\* or in the one that reserves it for a targeted call.
THEOREM QueuedRowsWereNotTried == Spec => []QueuedWasNotTried
<1>1. EmailInv => QueuedWasNotTried
  BY DEF EmailInv
<1> QED BY <1>1, EmailInvariant, PTL

\* The row says sent exactly if one attempt of one ledger does, and the
\* message of that attempt went out.
THEOREM SentRowsAreEvidenced == Spec => []SentIsEvidenced
<1>1. EmailInv => SentIsEvidenced
  BY DEF EmailInv
<1> QED BY <1>1, EmailInvariant, PTL

\* What a step may do to rows and attempts that are settled.
SettledKept ==
    /\ \A e \in Emails :
        /\ row[e] # "none" /\ row'[e] = "queued" => row[e] = "queued"
        /\ row[e] \in {"sent", "skipped"} => row'[e] = row[e]
        /\ row[e] = "failed" /\ row'[e] # "failed" =>
             row'[e] = "sent" /\ \E t \in Targets : reserved[e] = t /\ target'[t].status = "sent"
        /\ \A n \in Numbers : batch[e][n] \in {"sent", "failed"} => batch'[e][n] = batch[e][n]
    /\ \A t \in Targets :
        target[t].status \in {"sent", "failed", "unknown"} => target'[t].status = target[t].status

\* No step changes what is settled, because a process that writes an outcome
\* finds its own attempt started.
LEMMA SettledStep ==
    ASSUME EmailInv, Next
    PROVE  SettledKept
<1>1. TypeOK /\ (\A w \in Workers : WorkerInv(w)) /\ (\A t \in Targets : TargetInv(t))
  BY DEF EmailInv
<1>2. ASSUME NEW e \in Emails, Enqueue(e) \/ TicketChanges(e) PROVE SettledKept
  BY <1>1, <1>2 DEF Enqueue, TicketChanges, SettledKept, TypeOK
<1>3. ASSUME NEW w \in Workers, Quiet(w) PROVE SettledKept
  BY <1>3, QuietEffect DEF SettledKept
<1>4. ASSUME NEW w \in Workers, SendSucceeds(w) \/ \E received \in BOOLEAN : SendFails(w, received)
      PROVE  SettledKept
  BY <1>4 DEF SendSucceeds, SendFails, SettledKept
<1>5. ASSUME NEW w \in Workers, Skip(w) PROVE SettledKept
  BY <1>1, <1>5 DEF Skip, SettledKept, TypeOK
<1>6. ASSUME NEW w \in Workers, NEW pc \in WorkerPCs, InsertClaim(w, pc) PROVE SettledKept
  <2>1. worker[w].email \in Emails /\ worker[w].n \in Numbers /\ batch[worker[w].email][worker[w].n] = "none"
    BY <1>1, <1>6 DEF InsertClaim, At, WorkerInv, Located, Duplicate
  <2> QED BY <1>1, <1>6, <2>1 DEF InsertClaim, SettledKept, TypeOK
<1>7. ASSUME NEW w \in Workers, Finish(w) \/ Fail(w) PROVE SettledKept
  <2>1. /\ worker[w].email \in Emails /\ worker[w].n \in Numbers
        /\ batch[worker[w].email][worker[w].n] = "started"
    BY <1>1, <1>7 DEF Finish, Fail, At, WorkerInv, Located, Claimed, InFlight
  <2>2. /\ \A f \in Emails, m \in Numbers :
             f # worker[w].email \/ m # worker[w].n => batch'[f][m] = batch[f][m]
        /\ \A f \in Emails : row'[f] # row[f] => row[f] = "queued" /\ row'[f] \in {"sent", "failed"}
        /\ UNCHANGED target
    BY <1>1, <1>7, <2>1 DEF Finish, Fail, TypeOK
  <2> QED BY <2>1, <2>2 DEF SettledKept
<1>8. ASSUME NEW t \in Targets, NEW e \in Emails, NEW pc \in TargetPCs, Reserve(t, e, pc) PROVE SettledKept
  <2>1. target[t].status = "none"
    BY <1>1, <1>8 DEF Reserve, TargetAt, TargetInv
  <2>2. /\ \A f \in Emails : row'[f] # row[f] => row[f] = "queued" /\ row'[f] = "failed"
        /\ \A u \in Targets \ {t} : target'[u] = target[u]
        /\ UNCHANGED batch
    BY <1>1, <1>8 DEF Reserve, TypeOK
  <2> QED BY <2>1, <2>2 DEF SettledKept
<1>9. ASSUME NEW t \in Targets, Private(t) PROVE SettledKept
  <2>1. target[t].status \in {"sent", "failed", "unknown"} => target'[t].status = target[t].status
    <3>1. CASE TargetNoSender(t) \/ TargetFinishFails(t) \/ TargetStops(t)
      BY <1>1, <3>1 DEF TargetNoSender, TargetFinishFails, TargetStops, TargetGoto, TypeOK
    <3>2. CASE TargetFail(t)
      BY <1>1, <3>2 DEF TargetFail, TypeOK
    <3>3. CASE \E pc \in TargetPCs, received \in BOOLEAN : TargetSend(t, pc, received)
      BY <1>1, <3>3 DEF TargetSend, TypeOK
    <3> QED BY <1>9, <3>1, <3>2, <3>3 DEF Private
  <2> QED BY <1>9, <2>1, PrivateEffect DEF SettledKept
<1>10. ASSUME NEW t \in Targets, NEW pc \in TargetPCs, TargetFinish(t, pc) PROVE SettledKept
  <2>1. /\ target[t].email \in Emails /\ target[t].status = "started"
        /\ row[target[t].email] = "failed" /\ reserved[target[t].email] = t
    BY <1>1, <1>10 DEF TargetFinish, TargetAt, TargetInv, HoldsReservation
  <2>2. /\ \A f \in Emails : row'[f] # row[f] => f = target[t].email /\ row'[f] = "sent"
        /\ \A u \in Targets \ {t} : target'[u] = target[u]
        /\ target'[t].status = "sent"
        /\ UNCHANGED batch
    BY <1>1, <1>10, <2>1 DEF TargetFinish, TypeOK
  <2> QED BY <2>1, <2>2 DEF SettledKept
<1> QED BY <1>2, <1>3, <1>4, <1>5, <1>6, <1>7, <1>8, <1>9, <1>10, NextCases

\* finalizeAuthEmailOutboxDeliveryAttempt, the skip tool and the targeted
\* delivery leave settled rows and attempts alone.
THEOREM SettledEmailsStay == Spec => SettledEmailStays
<1>1. EmailInv /\ [Next]_vars => [SettledKept]_vars
  BY SettledStep
<1>2. Spec => [][SettledKept]_vars
  BY <1>1, EmailInvariant, PTL DEF Spec
<1> QED BY <1>2 DEF SettledEmailStays, SettledKept
=============================================================================
