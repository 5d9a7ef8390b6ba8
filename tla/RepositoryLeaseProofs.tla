------------------------ MODULE RepositoryLeaseProofs ------------------------
(***************************************************************************)
(* Proofs about RepositoryLease: the inductive invariant LeaseInv, the     *)
(* uniqueness of the active lease, the finality of inactive rows, and that *)
(* the lease implements BranchLock.                                        *)
(***************************************************************************)
EXTENDS RepositoryLease, SequenceTheorems, TLAPS

\* SetStatus rewrites the status of the rows of S and nothing else.
LEMMA SetStatusRows ==
    ASSUME leases \in Seq(LeaseRows),
           NEW S, NEW st \in {"active", "released", "expired"}
    PROVE  /\ SetStatus(S, st) \in Seq(LeaseRows)
           /\ Len(SetStatus(S, st)) = Len(leases)
           /\ DOMAIN SetStatus(S, st) = DOMAIN leases
           /\ \A i \in DOMAIN leases :
                SetStatus(S, st)[i] =
                    IF i \in S THEN [leases[i] EXCEPT !.status = st]
                               ELSE leases[i]
<1>1. /\ Len(leases) \in Nat
      /\ DOMAIN leases = 1..Len(leases)
      /\ leases \in [1..Len(leases) -> LeaseRows]
  BY LenProperties
<1>2. SetStatus(S, st) \in [1..Len(leases) -> LeaseRows]
  BY <1>1 DEF SetStatus, LeaseRows
<1>3. SetStatus(S, st) \in Seq(LeaseRows)
  BY <1>1, <1>2, SeqDef
<1>4. DOMAIN SetStatus(S, st) = 1..Len(leases)
  BY <1>2
<1>5. Len(SetStatus(S, st)) = Len(leases)
  BY <1>1, <1>3, <1>4, LenProperties
<1> QED
  BY <1>1, <1>3, <1>4, <1>5 DEF SetStatus

\* What every lease action but an insertion does to the rows.
RowsKept ==
    /\ leases' \in Seq(LeaseRows)
    /\ Len(leases') = Len(leases)
    /\ DOMAIN leases' = DOMAIN leases
    /\ \A i \in DOMAIN leases :
        /\ leases'[i].branch = leases[i].branch
        /\ leases'[i].status = "active" => leases[i].status = "active"
        /\ ~Active(i) => leases'[i] = leases[i]

\* Renewing a row keeps all rows, and changes only the expiry of that row.
LEMMA RenewedRows ==
    ASSUME leases \in Seq(LeaseRows), now \in Nat,
           NEW i \in DOMAIN leases, NEW ttl \in Ttls, Active(i),
           leases' = [leases EXCEPT ![i].expires = ExpiresAt(ttl)]
    PROVE  /\ RowsKept
           /\ leases'[i] = [leases[i] EXCEPT !.expires = now + ttl]
           /\ \A j \in DOMAIN leases : j # i => leases'[j] = leases[j]
<1>1. /\ Len(leases) \in Nat
      /\ DOMAIN leases = 1..Len(leases)
      /\ leases \in [1..Len(leases) -> LeaseRows]
  BY LenProperties
<1>2. now + ttl \in Nat
  BY LeaseAssumption
<1>3. leases' \in [1..Len(leases) -> LeaseRows]
  BY <1>1, <1>2 DEF LeaseRows, ExpiresAt
<1>4. leases' \in Seq(LeaseRows)
  BY <1>1, <1>3, SeqDef
<1>5. DOMAIN leases' = DOMAIN leases /\ Len(leases') = Len(leases)
  BY <1>1, <1>3, <1>4, LenProperties
<1>6. leases'[i] = [leases[i] EXCEPT !.expires = now + ttl]
  BY <1>1 DEF ExpiresAt
<1>7. \A j \in DOMAIN leases : j # i => leases'[j] = leases[j]
  BY <1>1
<1>8. \A j \in DOMAIN leases :
        /\ leases'[j].branch = leases[j].branch
        /\ leases'[j].status = leases[j].status
        /\ ~Active(j) => leases'[j] = leases[j]
  BY <1>1, <1>6, <1>7 DEF LeaseRows
<1> QED
  BY <1>4, <1>5, <1>6, <1>7, <1>8 DEF RowsKept

\* A status change away from active keeps all rows.
LEMMA RestatedRows ==
    ASSUME leases \in Seq(LeaseRows),
           NEW S, NEW st \in {"released", "expired"},
           \A i \in S : i \in DOMAIN leases => Active(i),
           leases' = SetStatus(S, st)
    PROVE  /\ RowsKept
           /\ \A i \in DOMAIN leases : i \notin S => leases'[i] = leases[i]
           /\ \A i \in DOMAIN leases : i \in S => leases'[i].status = st
<1>1. \A i \in DOMAIN leases : leases[i] \in LeaseRows
  BY LenProperties
<1>a. \A i \in DOMAIN leases :
        leases'[i] = IF i \in S THEN [leases[i] EXCEPT !.status = st]
                               ELSE leases[i]
  BY DEF SetStatus
<1>2. \A i \in DOMAIN leases : i \in S =>
        /\ leases'[i].branch = leases[i].branch
        /\ leases'[i].status = st
        /\ leases'[i].status # "active"
  BY <1>1, <1>a DEF LeaseRows
<1>3. \A i \in DOMAIN leases : i \notin S => leases'[i] = leases[i]
  BY <1>a
<1>4. /\ leases' \in Seq(LeaseRows)
      /\ Len(leases') = Len(leases)
      /\ DOMAIN leases' = DOMAIN leases
  BY SetStatusRows
<1> QED
  BY <1>2, <1>3, <1>4 DEF RowsKept

\* With at most one active row per branch, a branch with a live row has no
\* stale one: reusing it marks nothing.
LEMMA ReuseMarksNothing ==
    ASSUME LeaseTypeOK, UniqueActiveLease, NEW i \in DOMAIN leases, Live(i)
    PROVE  StaleRows(leases[i].branch) = {}
<1>1. Active(i) /\ leases[i].expires > now
  BY DEF Live
<1>2. /\ DOMAIN leases = 1..Len(leases)
      /\ leases \in [1..Len(leases) -> LeaseRows]
  BY LenProperties DEF LeaseTypeOK
<1> SUFFICES ASSUME NEW j \in StaleRows(leases[i].branch) PROVE FALSE
  OBVIOUS
<1>3. /\ j \in DOMAIN leases /\ leases[j].branch = leases[i].branch
      /\ Active(j) /\ leases[j].expires <= now
  BY DEF StaleRows, OfBranch, Stale
<1>4. j = i
  BY <1>1, <1>3 DEF UniqueActiveLease
<1>5. now \in Nat /\ leases[i].expires \in Nat
  BY <1>2 DEF LeaseTypeOK, LeaseRows
<1> QED
  BY <1>1, <1>3, <1>4, <1>5

\* Writing the expiry of a reused or renewed row changes nothing else: the
\* row is still active, and the transaction has marked no other.
LEMMA WriteRenews ==
    ASSUME LeaseTypeOK, LocksHold, NEW c \in Callers, WriteExpiry(c)
    PROVE  /\ txn[c].row \in DOMAIN leases /\ Active(txn[c].row) /\ txn[c].ttl \in Ttls
           /\ leases' = [leases EXCEPT ![txn[c].row].expires = ExpiresAt(txn[c].ttl)]
<1>1. /\ txn[c].row \in DOMAIN leases /\ Active(txn[c].row) /\ txn[c].marked = {}
  BY DEF WriteExpiry, LocksHold
<1>2. txn[c].ttl \in Ttls
  <2>1. txn[c] \in Txns
    BY DEF WriteExpiry, LeaseTypeOK, NoTxn
  <2> QED BY <2>1 DEF Txns
<1>3. SetStatus({}, "expired") = leases
  <2>1. leases \in [1..Len(leases) -> LeaseRows] /\ DOMAIN leases = 1..Len(leases)
    BY LenProperties DEF LeaseTypeOK
  <2> QED BY <2>1 DEF SetStatus
<1> QED
  BY <1>1, <1>2, <1>3 DEF WriteExpiry

\* The rows after an insertion: the marked ones expired, one live row more.
LEMMA InsertedRows ==
    ASSUME LeaseTypeOK, LocksHold, NEW c \in Callers, AcquireInsert(c)
    PROVE  /\ leases' \in Seq(LeaseRows)
           /\ Len(leases') = Len(leases) + 1
           /\ DOMAIN leases = 1..Len(leases)
           /\ DOMAIN leases' = 1..(Len(leases) + 1)
           /\ \A i \in DOMAIN leases :
                /\ leases'[i].branch = leases[i].branch
                /\ i \in txn[c].marked => leases'[i].status = "expired"
                /\ i \notin txn[c].marked => leases'[i] = leases[i]
           /\ leases'[Len(leases) + 1].branch = txn[c].branch
           /\ leases'[Len(leases) + 1].status = "active"
           /\ leases'[Len(leases) + 1].expires > now
<1> DEFINE L == SetStatus(txn[c].marked, "expired")
           n == Len(leases)
           row == [branch |-> txn[c].branch, run |-> txn[c].run,
                   op |-> txn[c].op, status |-> "active",
                   expires |-> ExpiresAt(txn[c].ttl)]
<1>1. /\ n \in Nat /\ DOMAIN leases = 1..n
      /\ \A i \in DOMAIN leases : leases[i] \in LeaseRows
  BY LenProperties DEF LeaseTypeOK
<1>2. txn[c] \in Txns
  BY DEF AcquireInsert, LeaseTypeOK, NoTxn
<1>3. /\ txn[c].ttl \in Nat \ {0} /\ now \in Nat
      /\ ExpiresAt(txn[c].ttl) \in Nat /\ ExpiresAt(txn[c].ttl) > now
  <2>1. txn[c].ttl \in Ttls
    BY <1>2 DEF Txns
  <2>2. txn[c].ttl \in Nat \ {0} /\ now \in Nat
    BY <2>1, LeaseAssumption DEF LeaseTypeOK
  <2> QED BY <2>2 DEF ExpiresAt
<1>4. row \in LeaseRows
  BY <1>2, <1>3 DEF Txns, LeaseRows
<1>5. L \in Seq(LeaseRows) /\ Len(L) = n /\ DOMAIN L = DOMAIN leases
  BY SetStatusRows DEF LeaseTypeOK
<1>6. leases' = Append(L, row)
  BY DEF AcquireInsert
<1>7. /\ leases' \in Seq(LeaseRows)
      /\ Len(leases') = n + 1
      /\ leases'[n + 1] = row
      /\ \A i \in 1..n : leases'[i] = L[i]
  <2> HIDE DEF L, row
  <2> QED BY <1>4, <1>5, <1>6, AppendProperties
<1>8. DOMAIN leases' = 1..(n + 1)
  BY <1>7, LenProperties
<1>9. \A i \in DOMAIN leases :
        leases'[i] = IF i \in txn[c].marked
                     THEN [leases[i] EXCEPT !.status = "expired"]
                     ELSE leases[i]
  BY <1>1, <1>7 DEF SetStatus
<1>10. \A i \in DOMAIN leases :
         /\ leases'[i].branch = leases[i].branch
         /\ i \in txn[c].marked => leases'[i].status = "expired"
         /\ i \notin txn[c].marked => leases'[i] = leases[i]
  BY <1>1, <1>9 DEF LeaseRows
<1> QED
  BY <1>1, <1>3, <1>7, <1>8, <1>10

\* A step that keeps the rows cannot make two rows of a branch active.
LEMMA RowsKeptUnique ==
    ASSUME RowsKept, UniqueActiveLease
    PROVE  UniqueActiveLease'
BY DEF RowsKept, UniqueActiveLease, Active

\* A step that changes no locked row, and opens no transaction, leaves the
\* locks in place.
LEMMA LocksKept ==
    ASSUME LocksHold, now' = now,
           DOMAIN leases' = DOMAIN leases,
           \A c \in Callers : txn'[c] = txn[c] \/ txn'[c] = NoTxn,
           \A c \in Callers : \A i \in txn'[c].marked : leases'[i] = leases[i],
           \A c \in Callers : txn'[c].row # 0 => leases'[txn[c].row].status = "active"
    PROVE  LocksHold'
<1>1. \A c \in Callers : txn'[c].marked # {} \/ txn'[c].row # 0 => txn'[c] = txn[c]
  BY DEF NoTxn
<1>2. \A c \in Callers : \A i \in txn'[c].marked :
        i \in DOMAIN leases' /\ Stale(i)' /\ leases'[i].branch = txn'[c].branch
  BY <1>1 DEF LocksHold, Stale, Active
<1>3. \A c, d \in Callers : \A i \in txn'[c].marked :
        txn'[d].row # i /\ (i \in txn'[d].marked => c = d)
  <2> TAKE c, d \in Callers
  <2> TAKE i \in txn'[c].marked
  <2>1. txn'[c] = txn[c] /\ i \in txn[c].marked
    BY <1>1
  <2>2. txn[d].row # i /\ (i \in txn[d].marked => c = d) /\ i \in DOMAIN leases
    BY <2>1 DEF LocksHold
  <2>3. txn[c].row = 0
    BY <2>1 DEF LocksHold
  <2>4. txn'[d] = txn[d] \/ (txn'[d].row = 0 /\ txn'[d].marked = {})
    BY DEF NoTxn
  <2>6. txn[c].row # i
    BY <2>1 DEF LocksHold
  <2> QED BY <2>2, <2>3, <2>4, <2>6
<1>4. \A c \in Callers : txn'[c].row # 0 =>
        /\ txn'[c].row \in DOMAIN leases' /\ leases'[txn'[c].row].status = "active"
        /\ txn'[c].marked = {}
  BY <1>1 DEF LocksHold
<1> QED BY <1>2, <1>3, <1>4 DEF LocksHold, Active

\* A transaction that opens locks rows nobody else has locked.
LEMMA LocksTaken ==
    ASSUME LeaseTypeOK, LocksHold, now' = now, leases' = leases, NEW c \in Callers, NEW t \in Txns,
           txn' = [txn EXCEPT ![c] = t],
           \A i \in t.marked : i \in DOMAIN leases /\ Stale(i) /\ ~Locked(i) /\ leases[i].branch = t.branch,
           t.row # 0 => t.row \in DOMAIN leases /\ Active(t.row) /\ ~Locked(t.row) /\ t.marked = {}
    PROVE  LocksHold' /\ txn' \in [Callers -> {NoTxn} \cup Txns]
<1>0. txn \in [Callers -> {NoTxn} \cup Txns] /\ 0 \notin DOMAIN leases
  BY LenProperties DEF LeaseTypeOK
<1>1. txn'[c] = t /\ \A d \in Callers : d # c => txn'[d] = txn[d]
  BY <1>0
<1>2. \A d \in Callers : \A i \in txn'[d].marked :
        i \in DOMAIN leases /\ Stale(i) /\ leases[i].branch = txn'[d].branch
  BY <1>1 DEF LocksHold
<1>3. ASSUME NEW d \in Callers, NEW e \in Callers, NEW i \in txn'[d].marked
      PROVE  txn'[e].row # i /\ (i \in txn'[e].marked => d = e)
  <2>1. i \in DOMAIN leases
    BY <1>2
  <2>2. CASE d = c
    BY <1>0, <1>1, <1>3, <2>1, <2>2 DEF Locked
  <2>3. CASE d # c /\ e = c
    BY <1>0, <1>1, <1>3, <2>1, <2>3 DEF Locked
  <2>4. CASE d # c /\ e # c
    BY <1>1, <1>3, <2>4 DEF LocksHold
  <2> QED BY <2>2, <2>3, <2>4
<1>4. \A d \in Callers : txn'[d].row # 0 =>
        txn'[d].row \in DOMAIN leases /\ Active(txn'[d].row) /\ txn'[d].marked = {}
  BY <1>1 DEF LocksHold
<1>5. LocksHold'
  BY <1>2, <1>3, <1>4 DEF LocksHold, Stale, Active
<1> QED BY <1>0, <1>5

\* One step of the lease service: which rows it changes.
LEMMA NonInsertKeepsRows ==
    ASSUME LeaseInv, LeaseNext, ~ \E c \in Callers : AcquireInsert(c)
    PROVE  RowsKept /\ LocksHold' /\ txn' \in [Callers -> {NoTxn} \cup Txns]
              /\ now' \in Nat
<1> DEFINE Kept == RowsKept /\ LocksHold' /\ txn' \in [Callers -> {NoTxn} \cup Txns] /\ now' \in Nat
<1>0. /\ leases \in Seq(LeaseRows) /\ now \in Nat
      /\ txn \in [Callers -> {NoTxn} \cup Txns]
      /\ DOMAIN leases = 1..Len(leases) /\ Len(leases) \in Nat
      /\ \A i \in DOMAIN leases : leases[i] \in LeaseRows
      /\ LeaseTypeOK /\ UniqueActiveLease /\ LocksHold
  BY LenProperties DEF LeaseInv, LeaseTypeOK
<1>a. ASSUME leases' = leases PROVE RowsKept
  BY <1>0, <1>a DEF RowsKept
<1>1. ASSUME NEW c \in Callers, NEW r \in Runs, NEW b \in Branches,
             NEW o \in Operations, NEW ttl \in Ttls,
             AcquireBegin(c, r, b, o, ttl)
      PROVE  Kept
  <2> DEFINE t == [open |-> TRUE, marked |-> StaleRows(b), row |-> 0,
                   branch |-> b, run |-> r, op |-> o, ttl |-> ttl]
  <2>1. /\ leases' = leases /\ now' = now /\ txn' = [txn EXCEPT ![c] = t]
        /\ \A i \in OfBranch(b) : Active(i) => Stale(i) /\ ~Locked(i)
    BY <1>1 DEF AcquireBegin
  <2>2. \A i \in StaleRows(b) : i \in DOMAIN leases /\ Stale(i) /\ ~Locked(i) /\ leases[i].branch = b
    BY <2>1 DEF StaleRows, OfBranch, Stale
  <2>3. t \in Txns /\ t.marked = StaleRows(b) /\ t.branch = b /\ t.row = 0
    <3>1. StaleRows(b) \in SUBSET Nat
      BY <1>0, <2>2
    <3> QED BY <3>1 DEF Txns
  <2> HIDE DEF t
  <2> QED BY <1>0, <1>a, <2>1, <2>2, <2>3, LocksTaken
<1>b. ASSUME NEW c \in Callers, NEW i \in DOMAIN leases, NEW ttl \in Ttls, Active(i), ~Locked(i),
             Found(c, i, {}, ttl), now' = now, leases' = leases
      PROVE  Kept
  <2> DEFINE t == [open |-> TRUE, marked |-> {}, row |-> i,
                   branch |-> leases[i].branch, run |-> leases[i].run,
                   op |-> leases[i].op, ttl |-> ttl]
  <2>1. txn' = [txn EXCEPT ![c] = t]
    BY <1>b DEF Found
  <2>2. t \in Txns /\ t.marked = {} /\ t.row = i
    BY <1>0 DEF Txns, LeaseRows
  <2> HIDE DEF t
  <2> QED BY <1>0, <1>a, <1>b, <2>1, <2>2, LocksTaken
<1>2. ASSUME NEW c \in Callers, NEW i \in DOMAIN leases, NEW ttl \in Ttls, AcquireReuse(c, i, ttl)
      PROVE  Kept
  <2>1. StaleRows(leases[i].branch) = {}
    BY <1>0, <1>2, ReuseMarksNothing DEF AcquireReuse
  <2> QED BY <1>2, <1>b, <2>1 DEF AcquireReuse, Live
<1>3. ASSUME NEW c \in Callers, NEW i \in DOMAIN leases, NEW ttl \in Ttls, NEW r \in Runs,
             Renew(c, i, r, ttl)
      PROVE  Kept
  BY <1>3, <1>b DEF Renew, Renewable
<1>c. ASSUME NEW c \in Callers, txn' = [txn EXCEPT ![c] = NoTxn]
      PROVE  /\ txn' \in [Callers -> {NoTxn} \cup Txns]
             /\ txn'[c] = NoTxn /\ \A d \in Callers : d # c => txn'[d] = txn[d]
  BY <1>0, <1>c
<1>4. ASSUME NEW c \in Callers, Rollback(c) PROVE Kept
  <2>1. leases' = leases /\ now' = now /\ txn' = [txn EXCEPT ![c] = NoTxn]
    BY <1>4 DEF Rollback
  <2>2. LocksHold'
    BY <1>0, <1>c, <2>1, LocksKept DEF LocksHold, Active, NoTxn
  <2> QED BY <1>0, <1>a, <1>c, <2>1, <2>2
<1>5. ASSUME NEW c \in Callers, WriteExpiry(c) PROVE Kept
  <2> DEFINE i == txn[c].row
  <2>1. /\ i \in DOMAIN leases /\ Active(i) /\ txn[c].ttl \in Ttls
        /\ leases' = [leases EXCEPT ![i].expires = ExpiresAt(txn[c].ttl)]
    BY <1>0, <1>5, WriteRenews
  <2>2. RowsKept /\ \A j \in DOMAIN leases : j # i => leases'[j] = leases[j]
    BY <1>0, <2>1, RenewedRows
  <2>3. leases'[i].status = "active"
    <3>1. leases'[i] = [leases[i] EXCEPT !.expires = now + txn[c].ttl]
      BY <1>0, <2>1, RenewedRows
    <3> QED BY <1>0, <2>1, <3>1 DEF Active, LeaseRows
  <2>4. now' = now /\ txn' = [txn EXCEPT ![c] = NoTxn]
    BY <1>5 DEF WriteExpiry
  <2>5. \A d \in Callers : \A j \in txn'[d].marked : leases'[j] = leases[j]
    <3> TAKE d \in Callers
    <3> TAKE j \in txn'[d].marked
    <3>1. j \in txn[d].marked
      BY <1>c, <2>4 DEF NoTxn
    <3> QED BY <1>0, <2>2, <3>1 DEF LocksHold
  <2>6. \A d \in Callers : txn'[d].row # 0 => leases'[txn[d].row].status = "active"
    <3> TAKE d \in Callers
    <3> HAVE txn'[d].row # 0
    <3>1. txn[d].row # 0
      BY <1>c, <2>4 DEF NoTxn
    <3>2. txn[d].row \in DOMAIN leases /\ Active(txn[d].row)
      BY <1>0, <3>1 DEF LocksHold
    <3> QED BY <2>2, <2>3, <3>2 DEF Active
  <2>7. LocksHold'
    BY <1>0, <1>c, <2>2, <2>4, <2>5, <2>6, LocksKept DEF RowsKept
  <2> QED BY <1>0, <1>c, <2>2, <2>4, <2>7
<1>d. ASSUME NEW S \in SUBSET DOMAIN leases, NEW st \in {"released", "expired"},
             \A i \in S : Active(i) /\ ~Locked(i),
             leases' = SetStatus(S, st), now' = now, txn' = txn
      PROVE  Kept
  <2>1. RowsKept /\ \A i \in DOMAIN leases : i \notin S => leases'[i] = leases[i]
    BY <1>0, <1>d, RestatedRows
  <2>2. \A c \in Callers : \A j \in txn[c].marked : leases'[j] = leases[j]
    BY <1>0, <1>d, <2>1 DEF LocksHold, Locked
  <2>3. \A c \in Callers : txn[c].row # 0 => leases'[txn[c].row].status = "active"
    BY <1>0, <1>d, <2>1 DEF LocksHold, Locked, Active
  <2>4. LocksHold'
    BY <1>0, <1>d, <2>1, <2>2, <2>3, LocksKept DEF RowsKept
  <2> QED BY <1>0, <1>d, <2>1, <2>4
<1>6. ASSUME NEW i \in DOMAIN leases, NEW r \in Runs, Release(i, r) PROVE Kept
  BY <1>6, <1>d DEF Release, Releasable
<1>7. ASSUME NEW n \in Limits, ExpireStale(n) PROVE Kept
  <2>1. PICK S \in SUBSET {i \in DOMAIN leases : Stale(i)} :
            leases' = SetStatus(S, "expired")
    BY <1>7 DEF ExpireStale
  <2>2. /\ \A i \in S : Active(i) /\ ~Locked(i)
        /\ now' = now /\ txn' = txn
    BY <1>7, <2>1 DEF ExpireStale, Stale
  <2> QED BY <1>d, <2>1, <2>2
<1>8. ASSUME Tick PROVE Kept
  <2>1. leases' = leases /\ txn' = txn /\ now' = now + 1
    BY <1>8 DEF Tick
  <2>2. \A i \in DOMAIN leases : (Stale(i) => Stale(i)') /\ (Active(i) => Active(i)')
    BY <1>0, <2>1 DEF Stale, Active, LeaseRows
  <2>3. LocksHold'
    BY <1>0, <2>1, <2>2 DEF LocksHold
  <2> QED BY <1>0, <1>a, <2>1, <2>3
<1> QED
  BY <1>1, <1>2, <1>3, <1>4, <1>5, <1>6, <1>7, <1>8 DEF LeaseNext

-----------------------------------------------------------------------------
\* LeaseInv holds of the empty table.
LEMMA InitLeaseInv == LeaseInit => LeaseInv
<1> SUFFICES ASSUME LeaseInit PROVE LeaseInv
  OBVIOUS
<1>1. /\ leases \in Seq(LeaseRows) /\ Len(leases) = 0 /\ DOMAIN leases = {}
      /\ now \in Nat
  <2>1. leases \in Seq(LeaseRows) /\ Len(leases) = 0
    BY EmptySeq DEF LeaseInit
  <2> QED BY <2>1, LenProperties DEF LeaseInit
<1>2. LeaseTypeOK
  BY <1>1, LeaseAssumption DEF LeaseInit, LeaseTypeOK
<1> QED BY <1>1, <1>2 DEF LeaseInit, LeaseInv, UniqueActiveLease, LocksHold, NoTxn

\* Every step of the lease service keeps LeaseInv; the modules that compose
\* the service with others cite it.
LEMMA LeaseStep == LeaseInv /\ [LeaseNext]_leaseVars => LeaseInv'
<1> SUFFICES ASSUME LeaseInv, [LeaseNext]_leaseVars PROVE LeaseInv'
  OBVIOUS
<1>1. CASE UNCHANGED leaseVars
  BY <1>1 DEF LeaseInv, LeaseTypeOK, UniqueActiveLease, LocksHold,
              leaseVars, Active, Stale
<1>2. CASE LeaseNext /\ ~ \E c \in Callers : AcquireInsert(c)
  <2>1. /\ RowsKept /\ LocksHold' /\ now' \in Nat
        /\ txn' \in [Callers -> {NoTxn} \cup Txns]
    BY <1>2, NonInsertKeepsRows
  <2>2. UniqueActiveLease'
    BY <2>1, RowsKeptUnique DEF LeaseInv
  <2>3. LeaseTypeOK'
    BY <2>1 DEF RowsKept, LeaseInv, LeaseTypeOK
  <2> QED BY <2>1, <2>2, <2>3 DEF LeaseInv
<1>3. ASSUME NEW c \in Callers, AcquireInsert(c) PROVE LeaseInv'
  <2>0. LeaseTypeOK /\ LocksHold /\ UniqueActiveLease
    BY DEF LeaseInv
  <2> DEFINE n == Len(leases)
  <2>1. /\ leases' \in Seq(LeaseRows)
        /\ Len(leases') = n + 1
        /\ DOMAIN leases = 1..n
        /\ DOMAIN leases' = 1..(n + 1)
        /\ \A i \in DOMAIN leases :
              /\ leases'[i].branch = leases[i].branch
              /\ i \in txn[c].marked => leases'[i].status = "expired"
              /\ i \notin txn[c].marked => leases'[i] = leases[i]
        /\ leases'[n + 1].branch = txn[c].branch
    BY <1>3, <2>0, InsertedRows
  <2>2. /\ n < MaxLeases /\ n \in Nat /\ now' = now
        /\ txn' = [txn EXCEPT ![c] = NoTxn]
        /\ \A i \in DOMAIN leases :
              leases[i].branch = txn[c].branch /\ Active(i)
                  => i \in txn[c].marked
    BY <1>3, <2>0, LenProperties
    DEF AcquireInsert, UniqueKeyFree, OfBranch, LeaseTypeOK
  <2>3. LeaseTypeOK'
    BY <2>0, <2>1, <2>2, LeaseAssumption DEF LeaseTypeOK
  <2>4. \A i \in DOMAIN leases :
          leases'[i].status = "active" =>
              /\ Active(i)
              /\ leases'[i].branch # txn[c].branch
    BY <2>1, <2>2 DEF Active
  <2>5. UniqueActiveLease'
    <3> SUFFICES ASSUME NEW i \in DOMAIN leases', NEW j \in DOMAIN leases',
                        leases'[i].status = "active",
                        leases'[j].status = "active",
                        leases'[i].branch = leases'[j].branch
                 PROVE  i = j
      BY DEF UniqueActiveLease, Active
    <3>1. i \in DOMAIN leases \/ i = n + 1
      BY <2>1, <2>2
    <3>2. j \in DOMAIN leases \/ j = n + 1
      BY <2>1, <2>2
    <3>3. CASE i \in DOMAIN leases /\ j \in DOMAIN leases
      BY <3>3, <2>0, <2>1, <2>4 DEF UniqueActiveLease
    <3> QED BY <3>1, <3>2, <3>3, <2>1, <2>4
  <2>6. txn'[c] = NoTxn /\ \A d \in Callers : d # c => txn'[d] = txn[d]
    BY <2>0, <2>2 DEF LeaseTypeOK
  <2>7. \A d \in Callers : \A i \in txn'[d].marked :
          /\ i \in DOMAIN leases' /\ leases'[i] = leases[i] /\ Stale(i)
          /\ leases[i].branch = txn'[d].branch
    <3> TAKE d \in Callers
    <3> TAKE i \in txn'[d].marked
    <3>1. d # c /\ txn'[d] = txn[d]
      BY <2>6 DEF NoTxn
    <3>2. /\ i \in DOMAIN leases /\ Stale(i) /\ leases[i].branch = txn[d].branch
          /\ i \notin txn[c].marked
      BY <2>0, <3>1 DEF LocksHold
    <3> QED BY <2>1, <2>2, <3>1, <3>2
  <2>8. ASSUME NEW d \in Callers, NEW e \in Callers, NEW i \in txn'[d].marked
        PROVE  txn'[e].row # i /\ (i \in txn'[e].marked => d = e)
    <3>1. d # c /\ txn'[d] = txn[d] /\ i \in DOMAIN leases /\ i # 0
      BY <2>0, <2>1, <2>2, <2>6, <2>8 DEF LocksHold, NoTxn
    <3>2. txn'[e] = txn[e] \/ (txn'[e].row = 0 /\ txn'[e].marked = {})
      BY <2>6 DEF NoTxn
    <3> QED BY <2>0, <2>8, <3>1, <3>2 DEF LocksHold
  <2>9. \A d \in Callers : txn'[d].row # 0 =>
          /\ txn'[d].row \in DOMAIN leases' /\ leases'[txn'[d].row].status = "active"
          /\ txn'[d].marked = {}
    <3> TAKE d \in Callers
    <3> HAVE txn'[d].row # 0
    <3>1. d # c /\ txn'[d] = txn[d]
      BY <2>6 DEF NoTxn
    <3>2. /\ txn[d].row \in DOMAIN leases /\ Active(txn[d].row) /\ txn[d].marked = {}
          /\ txn[d].row \notin txn[c].marked
      BY <2>0, <3>1 DEF LocksHold
    <3> QED BY <2>1, <2>2, <3>1, <3>2 DEF Active
  <2>10. LocksHold'
    BY <2>2, <2>7, <2>8, <2>9 DEF LocksHold, Stale, Active
  <2> QED BY <2>3, <2>5, <2>10 DEF LeaseInv
<1> QED BY <1>1, <1>2, <1>3

\* LeaseInv holds in every reachable state: types, at most one active row per
\* branch, and disjoint marks on stale rows only.
THEOREM LeaseInvariant == LeaseSpec => []LeaseInv
BY InitLeaseInv, LeaseStep, PTL DEF LeaseSpec

\* The clock, the rows and the transactions of acquirers in flight keep their
\* types (acquireRepositoryOperationLease).
THEOREM LeaseTypeCorrect == LeaseSpec => []LeaseTypeOK
<1>1. LeaseInv => LeaseTypeOK
  BY DEF LeaseInv
<1> QED BY <1>1, LeaseInvariant, PTL

\* The table never holds two active leases of one branch: acquirers that both
\* saw the branch free cannot both commit (acquireRepositoryOperationLease).
THEOREM ActiveLeaseIsUnique == LeaseSpec => []UniqueActiveLease
<1>1. LeaseInv => UniqueActiveLease
  BY DEF LeaseInv
<1> QED BY <1>1, LeaseInvariant, PTL

\* A released or expired row is never written again, by any operation of the
\* lease service.
THEOREM InactiveLeaseIsFinal == LeaseSpec => InactiveLeaseStays
<1>1. LeaseInv /\ [LeaseNext]_leaseVars =>
        [\A i \in DOMAIN leases : ~Active(i) => leases'[i] = leases[i]]_leaseVars
  <2> SUFFICES ASSUME LeaseInv, LeaseNext, NEW i \in DOMAIN leases, ~Active(i)
               PROVE  leases'[i] = leases[i]
    OBVIOUS
  <2>1. CASE ~ \E c \in Callers : AcquireInsert(c)
    BY <2>1, NonInsertKeepsRows DEF RowsKept
  <2>2. ASSUME NEW c \in Callers, AcquireInsert(c) PROVE leases'[i] = leases[i]
    <3>1. i \notin txn[c].marked
      BY DEF LeaseInv, LocksHold, Stale
    <3> QED BY <2>2, <3>1, InsertedRows DEF LeaseInv
  <2> QED BY <2>1, <2>2
<1> QED BY <1>1, LeaseInvariant, PTL DEF LeaseSpec, InactiveLeaseStays

-----------------------------------------------------------------------------
(* The lease implements the lock. *)

LiveIds == {k \in DOMAIN leases : Live(k)}
ActiveIds == {k \in DOMAIN leases : Active(k)}

Held == {<<leases[i].branch, i>> : i \in LiveIds}
Open == {<<leases[i].branch, i>> : i \in ActiveIds}

\* When no lease comes into force, the abstract lock only lapses.
LEMMA LapseStep ==
    ASSUME RowsKept, \A i \in DOMAIN leases : Live(i)' => Live(i)
    PROVE  Held' \subseteq Held \cap Open' /\ Open' \subseteq Open
<1>1. LiveIds' \subseteq LiveIds /\ LiveIds' \subseteq ActiveIds' /\ ActiveIds' \subseteq ActiveIds
  BY DEF RowsKept, LiveIds, ActiveIds, Live, Active
<1>2. \A i \in DOMAIN leases : leases'[i].branch = leases[i].branch
  BY DEF RowsKept
<1>3. ActiveIds \subseteq DOMAIN leases /\ LiveIds \subseteq DOMAIN leases
  BY DEF ActiveIds, LiveIds
<1> QED BY <1>1, <1>2, <1>3 DEF Held, Open

\* The rows and the clock as numbers.
LEMMA RowTypes ==
    ASSUME LeaseInv
    PROVE  /\ leases \in Seq(LeaseRows) /\ now \in Nat
           /\ \A i \in DOMAIN leases :
                /\ leases[i] \in LeaseRows /\ leases[i].expires \in Nat
                /\ leases[i].branch \in Branches /\ i \in 1..MaxLeases
<1>1. leases \in Seq(LeaseRows) /\ now \in Nat /\ Len(leases) <= MaxLeases
  BY DEF LeaseInv, LeaseTypeOK
<1>2. \A i \in DOMAIN leases : leases[i] \in LeaseRows /\ i \in 1..Len(leases)
  BY <1>1, LenProperties
<1>3. Len(leases) \in Nat /\ MaxLeases \in Nat
  BY <1>1, LenProperties, LeaseAssumption
<1> QED BY <1>1, <1>2, <1>3 DEF LeaseRows

\* Every step but an insertion and the write of an expiry lets leases lapse
\* and brings none into force.
LEMMA OthersLapse ==
    ASSUME LeaseInv, LeaseNext, ~ \E c \in Callers : AcquireInsert(c) \/ WriteExpiry(c)
    PROVE  Held' \subseteq Held \cap Open' /\ Open' \subseteq Open /\ DOMAIN leases' = DOMAIN leases
<1>0. /\ leases \in Seq(LeaseRows) /\ now \in Nat
      /\ \A i \in DOMAIN leases : leases[i].expires \in Nat
  BY RowTypes
<1>1. RowsKept
  BY NonInsertKeepsRows
<1>2. \A i \in DOMAIN leases : Live(i)' => Live(i)
  <2>a. ASSUME leases' = leases, now' = now
        PROVE  \A i \in DOMAIN leases : Live(i)' => Live(i)
    BY <2>a DEF Live, Active
  <2>b. ASSUME NEW S \in SUBSET DOMAIN leases, NEW st \in {"released", "expired"},
               \A i \in S : Active(i), leases' = SetStatus(S, st), now' = now
        PROVE  \A j \in DOMAIN leases : Live(j)' => Live(j)
    <3>1. \A j \in DOMAIN leases : /\ j \notin S => leases'[j] = leases[j]
                                   /\ j \in S => leases'[j].status = st
      BY <1>0, <2>b, RestatedRows
    <3> QED BY <2>b, <3>1 DEF Live, Active
  <2>1. ASSUME NEW c \in Callers, NEW r \in Runs, NEW b \in Branches,
               NEW o \in Operations, NEW ttl \in Ttls,
               AcquireBegin(c, r, b, o, ttl)
        PROVE  \A i \in DOMAIN leases : Live(i)' => Live(i)
    BY <2>1, <2>a DEF AcquireBegin
  <2>2. ASSUME NEW c \in Callers, Rollback(c)
        PROVE  \A i \in DOMAIN leases : Live(i)' => Live(i)
    BY <2>2, <2>a DEF Rollback
  <2>3. ASSUME NEW c \in Callers, NEW i \in DOMAIN leases, NEW ttl \in Ttls, AcquireReuse(c, i, ttl)
        PROVE  \A j \in DOMAIN leases : Live(j)' => Live(j)
    BY <2>3, <2>a DEF AcquireReuse
  <2>4. ASSUME NEW c \in Callers, NEW i \in DOMAIN leases, NEW ttl \in Ttls, NEW r \in Runs,
               Renew(c, i, r, ttl)
        PROVE  \A j \in DOMAIN leases : Live(j)' => Live(j)
    BY <2>4, <2>a DEF Renew
  <2>5. ASSUME NEW i \in DOMAIN leases, NEW r \in Runs, Release(i, r)
        PROVE  \A j \in DOMAIN leases : Live(j)' => Live(j)
    BY <2>5, <2>b DEF Release, Releasable
  <2>6. ASSUME NEW n \in Limits, ExpireStale(n)
        PROVE  \A j \in DOMAIN leases : Live(j)' => Live(j)
    <3>1. PICK S \in SUBSET {i \in DOMAIN leases : Stale(i)} :
              leases' = SetStatus(S, "expired")
      BY <2>6 DEF ExpireStale
    <3>2. now' = now /\ \A i \in S : Active(i)
      BY <2>6, <3>1 DEF ExpireStale, Stale
    <3> QED BY <2>b, <3>1, <3>2
  <2>7. ASSUME Tick PROVE \A j \in DOMAIN leases : Live(j)' => Live(j)
    BY <1>0, <2>7 DEF Tick, Live, Active
  <2> QED
    BY <2>1, <2>2, <2>3, <2>4, <2>5, <2>6, <2>7 DEF LeaseNext
<1> QED
  BY <1>1, <1>2, LapseStep DEF RowsKept

\* The write of an expiry puts a lease that was not ended in force, whether
\* it had lapsed since it was checked or not.
LEMMA WriteResumes ==
    ASSUME LeaseInv, NEW c \in Callers, WriteExpiry(c)
    PROVE  \E b \in Branches, g \in 1..MaxLeases :
              /\ <<b, g>> \in Open
              /\ Held' = Held \cup {<<b, g>>}
              /\ Open' = Open
              /\ DOMAIN leases' = DOMAIN leases
<1> DEFINE i == txn[c].row  b == leases[i].branch
<1>0. /\ leases \in Seq(LeaseRows) /\ now \in Nat
      /\ \A j \in DOMAIN leases : leases[j] \in LeaseRows
  BY RowTypes
<1>1. /\ i \in DOMAIN leases /\ Active(i) /\ txn[c].ttl \in Ttls
      /\ leases' = [leases EXCEPT ![i].expires = ExpiresAt(txn[c].ttl)]
  BY WriteRenews DEF LeaseInv
<1>2. b \in Branches /\ i \in 1..MaxLeases
  BY <1>1, RowTypes
<1>3. /\ RowsKept /\ leases'[i] = [leases[i] EXCEPT !.expires = now + txn[c].ttl]
      /\ \A j \in DOMAIN leases : j # i => leases'[j] = leases[j]
  BY <1>0, <1>1, RenewedRows
<1>4. leases'[i].status = "active" /\ leases'[i].expires > now /\ leases'[i].branch = b
  <2>1. now + txn[c].ttl > now
    BY <1>0, <1>1, LeaseAssumption
  <2>2. leases'[i].expires = now + txn[c].ttl /\ leases'[i].status = leases[i].status
        /\ leases'[i].branch = b
    BY <1>0, <1>1, <1>3 DEF LeaseRows
  <2> QED BY <1>1, <2>1, <2>2 DEF Active
<1>5. now' = now /\ DOMAIN leases' = DOMAIN leases
  BY <1>3 DEF WriteExpiry, RowsKept
<1>6. LiveIds' = LiveIds \cup {i}
  <2>1. LiveIds' = {k \in DOMAIN leases : leases'[k].status = "active" /\ leases'[k].expires > now}
    BY <1>5 DEF LiveIds, Live, Active
  <2>2. LiveIds = {k \in DOMAIN leases : leases[k].status = "active" /\ leases[k].expires > now}
    BY DEF LiveIds, Live, Active
  <2> QED BY <1>1, <1>3, <1>4, <2>1, <2>2
<1>7. ActiveIds' = ActiveIds
  <2>1. \A j \in DOMAIN leases : leases'[j].status = "active" <=> leases[j].status = "active"
    BY <1>1, <1>3, <1>4 DEF Active
  <2> QED BY <1>5, <2>1 DEF ActiveIds, Active
<1>8. \A j \in DOMAIN leases : leases'[j].branch = leases[j].branch
  BY <1>3 DEF RowsKept
<1>9. Held' = Held \cup {<<b, i>>}
  <2>1. LiveIds \subseteq DOMAIN leases
    BY DEF LiveIds
  <2>2. Held' = {<<leases'[j].branch, j>> : j \in LiveIds'}
    BY DEF Held
  <2> HIDE DEF i
  <2> QED BY <1>1, <1>6, <1>8, <2>1, <2>2 DEF Held
<1>10. Open' = Open
  <2>1. ActiveIds \subseteq DOMAIN leases
    BY DEF ActiveIds
  <2>2. Open' = {<<leases'[j].branch, j>> : j \in ActiveIds'}
    BY DEF Open
  <2> QED BY <1>7, <1>8, <2>1, <2>2 DEF Open
<1>11. <<b, i>> \in Open
  BY <1>1 DEF Open, ActiveIds
<1> QED
  BY <1>2, <1>5, <1>9, <1>10, <1>11

\* An insertion grants a fresh lease of a branch that has none in force.
LEMMA InsertGrants ==
    ASSUME LeaseInv, NEW c \in Callers, AcquireInsert(c)
    PROVE  \E b \in Branches, g \in 1..MaxLeases :
              /\ g \notin DOMAIN leases
              /\ \A p \in Held : p[1] # b
              /\ Held' = Held \cup {<<b, g>>}
              /\ Open' = {p \in Open : p[1] # b} \cup {<<b, g>>}
              /\ DOMAIN leases' = DOMAIN leases \cup {g}
<1> DEFINE n == Len(leases)  b == txn[c].branch
<1>0. LeaseTypeOK /\ LocksHold /\ UniqueActiveLease
  BY DEF LeaseInv
<1>1. /\ DOMAIN leases = 1..n
      /\ DOMAIN leases' = 1..(n + 1)
      /\ \A i \in DOMAIN leases :
            /\ leases'[i].branch = leases[i].branch
            /\ i \in txn[c].marked => leases'[i].status = "expired"
            /\ i \notin txn[c].marked => leases'[i] = leases[i]
      /\ leases'[n + 1].branch = b
      /\ leases'[n + 1].status = "active"
      /\ leases'[n + 1].expires > now
  BY <1>0, InsertedRows
<1>2. /\ n < MaxLeases /\ n \in Nat /\ now' = now
      /\ \A i \in DOMAIN leases :
            leases[i].branch = b /\ Active(i) => i \in txn[c].marked
  BY <1>0, LenProperties
  DEF AcquireInsert, UniqueKeyFree, OfBranch, LeaseTypeOK
<1>3. b \in Branches
  <2>1. txn[c] \in Txns
    BY <1>0 DEF AcquireInsert, LeaseTypeOK, NoTxn
  <2> QED BY <2>1 DEF Txns
<1>4. \A i \in DOMAIN leases : Live(i) => i \notin txn[c].marked
  <2>0. now \in Nat /\ \A i \in DOMAIN leases : leases[i] \in LeaseRows
    BY <1>0, LenProperties DEF LeaseTypeOK
  <2>1. \A i \in DOMAIN leases : leases[i].expires \in Nat /\ now \in Nat
    BY <2>0 DEF LeaseRows
  <2> QED BY <1>0, <2>1 DEF LocksHold, Stale, Live
<1>5. \A i \in DOMAIN leases : Live(i)' <=> Live(i)
  BY <1>1, <1>2, <1>4 DEF Live, Active
<1>6. leases'[n + 1].status = "active" /\ leases'[n + 1].expires > now'
  BY <1>1, <1>2
<1>7. n + 1 \notin DOMAIN leases /\ n + 1 \in 1..MaxLeases
      /\ DOMAIN leases' = DOMAIN leases \cup {n + 1}
  BY <1>1, <1>2, LeaseAssumption
<1>8. LiveIds' = LiveIds \cup {n + 1}
  <2>1. LiveIds' = {k \in DOMAIN leases' : leases'[k].status = "active"
                                             /\ leases'[k].expires > now'}
    BY DEF LiveIds, Live, Active
  <2>2. \A k \in DOMAIN leases :
          leases'[k].status = "active" /\ leases'[k].expires > now' <=> Live(k)
    BY <1>5 DEF Live, Active
  <2> QED BY <1>6, <1>7, <2>1, <2>2 DEF LiveIds
<1>9. Held' = Held \cup {<<b, n + 1>>}
  <2>1. \A i \in LiveIds : leases'[i].branch = leases[i].branch
    BY <1>1 DEF LiveIds
  <2>2. Held' = {<<leases'[i].branch, i>> : i \in LiveIds'}
    BY DEF Held
  <2> QED BY <1>1, <1>8, <2>1, <2>2 DEF Held
<1>10. \A p \in Held : p[1] # b
  <2>1. \A i \in LiveIds : leases[i].branch # b
    BY <1>2, <1>4 DEF LiveIds, Live
  <2> QED BY <2>1 DEF Held
<1>11. ActiveIds' = {k \in ActiveIds : leases[k].branch # b} \cup {n + 1}
  <2>1. ActiveIds' = {k \in DOMAIN leases' : leases'[k].status = "active"}
    BY DEF ActiveIds, Active
  <2>2. \A k \in DOMAIN leases :
          leases'[k].status = "active" <=> Active(k) /\ leases[k].branch # b
    <3>1. \A k \in DOMAIN leases : k \in txn[c].marked => leases[k].branch = b
      BY <1>0 DEF LocksHold
    <3> QED BY <1>1, <1>2, <3>1 DEF Active
  <2> QED BY <1>6, <1>7, <2>1, <2>2 DEF ActiveIds
<1>12. Open' = {p \in Open : p[1] # b} \cup {<<b, n + 1>>}
  <2>1. ActiveIds \subseteq DOMAIN leases
    BY DEF ActiveIds
  <2>2. Open' = {<<leases'[i].branch, i>> : i \in ActiveIds'}
    BY DEF Open
  <2>3. {p \in Open : p[1] # b} = {<<leases[i].branch, i>> : i \in {k \in ActiveIds : leases[k].branch # b}}
    BY DEF Open
  <2> QED BY <1>1, <1>11, <2>1, <2>2, <2>3
<1> QED
  BY <1>3, <1>7, <1>9, <1>10, <1>12

\* The lease service implements BranchLock under the mapping of the module,
\* for every set of branches, runs, callers and TTLs: a branch is granted only
\* while no lease of it is in force, and a lease that lapsed between the check
\* and the write of renewRepositoryOperationLease, or of the reuse in
\* acquireRepositoryOperationLease, is back in force only if it was not ended.
THEOREM LeaseImplementsLock == LeaseSpec => ImplementsLock
<1>1. LeaseInit => Lock!Init
  <2> SUFFICES ASSUME LeaseInit PROVE Lock!Init
    OBVIOUS
  <2>1. DOMAIN leases = {}
    BY EmptySeq, LenProperties DEF LeaseInit
  <2> QED BY <2>1 DEF Lock!Init
<1>2. LeaseInv /\ [LeaseNext]_leaseVars => [Lock!Next]_(Lock!vars)
  <2> SUFFICES ASSUME LeaseInv, [LeaseNext]_leaseVars
               PROVE  Lock!Next \/ UNCHANGED Lock!vars
    OBVIOUS
  <2>1. CASE UNCHANGED leaseVars
    BY <2>1 DEF leaseVars, Lock!vars, Live, Active
  <2>2. CASE LeaseNext /\ ~ \E c \in Callers : AcquireInsert(c) \/ WriteExpiry(c)
    <3>1. Held' \subseteq Held \cap Open' /\ Open' \subseteq Open /\ DOMAIN leases' = DOMAIN leases
      BY <2>2, OthersLapse
    <3> QED BY <3>1 DEF Lock!Next, Lock!Lapse, Held, LiveIds, Open, ActiveIds
  <2>3. ASSUME NEW c \in Callers, AcquireInsert(c) PROVE Lock!Next
    <3>1. PICK b \in Branches, g \in 1..MaxLeases :
              /\ g \notin DOMAIN leases
              /\ \A p \in Held : p[1] # b
              /\ Held' = Held \cup {<<b, g>>}
              /\ Open' = {p \in Open : p[1] # b} \cup {<<b, g>>}
              /\ DOMAIN leases' = DOMAIN leases \cup {g}
      BY <2>3, InsertGrants
    <3>2. Lock!Grant(b, g)
      BY <3>1 DEF Lock!Grant, Held, LiveIds, Open, ActiveIds
    <3> QED BY <3>2 DEF Lock!Next
  <2>4. ASSUME NEW c \in Callers, WriteExpiry(c) PROVE Lock!Next
    <3>1. PICK b \in Branches, g \in 1..MaxLeases :
              /\ <<b, g>> \in Open
              /\ Held' = Held \cup {<<b, g>>}
              /\ Open' = Open
              /\ DOMAIN leases' = DOMAIN leases
      BY <2>4, WriteResumes
    <3>2. Lock!Resume(b, g)
      BY <3>1 DEF Lock!Resume, Held, LiveIds, Open, ActiveIds
    <3> QED BY <3>2 DEF Lock!Next
  <2> QED BY <2>1, <2>2, <2>3, <2>4
<1> QED
  BY <1>1, <1>2, LeaseInvariant, PTL DEF LeaseSpec, ImplementsLock, Lock!Spec

=============================================================================
