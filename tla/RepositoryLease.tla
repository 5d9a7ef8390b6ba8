--------------------------- MODULE RepositoryLease ---------------------------
(***************************************************************************)
(* The repository operation lease (repositoryOperationLeaseService.js): an *)
(* exclusive, expiring lease on a work branch, kept as rows of the table   *)
(* repository_operation_leases.                                            *)
(*                                                                         *)
(* Acquiring and renewing run in transactions of several statements, and   *)
(* each statement reads the clock anew.  They are split into the checks,   *)
(* which lock what they find, and the write.  Two acquirers may both see   *)
(* no active row before either inserts one: only the UNIQUE key over       *)
(* active rows decides.  A row whose expiry was checked may lapse before   *)
(* the new expiry is written, which does not check it again.  Releasing    *)
(* and expiring do not compare the clock twice and are one action each.    *)
(* A call that throws rolls back and changes no row.                       *)
(***************************************************************************)
EXTENDS Integers, Sequences, FiniteSets

CONSTANTS
    Branches,    \* resource keys: governed work branches
    Runs,        \* holder_run_id values
    Operations,  \* operation_key, operation_fingerprint and actor
    Callers,     \* requests that may be inside acquire or renew at the same time
    Ttls,        \* ttl_seconds values, all within the service's bounds
    Limits,      \* LIMIT values of the expiry sweep
    MaxTime,     \* bound: clock values explored
    MaxLeases    \* bound: lease rows explored

ASSUME LeaseAssumption ==
    /\ Ttls \subseteq Nat \ {0}
    /\ Limits \subseteq Nat \ {0}
    /\ MaxTime \in Nat
    /\ MaxLeases \in Nat

VARIABLES
    now,     \* CURRENT_TIMESTAMP
    leases,  \* the rows, in the order of their creation; lease_id is the index
    txn      \* each caller's open acquire or renew transaction

leaseVars == <<now, leases, txn>>

\* resource_fingerprint is a hash of the branch, the operation and the run.
LeaseRows == [branch : Branches, run : Runs, op : Operations,
              status : {"active", "released", "expired"}, expires : Nat]

NoTxn == [open |-> FALSE, marked |-> {}, row |-> 0]

\* The rows a transaction has marked expired, and the row it found active and
\* is about to write, or 0 if it is about to insert one.
Txns == [open : {TRUE}, marked : SUBSET Nat, row : Nat, branch : Branches,
         run : Runs, op : Operations, ttl : Ttls]

LeaseInit ==
    /\ now = 0
    /\ leases = <<>>
    /\ txn = [c \in Callers |-> NoTxn]

-----------------------------------------------------------------------------
Active(i) == leases[i].status = "active"

\* Mutation: a lease counts as expired one second early.
MutStale(i) == Active(i) /\ leases[i].expires <= now + 1

\* Active in the table although its time has passed: expires_at <= now.
Stale(i) == Active(i) /\ leases[i].expires <= now

\* What assertRepositoryOperationLeaseHolder accepts: expires_at > now.
Live(i) == Active(i) /\ leases[i].expires > now

OfBranch(b) == {i \in DOMAIN leases : leases[i].branch = b}

StaleRows(b) == {i \in OfBranch(b) : Stale(i)}

\* A row that an open transaction has marked expired, or has read FOR UPDATE,
\* is locked until the transaction ends.
Locked(i) == \E c \in Callers : i \in txn[c].marked \/ txn[c].row = i

SetStatus(S, status) ==
    [i \in DOMAIN leases |->
        IF i \in S THEN [leases[i] EXCEPT !.status = status] ELSE leases[i]]

\* DATE_ADD(CURRENT_TIMESTAMP, INTERVAL ttl SECOND).
ExpiresAt(ttl) == now + ttl

\* markExpiredForResource, then SELECT ... FOR UPDATE finds no active row.
AcquireBegin(c, r, b, o, ttl) ==
    /\ ~txn[c].open
    /\ \A i \in OfBranch(b) : Active(i) => Stale(i) /\ ~Locked(i)
    /\ txn' = [txn EXCEPT ![c] =
                [open |-> TRUE, marked |-> StaleRows(b), row |-> 0,
                 branch |-> b, run |-> r, op |-> o, ttl |-> ttl]]
    /\ UNCHANGED <<now, leases>>

\* The transaction has found row i active and will write its new expiry.
Found(c, i, marked, ttl) ==
    txn' = [txn EXCEPT ![c] =
              [open |-> TRUE, marked |-> marked, row |-> i,
               branch |-> leases[i].branch, run |-> leases[i].run,
               op |-> leases[i].op, ttl |-> ttl]]

\* An active row of the same run and fingerprint is found and will be reused;
\* of any other, the call throws repository_operation_lease_conflict.  The
\* SELECT does not look at the expiry: the row was live at the marking.
AcquireReuse(c, i, ttl) ==
    /\ ~txn[c].open
    /\ Live(i) /\ ~Locked(i)
    /\ Found(c, i, StaleRows(leases[i].branch), ttl)
    /\ UNCHANGED <<now, leases>>

\* Mutation: the UNIQUE key does not cover active rows.
MutUniqueKeyFree(c) == TRUE

\* The UNIQUE key on active_resource_key, seen by the transaction's INSERT.
UniqueKeyFree(c) ==
    \A i \in OfBranch(txn[c].branch) : Active(i) => i \in txn[c].marked

AcquireInsert(c) ==
    /\ txn[c].open /\ txn[c].row = 0
    /\ Len(leases) < MaxLeases
    /\ UniqueKeyFree(c)
    /\ leases' = Append(SetStatus(txn[c].marked, "expired"),
                        [branch |-> txn[c].branch, run |-> txn[c].run,
                         op |-> txn[c].op, status |-> "active",
                         expires |-> ExpiresAt(txn[c].ttl)])
    /\ txn' = [txn EXCEPT ![c] = NoTxn]
    /\ UNCHANGED now

\* ER_DUP_ENTRY, a deadlock, a failed readback or a lost connection: the
\* transaction is rolled back, its expiry marks with it.
Rollback(c) ==
    /\ txn[c].open
    /\ txn' = [txn EXCEPT ![c] = NoTxn]
    /\ UNCHANGED <<now, leases>>

\* The row is first marked expired if its time has passed; a row that is then
\* not active makes the call throw and the mark is rolled back.
Renewable(i) == Active(i) /\ ~Stale(i)

Renew(c, i, r, ttl) ==
    /\ ~txn[c].open
    /\ leases[i].run = r
    /\ Renewable(i) /\ ~Locked(i)
    /\ Found(c, i, {}, ttl)
    /\ UNCHANGED <<now, leases>>

\* The UPDATE of a reused or renewed row, at the clock of this statement: a
\* row that lapsed since it was checked is in force again.
WriteExpiry(c) ==
    LET i == txn[c].row IN
    /\ txn[c].open /\ i # 0
    /\ Active(i)
    /\ leases' = [SetStatus(txn[c].marked, "expired")
                    EXCEPT ![i].expires = ExpiresAt(txn[c].ttl)]
    /\ txn' = [txn EXCEPT ![c] = NoTxn]
    /\ UNCHANGED now

\* Also a row whose time has passed; a row that is not active is left alone.
Releasable(i) == Active(i)

Release(i, r) ==
    /\ leases[i].run = r
    /\ Releasable(i) /\ ~Locked(i)
    /\ leases' = SetStatus({i}, "released")
    /\ UNCHANGED <<now, txn>>

\* UPDATE ... ORDER BY expires_at LIMIT n over all stale rows.
ExpireStale(n) ==
    LET stale == {i \in DOMAIN leases : Stale(i)}
    IN  /\ stale # {} /\ \A i \in stale : ~Locked(i)
        /\ \E S \in SUBSET stale :
            /\ S = stale \/ Cardinality(S) = n
            /\ Cardinality(S) <= n
            /\ \A i \in S, j \in stale \ S :
                leases[i].expires <= leases[j].expires
            /\ leases' = SetStatus(S, "expired")
        /\ UNCHANGED <<now, txn>>

Tick ==
    /\ now < MaxTime
    /\ now' = now + 1
    /\ UNCHANGED <<leases, txn>>

LeaseNext ==
    \/ \E c \in Callers, r \in Runs, b \in Branches, o \in Operations,
          ttl \in Ttls : AcquireBegin(c, r, b, o, ttl)
    \/ \E c \in Callers : AcquireInsert(c) \/ WriteExpiry(c) \/ Rollback(c)
    \/ \E c \in Callers, i \in DOMAIN leases, ttl \in Ttls :
        AcquireReuse(c, i, ttl) \/ \E r \in Runs : Renew(c, i, r, ttl)
    \/ \E i \in DOMAIN leases, r \in Runs : Release(i, r)
    \/ \E n \in Limits : ExpireStale(n)
    \/ Tick

LeaseSpec == LeaseInit /\ [][LeaseNext]_leaseVars

-----------------------------------------------------------------------------
(* Properties. *)

\* The clock, the rows and the open transactions have their types.
LeaseTypeOK ==
    /\ now \in Nat
    /\ leases \in Seq(LeaseRows)
    /\ Len(leases) <= MaxLeases
    /\ txn \in [Callers -> {NoTxn} \cup Txns]

\* A branch has at most one active row, whatever acquirers overlap: two calls
\* that both found no active row cannot both insert one.
UniqueActiveLease ==
    \A i, j \in DOMAIN leases :
        Active(i) /\ Active(j) /\ leases[i].branch = leases[j].branch => i = j

\* The lease implements the lock: a branch is granted only while no lease of
\* it is in force, and a lease that lapsed during its own renewal or reuse
\* comes back in force only if its row was neither released nor expired and
\* nobody was granted the branch since.
Lock == INSTANCE BranchLock WITH
            Grants  <- 1..MaxLeases,
            held    <- {<<leases[i].branch, i>> : i \in {k \in DOMAIN leases : Live(k)}},
            open    <- {<<leases[i].branch, i>> : i \in {k \in DOMAIN leases : Active(k)}},
            granted <- DOMAIN leases

ImplementsLock == Lock!Spec

\* A released or expired row is final: no rollback, renewal, release or sweep
\* changes it, so that its release reason and times remain evidence.
InactiveLeaseStays ==
    [][\A i \in DOMAIN leases : ~Active(i) => leases'[i] = leases[i]]_leaseVars

\* What the proofs need to know of transactions in flight: the rows one has
\* marked are stale rows of its branch and marked by no other; the row it is
\* about to write is active and marked by none, and it has marked none itself.
LocksHold ==
    /\ \A c \in Callers : \A i \in txn[c].marked :
        i \in DOMAIN leases /\ Stale(i) /\ leases[i].branch = txn[c].branch
    /\ \A c, d \in Callers : \A i \in txn[c].marked :
        txn[d].row # i /\ (i \in txn[d].marked => c = d)
    /\ \A c \in Callers : txn[c].row # 0 =>
        /\ txn[c].row \in DOMAIN leases /\ Active(txn[c].row)
        /\ txn[c].marked = {}

LeaseInv == LeaseTypeOK /\ UniqueActiveLease /\ LocksHold
=============================================================================
