------------------------ MODULE BranchReconciliation ------------------------
(***************************************************************************)
(* Reconciling leased work branches with the default branch on GitHub      *)
(* (adminBranchReconciliationAdapter.js on top of RepositoryLease).        *)
(*                                                                         *)
(* An agent runs runGithubBranchMergeCommitCreate or                       *)
(* runGithubBranchFastForwardToBase.  Each HTTP call to GitHub is a step,  *)
(* so pushes, other agents, lease expiry and lease operations may come     *)
(* between any two.  GitHub is external: commits with their ancestors, and *)
(* refs that only move forward, because every update is made with          *)
(* force: false and force pushes are forbidden.  File contents, and so the *)
(* check of the resolution commit's paths, are left out: a request whose   *)
(* resolution is invalid just ends.                                        *)
(***************************************************************************)
EXTENDS RepositoryLease

CONSTANTS
    Agents,      \* reconciliation requests in progress
    Default,     \* the default branch
    MaxCommits   \* bound: commits explored

ASSUME ReconciliationAssumption ==
    /\ Default \notin Branches
    /\ MaxCommits \in Nat \ {0}

VARIABLES
    anc,       \* anc[k]: commit k and all its ancestors
    head,      \* the commit each ref points at
    agent,     \* each request's progress and what it has read
    verified   \* commits that some request reported, with ok: true, as in a branch

gitVars == <<anc, head, agent, verified>>

vars == <<leaseVars, gitVars>>

Refs == Branches \cup {Default}

Idle == [at |-> "idle", kind |-> "none", branch |-> Default, lease |-> 0,
         base |-> 0, tip |-> 0, new |-> 0, todo |-> {}]

Init ==
    /\ LeaseInit
    /\ anc = <<{1}>>
    /\ head = [b \in Refs |-> 1]
    /\ agent = [a \in Agents |-> Idle]
    /\ verified = [b \in Branches |-> {}]

-----------------------------------------------------------------------------
(* GitHub. *)

Contains(k, m) == k \in anc[m]

\* PATCH /git/refs/heads/b with force: false.
FastForwards(b, k) == Contains(head[b], k)

\* classifyBranchReconciliation, from the two compare calls.
Classification(b) ==
    CASE head[b] = head[Default]          -> "up_to_date"
      [] head[b] # head[Default] /\ Contains(head[b], head[Default])
                                          -> "behind_only"
      [] head[b] # head[Default] /\ Contains(head[Default], head[b])
                                          -> "ahead_only"
      [] OTHER                            -> "diverged"

\* Somebody pushes a commit, without force.
Push(b) ==
    /\ Len(anc) < MaxCommits
    /\ anc' = Append(anc, anc[head[b]] \cup {Len(anc) + 1})
    /\ head' = [head EXCEPT ![b] = Len(anc) + 1]
    /\ UNCHANGED <<agent, verified>>

-----------------------------------------------------------------------------
(* The requests. *)

Go(a, rec) == agent' = [agent EXCEPT ![a] = rec]

\* assertRepositoryReconciliationMergeLease: the lease is active, unexpired
\* and of the caller's run and fingerprint.  Which branch it is for is not
\* compared with the branch of the request.
MergeStart(a, i, b) ==
    /\ agent[a].at = "idle"
    /\ Live(i)
    /\ Go(a, [Idle EXCEPT !.at = "refs", !.kind = "merge", !.branch = b,
                          !.lease = i])
    /\ UNCHANGED <<anc, head, verified>>

\* A fast-forward takes no lease.
FastForwardStart(a, b) ==
    /\ agent[a].at = "idle"
    /\ Go(a, [Idle EXCEPT !.at = "refs", !.kind = "ff", !.branch = b])
    /\ UNCHANGED <<anc, head, verified>>

\* loadBranchReconcileEvidence reads the two refs in parallel; the request
\* goes on only if they are the SHAs it expects, so the expected ones are
\* those read.
ReadBase(a) ==
    /\ agent[a].at = "refs" /\ agent[a].base = 0
    /\ Go(a, [agent[a] EXCEPT !.base = head[Default]])
    /\ UNCHANGED <<anc, head, verified>>

ReadTip(a) ==
    /\ agent[a].at = "refs" /\ agent[a].tip = 0
    /\ Go(a, [agent[a] EXCEPT !.tip = head[agent[a].branch]])
    /\ UNCHANGED <<anc, head, verified>>

MutMayReconcile(kind, class) == class \in {"diverged", "behind_only"}

MayReconcile(kind, class) ==
    \/ kind = "merge" /\ class = "diverged"
    \/ kind = "ff" /\ class = "behind_only"

MutFastForwardTarget(a) == 0

FastForwardTarget(a) == agent[a].base

\* The compare calls name the refs, not the SHAs read before.
Compare(a) ==
    /\ agent[a].at = "refs" /\ agent[a].base # 0 /\ agent[a].tip # 0
    /\ IF MayReconcile(agent[a].kind, Classification(agent[a].branch))
       THEN IF agent[a].kind = "merge"
            THEN Go(a, [agent[a] EXCEPT !.at = "commit"])
            ELSE Go(a, [agent[a] EXCEPT !.at = "update",
                                        !.new = FastForwardTarget(a)])
       ELSE Go(a, Idle)
    /\ UNCHANGED <<anc, head, verified>>

\* POST /git/commits with the parents the evidence pinned.
CreateMergeCommit(a) ==
    /\ agent[a].at = "commit"
    /\ Len(anc) < MaxCommits
    /\ anc' = Append(anc, anc[agent[a].tip] \cup anc[agent[a].base]
                            \cup {Len(anc) + 1})
    /\ Go(a, [agent[a] EXCEPT !.at = "update", !.new = Len(anc) + 1])
    /\ UNCHANGED <<head, verified>>

\* The readback calls of a merge run in parallel, its own ref among them; a
\* fast-forward reads the evidence only.
Readbacks(kind) == IF kind = "merge" THEN {"ref", "compare"} ELSE {"compare"}

\* GitHub moves the ref; the answer may be lost.
UpdateRef(a) ==
    /\ agent[a].at = "update"
    /\ FastForwards(agent[a].branch, agent[a].new)
    /\ head' = [head EXCEPT ![agent[a].branch] = agent[a].new]
    /\ \/ Go(a, [agent[a] EXCEPT !.at = "readback",
                                  !.todo = Readbacks(agent[a].kind)])
       \/ Go(a, Idle)
    /\ UNCHANGED <<anc, verified>>

UpdateRefused(a) ==
    /\ agent[a].at = "update"
    /\ ~FastForwards(agent[a].branch, agent[a].new)
    /\ Go(a, Idle)
    /\ UNCHANGED <<anc, head, verified>>

ReadbackRef(a) ==
    /\ agent[a].at = "readback" /\ "ref" \in agent[a].todo
    /\ Go(a, IF head[agent[a].branch] = agent[a].new
             THEN [agent[a] EXCEPT !.todo = @ \ {"ref"}]
             ELSE Idle)
    /\ UNCHANGED <<anc, head, verified>>

MutConfirmed(a) == TRUE

\* The classification the readback asks for.
Confirmed(a) ==
    Classification(agent[a].branch) =
        IF agent[a].kind = "merge" THEN "ahead_only" ELSE "up_to_date"

\* base becomes the tip of the default branch that was compared.
ReadbackCompare(a) ==
    /\ agent[a].at = "readback" /\ "compare" \in agent[a].todo
    /\ Go(a, IF Confirmed(a)
             THEN [agent[a] EXCEPT !.todo = @ \ {"compare"},
                                   !.base = head[Default]]
             ELSE Idle)
    /\ UNCHANGED <<anc, head, verified>>

\* The request ends with ok: true.
Report(a) ==
    /\ agent[a].at = "readback" /\ agent[a].todo = {}
    /\ verified' = [verified EXCEPT ![agent[a].branch] =
                        @ \cup {agent[a].new, agent[a].base}]
    /\ Go(a, Idle)
    /\ UNCHANGED <<anc, head>>

\* A failed HTTP call, an invalid resolution commit or a lost process.
RequestFails(a) ==
    /\ agent[a].at # "idle"
    /\ Go(a, Idle)
    /\ UNCHANGED <<anc, head, verified>>

AgentStep(a) ==
    \/ \E b \in Branches :
        FastForwardStart(a, b) \/ \E i \in DOMAIN leases : MergeStart(a, i, b)
    \/ ReadBase(a) \/ ReadTip(a) \/ Compare(a) \/ CreateMergeCommit(a)
    \/ UpdateRef(a) \/ UpdateRefused(a)
    \/ ReadbackRef(a) \/ ReadbackCompare(a) \/ Report(a) \/ RequestFails(a)

Next ==
    \/ LeaseNext /\ UNCHANGED gitVars
    \/ (\/ \E b \in Refs : Push(b)
        \/ \E a \in Agents : AgentStep(a)) /\ UNCHANGED leaseVars

Spec == Init /\ [][Next]_vars

-----------------------------------------------------------------------------
(* Properties. *)

Commits == 1..Len(anc)

\* Commits, refs and requests are well formed: every ref and every commit a
\* request is about to write or read back exists.
TypeOK ==
    /\ LeaseTypeOK
    /\ anc \in Seq(SUBSET Nat)
    /\ head \in [Refs -> Commits]
    /\ agent \in [Agents ->
        [at : {"idle", "refs", "commit", "update", "readback"},
         kind : {"none", "merge", "ff"}, branch : Refs, lease : Nat,
         base : {0} \cup Commits, tip : {0} \cup Commits,
         new : {0} \cup Commits, todo : SUBSET {"ref", "compare"}]]
    /\ \A a \in Agents :
        agent[a].at \in {"update", "readback"} => agent[a].new # 0
    /\ verified \in [Branches -> SUBSET Commits]

\* A merge replaces exactly the tip its evidence pinned: between reading the
\* refs and updating them nothing else moved the branch, although GitHub
\* offers no compare-and-swap, the classification is read later than the
\* refs, and the lease may have expired on the way.
MergeIsCompareAndSwap ==
    [][\A a \in Agents :
        agent[a].at = "update" /\ agent[a].kind = "merge" /\ UpdateRef(a)
            => head[agent[a].branch] = agent[a].tip]_vars

\* A request that ended with ok: true reconciled its branch for good: the
\* branch contains, and keeps containing, the commit written and the tip the
\* default branch had when the readback was made.
VerifiedStays ==
    \A b \in Branches : verified[b] \subseteq anc[head[b]]

=============================================================================
