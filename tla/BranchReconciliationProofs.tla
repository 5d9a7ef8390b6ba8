---------------------- MODULE BranchReconciliationProofs ----------------------
(***************************************************************************)
(* Proofs about BranchReconciliation: types, that a merge replaces exactly *)
(* the tip it was built on, and that what a request reported stays on its  *)
(* branch.  The lease part of the state is covered by the lemmas of        *)
(* RepositoryLeaseProofs.                                                  *)
(***************************************************************************)
EXTENDS BranchReconciliation, RepositoryLeaseProofs

\* A commit's ancestors are itself, older commits, and all of theirs.
Ancestry ==
    \A k \in Commits :
        /\ k \in anc[k]
        /\ anc[k] \subseteq 1..k
        /\ \A m \in anc[k] : anc[m] \subseteq anc[k]

\* What a request still knows of the refs it read earlier: the commits are in
\* the branches still, and a branch that had diverged from the base has not
\* come into it since.
Pinned(a) ==
    /\ agent[a].at # "idle" => agent[a].branch \in Branches
    /\ agent[a].at \in {"refs", "commit", "update"} /\ agent[a].tip # 0
        => agent[a].tip \in anc[head[agent[a].branch]]
    /\ agent[a].at \in {"refs", "commit", "update"} /\ agent[a].base # 0
        => agent[a].base \in anc[head[Default]]
    /\ agent[a].at \in {"commit", "update"}
        => agent[a].tip # 0 /\ agent[a].base # 0
    /\ agent[a].at = "commit" => agent[a].kind = "merge"
    /\ agent[a].at \in {"update", "readback"} => agent[a].new # 0
    /\ agent[a].at \in {"commit", "update"} /\ agent[a].kind = "merge"
        => head[agent[a].branch] \notin anc[agent[a].base]
    /\ agent[a].at = "update" /\ agent[a].kind = "merge"
        => anc[agent[a].new] =
              anc[agent[a].tip] \cup anc[agent[a].base] \cup {agent[a].new}
    /\ agent[a].at = "readback"
        => /\ agent[a].new \in anc[head[agent[a].branch]]
           /\ "compare" \notin agent[a].todo
                => agent[a].base \in anc[head[agent[a].branch]]

\* A merge commit that was created and not yet written is known to the
\* request that created it alone: no ref points at it, no other request has
\* read it.
Unpublished(a) ==
    agent[a].at = "update" /\ agent[a].kind = "merge" =>
        /\ \A r \in Refs : head[r] # agent[a].new
        /\ \A d \in Agents : d # a => /\ agent[d].new # agent[a].new
                                      /\ agent[d].base # agent[a].new

Requests ==
    [at : {"idle", "refs", "commit", "update", "readback"},
     kind : {"none", "merge", "ff"}, branch : Refs, lease : Nat,
     base : {0} \cup Commits, tip : {0} \cup Commits,
     new : {0} \cup Commits, todo : SUBSET {"ref", "compare"}]

GitInv ==
    /\ anc \in Seq(SUBSET Nat)
    /\ head \in [Refs -> Commits]
    /\ agent \in [Agents -> Requests]
    /\ verified \in [Branches -> SUBSET Commits]
    /\ Ancestry
    /\ VerifiedStays
    /\ \A a \in Agents : Pinned(a)
    /\ \A a \in Agents : Unpublished(a)

ReconInv == LeaseInv /\ GitInv

\* The commits of a step are those before it, and every ref keeps its history.
Grows ==
    /\ anc' \in Seq(SUBSET Nat)
    /\ Commits \subseteq Commits'
    /\ \A k \in Commits : anc'[k] = anc[k]
    /\ Ancestry'
    /\ head' \in [Refs -> Commits']
    /\ \A r \in Refs : head[r] \in anc'[head'[r]]

-----------------------------------------------------------------------------
(* Commits. *)

\* The commits are numbered from 1 in the order of their creation.
LEMMA CommitsAre ==
    ASSUME anc \in Seq(SUBSET Nat)
    PROVE  /\ Len(anc) \in Nat
           /\ Commits = 1..Len(anc)
           /\ DOMAIN anc = Commits
           /\ 0 \notin Commits
           /\ Commits \subseteq Nat
           /\ Len(anc) + 1 \notin Commits
           /\ \A k \in Commits : anc[k] \in SUBSET Nat
BY LenProperties DEF Commits

\* Two commits that contain each other are one.
LEMMA Antisymmetric ==
    ASSUME anc \in Seq(SUBSET Nat), Ancestry,
           NEW k \in Commits, NEW m \in Commits, k \in anc[m], m \in anc[k]
    PROVE  k = m
<1>1. k \in 1..m /\ m \in 1..k
  BY DEF Ancestry
<1>2. k \in Nat /\ m \in Nat
  BY CommitsAre
<1> QED BY <1>1, <1>2

\* Containment is transitive.
LEMMA Transitive ==
    ASSUME Ancestry, NEW j, NEW k, NEW m \in Commits, j \in anc[k], k \in anc[m]
    PROVE  j \in anc[m]
BY DEF Ancestry

\* Creating a commit with the parents p and q.
LEMMA NewCommit ==
    ASSUME anc \in Seq(SUBSET Nat), Ancestry, NEW p \in Commits, NEW q \in Commits,
           anc' = Append(anc, anc[p] \cup anc[q] \cup {Len(anc) + 1})
    PROVE  /\ anc' \in Seq(SUBSET Nat)
           /\ Len(anc') = Len(anc) + 1
           /\ Commits' = Commits \cup {Len(anc) + 1}
           /\ \A k \in Commits : anc'[k] = anc[k]
           /\ anc'[Len(anc) + 1] = anc[p] \cup anc[q] \cup {Len(anc) + 1}
           /\ Ancestry'
<1> DEFINE n == Len(anc)
           S == anc[p] \cup anc[q] \cup {n + 1}
<1>1. n \in Nat /\ Commits = 1..n /\ n + 1 \notin Commits /\ S \in SUBSET Nat
  <2>1. /\ n \in Nat /\ Commits = 1..n /\ n + 1 \notin Commits
        /\ anc[p] \in SUBSET Nat /\ anc[q] \in SUBSET Nat
    BY CommitsAre
  <2> QED BY <2>1
<1>2. /\ anc' \in Seq(SUBSET Nat)
      /\ Len(anc') = n + 1
      /\ \A k \in 1..n : anc'[k] = anc[k]
      /\ anc'[n + 1] = S
  <2>1. anc' = Append(anc, S)
    OBVIOUS
  <2> HIDE DEF S
  <2> QED BY <1>1, <2>1, AppendProperties
<1>3. Commits' = Commits \cup {n + 1}
  <2>1. Commits' = 1..(n + 1)
    BY <1>2 DEF Commits
  <2> QED BY <1>1, <2>1
<1>4. \A k \in Commits : /\ k \in anc[k] /\ anc[k] \subseteq 1..k
                         /\ anc[k] \subseteq Commits
                         /\ \A m \in anc[k] : anc[m] \subseteq anc[k]
  <2>1. \A k \in Commits : 1..k \subseteq Commits
    BY <1>1
  <2> QED BY <2>1 DEF Ancestry
<1>5. ASSUME NEW k \in Commits
      PROVE  /\ k \in anc'[k] /\ anc'[k] \subseteq 1..k
             /\ \A m \in anc'[k] : anc'[m] \subseteq anc'[k]
  <2>1. anc'[k] = anc[k] /\ \A m \in anc[k] : anc'[m] = anc[m]
    BY <1>1, <1>2, <1>4
  <2> QED BY <1>4, <2>1
<1>6. /\ n + 1 \in anc'[n + 1] /\ anc'[n + 1] \subseteq 1..(n + 1)
      /\ \A m \in anc'[n + 1] : anc'[m] \subseteq anc'[n + 1]
  <2>1. anc[p] \subseteq Commits /\ anc[q] \subseteq Commits
    BY <1>4
  <2>2. Commits \subseteq 1..(n + 1) /\ n + 1 \in 1..(n + 1)
    BY <1>1
  <2>3. \A m \in anc[p] \cup anc[q] : anc'[m] = anc[m]
    BY <1>1, <1>2, <2>1
  <2>4. \A m \in anc[p] \cup anc[q] : anc[m] \subseteq anc[p] \cup anc[q]
    BY <1>4
  <2> HIDE DEF n
  <2> QED BY <1>2, <2>1, <2>2, <2>3, <2>4
<1>7. Ancestry'
  <2> SUFFICES ASSUME NEW k \in Commits'
               PROVE  /\ k \in anc'[k]
                      /\ anc'[k] \subseteq 1..k
                      /\ \A m \in anc'[k] : anc'[m] \subseteq anc'[k]
    BY DEF Ancestry
  <2> QED BY <1>3, <1>5, <1>6
<1> QED BY <1>1, <1>2, <1>3, <1>7

\* Growth is transitive through the new history: what was in a ref stays in it.
LEMMA StaysIn ==
    ASSUME GitInv, Grows, NEW r \in Refs, NEW k \in anc[head[r]]
    PROVE  k \in anc'[head'[r]]
<1>1. head[r] \in Commits /\ head'[r] \in Commits' /\ head[r] \in anc'[head'[r]]
  BY DEF GitInv, Grows
<1>2. anc'[head[r]] = anc[head[r]]
  BY <1>1 DEF Grows
<1>3. anc'[head[r]] \subseteq anc'[head'[r]]
  BY <1>1 DEF Grows, Ancestry
<1> QED BY <1>2, <1>3

\* A ref that was not in an old commit is not in it after it moved on.
LEMMA StaysOut ==
    ASSUME GitInv, Grows, NEW r \in Refs, NEW k \in Commits,
           head[r] \notin anc[k]
    PROVE  head'[r] \notin anc'[k]
<1>1. head[r] \in anc'[head'[r]] /\ anc'[k] = anc[k] /\ k \in Commits'
  BY DEF Grows
<1>2. head'[r] \in anc'[k] => anc'[head'[r]] \subseteq anc'[k]
  BY <1>1 DEF Grows, Ancestry
<1> QED BY <1>1, <1>2

\* Other requests' evidence survives a step.
LEMMA PinnedKept ==
    ASSUME GitInv, Grows, NEW a \in Agents, agent'[a] = agent[a]
    PROVE  Pinned(a)'
<1> DEFINE g == agent[a]
<1>1. /\ g \in Requests /\ Pinned(a)
      /\ 0 \notin Commits
      /\ Default \in Refs /\ Branches \subseteq Refs
  BY CommitsAre DEF GitInv, Refs
<1>2. /\ g.branch \in Refs /\ g.base \in {0} \cup Commits
      /\ g.tip \in {0} \cup Commits /\ g.new \in {0} \cup Commits
  BY <1>1 DEF Requests
<1>3. /\ \A k \in anc[head[g.branch]] : k \in anc'[head'[g.branch]]
      /\ \A k \in anc[head[Default]] : k \in anc'[head'[Default]]
  BY <1>1, <1>2, StaysIn
<1>4. ASSUME g.base # 0, head[g.branch] \notin anc[g.base]
      PROVE  head'[g.branch] \notin anc'[g.base]
  BY <1>2, <1>4, StaysOut
<1>5. \A k \in Commits : anc'[k] = anc[k]
  BY DEF Grows
<1>6. ASSUME g.at = "update", g.kind = "merge"
      PROVE  anc'[g.new] = anc'[g.tip] \cup anc'[g.base] \cup {g.new}
  <2>1. g.new \in Commits /\ g.tip \in Commits /\ g.base \in Commits
    BY <1>1, <1>2, <1>6 DEF Pinned
  <2> QED BY <1>1, <1>5, <1>6, <2>1 DEF Pinned
<1> QED
  BY <1>1, <1>3, <1>4, <1>6 DEF Pinned

-----------------------------------------------------------------------------
(* Steps that leave GitHub alone, or move one ref. *)

\* Nothing on GitHub changes: a special case of growth.
LEMMA StillGrows ==
    ASSUME GitInv, anc' = anc, head' = head
    PROVE  Grows /\ Commits' = Commits /\ Requests' = Requests
<1>1. \A r \in Refs : head[r] \in Commits
  BY DEF GitInv
<1>2. Commits' = Commits
  BY DEF Commits
<1> QED BY <1>1, <1>2 DEF GitInv, Grows, Ancestry, Requests

\* A request moves on: it gets the record rec, the others keep theirs.
LEMMA Moved ==
    ASSUME GitInv, NEW a \in Agents, NEW rec, Go(a, rec)
    PROVE  /\ agent'[a] = rec
           /\ \A d \in Agents : d # a => agent'[d] = agent[d]
           /\ rec \in Requests => agent' \in [Agents -> Requests]
BY DEF GitInv, Go

\* What a request that creates no commit must keep to for the invariant to
\* hold: it takes over only commits it knew or that a ref points at, and it
\* moves a ref only to its own new commit.
LEMMA RequestStep ==
    ASSUME GitInv, Grows, anc' = anc, NEW a \in Agents,
           agent' \in [Agents -> Requests],
           \A d \in Agents : d # a => agent'[d] = agent[d],
           ~(agent'[a].at = "update" /\ agent'[a].kind = "merge"),
           agent'[a].new \in {0, agent[a].new, agent[a].base},
           \/ agent'[a].base \in {0, agent[a].base}
           \/ \E r \in Refs : agent'[a].base = head[r],
           \A r \in Refs : head'[r] \in {head[r], agent[a].new},
           Pinned(a)',
           verified' \in [Branches -> SUBSET Commits], VerifiedStays'
    PROVE  GitInv'
<1>1. Commits' = Commits /\ Requests' = Requests
  BY DEF Commits, Requests
<1>2. \A d \in Agents : Pinned(d)'
  BY PinnedKept
<1>3. ASSUME NEW x \in Agents PROVE Unpublished(x)'
  <2>1. CASE x = a
    BY <2>1 DEF Unpublished
  <2>2. CASE x # a /\ agent[x].at = "update" /\ agent[x].kind = "merge"
    <3>1. /\ agent'[x] = agent[x] /\ agent[x].new # 0
          /\ \A r \in Refs : head[r] # agent[x].new
          /\ \A d \in Agents : d # x => /\ agent[d].new # agent[x].new
                                        /\ agent[d].base # agent[x].new
      BY <2>2 DEF GitInv, Unpublished, Pinned
    <3>2. \A r \in Refs : head'[r] # agent[x].new
      BY <2>2, <3>1
    <3>3. /\ agent'[a].new # agent[x].new
          /\ agent'[a].base # agent[x].new
      BY <2>2, <3>1
    <3>4. \A d \in Agents : d # x => /\ agent'[d].new # agent[x].new
                                     /\ agent'[d].base # agent[x].new
      BY <3>1, <3>3
    <3> QED BY <3>1, <3>2, <3>4 DEF Unpublished
  <2>3. CASE x # a /\ ~(agent[x].at = "update" /\ agent[x].kind = "merge")
    BY <2>3 DEF Unpublished
  <2> QED BY <2>1, <2>2, <2>3
<1> QED
  BY <1>1, <1>2, <1>3 DEF GitInv, Grows

\* The same for a step that touches the request only.
LEMMA QuietStep ==
    ASSUME GitInv, UNCHANGED <<anc, head, verified>>, NEW a \in Agents,
           agent' \in [Agents -> Requests],
           \A d \in Agents : d # a => agent'[d] = agent[d],
           ~(agent'[a].at = "update" /\ agent'[a].kind = "merge"),
           agent'[a].new \in {0, agent[a].new, agent[a].base},
           \/ agent'[a].base \in {0, agent[a].base}
           \/ \E r \in Refs : agent'[a].base = head[r],
           Pinned(a)'
    PROVE  GitInv'
<1>1. Grows
  BY StillGrows
<1>2. verified' \in [Branches -> SUBSET Commits] /\ VerifiedStays'
  BY DEF GitInv, VerifiedStays
<1> QED BY <1>1, <1>2, RequestStep

\* A request that ends forgets everything.
LEMMA Ended ==
    ASSUME GitInv, NEW a \in Agents, Go(a, Idle)
    PROVE  /\ agent' \in [Agents -> Requests]
           /\ \A d \in Agents : d # a => agent'[d] = agent[d]
           /\ agent'[a] = Idle
           /\ ~(agent'[a].at = "update" /\ agent'[a].kind = "merge")
           /\ agent'[a].new = 0 /\ agent'[a].base = 0
           /\ Pinned(a)'
<1>1. Idle \in Requests
  BY DEF Idle, Requests, Refs
<1>2. /\ agent' \in [Agents -> Requests] /\ agent'[a] = Idle
      /\ \A d \in Agents : d # a => agent'[d] = agent[d]
  BY <1>1, Moved
<1> QED BY <1>2 DEF Idle, Pinned

\* A request ends without having changed anything.
LEMMA EndStep ==
    ASSUME GitInv, UNCHANGED <<anc, head, verified>>, NEW a \in Agents,
           Go(a, Idle)
    PROVE  GitInv'
BY Ended, QuietStep

\* Idle is a request's record, with nothing read.
LEMMA IdleIs == Idle \in Requests /\ Idle.base = 0 /\ Idle.tip = 0 /\ Idle.new = 0
BY DEF Idle, Requests, Refs

\* A request starts, with nothing read yet.
LEMMA StartStep ==
    ASSUME GitInv, UNCHANGED <<anc, head, verified>>, NEW a \in Agents,
           NEW rec \in Requests, rec.at = "refs", rec.branch \in Branches,
           rec.base = 0, rec.tip = 0, rec.new = 0, Go(a, rec)
    PROVE  GitInv'
<1>1. /\ agent' \in [Agents -> Requests] /\ agent'[a] = rec
      /\ \A d \in Agents : d # a => agent'[d] = agent[d]
  BY Moved
<1>2. Pinned(a)'
  BY <1>1 DEF Pinned
<1> QED BY <1>1, <1>2, QuietStep

\* A merge request that found its lease in force starts.
LEMMA MergeStartStep ==
    ASSUME GitInv, LeaseInv, NEW a \in Agents, NEW b \in Branches,
           NEW i \in DOMAIN leases, MergeStart(a, i, b)
    PROVE  GitInv'
<1> DEFINE rec == [Idle EXCEPT !.at = "refs", !.kind = "merge", !.branch = b,
                               !.lease = i]
<1>1. i \in Nat
  BY LenProperties DEF LeaseInv, LeaseTypeOK
<1>2. /\ rec \in Requests /\ rec.at = "refs" /\ rec.branch = b
      /\ rec.base = 0 /\ rec.tip = 0 /\ rec.new = 0
  BY <1>1, IdleIs DEF Requests, Refs
<1>3. Go(a, rec) /\ UNCHANGED <<anc, head, verified>>
  BY DEF MergeStart
<1> HIDE DEF rec
<1> QED BY <1>2, <1>3, StartStep

\* A fast-forward request starts.
LEMMA FastForwardStartStep ==
    ASSUME GitInv, NEW a \in Agents, NEW b \in Branches, FastForwardStart(a, b)
    PROVE  GitInv'
<1> DEFINE rec == [Idle EXCEPT !.at = "refs", !.kind = "ff", !.branch = b]
<1>1. /\ rec \in Requests /\ rec.at = "refs" /\ rec.branch = b
      /\ rec.base = 0 /\ rec.tip = 0 /\ rec.new = 0
  BY IdleIs DEF Requests, Refs
<1>2. Go(a, rec) /\ UNCHANGED <<anc, head, verified>>
  BY DEF FastForwardStart
<1> HIDE DEF rec
<1> QED BY <1>1, <1>2, StartStep

-----------------------------------------------------------------------------
(* Reading and comparing. *)

\* What is known of a request's record and of the refs it may read.
LEMMA Known ==
    ASSUME GitInv, NEW a \in Agents
    PROVE  /\ agent[a] \in Requests
           /\ agent[a].branch \in Refs /\ agent[a].base \in {0} \cup Commits
           /\ agent[a].tip \in {0} \cup Commits
           /\ agent[a].new \in {0} \cup Commits
           /\ Pinned(a) /\ Unpublished(a)
           /\ 0 \notin Commits /\ Default \in Refs /\ Branches \subseteq Refs
           /\ \A r \in Refs : /\ head[r] \in Commits
                              /\ head[r] \in anc[head[r]]
<1>1. agent[a] \in Requests
  BY DEF GitInv
<1>2. \A r \in Refs : head[r] \in Commits
  BY DEF GitInv
<1> QED BY <1>1, <1>2, CommitsAre DEF GitInv, Requests, Ancestry, Refs

\* Reading the default branch: its tip is in its own history.
LEMMA ReadBaseStep ==
    ASSUME GitInv, NEW a \in Agents, ReadBase(a)
    PROVE  GitInv'
<1> DEFINE rec == [agent[a] EXCEPT !.base = head[Default]]
<1>0. /\ Go(a, rec) /\ UNCHANGED <<anc, head, verified>>
      /\ agent[a].at = "refs"
  BY DEF ReadBase
<1>1. /\ rec \in Requests /\ rec.at = "refs" /\ rec.branch = agent[a].branch
      /\ rec.base = head[Default] /\ rec.tip = agent[a].tip
      /\ rec.new = agent[a].new
  BY <1>0, Known DEF Requests
<1> HIDE DEF rec
<1>2. /\ agent' \in [Agents -> Requests] /\ agent'[a] = rec
      /\ \A d \in Agents : d # a => agent'[d] = agent[d]
  BY <1>0, <1>1, Moved
<1>3. Pinned(a)'
  <2>1. Pinned(a) /\ head[Default] \in anc[head[Default]]
    BY Known
  <2> QED BY <1>0, <1>1, <1>2, <2>1 DEF Pinned
<1> QED BY <1>0, <1>1, <1>2, <1>3, Known, QuietStep

\* Reading the work branch: its tip is in its own history.
LEMMA ReadTipStep ==
    ASSUME GitInv, NEW a \in Agents, ReadTip(a)
    PROVE  GitInv'
<1> DEFINE rec == [agent[a] EXCEPT !.tip = head[agent[a].branch]]
<1>0. /\ Go(a, rec) /\ UNCHANGED <<anc, head, verified>>
      /\ agent[a].at = "refs"
  BY DEF ReadTip
<1>1. /\ rec \in Requests /\ rec.at = "refs" /\ rec.branch = agent[a].branch
      /\ rec.tip = head[agent[a].branch] /\ rec.base = agent[a].base
      /\ rec.new = agent[a].new
  BY <1>0, Known DEF Requests
<1> HIDE DEF rec
<1>2. /\ agent' \in [Agents -> Requests] /\ agent'[a] = rec
      /\ \A d \in Agents : d # a => agent'[d] = agent[d]
  BY <1>0, <1>1, Moved
<1>3. Pinned(a)'
  <2>1. /\ Pinned(a)
        /\ head[agent[a].branch] \in anc[head[agent[a].branch]]
    BY Known
  <2> QED BY <1>0, <1>1, <1>2, <2>1 DEF Pinned
<1> QED BY <1>0, <1>1, <1>2, <1>3, QuietStep

\* What the classifications say of the two refs.
LEMMA Classes ==
    ASSUME NEW b
    PROVE  /\ Classification(b) = "diverged" => head[b] \notin anc[head[Default]]
           /\ Classification(b) = "ahead_only" => head[Default] \in anc[head[b]]
           /\ Classification(b) = "up_to_date" => head[b] = head[Default]
BY DEF Classification, Contains

\* A request that found its branch diverged knows a base that does not contain
\* the branch, although the branches were compared after the refs were read.
LEMMA CompareStep ==
    ASSUME GitInv, NEW a \in Agents, Compare(a)
    PROVE  GitInv'
<1> DEFINE b == agent[a].branch
<1>0. /\ UNCHANGED <<anc, head, verified>> /\ agent[a].at = "refs"
      /\ agent[a].base # 0 /\ agent[a].tip # 0
  BY DEF Compare
<1>k. /\ Pinned(a) /\ b \in Branches /\ b \in Refs /\ agent[a] \in Requests
      /\ agent[a].base \in Commits
      /\ agent[a].tip \in anc[head[b]] /\ agent[a].base \in anc[head[Default]]
  BY <1>0, Known DEF Pinned
<1>1. CASE Go(a, Idle)
  BY <1>0, <1>1, EndStep
<1>2. ASSUME agent[a].kind = "merge", Classification(b) = "diverged",
             Go(a, [agent[a] EXCEPT !.at = "commit"])
      PROVE  GitInv'
  <2> DEFINE rec == [agent[a] EXCEPT !.at = "commit"]
  <2>1. /\ rec \in Requests /\ rec.at = "commit" /\ rec.branch = b
        /\ rec.tip = agent[a].tip /\ rec.base = agent[a].base
        /\ rec.new = agent[a].new /\ rec.kind = "merge"
    BY <1>2, <1>k DEF Requests
  <2> HIDE DEF rec
  <2>2. /\ agent' \in [Agents -> Requests] /\ agent'[a] = rec
        /\ \A d \in Agents : d # a => agent'[d] = agent[d]
    <3>1. Go(a, rec)
      BY <1>2 DEF rec
    <3> QED BY <2>1, <3>1, Moved
  <2>3. head[b] \notin anc[agent[a].base]
    <3>1. head[b] \notin anc[head[Default]]
      BY <1>2, Classes
    <3>2. head[Default] \in Commits
      BY Known
    <3> QED BY <1>k, <3>1, <3>2, Transitive DEF GitInv
  <2>4. Pinned(a)'
    <3> HIDE DEF b
    <3> QED BY <1>0, <1>k, <2>1, <2>2, <2>3 DEF Pinned
  <2> QED BY <1>0, <2>1, <2>2, <2>4, QuietStep
<1>3. ASSUME agent[a].kind = "ff",
             Go(a, [agent[a] EXCEPT !.at = "update", !.new = FastForwardTarget(a)])
      PROVE  GitInv'
  <2> DEFINE rec == [agent[a] EXCEPT !.at = "update", !.new = FastForwardTarget(a)]
  <2>1. /\ rec \in Requests /\ rec.at = "update" /\ rec.branch = b
        /\ rec.tip = agent[a].tip /\ rec.base = agent[a].base
        /\ rec.new = agent[a].base /\ rec.kind = "ff"
    BY <1>3, <1>k DEF Requests, FastForwardTarget
  <2> HIDE DEF rec
  <2>2. /\ agent' \in [Agents -> Requests] /\ agent'[a] = rec
        /\ \A d \in Agents : d # a => agent'[d] = agent[d]
    <3>1. Go(a, rec)
      BY <1>3 DEF rec
    <3> QED BY <2>1, <3>1, Moved
  <2>4. Pinned(a)'
    <3> HIDE DEF b
    <3> QED BY <1>0, <1>k, <2>1, <2>2 DEF Pinned
  <2> QED BY <1>0, <2>1, <2>2, <2>4, QuietStep
<1> QED
  BY <1>1, <1>2, <1>3 DEF Compare, MayReconcile

-----------------------------------------------------------------------------
(* Creating commits and moving refs. *)

\* A step that adds one commit, which only a pushed ref or the request that
\* created it knows, leaves the evidence of the other requests alone.
LEMMA OthersUnpublished ==
    ASSUME GitInv, NEW x \in Agents, NEW n, n \notin Commits,
           agent'[x] = agent[x],
           \A r \in Refs : head'[r] \in {head[r], n},
           \A d \in Agents : /\ agent'[d].new \in {agent[d].new, n}
                             /\ agent'[d].base = agent[d].base
    PROVE  Unpublished(x)'
<1>1. CASE agent[x].at = "update" /\ agent[x].kind = "merge"
  <2>1. agent[x].new \in Commits
    BY <1>1, Known DEF Pinned
  <2>2. Unpublished(x)
    BY Known
  <2> QED BY <1>1, <2>1, <2>2 DEF Unpublished
<1>2. CASE ~(agent[x].at = "update" /\ agent[x].kind = "merge")
  BY <1>2 DEF Unpublished
<1> QED BY <1>1, <1>2

\* A push, and its growth of the history.
LEMMA PushGrows ==
    ASSUME GitInv, NEW b \in Refs, Push(b)
    PROVE  Grows /\ GitInv'
<1> DEFINE n == Len(anc) + 1
<1>0. /\ anc' = Append(anc, anc[head[b]] \cup anc[head[b]] \cup {n})
      /\ head' = [head EXCEPT ![b] = n]
      /\ agent' = agent /\ verified' = verified
  <2>1. anc[head[b]] \cup {n} = anc[head[b]] \cup anc[head[b]] \cup {n}
    OBVIOUS
  <2> QED BY <2>1 DEF Push
<1>1. /\ head[b] \in Commits /\ n \notin Commits
      /\ \A r \in Refs : head[r] \in Commits
  BY CommitsAre DEF GitInv
<1>2. /\ anc' \in Seq(SUBSET Nat)
      /\ Commits' = Commits \cup {n}
      /\ \A k \in Commits : anc'[k] = anc[k]
      /\ anc'[n] = anc[head[b]] \cup anc[head[b]] \cup {n}
      /\ Ancestry'
  BY <1>0, <1>1, NewCommit DEF GitInv
<1>3. /\ head'[b] = n
      /\ \A r \in Refs : r # b => head'[r] = head[r]
      /\ head' \in [Refs -> Commits']
  BY <1>0, <1>2 DEF GitInv
<1>4. Grows
  <2>1. \A r \in Refs : head[r] \in anc[head[r]]
    BY <1>1 DEF GitInv, Ancestry
  <2>2. \A r \in Refs : head[r] \in anc'[head'[r]]
    <3> HIDE DEF n
    <3> QED BY <1>1, <1>2, <1>3, <2>1
  <2> QED BY <1>2, <1>3, <2>2 DEF Grows
<1>5. \A a \in Agents : Pinned(a)'
  BY <1>0, <1>4, PinnedKept
<1>6. \A a \in Agents : Unpublished(a)'
  <2> HIDE DEF n
  <2>1. \A r \in Refs : head'[r] \in {head[r], n}
    BY <1>3
  <2> QED BY <1>0, <1>1, <2>1, OthersUnpublished
<1>7. VerifiedStays'
  <2>1. \A c \in Branches : verified[c] \subseteq anc[head[c]] /\ c \in Refs
    BY DEF GitInv, VerifiedStays, Refs
  <2>2. \A c \in Branches : verified[c] \subseteq anc'[head'[c]]
    BY <1>4, <2>1, StaysIn
  <2> QED BY <1>0, <2>2 DEF VerifiedStays
<1>8. /\ agent' \in [Agents -> Requests']
      /\ verified' \in [Branches -> SUBSET Commits']
  <2>1. Requests \subseteq Requests'
    BY <1>2 DEF Requests
  <2> QED BY <1>0, <1>2, <2>1 DEF GitInv
<1> QED
  BY <1>2, <1>3, <1>4, <1>5, <1>6, <1>7, <1>8 DEF GitInv

\* A merge commit with the pinned parents; no ref points at it yet.
LEMMA CreateMergeCommitGrows ==
    ASSUME GitInv, NEW a \in Agents, CreateMergeCommit(a)
    PROVE  Grows /\ GitInv'
<1> DEFINE n == Len(anc) + 1
           g == agent[a]
           rec == [agent[a] EXCEPT !.at = "update", !.new = n]
<1>0. /\ anc' = Append(anc, anc[g.tip] \cup anc[g.base] \cup {n})
      /\ Go(a, rec) /\ g.at = "commit"
      /\ head' = head /\ verified' = verified
  BY DEF CreateMergeCommit
<1>1. /\ Pinned(a) /\ g \in Requests /\ g.branch \in Branches
      /\ g.tip \in Commits /\ g.base \in Commits /\ g.kind = "merge"
      /\ n \notin Commits /\ n # 0
      /\ \A r \in Refs : head[r] \in Commits
  <2>1. Len(anc) \in Nat /\ n \notin Commits
    BY CommitsAre DEF GitInv
  <2>2. n # 0
    BY <2>1
  <2> QED BY <1>0, <2>1, <2>2, Known DEF Pinned
<1> HIDE DEF g
<1>2. /\ anc' \in Seq(SUBSET Nat)
      /\ Commits' = Commits \cup {n}
      /\ \A k \in Commits : anc'[k] = anc[k]
      /\ anc'[n] = anc[g.tip] \cup anc[g.base] \cup {n}
      /\ Ancestry'
  BY <1>0, <1>1, NewCommit DEF GitInv
<1> HIDE DEF n
<1>3. Requests \subseteq Requests'
  BY <1>2 DEF Requests
<1>4. /\ rec \in Requests' /\ rec.at = "update" /\ rec.branch = g.branch
      /\ rec.tip = g.tip /\ rec.base = g.base /\ rec.new = n
      /\ rec.kind = "merge"
  BY <1>1, <1>2 DEF Requests, g
<1> HIDE DEF rec
<1>5. /\ agent'[a] = rec
      /\ \A d \in Agents : d # a => agent'[d] = agent[d]
      /\ agent' \in [Agents -> Requests']
  BY <1>0, <1>3, <1>4 DEF GitInv, Go
<1>6. Grows
  <2>1. \A r \in Refs : head[r] \in anc[head[r]]
    BY <1>1 DEF GitInv, Ancestry
  <2>2. head' \in [Refs -> Commits']
    BY <1>0, <1>2 DEF GitInv
  <2> QED BY <1>0, <1>1, <1>2, <2>1, <2>2 DEF Grows
<1>7. Pinned(a)'
  <2>1. /\ g.branch \in Refs /\ Default \in Refs
        /\ g.tip # 0 /\ g.base # 0
        /\ g.tip \in anc[head[g.branch]] /\ g.base \in anc[head[Default]]
        /\ head[g.branch] \notin anc[g.base]
    BY <1>0, <1>1, Known DEF Pinned, g
  <2>2. /\ g.tip \in anc'[head'[g.branch]] /\ g.base \in anc'[head'[Default]]
        /\ head'[g.branch] \notin anc'[g.base]
    BY <1>1, <1>6, <2>1, StaysIn, StaysOut
  <2>3. anc'[n] = anc'[g.tip] \cup anc'[g.base] \cup {n}
    BY <1>1, <1>2
  <2> QED BY <1>1, <1>4, <1>5, <2>1, <2>2, <2>3 DEF Pinned
<1>8. \A d \in Agents : Pinned(d)'
  BY <1>5, <1>6, <1>7, PinnedKept
<1>9. \A d \in Agents : Unpublished(d)'
  <2>1. \A d \in Agents : /\ agent[d].new # n /\ agent[d].base # n
    BY <1>1, Known
  <2>2. Unpublished(a)'
    <3>1. \A r \in Refs : head'[r] # n
      BY <1>0, <1>1
    <3>2. \A d \in Agents : d # a => agent'[d].new # n /\ agent'[d].base # n
      BY <1>5, <2>1
    <3> QED BY <1>4, <1>5, <3>1, <3>2 DEF Unpublished
  <2>3. \A d \in Agents : /\ agent'[d].new \in {agent[d].new, n}
                          /\ agent'[d].base = agent[d].base
    BY <1>4, <1>5 DEF g
  <2>4. \A d \in Agents : d # a => Unpublished(d)'
    BY <1>0, <1>1, <1>5, <2>3, OthersUnpublished
  <2> QED BY <2>2, <2>4
<1>10. VerifiedStays'
  <2>1. \A c \in Branches : verified[c] \subseteq anc[head[c]] /\ c \in Refs
    BY DEF GitInv, VerifiedStays, Refs
  <2>2. \A c \in Branches : verified[c] \subseteq anc'[head'[c]]
    BY <1>6, <2>1, StaysIn
  <2> QED BY <1>0, <2>2 DEF VerifiedStays
<1>11. /\ verified' \in [Branches -> SUBSET Commits']
       /\ head' \in [Refs -> Commits']
  BY <1>0, <1>2 DEF GitInv
<1> QED
  BY <1>2, <1>5, <1>6, <1>8, <1>9, <1>10, <1>11 DEF GitInv

\* The new tip contains the old one, because GitHub refuses anything else.
LEMMA UpdateRefGrows ==
    ASSUME GitInv, NEW a \in Agents, UpdateRef(a)
    PROVE  /\ Grows
           /\ agent[a].branch \in Branches /\ agent[a].new \in Commits
           /\ head'[agent[a].branch] = agent[a].new
           /\ \A r \in Refs : head'[r] \in {head[r], agent[a].new}
           /\ VerifiedStays'
<1> DEFINE g == agent[a]
<1>0. /\ g.at = "update" /\ head[g.branch] \in anc[g.new]
      /\ head' = [head EXCEPT ![g.branch] = g.new]
      /\ anc' = anc /\ verified' = verified
  BY DEF UpdateRef, FastForwards, Contains
<1>1. /\ g.branch \in Branches /\ g.new \in Commits
      /\ Branches \subseteq Refs
      /\ \A r \in Refs : head[r] \in Commits /\ head[r] \in anc[head[r]]
  BY <1>0, Known DEF Pinned
<1> HIDE DEF g
<1>2. /\ head'[g.branch] = g.new
      /\ \A r \in Refs : r # g.branch => head'[r] = head[r]
      /\ head' \in [Refs -> Commits]
  BY <1>0, <1>1 DEF GitInv
<1>3. Grows
  <2>1. Commits' = Commits /\ Ancestry'
    BY <1>0 DEF Commits, GitInv, Ancestry
  <2>2. \A r \in Refs : head[r] \in anc'[head'[r]]
    BY <1>0, <1>1, <1>2
  <2> QED BY <1>0, <1>2, <2>1, <2>2 DEF Grows, GitInv
<1>4. VerifiedStays'
  <2>1. \A c \in Branches : verified[c] \subseteq anc[head[c]] /\ c \in Refs
    BY DEF GitInv, VerifiedStays, Refs
  <2>2. \A c \in Branches : verified[c] \subseteq anc'[head'[c]]
    BY <1>3, <2>1, StaysIn
  <2> QED BY <1>0, <2>2 DEF VerifiedStays
<1> QED BY <1>1, <1>2, <1>3, <1>4 DEF g

\* The ref moved; the request reads back, or its answer was lost.
LEMMA UpdateRefStep ==
    ASSUME GitInv, NEW a \in Agents, UpdateRef(a)
    PROVE  GitInv'
<1> DEFINE g == agent[a]
           rec == [agent[a] EXCEPT !.at = "readback",
                                   !.todo = Readbacks(agent[a].kind)]
<1>1. /\ Grows /\ g.branch \in Branches /\ g.new \in Commits
      /\ head'[g.branch] = g.new
      /\ \A r \in Refs : head'[r] \in {head[r], g.new}
      /\ VerifiedStays'
  BY UpdateRefGrows
<1>2. /\ anc' = anc /\ g.at = "update"
      /\ verified' \in [Branches -> SUBSET Commits]
      /\ Go(a, rec) \/ Go(a, Idle)
  BY DEF UpdateRef, GitInv
<1>3. CASE Go(a, Idle)
  <2> HIDE DEF g, rec
  <2> QED BY <1>1, <1>2, <1>3, Ended, RequestStep DEF g
<1>4. CASE Go(a, rec)
  <2>1. /\ rec \in Requests /\ rec.at = "readback" /\ rec.branch = g.branch
        /\ rec.base = g.base /\ rec.new = g.new /\ rec.todo = Readbacks(g.kind)
    BY Known DEF Requests, Readbacks
  <2> HIDE DEF rec
  <2>2. /\ agent' \in [Agents -> Requests] /\ agent'[a] = rec
        /\ \A d \in Agents : d # a => agent'[d] = agent[d]
    BY <1>4, <2>1, Moved
  <2>3. Pinned(a)'
    <3>1. "compare" \in rec.todo
      BY <2>1 DEF Readbacks
    <3>2. g.new # 0 /\ g.new \in anc[g.new]
      BY <1>1, Known DEF GitInv, Ancestry
    <3> HIDE DEF g
    <3> QED BY <1>1, <1>2, <2>1, <2>2, <3>1, <3>2 DEF Pinned
  <2> QED BY <1>1, <1>2, <2>1, <2>2, <2>3, RequestStep
<1> QED BY <1>2, <1>3, <1>4

-----------------------------------------------------------------------------
(* Reading back. *)

\* Reading back the written ref.
LEMMA ReadbackRefStep ==
    ASSUME GitInv, NEW a \in Agents, ReadbackRef(a)
    PROVE  GitInv'
<1> DEFINE rec == [agent[a] EXCEPT !.todo = agent[a].todo \ {"ref"}]
<1>0. /\ UNCHANGED <<anc, head, verified>> /\ agent[a].at = "readback"
      /\ Go(a, rec) \/ Go(a, Idle)
  BY DEF ReadbackRef
<1>1. CASE Go(a, Idle)
  BY <1>0, <1>1, EndStep
<1>2. CASE Go(a, rec)
  <2>1. /\ rec \in Requests /\ rec.at = "readback"
        /\ rec.branch = agent[a].branch /\ rec.base = agent[a].base
        /\ rec.new = agent[a].new /\ rec.todo = agent[a].todo \ {"ref"}
    BY <1>0, Known DEF Requests
  <2> HIDE DEF rec
  <2>2. /\ agent' \in [Agents -> Requests] /\ agent'[a] = rec
        /\ \A d \in Agents : d # a => agent'[d] = agent[d]
    BY <1>2, <2>1, Moved
  <2>3. Pinned(a)'
    <3>1. Pinned(a)
      BY Known
    <3> QED BY <1>0, <2>1, <2>2, <3>1 DEF Pinned
  <2> QED BY <1>0, <2>1, <2>2, <2>3, QuietStep
<1> QED BY <1>0, <1>1, <1>2

\* A confirmed request has found the tip of the default branch in its branch.
LEMMA ReadbackCompareStep ==
    ASSUME GitInv, NEW a \in Agents, ReadbackCompare(a)
    PROVE  GitInv'
<1> DEFINE rec == [agent[a] EXCEPT !.todo = agent[a].todo \ {"compare"},
                                   !.base = head[Default]]
<1>0. /\ UNCHANGED <<anc, head, verified>> /\ agent[a].at = "readback"
      /\ (Confirmed(a) /\ Go(a, rec)) \/ Go(a, Idle)
  BY DEF ReadbackCompare
<1>1. CASE Go(a, Idle)
  BY <1>0, <1>1, EndStep
<1>2. CASE Confirmed(a) /\ Go(a, rec)
  <2>1. /\ rec \in Requests /\ rec.at = "readback"
        /\ rec.branch = agent[a].branch /\ rec.base = head[Default]
        /\ rec.new = agent[a].new
    BY <1>0, Known DEF Requests
  <2> HIDE DEF rec
  <2>2. /\ agent' \in [Agents -> Requests] /\ agent'[a] = rec
        /\ \A d \in Agents : d # a => agent'[d] = agent[d]
    BY <1>2, <2>1, Moved
  <2>3. head[Default] \in anc[head[agent[a].branch]]
    <3>1. head[Default] \in anc[head[Default]]
      BY Known
    <3> QED BY <1>2, <3>1, Classes DEF Confirmed
  <2>4. Pinned(a)'
    <3>1. Pinned(a)
      BY Known
    <3> QED BY <1>0, <2>1, <2>2, <2>3, <3>1 DEF Pinned
  <2> QED BY <1>0, <2>1, <2>2, <2>4, Known, QuietStep
<1> QED BY <1>0, <1>1, <1>2

\* What is reported is in the branch when it is reported.
LEMMA ReportStep ==
    ASSUME GitInv, NEW a \in Agents, Report(a)
    PROVE  GitInv'
<1> DEFINE g == agent[a]
<1>0. /\ anc' = anc /\ head' = head /\ g.at = "readback" /\ g.todo = {}
      /\ verified' = [verified EXCEPT ![g.branch] =
                        verified[g.branch] \cup {g.new, g.base}]
      /\ Go(a, Idle)
  BY DEF Report
<1>1. /\ g.branch \in Branches /\ Branches \subseteq Refs
      /\ g.new \in anc[head[g.branch]] /\ g.base \in anc[head[g.branch]]
      /\ head[g.branch] \in Commits
  BY <1>0, Known DEF Pinned
<1> HIDE DEF g
<1>2. anc[head[g.branch]] \subseteq Commits
  <2>1. anc[head[g.branch]] \subseteq 1..head[g.branch]
    BY <1>1 DEF GitInv, Ancestry
  <2>2. Len(anc) \in Nat /\ Commits = 1..Len(anc)
    BY CommitsAre DEF GitInv
  <2>3. 1..head[g.branch] \subseteq Commits
    BY <1>1, <2>2
  <2> QED BY <2>1, <2>3
<1>3. /\ verified' \in [Branches -> SUBSET Commits]
      /\ verified'[g.branch] = verified[g.branch] \cup {g.new, g.base}
      /\ \A b \in Branches : b # g.branch => verified'[b] = verified[b]
  BY <1>0, <1>1, <1>2 DEF GitInv
<1>4. VerifiedStays'
  <2>1. \A b \in Branches : verified'[b] \subseteq anc[head[b]]
    BY <1>1, <1>3 DEF GitInv, VerifiedStays
  <2> QED BY <1>0, <2>1 DEF VerifiedStays
<1>5. Grows
  BY <1>0, StillGrows
<1> QED BY <1>0, <1>3, <1>4, <1>5, Ended, RequestStep

-----------------------------------------------------------------------------
(* The invariant. *)

\* The invariant holds before any request, push or lease.
LEMMA InitRecon == Init => ReconInv
<1> SUFFICES ASSUME Init PROVE ReconInv
  OBVIOUS
<1>1. LeaseInv
  BY InitLeaseInv DEF Init
<1>2. /\ anc = <<{1}>> /\ head = [b \in Refs |-> 1]
      /\ agent = [a \in Agents |-> Idle]
      /\ verified = [b \in Branches |-> {}]
  BY DEF Init
<1>3. /\ anc \in Seq(SUBSET Nat) /\ Commits = {1} /\ anc[1] = {1}
  BY <1>2 DEF Commits
<1>4. agent \in [Agents -> Requests] /\ \A a \in Agents : agent[a].at = "idle"
  <2>1. Idle \in Requests /\ Idle.at = "idle"
    BY IdleIs DEF Idle
  <2> QED BY <1>2, <2>1
<1>5. /\ head \in [Refs -> Commits] /\ verified \in [Branches -> SUBSET Commits]
      /\ VerifiedStays
  BY <1>2, <1>3 DEF VerifiedStays
<1>6. Ancestry
  BY <1>3 DEF Ancestry
<1>7. \A a \in Agents : Pinned(a) /\ Unpublished(a)
  BY <1>4 DEF Pinned, Unpublished
<1> QED
  BY <1>1, <1>3, <1>4, <1>5, <1>6, <1>7 DEF ReconInv, GitInv

\* A step that changes neither GitHub nor a request keeps the invariant.
LEMMA GitUnchanged ==
    ASSUME GitInv, UNCHANGED gitVars
    PROVE  GitInv'
<1>1. Commits' = Commits /\ Requests' = Requests
  BY DEF gitVars, Commits, Requests
<1> QED
  BY <1>1 DEF gitVars, GitInv, Ancestry, VerifiedStays, Pinned, Unpublished

\* Every step of a request keeps the git part of the invariant.
LEMMA AgentSteps ==
    ASSUME ReconInv, NEW a \in Agents, AgentStep(a)
    PROVE  GitInv'
<1>0. GitInv /\ LeaseInv
  BY DEF ReconInv
<1>1. ASSUME NEW b \in Branches, FastForwardStart(a, b) PROVE GitInv'
  BY <1>0, <1>1, FastForwardStartStep
<1>2. ASSUME NEW b \in Branches, NEW i \in DOMAIN leases, MergeStart(a, i, b)
      PROVE  GitInv'
  BY <1>0, <1>2, MergeStartStep
<1>3. CASE ReadBase(a)
  BY <1>0, <1>3, ReadBaseStep
<1>4. CASE ReadTip(a)
  BY <1>0, <1>4, ReadTipStep
<1>5. CASE Compare(a)
  BY <1>0, <1>5, CompareStep
<1>6. CASE CreateMergeCommit(a)
  BY <1>0, <1>6, CreateMergeCommitGrows
<1>7. CASE UpdateRef(a)
  BY <1>0, <1>7, UpdateRefStep
<1>8. CASE UpdateRefused(a)
  BY <1>0, <1>8, EndStep DEF UpdateRefused
<1>9. CASE ReadbackRef(a)
  BY <1>0, <1>9, ReadbackRefStep
<1>10. CASE ReadbackCompare(a)
  BY <1>0, <1>10, ReadbackCompareStep
<1>11. CASE Report(a)
  BY <1>0, <1>11, ReportStep
<1>12. CASE RequestFails(a)
  BY <1>0, <1>12, EndStep DEF RequestFails
<1> QED
  BY <1>1, <1>2, <1>3, <1>4, <1>5, <1>6, <1>7, <1>8, <1>9, <1>10, <1>11, <1>12
  DEF AgentStep

\* Every step of the composition keeps the invariant.
LEMMA ReconStep == ReconInv /\ [Next]_vars => ReconInv'
<1> SUFFICES ASSUME ReconInv, [Next]_vars PROVE ReconInv'
  OBVIOUS
<1>0. LeaseInv /\ GitInv
  BY DEF ReconInv
<1>1. CASE LeaseNext /\ UNCHANGED gitVars
  BY <1>0, <1>1, LeaseStep, GitUnchanged DEF ReconInv
<1>2. ASSUME UNCHANGED leaseVars PROVE LeaseInv'
  BY <1>0, <1>2, LeaseStep
<1>3. ASSUME NEW b \in Refs, Push(b), UNCHANGED leaseVars PROVE ReconInv'
  BY <1>0, <1>2, <1>3, PushGrows DEF ReconInv
<1>4. ASSUME NEW a \in Agents, AgentStep(a), UNCHANGED leaseVars PROVE ReconInv'
  BY <1>2, <1>4, AgentSteps DEF ReconInv
<1>5. CASE UNCHANGED vars
  <2>1. UNCHANGED leaseVars /\ UNCHANGED gitVars
    BY <1>5 DEF vars
  <2> QED BY <1>0, <1>2, <2>1, GitUnchanged DEF ReconInv
<1> QED BY <1>1, <1>3, <1>4, <1>5 DEF Next

\* ReconInv holds in every reachable state of the composition of the lease
\* service, GitHub and the reconciliation requests.
THEOREM ReconInvariant == Spec => []ReconInv
BY InitRecon, ReconStep, PTL DEF Spec

\* Types of the composition (TypeOK): every ref and every commit that a request
\* is about to write or has written exists.
THEOREM TypeCorrect == Spec => []TypeOK
<1>1. ReconInv => TypeOK
  BY DEF ReconInv, GitInv, LeaseInv, TypeOK, Requests, Pinned
<1> QED BY <1>1, ReconInvariant, PTL

\* A request that ended with ok: true reconciled its branch for good, for any
\* number of requests, branches and commits (runGithubBranchMergeCommitCreate
\* and runGithubBranchFastForwardToBase with their readbacks).
THEOREM VerifiedForGood == Spec => []VerifiedStays
<1>1. ReconInv => VerifiedStays
  BY DEF ReconInv, GitInv
<1> QED BY <1>1, ReconInvariant, PTL

\* A merge replaces exactly the tip its evidence pinned, although GitHub has no
\* compare-and-swap and the lease may have lapsed: the new commit contains the
\* branch's tip only if that is the tip it was built on.
THEOREM MergesCompareAndSwap == Spec => MergeIsCompareAndSwap
<1>1. ReconInv /\ [Next]_vars =>
        [\A a \in Agents :
            agent[a].at = "update" /\ agent[a].kind = "merge" /\ UpdateRef(a)
                => head[agent[a].branch] = agent[a].tip]_vars
  <2> SUFFICES ASSUME ReconInv, NEW a \in Agents, agent[a].at = "update",
                      agent[a].kind = "merge", UpdateRef(a)
               PROVE  head[agent[a].branch] = agent[a].tip
    OBVIOUS
  <2> DEFINE t == head[agent[a].branch]
  <2>0. GitInv
    BY DEF ReconInv
  <2>1. /\ t \in anc[agent[a].new] /\ t \in Commits
        /\ agent[a].tip \in Commits /\ agent[a].tip \in anc[t]
        /\ t \notin anc[agent[a].base] /\ t # agent[a].new
        /\ anc[agent[a].new] = anc[agent[a].tip] \cup anc[agent[a].base]
                                   \cup {agent[a].new}
    BY <2>0, Known DEF UpdateRef, FastForwards, Contains, Pinned, Unpublished
  <2>2. t \in anc[agent[a].tip]
    BY <2>1
  <2> QED BY <2>0, <2>1, <2>2, Antisymmetric DEF GitInv
<1> QED BY <1>1, ReconInvariant, PTL DEF Spec, MergeIsCompareAndSwap

=============================================================================
