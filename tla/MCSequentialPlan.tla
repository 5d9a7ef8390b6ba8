-------------------------- MODULE MCSequentialPlan --------------------------
(* Small instances of SequentialPlan for TLC: the compile requests.        *)
EXTENDS SequentialPlan, TLC

\* A source step with no policy that lists its dependencies.
Dep(key, type, deps, attempts) ==
    [key |-> key, type |-> type, listed |-> TRUE, deps |-> deps,
     attempts |-> attempts, required |-> FALSE, approved |-> FALSE,
     grant |-> "none"]

\* The same with depends_on left out.
Src(key, type, attempts) ==
    [Dep(key, type, {}, attempts) EXCEPT !.listed = FALSE]

\* A retried mutation, then a step that needs an approval.
Gated == <<Src("a", "workflow", 2),
           [Src("b", "internal", 0) EXCEPT !.required = TRUE]>>

\* A retried mutation that needs an approval.
GatedMutation == <<[Src("a", "workflow", 2) EXCEPT !.required = TRUE]>>

\* Two independent steps before an approval step; max_attempts out of range.
Fork == <<Dep("a", "workflow", {}, 9), Dep("b", "internal", {}, -1),
          Dep("c", "approval", {"a", "b"}, 1)>>

Delegated(g) == <<[Src("a", "workflow", 1) EXCEPT !.grant = g]>>

\* An approval step whose request already carries approved: true.
PreApproved == <<[Src("a", "approval", 2) EXCEPT !.approved = TRUE]>>

\* The same, still to be approved.
Unapproved == <<Src("a", "approval", 1)>>

\* Requests that compileSequentialPlanSteps refuses.
Refused == {<<>>,
            <<Src("a", "internal", 1), Dep("a", "internal", {}, 1)>>,
            <<Dep("a", "internal", {"b"}, 1), Dep("b", "internal", {}, 1)>>,
            <<Dep("a", "unknown", {}, 1)>>}

SelfDependent == <<Dep("a", "internal", {"a"}, 1)>>

MCMixedRequests ==
    {Delegated(g) : g \in Grants}
        \cup {Fork, GatedMutation, PreApproved, Unapproved, SelfDependent}
        \cup Refused
MCGatedRequests == {Gated}
MCRetryRequests == {<<Src("a", "workflow", 2)>>}

MCHoldIds == 1..7

WorkerSymmetry == Permutations(Workers)
=============================================================================
