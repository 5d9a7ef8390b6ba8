----------------------------- MODULE BranchLock -----------------------------
(***************************************************************************)
(* What the repository operation lease promises: at any time at most one   *)
(* grant is in force for a branch, and no grant is made while another one  *)
(* of the branch is in force.  A grant that lapsed may come back in force, *)
(* but only until it is ended: by its release, by an expiry sweep, or by   *)
(* the next grant of the branch, whichever is first.                       *)
(***************************************************************************)
CONSTANTS Branches, Grants

VARIABLES
    held,     \* <<branch, grant>> pairs in force
    open,     \* pairs that have not been ended
    granted   \* every grant ever made

vars == <<held, open, granted>>

Init == held = {} /\ open = {} /\ granted = {}

Grant(b, g) ==
    /\ g \notin granted
    /\ \A p \in held : p[1] # b
    /\ held' = held \cup {<<b, g>>}
    /\ open' = {p \in open : p[1] # b} \cup {<<b, g>>}
    /\ granted' = granted \cup {g}

Lapse ==
    /\ open' \subseteq open
    /\ held' \subseteq held \cap open'
    /\ granted' = granted

Resume(b, g) ==
    /\ <<b, g>> \in open
    /\ held' = held \cup {<<b, g>>}
    /\ UNCHANGED <<open, granted>>

Next ==
    \/ \E b \in Branches, g \in Grants : Grant(b, g) \/ Resume(b, g)
    \/ Lapse

Spec == Init /\ [][Next]_vars
=============================================================================
