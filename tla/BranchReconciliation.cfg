SPECIFICATION Spec
CONSTANTS
    Branches = {b1}
    Default = main
    Runs = {r1}
    Operations = {op}
    Callers = {c1}
    Ttls = {1}
    Limits = {1}
    MaxTime = 1
    MaxLeases = 1
    Agents = {a1, a2}
    MaxCommits = 5
INVARIANTS
    TypeOK
    VerifiedStays
PROPERTIES
    MergeIsCompareAndSwap
SYMMETRY AgentSymmetry
CHECK_DEADLOCK FALSE
