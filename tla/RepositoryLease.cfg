SPECIFICATION LeaseSpec
CONSTANTS
    Branches = {b1, b2}
    Runs = {r1, r2}
    Operations = {op}
    Callers = {c1, c2}
    Ttls = {1, 2}
    Limits = {1}
    MaxTime = 3
    MaxLeases = 3
INVARIANTS
    UniqueActiveLease
PROPERTIES
    ImplementsLock
SYMMETRY LeaseSymmetry
CHECK_DEADLOCK FALSE
