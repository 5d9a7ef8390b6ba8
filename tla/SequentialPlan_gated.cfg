SPECIFICATION Spec
CONSTANTS
    Workers = {w1, w2}
    DurableWorkers = {w1, w2}
    Requests <- MCGatedRequests
    HoldIds <- MCHoldIds
    MaxSteps = 2
    AttemptCap = 2
    MaxCompiles = 2
    MaxReopens = 1
INVARIANTS
    ExclusiveExecution
    AtMostOnceDispatch
    NoUntrackedEffect
    HoldsMatchSteps
PROPERTIES
    TerminalStepStays
SYMMETRY WorkerSymmetry
CHECK_DEADLOCK FALSE
