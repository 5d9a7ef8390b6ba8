SPECIFICATION FairSpec
CONSTANTS
    Workers = {w1, w2}
    DurableWorkers = {w1}
    Requests <- MCMixedRequests
    HoldIds <- MCHoldIds
    MaxSteps = 3
    AttemptCap = 2
    MaxCompiles = 1
    MaxReopens = 1
INVARIANTS
    AttemptsBounded
    DependencyOrder
    CompletedWasDispatched
    OnlyAuthorizedExecution
PROPERTIES
    RunTerminates
CHECK_DEADLOCK FALSE
