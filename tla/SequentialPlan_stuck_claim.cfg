SPECIFICATION RetryingSpec
CONSTANTS
    Workers = {w1, w2}
    DurableWorkers = {w1, w2}
    Requests <- MCRetryRequests
    HoldIds <- MCHoldIds
    MaxSteps = 1
    AttemptCap = 2
    MaxCompiles = 1
    MaxReopens = 1
PROPERTIES
    ClaimedStepRecovers
CHECK_DEADLOCK FALSE
