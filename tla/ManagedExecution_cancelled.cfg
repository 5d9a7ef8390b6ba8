SPECIFICATION Spec
CONSTANTS
    Runs = {r1}
    Steps = {s1}
    MaxHolds = 2
    RetryCeiling = 2
INVARIANT CancelledRunHasNoOpenHold
CHECK_DEADLOCK FALSE
