SPECIFICATION Spec
CONSTANTS
    Runs = {r1}
    Steps = {s1, s2, s3}
    MaxHolds = 3
    RetryCeiling = 2
SYMMETRY StepSymmetry
INVARIANTS
    OneOpenHold
    NothingRunsWhileApprovalOpen
    TerminalRunIsQuiet
    ApprovalBeforeExecution
    RolledBackWasCompensated
PROPERTY SettledStepStays
CHECK_DEADLOCK FALSE
