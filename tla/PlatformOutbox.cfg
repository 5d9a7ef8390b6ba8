SPECIFICATION Spec
CONSTANTS
    Events = {1, 2}
    OccurredAt <- Backdated
    Workers = {w1, w2}
    Tokens = {1, 2, 3, 4}
    MaxAttempts = 2
    Limit = 2
    WindowFactor = 1
    BatchSize = 2
INVARIANTS
    AttemptLedger
    DeadLetterAtLimit
PROPERTIES
    SettledStays
SYMMETRY WorkerSymmetry
