SPECIFICATION FairSpec
CONSTANTS
    Events = {1, 2}
    OccurredAt <- Backdated
    Workers = {w1}
    Tokens = {1, 2, 3, 4}
    MaxAttempts = 2
    Limit = 1
    WindowFactor = 1
    BatchSize = 2
PROPERTIES
    EventSettles
