SPECIFICATION Spec
CONSTANTS
    Emails = {e1, e2}
    Workers = {w1, w2}
    Targets = {t1, t2}
    MaxAttempts = 3
SYMMETRY Symmetry
INVARIANTS
    SenderNeverRepeats
    EachMessageHasItsAttempt
    SentIsEvidenced
PROPERTY SettledEmailStays
