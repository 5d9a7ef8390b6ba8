SPECIFICATION Spec
CONSTANTS
    Codes = {c1, c2}
    Requests = {p1, p2}
    Scopes = {read, write}
    MaxGrants = 3
    CodeTTL = 1
    RefreshTTL = 2
    MaxTime = 2
SYMMETRY Symmetry
INVARIANTS
    OneGrantPerCode
    SuccessorKeepsTerms
    SessionTermIsFixed
    ScopesWereConsented
PROPERTY DisconnectIsFinal
