SPECIFICATION Spec
CONSTANTS
    Keys <- MCKeys
    Limit <- MCLimit
    WindowMs = 3
    Second = 2
    MaxTime = 7
    MaxRequests = 4
INVARIANTS
    TypeOK
    BurstBounded
    WindowAccount
    RetryAfterEnough
