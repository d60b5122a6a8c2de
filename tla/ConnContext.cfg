SPECIFICATION Spec
CONSTANTS
    Second = 5
    Rate = 3
    Burst = 3
    InitTokens = 1
    MaxClock = 8
    MaxCalls = 6
INVARIANTS
    RateBound
    PacedClientServed
PROPERTIES
    RefusedOnlyWhenOwedNothing
