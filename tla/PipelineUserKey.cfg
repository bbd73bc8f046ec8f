SPECIFICATION Spec
CONSTANTS
    Slot = {r1, r2}
    Input <- ApiInput
    Groups <- MCGroups
    Policy <- ApiPolicy
    NeedsPrincipal = {}
    RateLimits <- ApiRateLimits
    KeyKind <- MCKeyKind
    MaxArrivals = 2
    Bucket <- MCBucket
    Cost <- MCCost
    Burst <- MCBurst
    IdleAfter = 2
    Second = 2
    MaxClock = 2
INVARIANTS
    UserBuckets
CHECK_DEADLOCK FALSE
