SPECIFICATION Spec
CONSTANTS
    Slot = {r1, r2}
    Input <- MCInput
    Groups <- MCGroups
    Policy <- MCPolicy
    NeedsPrincipal <- MCNeedsPrincipal
    RateLimits <- MCRateLimits
    KeyKind <- MCKeyKind
    MaxArrivals = 2
    Bucket <- MCBucket
    Cost <- MCCost
    Burst <- MCBurst
    IdleAfter = 2
    Second = 2
    MaxClock = 2
SYMMETRY Slots
INVARIANTS
    TypeOK
    WithinRate
    RetryAfterSuffices
    GaugeCoversInFlight
    AllowedByPolicy
    SingleSessionCookie
    EstablishedIdentityStands
CHECK_DEADLOCK FALSE
