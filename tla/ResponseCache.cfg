SPECIFICATION MCSpec
CONSTANTS
    a = a
    b = b
    x = x
    y = y
    alice = alice
    bob = bob
    nobody = nobody
    Key <- MCKey
    HeadKey <- MCHeadKey
    HonorKey <- MCHonorKey
    Task = {t1, t2}
    Request <- MCRequest
    Reply <- MCReply
    Opaque = Opaque
    AnyStale = AnyStale
    Second = 2
    MaxBytes = 2
    MaxObject = 2
    TTL = 2
    MaxTime = 5
    MaxVersion <- MCMaxVersion
    Unset = Unset
INVARIANTS
    TypeOK
    WithinBudget
    RegistryExact
    BoundedStaleness
    SharedAsDeclared
    NoCacheIsValidated
SYMMETRY Symmetry
CHECK_DEADLOCK FALSE
