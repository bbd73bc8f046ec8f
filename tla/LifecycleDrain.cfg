\* An upgrade with no limit on the drain.
CONSTANTS
    l1 = l1
    l2 = l2
    Listener <- MCListener
    Tracked <- MCTracked
    Conn = {c1, c2}
    MaxConns = 1
    NoLimit = NoLimit
    Child = {k1, k2}
    DrainTimeout = 1
    ShutdownDrain = 1
    GracefulDrains = {0}
    LameDuck = 1
    StartupTimeout = 1
    None = None
SPECIFICATION MCSpec
INVARIANT UpgradeWaitsForConnections
CHECK_DEADLOCK FALSE
