\* Shutdown and two upgrade attempts with connections and a connection limit.
CONSTANTS
    l1 = l1
    l2 = l2
    Listener <- MCListener
    Tracked <- MCTracked
    Conn = {c1, c2}
    MaxConns = 1
    NoLimit = NoLimit
    Child = {k1, k2}
    DrainTimeout = 2
    ShutdownDrain = 2
    GracefulDrains = {0, 1, 3}
    LameDuck = 1
    StartupTimeout = 1
    None = None
SPECIFICATION MCSpec
INVARIANTS
    TypeOK
    AlwaysAccepting
PROPERTIES
    UpgradeSettles
    DrainIsGranted
    DrainingEnds
CHECK_DEADLOCK FALSE
