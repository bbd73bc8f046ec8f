SPECIFICATION MCSpec
CONSTANTS
    N = 2
    Weight <- MCWeight
    Group <- MCGroup
    NoGroup = NoGroup
    grp = grp
    Policies = {"round-robin", "least-conn"}
    Request = {r1, r2}
    Key = {key1}
    key1 = key1
    NoKey = NoKey
    HashOf <- MCHashOf
    CounterSpan = 4
    Shapes <- MCShapes
    Answers = {"ok", "retry5xx"}
    EjectAfter = 2
    NeverEject = 99
    EjectFor = 1
    ActiveHealth = FALSE
    UnhealthyAfter = 1
    HealthyAfter = 1
    NoUpstream = NoUpstream
INVARIANTS
    TypeOK
    InFlightMatchesGuards
    RoundRobinByWeight
PROPERTIES
    PickIsSound
    RetryBudgetSpent
    EjectsOnStreak
SYMMETRY Symmetry
