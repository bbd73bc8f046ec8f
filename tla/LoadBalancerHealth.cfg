SPECIFICATION FairSpec
CONSTANTS
    N = 2
    Weight <- MCWeight
    Group <- MCGroup
    NoGroup = NoGroup
    grp = grp
    Policies = {"ip-hash", "random", "least-conn"}
    Request = {r1}
    Key = {key1}
    key1 = key1
    NoKey = NoKey
    HashOf <- MCHashOf
    CounterSpan = 3
    Shapes <- MCShapes
    Answers = {"ok", "retry5xx", "other5xx", "retry4xx"}
    EjectAfter = 1
    NeverEject = 99
    EjectFor = 1
    ActiveHealth = TRUE
    UnhealthyAfter = 2
    HealthyAfter = 2
    NoUpstream = NoUpstream
PROPERTIES
    RequestsEnd
    RecoversForGood
    DownIsDetected
