SPECIFICATION FairSpec
CONSTANTS
    Client = {c1, c2}
    Flow = {f1, f2}
    Idle = 1
    None = None
INVARIANTS
    TypeOK
    ListedFlowsArePumped
PROPERTIES
    FailedFlowsLeave
    IdleFlowsLeave
CHECK_DEADLOCK FALSE
