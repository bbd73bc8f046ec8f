SPECIFICATION Spec
CONSTANTS
    Client = {c1, c2}
    Flow = {f1, f2}
    Idle = 1
    None = None
INVARIANT
    OneSocketPerClient
CHECK_DEADLOCK FALSE
