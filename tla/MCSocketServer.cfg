SPECIFICATION Spec
CONSTANTS
    MAX_SOCKET = 2
    MAX_EVENT = 1
    Caller = {c1, c2}
    Size = 2
    None = None
    MaxId = 3
    MaxCall = 4
    MaxAgain = 1
SYMMETRY CallersAlike
INVARIANTS
    SendingCounted
    BacklogCounted
    OwnOrder
CHECK_DEADLOCK FALSE
