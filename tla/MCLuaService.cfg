SPECIFICATION Spec
CONSTANTS
    p1 = p1
    q1 = q1
    Co = {c1, c2, c3}
    Peers = {p1}
    Requests = {q1}
    From <- MCFrom
    MaxSession = 3
    MaxTokens = 2
    MaxDepth = 2
    None = None
SYMMETRY Symmetry
CHECK_DEADLOCK FALSE
INVARIANTS
    TypeOK
    RegisteredOnce
    NothingLeftBehind
    AnsweredOnce
    QueueIsExclusive
