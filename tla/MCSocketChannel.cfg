SPECIFICATION FairSpec
CONSTANTS
    a = a
    b = b
    c = c
    Caller = {a, b, c}
    Does <- MCDoes
    Two = {a}
    MaxRefused = 1
    Dispatcher = Dispatcher
    None = None
CHECK_DEADLOCK FALSE
INVARIANTS
    OwnAnswer
    Exclusive
PROPERTIES
    CallsEnd
