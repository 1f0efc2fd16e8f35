SPECIFICATION FairSpec
CONSTANTS
    TIME_NEAR = 2
    TIME_LEVEL = 2
    Event = {e1, e2}
    Delay = {0, 1, 2, 5, 9, 15}
    MaxStep = 2
INVARIANTS
    FiledByExpiry
PROPERTIES
    ImplementsAlarms
    EveryTimeoutFires
