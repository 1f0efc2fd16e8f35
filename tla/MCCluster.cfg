SPECIFICATION FairSpec
CONSTANTS
    n1 = n1
    n2 = n2
    n3 = n3
    Node = {n1, n2, n3}
    Name = {k1}
    None = None
    Crowds <- MCCrowds
CHECK_DEADLOCK FALSE
INVARIANTS
    TypeOK
    HandlesInOrder
    WaitersRemembered
PROPERTY
    Meshed
