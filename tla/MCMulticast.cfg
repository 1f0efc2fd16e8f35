SPECIFICATION Spec
CONSTANTS
    o = o
    r = r
    a = a
    b = b
    c = c
    Node = {o, r}
    Owner = o
    Service = {a, b, c}
    harbor <- MCHarbor
    MaxAsked = 5
    MaxPub = 2
    None = None
SYMMETRY MCSymmetry
CHECK_DEADLOCK FALSE
INVARIANTS
    TypeOK
    PackagesCounted
    NothingMissed
