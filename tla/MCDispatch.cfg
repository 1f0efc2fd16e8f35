SPECIFICATION FairSpec
CONSTANTS
    w1 = w1
    w2 = w2
    Worker = {w1, w2}
    External = {timer}
    Service = {s1, s2, s3}
    Root = {s1, s2}
    NoService = NoService
    NoMessage = NoMessage
    Weight <- MCWeight
    Monitor = s1
    MaxOps = 2
INVARIANTS
    TypeOK
    ReferencesCounted
    QueueHasOnePlace
PROPERTIES
    ImplementsActors
    BacklogDrains
    RetiredIsFreed
