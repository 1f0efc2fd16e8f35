SPECIFICATION Spec
CONSTANTS
    Message = {m1, m2}
    DEFAULT_QUEUE_SIZE = 2
    MQ_OVERLOAD = 1
    Garbage = Garbage
    MaxLength = 5
INVARIANTS
    TypeOK
    ScheduledOnce
    NothingStranded
    ReportsRise
PROPERTIES
    ImplementsMailbox
