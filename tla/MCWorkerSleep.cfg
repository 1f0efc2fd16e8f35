SPECIFICATION FairSpec
CONSTANTS
    Worker = {w1, w2, w3}
    MaxContexts = 2
    MaxPush = 3
INVARIANTS
    TypeOK
    SleepersCounted
    NobodySleepsPastQuit
PROPERTIES
    WorkIsTaken
    EveryThreadEnds
