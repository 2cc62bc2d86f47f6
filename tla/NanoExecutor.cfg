SPECIFICATION FairSpec
CONSTANTS
    t1 = t1
    t2 = t2
    t3 = t3
    Tasks <- MCTasks
    Freqs = {0, 1, 2}
    FreqBase = 2
    MaxTime = 3
INVARIANTS
    TypeOK
    OncePerPass
    MissesAreBounded
PROPERTIES
    NoNodeLost
    EveryNodeVisited
