SPECIFICATION FairSpec
CONSTANTS
    c1 = c1
    c2 = c2
    Cores <- TwoCores
    Siblings <- OneWay
    Capacity = 1
    StealBatch = 4
    MaxTasks = 2
    Freqs = {1}
    Retunes = {0}
    FreqBase = 1
    MaxTime = 1
    Polls = 1
    Endless = {}
INVARIANTS
    TypeOK
    NoTaskLost
    OneOwner
    CancelStops
    RegistryBounded
PROPERTIES
    TasksFinish
