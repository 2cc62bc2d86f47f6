SPECIFICATION FairSpec
CONSTANTS
    c1 = c1
    c2 = c2
    t1 = t1
    t2 = t2
    k1 = k1
    NoTask = NoTask
    Home = c1
    Cores <- TwoCores
    Tasks <- MCTasks
    QueueSize = 5
    MaxAdds = 2
    Wakers <- OneWaker
    Wakeable <- OneTask
    MaxWakes = 2
    MaxPolls = 2
    Endless = {}
CHECK_DEADLOCK FALSE
INVARIANTS
    TypeOK
    QuietExclusive
    NoPollAfterReady
    ReadyIsQueued
PROPERTIES
    AddedFinishes
