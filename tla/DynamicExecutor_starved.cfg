SPECIFICATION FairSpec
CONSTANTS
    c1 = c1
    c2 = c2
    Cores <- OneCore
    Siblings <- NoSiblings
    Capacity = 2
    StealBatch = 4
    MaxTasks = 2
    Freqs = {0}
    Retunes = {0}
    FreqBase = 1
    MaxTime = 0
    Polls = 1
    Endless = {2}
PROPERTY CancelReaped
