SPECIFICATION Spec
CONSTANTS
    t1 = t1
    t2 = t2
    t3 = t3
    NoTask = NoTask
    Tasks <- MCTasks
    Repolls = FALSE
INVARIANT NoLostWakeup
