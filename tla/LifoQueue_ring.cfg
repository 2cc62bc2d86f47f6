SPECIFICATION Spec
CONSTANTS
    w1 = w1
    w2 = w2
    i1 = i1
    i2 = i2
    Null = Null
    Workers <- MCWorkers
    Items <- MCItems
    N = 2
    Wrap = 8
    Start = 7
    MaxPushes = 3
    Counts = {1, 2}
SYMMETRY MCSymmetry
INVARIANT RingFits
