SPECIFICATION Spec
CONSTANTS
    p1 = p1
    p2 = p2
    p3 = p3
    d1 = d1
    d2 = d2
    None = None
    Procs <- MCProcs
    Data <- MCData
INVARIANTS
    TypeOK
    NoLostSignal
PROPERTIES
    ImplementsMailbox
