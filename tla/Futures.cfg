SPECIFICATION Spec
CONSTANTS
    a = a
    b = b
    c = c
    Word = 16
    PerSecond <- MCPerSecond
    Seconds <- MCSeconds
    PerSample = 2
    Programs <- MCPrograms
    Samples = {1, 4}
    Starts = {2, 11}
    MaxNow = 15
    Patience = 2
CHECK_DEADLOCK FALSE
INVARIANTS
    TypeOK
    NeverRepolled
    MacroOutcome
    NotEarly
    PacerRate
PROPERTIES
    StepPollsAll
    ExpiredNotPolled
    Ends
