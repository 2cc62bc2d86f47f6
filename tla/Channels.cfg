SPECIFICATION FairSpec
CONSTANTS
    s1 = s1
    s2 = s2
    r1 = r1
    r2 = r2
    Kinds <- AllKinds
    Senders <- TwoSenders
    Receivers <- TwoReceivers
    Cap = 2
    MaxSends = 3
CHECK_DEADLOCK FALSE
INVARIANTS
    TypeOK
    ExactlyOnce
    SenderOrder
PROPERTIES
    ChannelProgress
