CONSTANTS
    Rows = {1, 2, 3}
    Poison = {1}
    Publishers = {p1, p2}
    BatchSize = 2
    BaseDelay = 1
    MaxDelay = 2
    MaxAttempts = 2
    MaxFaults = 2
SPECIFICATION FairSpec
CHECK_DEADLOCK FALSE
INVARIANTS
    TypeOK
    CopiesAccounted
PROPERTIES
    NeverSentAgain
    EveryEventGoesOut
