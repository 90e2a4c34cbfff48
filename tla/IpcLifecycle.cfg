CONSTANTS
    Depth = 4
    MaxLife = 3
    MaxSent = 5
    SleepHolds = TRUE
SPECIFICATION FairSpec
INVARIANTS
    TypeOK
    BothUp
    HandlesWhatWasSent
PROPERTIES
    InitReturns
    FreeReturns
CHECK_DEADLOCK FALSE
