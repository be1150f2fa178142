SPECIFICATION FairSpec
CONSTANTS
    Modes <- Mode
    Limit = 2
    MaxFailures = 3
    MaxMessages = 4
INVARIANTS
    TypeOK
    PrintedOnce
    TailComplete
    ExitTellsBadEnd
PROPERTIES
    WaitEnds
    RoundsAreSpaced
CHECK_DEADLOCK FALSE
