SPECIFICATION Spec
CONSTANTS
    NRecords = 4
    MaxLen = 3
    Newlines = 2
    MaxRead = 12
    Aligned = TRUE
    Garbage <- MCClean
    Streams <- MCStreams
INVARIANTS
    TypeOK
    HandedInOrder
    AllHandedOver
CHECK_DEADLOCK FALSE
