SPECIFICATION Spec
CONSTANTS
    NRecords = 1
    MaxLen = 2
    Newlines = 2
    MaxRead = 12
    Aligned = FALSE
    Garbage <- MCClean
    Streams <- MCStreams
INVARIANT
    CompleteMeansComplete
CHECK_DEADLOCK FALSE
