SPECIFICATION PartsSpec
CONSTANTS
    Segments = 7
    FecRatio = 2
    ReTxThreshold = 3
    Window = 4
    Debug = FALSE
    MaxLosses = 2
    MaxChannel = 3
    SegmentSize = 2
    BlockSegments = 3
    Writes <- Whole
    FirstSeq = 1
    MaxOctets = 16
    Blocks = 3
    WordValues = 65536
    FirstArrives = TRUE
INVARIANTS PartsTypeOK CountWithinThreshold NeverStalls BlockIsFresh StreamIsSound
PROPERTIES RepairsOne FailureReported RecoveryCompletes
CHECK_DEADLOCK FALSE
