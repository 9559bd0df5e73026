SPECIFICATION ReceiverSpec
CONSTANTS
    SegmentSize = 2
    BlockSegments = 3
    Blocks = 3
    WordValues = 65536
    FirstArrives = FALSE
INVARIANTS StreamIsSound
CHECK_DEADLOCK FALSE
