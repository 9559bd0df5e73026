SPECIFICATION Spec
CONSTANTS
    N = 3
    InitCWnd = 2
    CWnds <- SmallWindows
    Targets <- LowAndHigh
    MaxLoss = 1
    MaxPrm = 2
    Reorder = TRUE
    Pacing = FALSE
CHECK_DEADLOCK FALSE
INVARIANTS FlushSafe AckKnown DecoderReady ClosedOnlyWhenDelivered
PROPERTIES ImplementsStream
