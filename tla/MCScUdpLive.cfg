SPECIFICATION PacingSpec
CONSTANTS
    N = 3
    InitCWnd = 2
    CWnds <- SmallWindows
    Targets <- LowAndHigh
    MaxLoss = 1
    MaxPrm = 2
    Reorder = FALSE
    Pacing = FALSE
CHECK_DEADLOCK FALSE
PROPERTY DeliversUnlessSpinning
