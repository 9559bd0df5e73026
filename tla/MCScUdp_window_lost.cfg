SPECIFICATION FairSpec
CONSTANTS
    N = 3
    InitCWnd = 2
    CWnds <- OnlyTwo
    Targets <- LowOnly
    MaxLoss = 2
    MaxPrm = 2
    Reorder = FALSE
    Pacing = FALSE
CHECK_DEADLOCK FALSE
PROPERTY Reliable
