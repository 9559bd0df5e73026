SPECIFICATION FairSpec
CONSTANTS
    N = 4
    InitCWnd = 3
    CWnds <- OnlyThree
    Targets <- NoRepair
    MaxLoss = 2
    MaxPrm = 2
    Reorder = TRUE
    Pacing = FALSE
CHECK_DEADLOCK FALSE
PROPERTY DeliversUnlessSpinning
