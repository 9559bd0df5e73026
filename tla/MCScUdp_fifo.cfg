SPECIFICATION Spec
CONSTANTS
    N = 4
    InitCWnd = 2
    CWnds <- SmallWindows
    Targets <- LowAndHigh
    MaxLoss = 2
    MaxPrm = 2
    Reorder = FALSE
    Pacing = FALSE
CHECK_DEADLOCK FALSE
INVARIANTS TypeOK PipeWithinWindow PipeCounted EstimatesSane
