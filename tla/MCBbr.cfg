SPECIFICATION PartsSpec
CONSTANTS
    MinCwnd = 1
    InitCwnd = 2
    HighGain = 2
    CycleLength = 3
    DefaultSsThresh = 2
    Bandwidths = {1}
    ExtraAcked = {0}
    PriorDelivered = {100}
    RttLowers = {FALSE}
    MaxAcked = 1
    MaxMarked = 1
    Expiry = 0
    ProbeTime = 0
    MaxLosses = 2
    Paths = {"nested", "marked", "sampled", "policed"}
    IntervalRtts = 4
    MaxRtts = 48
    CountValues = 128
    WinRtts = 3
    ResetThresh = 5
    MaxExpected = 2
    Acked = {1, 2}
    Windows = {2, 3}
INVARIANTS PartsTypeOK SavedNotCut ModeMatchesPipe ProbeRttDrained CountBelowLimit
    SlidingWindow
PROPERTIES RestoredAfterCut FullOnLateEvidence ProbeRttTakesRound UsedAfterTwoIntervals
