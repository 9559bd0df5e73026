SPECIFICATION FairSpec
CONSTANTS
    MinCwnd = 1
    InitCwnd = 1
    HighGain = 2
    CycleLength = 3
    DefaultSsThresh = 2
    Bandwidths = {1}
    ExtraAcked = {0}
    PriorDelivered = {100}
    RttLowers = {FALSE}
    MaxAcked = 1
    MaxMarked = 0
    Expiry = 0
    ProbeTime = 0
    MaxLosses = 1
    Paths = {"nested"}
PROPERTIES ProbeRttEnds
