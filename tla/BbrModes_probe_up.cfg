SPECIFICATION Spec
CONSTANTS
    MinCwnd = 2
    InitCwnd = 2
    HighGain = 2
    CycleLength = 8
    DefaultSsThresh = 3
    Bandwidths = {2}
    ExtraAcked = {0}
    PriorDelivered = {100}
    RttLowers = {FALSE}
    MaxAcked = 1
    MaxMarked = 0
    Expiry = 0
    ProbeTime = 0
    MaxLosses = 0
    Paths = {"nested"}
PROPERTIES ProbeUpReachesTarget
