SPECIFICATION EitherSpec
CONSTANTS
    MinCwnd = 2
    InitCwnd = 2
    InvDelta = 3
    Threshold = 3
    VelocityBits = 3
    MaxWindow = 20
    Srtt = 2
    Capacity = 6
    MaxAcked = 1
    MaxLosses = 1
INVARIANTS BothTypeOK VelocityMatches
PROPERTIES FastOnlyAlong DoublesAfter WindowCoversDelivery AloneGrows ProbesRecur
