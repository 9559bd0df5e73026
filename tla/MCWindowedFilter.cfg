SPECIFICATION ArrivalsSpec
CONSTANTS
    Maximum = TRUE
    Samples = {1}
    Windows = {5, 6}
    MaxTime = 16
    MaxSeen = 16
CHECK_DEADLOCK FALSE
INVARIANTS TimesOrdered DominatesNewer WorseningCovered
PROPERTIES BestIsFresh
