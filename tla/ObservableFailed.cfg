CONSTANTS
    MaxSubscriptions = 1
    MaxPendingEvents = 2
    MaxValues = 3
    MaxFaults = 1
    Calls = {}
SPECIFICATION Spec
PROPERTY FailedGetsNoMore
CHECK_DEADLOCK FALSE
