CONSTANTS
    MaxSubscriptions = 2
    MaxPendingEvents = 1
    MaxValues = 1
    MaxFaults = 1
    Calls = {"unsubscribe", "dispose", "dispatch"}
SPECIFICATION FairSpec
INVARIANTS
    UnsubscribedIsQuiet
    DisposedIsDelivered
PROPERTIES
    CallsAreInOrder
    EndedIsDelivered
    OnlyFailedAreErased
    DisposeReturns
CHECK_DEADLOCK FALSE
