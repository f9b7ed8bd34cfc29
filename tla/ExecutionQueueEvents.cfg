\* dispose() ends the behaviour: the queue is not used after it.
SPECIFICATION Spec
CONSTANTS
    Null = Null
    Tasks = {t1, t2}
    Clients = {c1}
    Workers = {w1, w2}
    Calls = {"push", "wait", "waitCancel", "cancel", "cancelAll", "dispose", "setNotifyCallback", "disconnect"}
    Options <- KeepFailedOnly
    ThrottleLimits = {1}
    ObserverLimits = {0}
    Deliveries = {"Concurrent", "Serialized"}
    EventMasks <- SomeEventMasks
    FlushModes <- FlushOnlyPlain
    Continuations = {"none", "self", "throw"}
    Reentrant = TRUE
    MaxGeneration = 2
SYMMETRY Symmetry
INVARIANTS
    TypeOK
    Consistent
    OneCompletionPerRun
    DisposedIsQuiescent
    DrainIsReported
    SerializedExclusive
    NoStrandedWaiter
CHECK_DEADLOCK FALSE
