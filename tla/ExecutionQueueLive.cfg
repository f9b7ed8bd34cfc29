SPECIFICATION FairSpec
CONSTANTS
    Null = Null
    Tasks = {t1, t2}
    Clients = {c1, c2}
    Workers = {w1}
    Calls = {"push", "pop", "wait", "flush", "cancel", "setNotifyCallback"}
    Options <- SomeOptions
    ThrottleLimits = {1}
    ObserverLimits = {0}
    Deliveries = {"Serialized"}
    EventMasks <- DiscardedOnly
    FlushModes <- FlushOnlyPlain
    Continuations = {"none", "self", "other"}
    Reentrant = FALSE
    MaxGeneration = 2
PROPERTIES
    BlockedCallsReturn
