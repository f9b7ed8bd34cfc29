SPECIFICATION Spec
CONSTANTS
    Null = Null
    Tasks = {t1, t2, t3}
    Clients = {c1}
    Workers = {w1}
    Calls = {"push", "pushReady", "pop", "top", "prioritize", "setThrottleLimit", "setOptions", "setNotifyCallback"}
    Options <- ExecutedOrNone
    ThrottleLimits = {0, 1, 2}
    ObserverLimits = {0, 2}
    Deliveries = {"Concurrent"}
    EventMasks <- NoEventMasks
    FlushModes <- FlushOnlyPlain
    Continuations = {"none", "self", "other"}
    Reentrant = FALSE
    MaxGeneration = 4
SYMMETRY Symmetry
INVARIANTS
    WorkConserving
PROPERTIES
    ThrottleRespected
    NoOvertaking
