CONSTANTS
    Operations = {o1, o2}
    Tasks = {t1, t2}
    Calls = {c1, c2, c3}
    None = None
    Limit = 1
    Kinds = {"execute", "task", "throws"}
SPECIFICATION FairSpec
INVARIANTS
    ReadyTaskIsIdle
    OwnerMayContinue
    DisposedIsQuiet
PROPERTIES
    KeepsPromise
    PlaceIsFreed
CHECK_DEADLOCK FALSE
