\* initiateClose() of one run is called in the next.
CONSTANTS
    Ops = {o1, o2, o3}
    None = None
    StartOutcomes = {"started"}
    FinishOutcomes = {"none"}
    MaxRuns = 2
SPECIFICATION Spec
INVARIANT CloseOncePerRun
CHECK_DEADLOCK FALSE
