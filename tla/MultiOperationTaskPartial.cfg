\* scheduleTask() may fail after it began operations.
CONSTANTS
    Ops = {o1, o2}
    None = None
    StartOutcomes = {"started", "failed", "failedPartly"}
    FinishOutcomes = {"none", "continue", "throw"}
    MaxRuns = 2
SPECIFICATION Spec
INVARIANT TypeOK
PROPERTY KeepsContract
\* A completed task may stay completed.
CHECK_DEADLOCK FALSE
