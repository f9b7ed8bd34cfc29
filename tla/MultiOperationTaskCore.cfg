\* Two runs of a task that starts with an operation or more and re-arms.
CONSTANTS
    Ops = {o1, o2, o3}
    None = None
    StartOutcomes = {"started", "failed"}
    FinishOutcomes = {"none", "continue", "throw"}
    MaxRuns = 2
SPECIFICATION FairSpec
INVARIANTS
    CountMatches
    FinishAfterOperations
    OutcomeIsFirstFailure
PROPERTY ClosingTaskCompletes
\* A completed task may stay completed.
CHECK_DEADLOCK FALSE
