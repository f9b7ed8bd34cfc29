\* Up to three attempts, two threads that cancel, one continuation of the work,
\* and a verification callback that may contradict the task.
CONSTANTS
    Cancellers = {c1, c2}
    MaxRetryCount = 3
    Verifies = TRUE
    MaxChained = 1
SPECIFICATION FairSpec
INVARIANTS
    AttemptsUsed
    OutcomeIsOfWork
PROPERTIES
    NoAttemptAfterCancel
    CancelCompletes
\* A completed task stays completed.
CHECK_DEADLOCK FALSE
