\* Three runs, with names to spare for a second wait handler.  No timer is
\* assumed to expire.
CONSTANTS
    Waits = {w1, w2, w3}
    MaxRuns = 3
SPECIFICATION FairSpec
INVARIANT OneHandler
PROPERTIES CancelCompletes WakeUpNotLost
\* A completed task may stay completed.
CHECK_DEADLOCK FALSE
