\* Two callers that resize, use and dispose of a pool; at most three threads.
CONSTANTS
    Callers = {c1, c2}
    MaxThreads = 3
    MaxJobs = 1
    Overlaps = {}
SPECIFICATION FairSpec
INVARIANTS
    TypeOK
    ServiceOutlivesUse
    NoThreadLost
    PoolOutlivesThreads
PROPERTY CallsReturn
\* A pool may stay idle.
CHECK_DEADLOCK FALSE
