SPECIFICATION Spec
CONSTANTS
    near1 = near1
    near2 = near2
    far = far
    here = here
    there = there
    NoCall = NoCall
    Calls <- ThreeCalls
    Replicas <- ReplicaSet
    Home <- HomeOf
    Server = here
    Backlog <- BacklogOf
    Lag = 2
    CommitTime = 1
    QueueMax = 1
    Limit = 1
    Endpoints = {"export"}
    LastCall = 1
    MaxTime = 6
    MaxFaults = 0
INVARIANTS WatermarkKept
CHECK_DEADLOCK FALSE
