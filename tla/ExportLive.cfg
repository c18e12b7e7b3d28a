SPECIFICATION FairSpec
CONSTANTS
    near1 = near1
    near2 = near2
    far = far
    here = here
    there = there
    NoCall = NoCall
    Calls <- NearCalls
    Replicas <- ReplicaSet
    Home <- HomeOf
    Server = here
    Backlog <- BacklogOf
    Lag = 1
    CommitTime = 0
    QueueMax = 1
    Limit = 1
    Endpoints = {"export"}
    LastCall = 1
    MaxTime = 4
    MaxFaults = 1
PROPERTIES Reconciled
CHECK_DEADLOCK FALSE
