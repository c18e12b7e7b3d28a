SPECIFICATION FairSpec
CONSTANTS
    topup = topup
    sweep = sweep
    second = second
    Requests <- Mixed
    Verb <- MixedVerb
    OpTimeout <- Durations
    WaitBudget = 1
    RefreshTimeout = 1
    Transit = 1
    Slack = 2
    MaxResets = 1
    MaxCrashes = 1
INVARIANTS Serialized RefusalIsProof NeverOutrun
PROPERTIES RefusedOnlyWhenBusy Concluded
CHECK_DEADLOCK FALSE
