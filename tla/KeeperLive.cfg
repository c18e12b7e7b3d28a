SPECIFICATION FairSpec
CONSTANTS
    c1 = c1
    Amount = 1
    Cap = 1
    Trigger = 2
    MinAvail = 1
    ReclaimMin = 5
    Cooldown = 1
    Window = 4
    SettleAfter = 1
    StatusMaxAge = 2
    BackoffBase = 2
    BackoffCap = 2
    ReclaimCooldown = 2
    PumpStrikes = 2
    ErrorStrikes = 3
    ReclaimStrikes = 3
    MaxTx = 1
    DepositBudget = 1
    ReclaimBudget = 2
    Channels <- NoChannels
    ChannelAmt = 1
    Landings <- Always
    Honours <- Always
    ResvReported <- Always
    ManualKinds <- Deposits
    MaxTime = 2
    MaxOps = 2
    MaxFaults = 0
    MaxCrashes = 1
    MaxClears = 0
    InitOperator <- Never
    InitAvail = 0
PROPERTIES PendingResolved WedgedIsAlarmed
CHECK_DEADLOCK FALSE
