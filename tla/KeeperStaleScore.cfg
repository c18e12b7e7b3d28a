SPECIFICATION Spec
CONSTANTS
    c1 = c1
    Amount = 1
    Cap = 2
    Trigger = 2
    MinAvail = 1
    ReclaimMin = 5
    Cooldown = 1
    Window = 3
    SettleAfter = 1
    StatusMaxAge = 2
    BackoffBase = 2
    BackoffCap = 2
    ReclaimCooldown = 2
    PumpStrikes = 2
    ErrorStrikes = 2
    ReclaimStrikes = 3
    MaxTx = 1
    DepositBudget = 1
    ReclaimBudget = 2
    Channels <- NoChannels
    ChannelAmt = 1
    Landings <- Always
    Honours <- Always
    ResvReported <- Always
    ManualKinds <- NoManual
    MaxTime = 4
    MaxOps = 3
    MaxFaults = 0
    MaxCrashes = 0
    MaxClears = 0
    InitOperator <- Never
    InitAvail = 0
PROPERTIES ScoredOnFreshReading
CHECK_DEADLOCK FALSE
