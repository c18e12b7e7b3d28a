SPECIFICATION Spec
CONSTANTS
    c1 = c1
    Amount = 1
    Cap = 1
    Trigger = 2
    MinAvail = 1
    ReclaimMin = 0
    Cooldown = 1
    Window = 3
    SettleAfter = 1
    StatusMaxAge = 1
    BackoffBase = 2
    BackoffCap = 2
    ReclaimCooldown = 2
    PumpStrikes = 2
    ErrorStrikes = 2
    ReclaimStrikes = 1
    MaxTx = 1
    DepositBudget = 1
    ReclaimBudget = 2
    Channels <- OneChannel
    ChannelAmt = 2
    Landings <- Always
    Honours <- Sometimes
    ResvReported <- Always
    ManualKinds <- NoManual
    MaxTime = 3
    MaxOps = 2
    MaxFaults = 0
    MaxCrashes = 1
    MaxClears = 0
    InitOperator <- Sometimes
    InitAvail = 2
INVARIANTS ReclaimSpaced
PROPERTIES ReclaimBreaker
CHECK_DEADLOCK FALSE
