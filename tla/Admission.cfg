SPECIFICATION AdmissionSpec
CONSTANTS
    c1 = c1
    c2 = c2
    c3 = c3
    c4 = c4
    c5 = c5
    p1 = p1
    p2 = p2
    w1 = w1
    w2 = w2
    None = None
    Unknown = Unknown
    Calls <- FiveCalls
    Replicas <- OneReplica
    Home <- HomeOf
    Budgeted <- TwoCalls
    Streamed <- TwoCalls
    Limit = 3
    Amount = 2
    Owed = {3}
    TTL = 1
    PruneAfter = 0
    Attempts = 2
    MaxTime = 2
    MaxFaults = 1
    Permits = 2
    MaxPending = 2
    Workers <- TwoWorkers
    Capacity = 2
    Unit = 2
    Rate = 1
    Horizon = 4
    AdminReplicas = {p1, p2}
    ApiKeys = {k1, k2}
    Provisioned = {k1}
    RotationGrace = 1
    KeyHorizon = 1
    MaxSaves = 2
    Resolvers = {r1, r2}
    ResolveTTL = 1
    NegativeTTL = 0
    ResolveGrace = 1
    ResolveTime = 1
    ResolveHorizon = 6
    MaxVersion = 2
    PagedCalls = {k1}
    Viewers = {p1, p2}
    HourTicks = 2
    RecentTicks = 4
    OlderTicks = 2
    RetainTicks = 8
    Lag = 1
    Period = 2
    SnapTTL = 1
    PageHorizon = 6
    Changes = {r1, r2}
    Knobs = {k1, k2}
    KnobValues = {1}
    Providers = {p1, p2}
    KeyVariables = {w1, w2}
    KeyValues = {1, 2}
    ConfigFile <- OneListed
INVARIANTS QuotaSharedUnlessSetBack BudgetHeld IngressHolds BookedOnce VerdictsHold PagesHold ConfigHolds
PROPERTIES StoreService
SYMMETRY Symmetry
CHECK_DEADLOCK FALSE
