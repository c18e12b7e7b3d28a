SPECIFICATION RoutingSpec
CONSTANTS
    AdmittedFlows <- SmallFlows
    MaxTries = 2
    CodexItems = {"i", "j"}
    MaxPieces = 3
    FirstToken = 1
    ReadTime = 2
    VendorOfToken <- TwoVendors
    Versions = {"v4"}
    Markers = {"fast"}
    FamilySets <- TwoFamilies
    Services <- SomeNames
    Aliased <- PlainOpus
    Nothing = Nothing
    TalkNames = {"f", "g"}
    OtherTools = {"native"}
    TalkIds <- TwoIds
    TalkParts = 4
    MaxAttempts = 3
    MaxDeltas = 2
    Policies = {"general", "fast"}
    General = "general"
    MaxRetries = 1
    DecisionTime = 2
    StaleAfter = 2
    Skew = 1
    PollPeriod = 2
    RefreshTime = 1
    MoneyHorizon = 8
    PeerCalls = {c1, c2, c3}
    PeerCap = 1
    LeaseTTL = 3
    Beat = 1
    GateTTL = 1
    LeaseHorizon = 4
    AccountNames = {1, 2}
    Default = 2
    MaxLogins = 2
    MaxRefresh = 2
    Links = {l1, l2}
    Visits = {v1, v2}
    LinkTTL = 3
    CodeTTL = 2
    GrantTime = 1
    MaxCodes = 2
    SigninHorizon = 3
    MarketSellers = {1, 2}
    MarketFamilies = {"f"}
    TopOffers = 1
    RouteBase <- FirstOfRoute
    RouteMost <- LongOfRoute
    PeerBase <- FirstOfSeller
    PeerMost <- LongOfSeller
    HealthWindow = 4
    HealthSample = 3
    SellerCalls = 2
    MaxObserved = 3
    MarketHorizon = 2
INVARIANTS ChatHolds FlowsHold ConversationKept CodexStreamHolds PolicyHolds OffersHold NeverAnotherModel MoneyProvenUnlessExcused PeersHold AccountsHold
PROPERTIES EveryRequestEndsInTime
CHECK_DEADLOCK FALSE
