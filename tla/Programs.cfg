SPECIFICATION Spec
CONSTANTS
    MinCwnd = 1
    MaxCwnd = 8
    InitCwnd = 2
    Scale = 2
    Latencies = {60, 400, 900}
    TargetMin = 100
    TargetMax = 500
    Tolerance = 3
    MinSamples = 2
    StallMin = 2
    PlateauRounds = 1
    Parts = 2
    MaxLate = 1
    Worlds <- MCWorlds
    Guests = {b1, b2, b3}
    TokenTtl = 3
    LastSecond = 4
    PriorK = 2
    FloorPercent = 10
    Seeds <- MCSeeds
    Threads = {a, b, c}
    DemoStock = 2
    MaxRetries = 3
    NoThread = NoThread
    Arms <- MCArms
    Txns = {1, 2, 3}
    Wants <- MCWants
    MaxTs = 3
    RowStock = 2
    Txn1 = t1
    Txn2 = t2
    Admin = admin
    Checkouts = {c1, c2}
    WindowPosts = {p1, p2}
    RefreshS = 1
    QueryS = 1
    EndOfTime = 5
    MaxEdits = 1
    Refresher = Refresher
    NoWindow = NoWindow
    Sales <- MCSales
CHECK_DEADLOCK FALSE
INVARIANTS
    UntoldCountForNothing
    BudgetIsLargest
    ArmsAreExact
    ReadsFollowTimestamps
PROPERTIES
    OneEventOnePenalty
    SettlesAtTheKnee
    StaleBaselineHeals
    EveryScriptEnds
    AnswersAreRecent
