SPECIFICATION Spec
CONSTANTS
    Customers = {b1}
    Units = 2
    MaxPolls = 2
    MaxTries = 2
    Herd = 3
    PilotStock = 2
    PoolSize = 2
    Rate = 1
    Width = 2
    PilotTtl = 2
    EndClock = 3
    MaxSeen = 3
    Simulations <- MCSims
    TopN = 2
    PrePeriod = 2
    LongLag = 2
    Rolls = {2, 3}
    Callers = {x1, x2, x3}
    NoAsker = NoAsker
    Ledgers <- MCLedgers
    Calls = {q1, q2, q3}
    Looks = 2
    NoIntent = NoIntent
    MaxOrders = 3
    SaleStock = 2
    MinSessions = 2
    OldDbs <- MCOldDbs
    MaxRuns = 2
    MaxVisits = 2
    Replicas = {r1, r2}
    Databases <- MCDatabases
    MaxStarts = 3
    MaxDemos = 2
CHECK_DEADLOCK FALSE
INVARIANTS
    ReportsMatchOrders
    NobodyAdmittedInVain
    TrainedOnThePast
    VerdictIsRight
    ScriptsAndStartsSucceed
