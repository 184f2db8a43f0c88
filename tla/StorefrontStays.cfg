SPECIFICATION MaintSpec
CONSTANTS
    MaxOrders = 3
    SaleStock = 2
    MinSessions = 2
    OldDbs <- MCOldDbs
    MaxRuns = 2
    MaxVisits = 2
CHECK_DEADLOCK FALSE
INVARIANT StorefrontStays
