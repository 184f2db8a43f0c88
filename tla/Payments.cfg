SPECIFICATION FairSpec
CONSTANTS
    o1 = o1
    o2 = o2
    c1 = c1
    c2 = c2
    h1 = h1
    h2 = h2
    Orders = {o1, o2}
    Strategies = {"optimistic", "redis", "null"}
    Calls = {c1, c2}
    Hooks = {h1, h2}
    MaxAttempts = 2
    MaxResets = 1
    Faults = {"crash", "stripe_error"}
    NoEvent = NoEvent
INVARIANTS
    StockMatchesOrders
    PaidOnce
PROPERTY UndisturbedDeclineReturns
