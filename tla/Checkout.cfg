SPECIFICATION FairSpec
CONSTANTS
    r1 = r1
    r2 = r2
    r3 = r3
    Requests = {r1, r2, r3}
    Strategies = {"pessimistic", "optimistic", "redis"}
    Stock = 1
    UnknownUsers = {r3}
    RestockLevels = {1}
    MaxResets = 1
    Faults = {"crash", "redis_restart", "redis_down", "commit_refused", "commit_ack_lost"}
    NoOne = NoOne
    Missing = Missing
INVARIANTS
    SqlLedgerExact
    SqlNoOversell
    CounterCreatesNoUnit
PROPERTIES
    OptimisticReadsFresh
    SqlImplementsLedger
    EveryRequestAnswered
