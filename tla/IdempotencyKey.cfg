SPECIFICATION FairIdemSpec
CONSTANTS
    r1 = r1
    r2 = r2
    r3 = r3
    r4 = r4
    k1 = k1
    Requests = {r1, r2, r3, r4}
    Keys = {k1}
    KeyOf <- Taps
    NoKey = NoKey
    NoOrder = NoOrder
    Outcomes = {"confirmed", "sold_out", "conflict", "unavailable", "raised"}
    Faults = {"crash", "redis_down", "commit_ack_lost", "slow_handler"}
INVARIANT OneOrderUndisturbed
PROPERTY KeyNeverWedged
