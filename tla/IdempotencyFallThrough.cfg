SPECIFICATION IdemSpec
CONSTANTS
    r1 = r1
    r2 = r2
    r3 = r3
    r4 = r4
    k1 = k1
    Requests = {r1, r2, r3}
    Keys = {k1}
    KeyOf <- ThreeTaps
    NoKey = NoKey
    NoOrder = NoOrder
    Outcomes = {"confirmed", "conflict"}
    Faults = {}
INVARIANT OneOrderPerKey
