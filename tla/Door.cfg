SPECIFICATION FairSpec
CONSTANTS
    r1 = r1
    r2 = r2
    r3 = r3
    r4 = r4
    k1 = k1
    k2 = k2
    t1 = t1
    u1 = u1
    u2 = u2
    Requests = {r1, r2, r3, r4}
    Keys = {k1, k2}
    KeyOf <- Keyed
    NoKey = NoKey
    NoOrder = NoOrder
    Tokens = {t1}
    TokenOf <- Shared
    NoToken = NoToken
    Users = {u1, u2}
    UserOf <- Buyer
    NoUser = NoUser
    Outcomes = {"confirmed", "conflict", "raised"}
    Faults = {"redis_down", "crash", "limiter_full"}
INVARIANTS
    OnePurchasePerClaim
    OneBuyerBehindDoor
PROPERTY ClaimReleased
