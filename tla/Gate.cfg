SPECIFICATION Spec
CONSTANTS
    r1 = r1
    r2 = r2
    r3 = r3
    r4 = r4
    p1 = p1
    p2 = p2
    Requests = {r1, r2, r3}
    Replicas = {p1, p2}
    Home <- MCHome
    Pool = 2
    Limits = {1, 2}
    InitLimit = 1
    MaxResets = 1
    Faults = {"crash", "redis_error", "reset"}
INVARIANT CounterHeals
PROPERTIES
    AdmitsWithinLimit
    EveryCheckoutAnswered
