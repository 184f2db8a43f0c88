SPECIFICATION Spec
CONSTANTS
    o1 = o1
    o2 = o2
    c1 = c1
    c2 = c2
    h1 = h1
    h2 = h2
    Orders = {o1, o2}
    Strategies = {"optimistic", "pessimistic"}
    Calls = {c1, c2}
    Hooks = {h1, h2}
    MaxAttempts = 1
    MaxResets = 0
    Faults = {}
    NoEvent = NoEvent
INVARIANT UnitReleasedOnce
