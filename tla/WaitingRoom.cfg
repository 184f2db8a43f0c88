SPECIFICATION FairSpec
CONSTANTS
    b1 = b1
    b2 = b2
    b3 = b3
    w1 = w1
    w2 = w2
    Buyers = {b1, b2}
    Workers = {w1, w2}
    Batch = 1
    MaxResets = 1
    Faults = {"crash", "redis_down", "slow_tick"}
    Nobody = Nobody
    Ghost = Ghost
INVARIANTS
    OneAdmitter
    JoinOrderKept
    CleanResetRevokes
PROPERTY EveryJoinerAnswered
