SPECIFICATION FairSpec
CONSTANTS
    b1 = b1
    b2 = b2
    r1 = r1
    Buyers = {b1, b2}
    Sales <- MCSales
    Replicas = {r1}
    Unread = Unread
INVARIANTS
    ClaimsConserved
    WasteNeedsARace
    NoticeIsTrue
PROPERTIES
    EveryoneHearsBack
    MirrorSettles
