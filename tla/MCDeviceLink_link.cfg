SPECIFICATION FairSpec
CONSTANTS
    Codes = {c1}
    Members = {m1}
    Tokens = {t1}
    ApproveSlots = {a1}
    DenySlots = {d1}
    PollSlots = {p1, p2}
    TTL = 2
    Interval = 1
    MaxTime = 2
    MaxAborts = 1
    NONE = NONE
INVARIANTS
    TypeOK
    NoOrphanToken
    DeniedNeverHanded
    HandedOnce
    ExpiredIsTrue
PROPERTIES
    PollSpacing
    UncollectedRevoked
    ImplementsLinkGrant
