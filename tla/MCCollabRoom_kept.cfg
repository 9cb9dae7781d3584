SPECIFICATION FairSpec
CONSTANTS
    k = k
    a = a
    b = b
    s1 = s1
    Connections = {k, a}
    Strategies = {s1}
    SameUser = FALSE
    UserOf <- Users
    Kept <- Keeper
    Editors = {k}
    Tasks = {t1, t2}
    Locks = {l1, l2}
    MaxGlobal = 2
    MaxRoom = 2
    Capacity = 1
    MaxElements = 1
    MayStall = {}
    NONE = NONE
INVARIANTS
    PersistsSafe
    AdmittedMayJoin
    NoSilentDrop
PROPERTY EvictedCloses
