SPECIFICATION Spec
CONSTANTS
    k = k
    a = a
    b = b
    s1 = s1
    Connections = {k, a, b}
    Strategies = {s1, s2}
    SameUser = TRUE
    UserOf <- Users
    Kept <- Keeper
    Editors = {}
    Tasks = {}
    Locks = {l1, l2}
    MaxGlobal = 3
    MaxRoom = 2
    Capacity = 1
    MaxElements = 1
    MayStall = {}
    NONE = NONE
INVARIANTS
    SlotsConserved
    WithinCaps
