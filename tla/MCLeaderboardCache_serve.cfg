SPECIFICATION FairSpec
CONSTANTS
    Keys = {1, 2}
    Requests = {r1, r2}
    Caps = {1, 2}
    MaxScans = 2
    FreshFor = {1}
    Backoff = {1}
    MaxStale = 2
    MaxTime = 2
    MaxDrops = 1
INVARIANTS
    InOrder
    FlightOwned
    SlotsShared
    ServedRight
PROPERTY Answered
