SPECIFICATION FairSpec
CONSTANTS
    Sessions = {s1}
    MaxSnaps = 2
    MaxTaken = 2
    MaxEdits = 3
    MaxFaults = 1
    Ops = {"edit", "retract", "settle", "delete", "crash"}
    CapturedMaps = {"ranked", "local"}
    Overlap = FALSE
    NONE = NONE
CHECK_DEADLOCK FALSE
INVARIANTS
    DeletedIsTombstoned
    NewestOnSite
PROPERTY EventuallyQuiet
