SPECIFICATION Spec
CONSTANTS
    Sessions = {s1}
    MaxSnaps = 1
    MaxTaken = 1
    MaxEdits = 1
    MaxFaults = 0
    Ops = {"delete"}
    CapturedMaps = {"ranked"}
    Overlap = TRUE
    NONE = NONE
CHECK_DEADLOCK FALSE
INVARIANTS
    DeletedIsTombstoned
