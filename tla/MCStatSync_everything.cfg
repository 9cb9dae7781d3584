SPECIFICATION Spec
CONSTANTS
    Sessions = {s1, s2}
    MaxSnaps = 2
    MaxTaken = 2
    MaxEdits = 2
    MaxFaults = 1
    Ops = {"held", "retract", "edit", "edit_map", "auto_map", "delete", "retry", "settle", "crash"}
    CapturedMaps = {"ranked", "local", "blank"}
    Overlap = TRUE
    NONE = NONE
CHECK_DEADLOCK FALSE
SYMMETRY Symmetric
INVARIANTS
    TypeOK
    NoEditLost
    DeletedStaysDeleted
