SPECIFICATION Spec
CONSTANTS
    o1 = o1
    o2 = o2
    Officers = {o1, o2}
    Fields <- Twice
    MaxFaults = 0
INVARIANTS
    ReportedOnce
CHECK_DEADLOCK FALSE
