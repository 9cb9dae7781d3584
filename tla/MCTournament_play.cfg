SPECIFICATION Spec
CONSTANTS
    o1 = o1
    o2 = o2
    Officers = {o1, o2}
    Fields <- AllFields
    MaxFaults = 1
INVARIANTS
    WellFormed
    WinnersAdvance
    DecidedOnce
    ClosedWhenDone
    PlayedOut
CHECK_DEADLOCK FALSE
