SPECIFICATION Spec
CONSTANTS
    ann = ann
    bob = bob
    cat = cat
    r1 = r1
    r2 = r2
    r3 = r3
    Persons = {ann, bob, cat}
    Requests = {r1, r2, r3}
    Scenes <- AllScenes
    MaxFaults = 1
INVARIANTS
    TablesSound
    LastAdminKept
    BanHolds
    AcceptedIsActive
    RecruitsHaveCause
    BootSound
CHECK_DEADLOCK FALSE
