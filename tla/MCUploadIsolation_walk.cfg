SPECIFICATION Spec
CONSTANTS
    MaxRows = 9
    Sites = {"any", "judging", "naming"}
CHECK_DEADLOCK FALSE
INVARIANTS
    RowsHaveOneFate
    WithinBudget
    QuarantineSound
    FewBadIsolated
