SPECIFICATION Spec
CONSTANTS
    a = a
    b = b
    c = c
    d = d
    None = None
    Names = {a, b}
    Lists <- TwoNames
    StopModes = {TRUE, FALSE}
    SnapshotsFail = TRUE
    Killed = FALSE
    DistroConst = FALSE
    UnsavedCounts = {0}
    MaxRuns = 4
    MaxRestarts = 0
INVARIANTS
    SnapshotHoldsItsDoc
    CompletedCanBeRolledBack
PROPERTIES
    RollbackRestores
CHECK_DEADLOCK FALSE
