SPECIFICATION Spec
CONSTANTS
    a = a
    b = b
    c = c
    d = d
    None = None
    Names = {a, b}
    Lists <- TwoNames
    StopModes = {TRUE}
    SnapshotsFail = FALSE
    Killed = TRUE
    DistroConst = TRUE
    UnsavedCounts = {0}
    MaxRuns = 4
    MaxRestarts = 1
INVARIANTS
    ResumableCanBeResumed
CHECK_DEADLOCK FALSE
