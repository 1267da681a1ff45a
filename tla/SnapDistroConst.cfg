SPECIFICATION Spec
CONSTANTS
    a = a
    b = b
    c = c
    d = d
    None = None
    Names = {a, b, c, d}
    Lists <- NewSuffix
    StopModes = {TRUE}
    SnapshotsFail = TRUE
    Killed = TRUE
    DistroConst = TRUE
    UnsavedCounts = {0, 1}
    MaxRuns = 6
    MaxRestarts = 3
INVARIANTS
    TypeOK
    SnapshotConsistent
    EarlierCanBeResumed
    DoneIsCompleted
PROPERTIES
    ResumeIsClean
ACTION_CONSTRAINT ResumesOnDataset
CHECK_DEADLOCK FALSE
