SPECIFICATION FairSpec
CONSTANTS
    a = a
    b = b
    c = c
    r1 = r1
    r2 = r2
    main = main
    ui = ui
    None = None
    Names = {a, b}
    Runs = {r1, r2}
    Executors = {main}
    Cancellers = {ui}
    Modes = {"blocking", "callback"}
    StopModes = {TRUE, FALSE}
    Debug = TRUE
    SnapshotsFail = TRUE
    Overlap = FALSE
INVARIANTS
    CancelReachesCheckpoint
    FailuresHaveErrors
    SuccessMeansCompleted
PROPERTIES
    ListFixedWhileExecuting
    CancelReturns
    RunReports
