SPECIFICATION Spec
CONSTANTS
    a = a
    b = b
    c = c
    r1 = r1
    r2 = r2
    main = main
    ui = ui
    None = None
    Names = {a, b, c}
    Runs = {r1, r2}
    Executors = {main}
    Cancellers = {ui}
    Modes = {"callback"}
    StopModes = {TRUE}
    Debug = FALSE
    SnapshotsFail = TRUE
    Overlap = TRUE
SYMMETRY Symmetry
INVARIANTS
    TypeOK
    NothingStartsAfterCancel
    CanceledNamesTheCancelled
    CompletedPrefix
    
