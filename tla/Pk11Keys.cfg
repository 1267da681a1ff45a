SPECIFICATION Spec
CONSTANTS
    t1 = t1
    t2 = t2
    s1 = s1
    s2 = s2
    p1 = p1
    k1 = k1
    k2 = k2
    h1 = h1
    h2 = h2
    tk = tk
    None = None
    Threads = {t1, t2}
    Sessions = {s1, s2}
    Structs = {p1}
    Values = {k1, k2}
    KeyStore = {k1}
    Handles = {h1, h2}
    TokenHandle <- TheToken
    Failing = {"destroy", "find", "find_final", "create", "memory", "load", "load_late"}
    MaxLost = 1
SYMMETRY Symmetry
CONSTRAINT
    NothingUnhandled
INVARIANTS
    ActiveCounts
    UsesTheRightKey
    OneObjectPerKey
    NoOrphans
PROPERTIES
    ImplementsReferences
