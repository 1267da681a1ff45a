SPECIFICATION Spec
CONSTANTS
    c1 = c1
    c2 = c2
    d1 = d1
    d2 = d2
    r1 = r1
    k1 = k1
    k2 = k2
    s1 = s1
    s2 = s2
    None = None
    CipherCtx = {c1, c2}
    DigestCtx = {d1, d2}
    RandUsers = {r1}
    Workloads <- Mixed
    Keys = {k1, k2}
    SP = {s1, s2}
    Failing = {"open", "create", "destroy", "close", "reopen", "init", "init_cached", "update", "final", "digest", "length", "state", "reinit", "slots", "relogin", "close_all", "library", "locks"}
    MaxForks = 1
    MaxRestarts = 1
SYMMETRY Symmetry
CONSTRAINT
    NothingUnhandled
INVARIANTS
    TypeOK
    ExclusiveSession
    CipherUsesItsKey
    DigestSeesItsData
    PooledIsReusable
    PoolOfOneProcess
