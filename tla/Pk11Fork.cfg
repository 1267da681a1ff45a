SPECIFICATION Spec
CONSTANTS
    c1 = c1
    c2 = c2
    d1 = d1
    d2 = d2
    r1 = r1
    k1 = k1
    k2 = k2
    s1 = s1
    s2 = s2
    None = None
    CipherCtx = {c1, c2}
    DigestCtx = {d1, d2}
    RandUsers = {r1}
    Workloads <- Mixed
    Keys = {k1, k2}
    SP = {s1, s2}
    Failing = {}
    MaxForks = 1
    MaxRestarts = 0
SYMMETRY Symmetry
INVARIANTS
    SessionsOfThisProcess
