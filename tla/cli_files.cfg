SPECIFICATION MCSpec
CONSTANTS
    a = a
    b = b
    E1 = E1
    E2 = E2
    s = s
    t = t
    None = None
    Keys = {E1, E2}
    Names = {a, b}
    Unset = None
    Procs = {p1, p2}
    Calls = {c1, c2}
    MaxTokens = 3
    Runs = {r1, r2}
    Asks <- MCAsks
    Grants <- MCGrants
    MaxTime = 3
    Updaters = {u1, u2}
    MaxVersion = 2
SYMMETRY Symmetric
CONSTRAINT Undisturbed
INVARIANTS ConfigIsKept HitIsEntitled CacheIsKept EnvIsAsAssigned ExecutableIsKept DeployedIsWhole
CHECK_DEADLOCK FALSE
