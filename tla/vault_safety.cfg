SPECIFICATION MCSpec
CONSTANTS
    r1 = r1
    r2 = r2
    r3 = r3
    s1 = s1
    None = None
    Requests = {r1, r2, r3}
    SessionIds = {s1, s2}
    Handlers = {h1, h2}
    Workloads <- CreateFirst
    LeaseTtl = 1
    StaleAfter = 1
    MaxTime = 3
SYMMETRY Symmetric
VIEW View
INVARIANTS OneCommitPerCapability AcknowledgedIsKept CleanupNeverBlocked SingleWriter
PROPERTIES ImplementsCell NoLostUpdate RevokedStopsHolders RevokedUnlessHealed
