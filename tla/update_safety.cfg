SPECIFICATION FairSpec
CONSTANTS
    u1 = u1
    u2 = u2
    laptop = laptop
    server = server
    Machines = {laptop, server}
    Original = Original
    None = None
    Runs = {u1, u2}
    HomeOf <- MCHomes
    MaxVersion = 2
    LockTtl = 1
    MaxTime = 1
    WaitTries = 2
INVARIANTS RecordedWasLive SettledAgreement
PROPERTIES EveryRunEnds
\* Invocations end, the clock and the releases are bounded.
CHECK_DEADLOCK FALSE
