SPECIFICATION FairSpec
CONSTANTS
    None = None
    Machines = {laptop}
    Pairings = {p1, p2}
    HomeOf <- OneHome
    Codes = {c1, c2, c3}
    Phones = {a1, a2}
    CodeTtl = 1
    Attempts = 2
    MaxTime = 3
INVARIANTS SavedIdentityVerifies WaitsForItsOwn
PROPERTIES EveryPairingEnds
\* Every command ends and the clock is bounded.
CHECK_DEADLOCK FALSE
