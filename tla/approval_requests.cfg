SPECIFICATION FairSpec
CONSTANTS
    Requests = {q1}
    Tabs = {t1, t2}
    Refs = {a, b}
    Saves = {v}
    Workloads <- AnyRefs
    Wait = 2
    MaxTime = 4
    None = None
INVARIANTS SealedIsStored GrantIsComplete GivesUpLast
PROPERTIES OnlySavesReplace ImplementsOneAnswer EveryWaitEnds
