SPECIFICATION FairSpec
CONSTANTS
    Flows = {f1}
    Effects = {e1, e2}
    Browsers = {b1, b2}
    Codes = {c1, c2}
    Denied = Denied
    None = None
    Ttl = 1
    Retries = 1
    MaxTime = 1
INVARIANTS OneConnectionPerFlow
PROPERTIES EveryEffectEnds
