SPECIFICATION Spec
CONSTANTS
    Flows = {f1, f2}
    Effects = {e1, e2}
    Browsers = {b1}
    Codes = {c1}
    Denied = Denied
    None = None
    Ttl = 1
    Retries = 1
    MaxTime = 1
SYMMETRY Symmetric
INVARIANTS TypeOK CodeSentOnce OneFlowAtATime
