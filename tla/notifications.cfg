SPECIFICATION MCSpec
CONSTANTS
    None = None
    Browsers = {b1}
    Tabs = {t1, t2}
    MaxIds = 2
    MaxEndpoints = 2
    MaxRequests = 2
    Clients = {w1, w2}
    NoClient = None
    MaxRuns = 4
SYMMETRY Symmetric
CONSTRAINT Few
INVARIANTS PushFindsItsRequest PostedIsOnItsWay OneSocket
CHECK_DEADLOCK FALSE
