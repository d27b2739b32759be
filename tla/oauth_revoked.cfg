SPECIFICATION Spec
CONSTANTS
    k1 = k1
    k2 = k2
    n1 = n1
    n2 = n2
    g1 = g1
    g2 = g2
    t1 = t1
    t2 = t2
    None = None
    Conns = {k1, k2}
    Names = {n1, n2}
    Grants = {g1, g2}
    Tabs = {t1, t2}
    MaxRotations = 1
    MaxSaves = 1
PROPERTIES RefreshRevivesNothing
