SPECIFICATION BrowserSpec
CONSTANTS
    t1 = t1
    t2 = t2
    u1 = u1
    u2 = u2
    r1 = r1
    r2 = r2
    Tabs = {t1, t2}
    Users = {u1}
    ApiCalls = {r1, r2}
    MaxPairs = 3
    MaxTroubles = 1
INVARIANTS ReuseExplained StoreIsSession WaitersHaveFlight
SYMMETRY Symmetry
CHECK_DEADLOCK FALSE
