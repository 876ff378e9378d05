CONSTANTS
    s1 = s1
    c1 = c1
    c2 = c2
    d1 = d1
    d2 = d2
    p1 = p1
    p2 = p2
    b1 = b1
    b2 = b2
    None = None
    Branches = {b1, b2}
    MaxSessions = 2
    MaxKeys = 2
    MaxCalls = 3
    Modes = TRUE
    Sales = {s1}
    CashSessions = {c1, c2}
    Drafts = {d1, d2}
    Prices = {p1, p2}
    MaxChargeKeys = 2
    Faults = {"lost", "late", "reload", "switch"}
    Scenarios = {"switched"}
    t1 = t1
    t2 = t2
    shirt = shirt
    dress = dress
    Tabs = {t1, t2}
    Items = {shirt, dress}
    Sold = 2
    Returns = {1}
    MaxElsewhere = 1
    MaxExchangeKeys = 2
    ExchangeFaults = {"write", "read", "lock", "late", "permission"}
SPECIFICATION BrowserSpec
SYMMETRY Symmetric
INVARIANTS
    NothingForgotten
