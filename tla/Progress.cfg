CONSTANTS
    r1 = r1
    r2 = r2
    a1 = a1
    a2 = a2
    Runs = {r1, r2}
    Auths = {a1, a2}
    Skus = {sk1, sk2}
    Stock = 1
    MaxOther = 1
    Nobody = Nobody
    Shop = Shop
    sk1 = sk1
    sk2 = sk2
    ana = ana
    bea = bea
    c1 = c1
    c2 = c2
    k1 = k1
    b1 = b1
    s1 = s1
    d1 = d1
    d2 = d2
    p1 = p1
    p2 = p2
    None = None
SPECIFICATION ProgressSpec
CHECK_DEADLOCK FALSE
INVARIANTS
    CreatedAtOnce
    VerdictIsTrue
PROPERTIES
    SweepsKeepComing
    OpenProcessEnds
    LocksComeBack
    ScreensComeBack
