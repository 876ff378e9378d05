CONSTANTS
    s1 = s1
    s2 = s2
    v1 = v1
    v2 = v2
    v3 = v3
    c1 = c1
    c2 = c2
    k1 = k1
    k2 = k2
    NoRequest = NoRequest
    Sales = {s1, s2}
    ProportionalSales = {s2}
    Variants = {v1, v2, v3}
    Clients = {c1, c2}
    Keys = {k1, k2}
    Settlements = {3}
    Price <- MixedPrices
    MaxPrice = 2
    MaxQuantity = 2
    MaxPhysical = 2
    MaxDelta = 1
SPECIFICATION ScenarioSpec
SYMMETRY Symmetric
INVARIANTS
    NeverStranded
    MoneyMatchesSale
    HoldsCoverLines
    CustomerKeepsValue
PROPERTIES
    PaidContentFrozen
    KeepsPromise
