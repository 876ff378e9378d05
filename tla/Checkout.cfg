CONSTANTS
    k1 = k1
    k2 = k2
    k3 = k3
    card = card
    cash = cash
    shirt = shirt
    coat = coat
    s1 = s1
    s2 = s2
    Sales = {s1, s2}
    Keys = {k1, k2, k3}
    External = {card}
    Cash = cash
    Lines = {shirt, coat}
    Pricings = {1}
    FullPrice <- MCFullPrice
    FixedAmounts = {2}
    References = {1, 2}
    MaxSession = 2
    Scenarios = {"retries", "two sales"}
    NoAttempt = NoAttempt
    NoReference = NoReference
SYMMETRY Symmetric
SPECIFICATION ScenarioSpec
CHECK_DEADLOCK FALSE
INVARIANTS
    PaidOnce
    NoDoubleCharge
    NoMoneyForgotten
    ReferenceRecordedOnce
PROPERTIES
    AnswersFinal
    KeepsChargePromise
