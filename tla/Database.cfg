CONSTANTS
    t1 = t1
    t2 = t2
    t3 = t3
    t4 = t4
    t5 = t5
    p1 = p1
    p2 = p2
    n1 = n1
    n2 = n2
    shirt = shirt
    suit = suit
    None = None
    Nothing = Nothing
    Sessions = {n1, n2}
    Sales = {shirt, suit}
    Proportional = {suit}
    Price <- MCPrice
    PayKeys = {p1, p2}
    Keys = {t1, t2, t3}
    MaxCash = 3
    Writers = {t1, t2, t3}
    Txs = {t1, t2, t3, t4, t5}
    StartingCash = 1
    MaxAmount = 2
SPECIFICATION DatabaseSpec
CHECK_DEADLOCK FALSE
INVARIANTS
    OpenSessionReconciles
    BooksStayRight
    RefundsFollowVoids
    OneMovementPerKey
    NeverBoth
PROPERTIES
    ChargesAreAtomic
    DrawerIsAtomic
