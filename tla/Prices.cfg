SPECIFICATION PricesSpec
CONSTANTS
    v1 = v1
    v2 = v2
    c1 = c1
    seller = seller
    cashier = cashier
    Variants <- MCVariants
    Clients <- MCClients
    Seller = seller
    Cashiers <- MCCashiers
    PriceLists <- MCPriceLists
    Adjustments <- MCAdjustments
    BASIS_POINTS = 100
    Quantities <- MCQuantities
    MaxQuantity = 2
    PartPayments <- MCPartPayments
    NoPrice = NoPrice
    NoLine = NoLine
    NoRequest = NoRequest
    Nobody = Nobody
    PESO = 10
    WHOLE_BPS = 100
    MAX_INT8 = 150
    Cash = Cash
    Debit = Debit
    Credit = Credit
    PaymentMethods <- MCMethods
    LineSets <- MCLineSets
    AdjustmentsBps <- MCAdjustmentsBps
    Amounts <- MCAmounts
    MaxTenders = 2
    None = None
    s1 = s1
    k1 = k1
    k2 = k2
    card = card
    transfer = transfer
    shirt = shirt
    dress = dress
    NoAttempt = NoAttempt
    NoReference = NoReference
SYMMETRY Symmetric
CHECK_DEADLOCK FALSE
INVARIANTS
    OnePriceMode
    ChargedAsConfirmed
    QuoteRight
    PaysForItsLines
