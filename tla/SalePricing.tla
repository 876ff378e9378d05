---------------------------- MODULE SalePricing ----------------------------
(***************************************************************************)
(* What a sale charges for each of its lines: the price mode, the          *)
(* wholesale activation by its seller and confirmation by a cashier, and   *)
(* the edits, corrections and payments that meet them                      *)
(* (src/api/src/modules/sales/sales.service.ts,                            *)
(* wholesale-authorization.service.ts, src/api/src/modules/pricing).       *)
(*                                                                         *)
(* One sale.  Every transaction takes its row first and keeps it to the    *)
(* end, so it is one action.  An add or an update of an item reads the     *)
(* sale, and the variant's prices, before its transaction: two actions.    *)
(* The catalog and the company's adjustments change at any time.           *)
(*                                                                         *)
(* Abstractions: a line is the variant's; stock is SaleStock's, the        *)
(* settlement of a proportional sale is Checkout's; the wholesale code is  *)
(* right (a wrong one changes nothing); the price modes with an adjustment *)
(* that no cash payment fits are one.                                      *)
(***************************************************************************)
EXTENDS Integers, FiniteSetsExt

CONSTANTS
    Variants,       \* the variants the sale may carry
    Clients,        \* the item edits that may be in flight together
    Seller,         \* who opened the sale
    Cashiers,       \* who charges at its branch: the seller may be one of them
    PriceLists,     \* the cash and wholesale prices the catalog may give a variant
    Adjustments,    \* the adjustments, in basis points, the company may configure
    BASIS_POINTS,   \* the basis points that make a whole
    Quantities,     \* the quantities of an edit
    MaxQuantity,    \* the largest quantity of a line
    PartPayments,   \* the amounts of a payment that does not pay the rest
    NoPrice,        \* a price the catalog does not hold
    NoLine,         \* a variant the sale does not carry
    NoRequest,      \* a client with no edit in flight
    Nobody          \* the confirmer of an unconfirmed sale

ASSUME PricesAssumption ==
    /\ PriceLists \subseteq [cash : (Nat \ {0}) \cup {NoPrice},
                      wholesale : (Nat \ {0}) \cup {NoPrice}]
    /\ Adjustments \subseteq Nat
    /\ BASIS_POINTS \in Nat \ {0}
    /\ NoPrice \notin Nat
ASSUME QuantitiesAssumption ==
    /\ MaxQuantity \in Nat
    /\ Quantities \subseteq 1..MaxQuantity
    /\ PartPayments \subseteq Nat \ {0}
ASSUME NobodyAssumption == Nobody \notin Cashiers

VARIABLES
    sale,           \* the Sale row with its SaleItem rows and the sum of its payments
    catalog,        \* cashPrice and wholesalePrice of each variant
    config,         \* the company's adjustment of each price mode
    request,        \* the edit each client has read for and not yet written
    confirmedLines  \* the lines the sale had when a cashier confirmed it

vars == <<sale, catalog, config, request, confirmedLines>>

Tiers == {"LIST", "WHOLESALE"}
PriceModes == {"CASH", "LIST", "CARD"}
Models == {"FIXED_TOTAL", "PROPORTIONAL_V1"}
Statuses == {"DRAFT", "PENDING_PAYMENT", "PAID", "COMPLETED", "CANCELLED"}

SnapshotsOfPrice == [tier : Tiers, mode : PriceModes, base : Nat, unit : Nat]
Line == [quantity : 1..MaxQuantity, price : SnapshotsOfPrice, subtotal : Nat]

\* WHOLESALE_PRICE_ABOVE_CASH: a wholesale price is not above the retail one.
MayPrice(p) == p.cash # NoPrice /\ p.wholesale # NoPrice => p.wholesale <= p.cash

Init ==
    /\ \E model \in Models :
          sale = [status |-> "DRAFT", model |-> model, pricingMode |-> "LIST",
                  priceMode |-> "CASH", lines |-> [v \in Variants |-> NoLine],
                  total |-> 0, paid |-> 0, confirmedBy |-> Nobody]
    /\ catalog \in [Variants -> {p \in PriceLists : MayPrice(p)}]
    /\ config = [m \in PriceModes |-> 0]
    /\ request = [c \in Clients |-> NoRequest]
    /\ confirmedLines = [v \in Variants |-> NoLine]

-----------------------------------------------------------------------------
(***************************************************************************)
(* Prices.                                                                 *)
(***************************************************************************)

BasePrice(tier, prices) == IF tier = "LIST" THEN prices.cash ELSE prices.wholesale

\* Half a unit is rounded up.
RoundHalfUpBps(base, bps) ==
    (base * (BASIS_POINTS + bps) + BASIS_POINTS \div 2) \div BASIS_POINTS

\* The price a line takes now, from prices that hold one of its tier.
UnitPriceFor(tier, prices, mode) ==
    [tier |-> tier, mode |-> mode, base |-> BasePrice(tier, prices),
     unit |-> RoundHalfUpBps(BasePrice(tier, prices),
                             IF mode = "CASH" THEN 0 ELSE config[mode])]

LineOf(quantity, price) ==
    [quantity |-> quantity, price |-> price, subtotal |-> quantity * price.unit]

Carried(lines) == {v \in Variants : lines[v] # NoLine}

RecalculatedTotal(lines) == MapThenSumSet(LAMBDA v : lines[v].subtotal, Carried(lines))

WithLines(lines) == [sale EXCEPT !.lines = lines, !.total = RecalculatedTotal(lines)]

-----------------------------------------------------------------------------
(***************************************************************************)
(* The seller edits the draft.                                             *)
(***************************************************************************)

\* The sale and the variant as they are read before the transaction.
Prepare(c, kind, v) ==
    /\ request[c] = NoRequest
    /\ sale.status = "DRAFT"
    /\ kind = "update" => sale.lines[v] # NoLine
    /\ request' = [request EXCEPT ![c] =
                      [kind |-> kind, variant |-> v, prices |-> catalog[v],
                       mode |-> sale.priceMode]]
    /\ UNCHANGED <<sale, catalog, config, confirmedLines>>

\* Not the code: the price in the mode the sale had when it was read.
PriceOfRead(r) == UnitPriceFor(sale.pricingMode, r.prices, r.mode)

\* A line that is new takes the price of the modes the locked row shows.
PriceOfNew(r) == UnitPriceFor(sale.pricingMode, r.prices, sale.priceMode)

\* The line is read again under the lock: it may have been repriced.
UpdatedLine(r, quantity) == LineOf(quantity, sale.lines[r.variant].price)

AddItem(c, quantity) ==
    LET r == request[c] IN
    /\ r # NoRequest /\ r.kind = "add"
    /\ sale.status = "DRAFT"
    /\ IF sale.lines[r.variant] # NoLine
       THEN /\ sale.lines[r.variant].quantity + quantity <= MaxQuantity
            /\ sale' = WithLines([sale.lines EXCEPT ![r.variant] =
                                     LineOf(@.quantity + quantity, @.price)])
       ELSE /\ BasePrice(sale.pricingMode, r.prices) # NoPrice
            /\ sale' = WithLines([sale.lines EXCEPT ![r.variant] =
                                     LineOf(quantity, PriceOfNew(r))])
    /\ request' = [request EXCEPT ![c] = NoRequest]
    /\ UNCHANGED <<catalog, config, confirmedLines>>

UpdateItem(c, quantity) ==
    LET r == request[c] IN
    /\ r # NoRequest /\ r.kind = "update"
    /\ sale.status = "DRAFT"
    /\ sale.lines[r.variant] # NoLine
    /\ sale' = WithLines([sale.lines EXCEPT ![r.variant] = UpdatedLine(r, quantity)])
    /\ request' = [request EXCEPT ![c] = NoRequest]
    /\ UNCHANGED <<catalog, config, confirmedLines>>

\* A line added later has another id: the updates that read this one find nothing.
RemoveItem(v) ==
    /\ sale.status = "DRAFT"
    /\ sale.lines[v] # NoLine
    /\ sale' = WithLines([sale.lines EXCEPT ![v] = NoLine])
    /\ request' = [c \in Clients |->
                      IF /\ request[c] # NoRequest
                         /\ request[c].kind = "update" /\ request[c].variant = v
                      THEN NoRequest
                      ELSE request[c]]
    /\ UNCHANGED <<catalog, config, confirmedLines>>

\* The sale has left DRAFT, or the catalog has no price of its tier.
RefuseItem(c) ==
    /\ request[c] # NoRequest
    /\ \/ sale.status # "DRAFT"
       \/ /\ request[c].kind = "add"
          /\ sale.lines[request[c].variant] = NoLine
          /\ BasePrice(sale.pricingMode, request[c].prices) = NoPrice
    /\ request' = [request EXCEPT ![c] = NoRequest]
    /\ UNCHANGED <<sale, catalog, config, confirmedLines>>

\* Every line takes the catalog's price of the new modes.
Repriced(tier, mode) ==
    [v \in Variants |->
        IF sale.lines[v] = NoLine THEN NoLine
        ELSE LineOf(sale.lines[v].quantity, UnitPriceFor(tier, catalog[v], mode))]

\* A line without a price of the tier fails the whole repricing.
MayReprice(tier) == \A v \in Carried(sale.lines) : BasePrice(tier, catalog[v]) # NoPrice

ActivateWholesale ==
    /\ sale.status = "DRAFT"
    /\ sale.pricingMode = "LIST"
    /\ MayReprice("WHOLESALE")
    /\ sale' = [WithLines(Repriced("WHOLESALE", sale.priceMode)) EXCEPT
                   !.pricingMode = "WHOLESALE"]
    /\ UNCHANGED <<catalog, config, request, confirmedLines>>

\* PRICE_MODE_NOT_APPLICABLE: a proportional sale is priced in cash all its life.
PriceModeApplies(mode) == sale.model = "PROPORTIONAL_V1" => mode = "CASH"

UpdatePriceMode(mode) ==
    /\ sale.status = "DRAFT"
    /\ PriceModeApplies(mode)
    /\ sale.priceMode # mode
    /\ MayReprice(sale.pricingMode)
    /\ sale' = [WithLines(Repriced(sale.pricingMode, mode)) EXCEPT
                   !.priceMode = mode,
                   !.confirmedBy = IF sale.pricingMode = "WHOLESALE" THEN Nobody ELSE @]
    /\ UNCHANGED <<catalog, config, request, confirmedLines>>

SendToCashier ==
    /\ sale.status = "DRAFT"
    /\ Carried(sale.lines) # {}
    /\ sale' = [sale EXCEPT !.status = "PENDING_PAYMENT"]
    /\ UNCHANGED <<catalog, config, request, confirmedLines>>

-----------------------------------------------------------------------------
(***************************************************************************)
(* The cashier confirms, corrects, cancels and charges.                    *)
(***************************************************************************)

\* WHOLESALE_SELF_CONFIRMATION: never the seller, who may be a cashier too.
MayConfirm(u) == u # Seller

ConfirmWholesale(u) ==
    /\ MayConfirm(u)
    /\ sale.pricingMode = "WHOLESALE"
    /\ sale.confirmedBy = Nobody
    /\ sale.status = "PENDING_PAYMENT"
    /\ sale' = [sale EXCEPT !.confirmedBy = u]
    /\ confirmedLines' = sale.lines
    /\ UNCHANGED <<catalog, config, request>>

\* Not the code: a correction that leaves the confirmation.
ConfirmationKept == sale.confirmedBy

MayCorrect == sale.status = "PENDING_PAYMENT" /\ sale.paid = 0
ConfirmationAfterCorrection ==
    IF sale.pricingMode = "WHOLESALE" THEN Nobody ELSE sale.confirmedBy

\* The lines a correction to these quantities leaves: a line that stays keeps its price.
Corrected(quantity) ==
    [v \in Variants |->
        IF quantity[v] = 0 THEN NoLine
        ELSE LineOf(quantity[v],
                    IF sale.lines[v] # NoLine THEN sale.lines[v].price
                    ELSE UnitPriceFor(sale.pricingMode, catalog[v], sale.priceMode))]

QuantityOf(v) == IF sale.lines[v] = NoLine THEN 0 ELSE sale.lines[v].quantity

CorrectPendingSale(quantity) ==
    /\ MayCorrect
    /\ \E v \in Variants : quantity[v] > 0
    /\ \E v \in Variants : quantity[v] # QuantityOf(v)
    /\ \A v \in Variants \ Carried(sale.lines) :
          quantity[v] > 0 => BasePrice(sale.pricingMode, catalog[v]) # NoPrice
    /\ sale' = [WithLines(Corrected(quantity)) EXCEPT
                   !.confirmedBy = ConfirmationAfterCorrection]
    /\ UNCHANGED <<catalog, config, request, confirmedLines>>

CancelSale ==
    /\ sale.paid = 0
    /\ sale.status \in {"DRAFT", "PENDING_PAYMENT"}
    /\ sale' = [sale EXCEPT !.status = "CANCELLED"]
    /\ UNCHANGED <<catalog, config, request, confirmedLines>>

PricingFinalizable == sale.pricingMode = "WHOLESALE" => sale.confirmedBy # Nobody

\* A fixed-total sale takes cash alone, and cash fits the prices in cash and of list.
RegisterPayment(amount) ==
    /\ sale.model = "FIXED_TOTAL"
    /\ sale.status = "PENDING_PAYMENT"
    /\ PricingFinalizable
    /\ sale.priceMode \in {"CASH", "LIST"}
    /\ amount <= sale.total - sale.paid
    /\ sale' = [sale EXCEPT !.paid = @ + amount,
                            !.status = IF sale.paid + amount = sale.total
                                       THEN "PAID" ELSE @]
    /\ UNCHANGED <<catalog, config, request, confirmedLines>>

\* Every line is priced in cash and in the tier of the sale.
SnapshotConsistent ==
    /\ sale.priceMode = "CASH"
    /\ \A v \in Carried(sale.lines) :
          /\ sale.lines[v].price.mode = "CASH"
          /\ sale.lines[v].price.tier = sale.pricingMode

\* The checkout of a proportional sale, from the moment it can no more be undone.
ConfirmAttempt ==
    /\ sale.model = "PROPORTIONAL_V1"
    /\ sale.status = "PENDING_PAYMENT"
    /\ PricingFinalizable
    /\ SnapshotConsistent
    /\ sale' = [sale EXCEPT !.paid = sale.total, !.status = "COMPLETED"]
    /\ UNCHANGED <<catalog, config, request, confirmedLines>>

CompleteSale ==
    /\ sale.status = "PAID"
    /\ PricingFinalizable
    /\ sale' = [sale EXCEPT !.status = "COMPLETED"]
    /\ UNCHANGED <<catalog, config, request, confirmedLines>>

-----------------------------------------------------------------------------
(***************************************************************************)
(* The owner changes the prices meanwhile.                                 *)
(***************************************************************************)

UpdateVariantPrice(v, prices) ==
    /\ prices # catalog[v]
    /\ MayPrice(prices)
    /\ catalog[v].cash # NoPrice => prices.cash # NoPrice
    /\ catalog' = [catalog EXCEPT ![v] = prices]
    /\ UNCHANGED <<sale, config, request, confirmedLines>>

UpdateConfig(mode, bps) ==
    /\ mode # "CASH"
    /\ config' = [config EXCEPT ![mode] = bps]
    /\ UNCHANGED <<sale, catalog, request, confirmedLines>>

EditStep ==
    \/ \E c \in Clients, kind \in {"add", "update"}, v \in Variants : Prepare(c, kind, v)
    \/ \E c \in Clients, q \in Quantities : AddItem(c, q) \/ UpdateItem(c, q)
    \/ \E c \in Clients : RefuseItem(c)
    \/ \E v \in Variants : RemoveItem(v)

SaleStep ==
    \/ ActivateWholesale
    \/ \E m \in PriceModes : UpdatePriceMode(m)
    \/ SendToCashier
    \/ \E u \in Cashiers : ConfirmWholesale(u)
    \/ \E quantity \in [Variants -> Quantities \cup {0}] : CorrectPendingSale(quantity)
    \/ CancelSale
    \/ \E amount \in PartPayments \cup {sale.total - sale.paid} : RegisterPayment(amount)
    \/ ConfirmAttempt
    \/ CompleteSale

PriceStep ==
    \/ \E v \in Variants, p \in PriceLists : UpdateVariantPrice(v, p)
    \/ \E m \in PriceModes, bps \in Adjustments : UpdateConfig(m, bps)

Next == EditStep \/ SaleStep \/ PriceStep

Spec == Init /\ [][Next]_vars

-----------------------------------------------------------------------------
(***************************************************************************)
(* Properties.                                                             *)
(***************************************************************************)

Requests == [kind : {"add", "update"}, variant : Variants, prices : PriceLists,
             mode : PriceModes]

TypeOK ==
    /\ sale \in [status : Statuses, model : Models, pricingMode : Tiers,
                 priceMode : PriceModes, lines : [Variants -> Line \cup {NoLine}],
                 total : Nat, paid : Nat, confirmedBy : Cashiers \cup {Nobody}]
    /\ catalog \in [Variants -> PriceLists]
    /\ config \in [PriceModes -> Adjustments \cup {0}]
    /\ request \in [Clients -> Requests \cup {NoRequest}]
    /\ confirmedLines \in [Variants -> Line \cup {NoLine}]

\* Every line is priced in the tier and in the mode of its sale, whatever activation or
\* change of mode ran between an edit's reads and its write, and a proportional sale in
\* cash: its checkout never meets PRICING_SNAPSHOT_INCONSISTENT.
OnePriceMode ==
    /\ \A v \in Carried(sale.lines) :
          /\ sale.lines[v].price.tier = sale.pricingMode
          /\ sale.lines[v].price.mode = sale.priceMode
    /\ sale.model = "PROPORTIONAL_V1" => sale.priceMode = "CASH"

\* A wholesale sale that took money was confirmed, by a cashier who did not sell it, with
\* the very lines it charges: nothing was corrected after the confirmation.
ChargedAsConfirmed ==
    sale.pricingMode = "WHOLESALE" /\ sale.paid > 0 =>
        /\ sale.confirmedBy \in Cashiers \ {Seller}
        /\ sale.lines = confirmedLines

\* From the first payment on, nothing the customer was charged for changes: neither lines,
\* nor prices, nor modes, nor who confirmed them.
FrozenOnceCharged ==
    [][sale.paid > 0 =>
          /\ sale'.lines = sale.lines
          /\ sale'.total = sale.total
          /\ sale'.pricingMode = sale.pricingMode
          /\ sale'.priceMode = sale.priceMode
          /\ sale'.confirmedBy = sale.confirmedBy]_vars

=============================================================================
