------------------------------ MODULE SaleStock ------------------------------
(***************************************************************************)
(* The life of a sale in one branch and the stock it moves:                *)
(* src/api/src/modules/sales and src/api/src/modules/inventory.            *)
(*                                                                         *)
(* Every operation of the API is one database transaction that takes the   *)
(* Sale row first, then the StockReservation rows, then the Inventory rows *)
(* in id order, and is serializable with the others; so an operation is    *)
(* one action here.  What is NOT inside the transaction is an action of    *)
(* its own: the three handlers that edit a draft read the stock and the    *)
(* sale before their transaction begins, and act on what they read later.  *)
(*                                                                         *)
(* Abstractions: one branch (no operation crosses branches); a sale has    *)
(* one line per variant, so its lines are a row of quantities; the ACTIVE  *)
(* StockReservation rows of a sale are the row of quantities they hold;    *)
(* the permission checks are left out (they depend on nothing below).      *)
(***************************************************************************)
EXTENDS Integers, FiniteSets

CONSTANTS
    Sales,          \* the sales the branch will ever open
    Variants,       \* the product variants it sells
    Clients,        \* the draft-editing requests that may be in flight together
    Keys,           \* idempotency keys of exchange requests
    ProportionalSales, \* the sales created PROPORTIONAL_V1, the others being FIXED_TOTAL
    Price,          \* the catalog price of each variant
    MaxPrice,       \* the largest of them
    Settlements,    \* the totals a proportional checkout can settle at
    MaxQuantity,    \* the largest quantity of a line; bound: units of a variant replaced in a sale
    MaxPhysical,    \* the largest balance an inventory row can store
    MaxDelta,       \* the largest manual adjustment
    NoRequest       \* a client with nothing in flight

ASSUME SalesAssumption == IsFiniteSet(Sales) /\ ProportionalSales \subseteq Sales
ASSUME VariantsAssumption == IsFiniteSet(Variants)
ASSUME BoundsAssumption ==
    /\ MaxPrice \in Nat
    /\ MaxQuantity \in Nat
    /\ MaxPhysical \in Nat
    /\ MaxDelta \in Nat
ASSUME PriceAssumption ==
    /\ Price \in [Variants -> 1..MaxPrice]
    /\ Settlements \subseteq Nat \ {0}

VARIABLES
    status,         \* Sale.status
    items,          \* the SaleItem quantities of each sale
    total,          \* Sale.total
    number,         \* Sale.saleNumber (0 while it has none)
    accepted,       \* the sum of the sale's SalePayment rows
    hold,           \* the quantities held by the sale's ACTIVE StockReservation rows
    sold,           \* the units out by its SALE stock movements
    restored,       \* the units back by its SALE_VOID stock movements
    returned,       \* the units back by its SALE_EXCHANGE_IN stock movements
    replaced,       \* the units out by its SALE_EXCHANGE_OUT stock movements
    exchanges,      \* the idempotency keys of its SaleExchange rows
    voided,         \* whether it has a SaleVoid row
    physical,       \* Inventory.physical
    reserved,       \* Inventory.reserved
    loaded,         \* the sum of the INITIAL_STOCK and ADJUSTMENT stock movements
    nextValue,      \* SaleNumberCounter.nextValue
    request         \* the draft edit each client has validated and not yet written

saleVars == <<status, items, total, number, accepted, hold>>
afterSaleVars == <<sold, restored, returned, replaced, exchanges, voided>>
stockVars == <<physical, reserved, loaded>>
vars == <<saleVars, afterSaleVars, stockVars, nextValue, request>>

Quantities == 0..MaxQuantity
Rows == [Variants -> Quantities]
EmptyRow == [v \in Variants |-> 0]

Statuses == {"NONE", "DRAFT", "PENDING_PAYMENT", "PAID", "COMPLETED", "CANCELLED"}
\* An edit names its line by id; it is orphaned when that line is removed, since a line
\* added later for the same variant has another id.
Requests == [kind : {"add", "update", "remove", "orphan"}, sale : Sales, variant : Variants,
             quantity : Quantities]

\* No sale ever has more units of a variant with its customer.
MaxUnits == 2 * MaxQuantity

\* What a row of units costs at the catalog price: one element per peso of each unit.
LineTotal(row) ==
    Cardinality({u \in Variants \X (1..MaxUnits) \X (1..MaxPrice) :
                    u[2] <= row[u[1]] /\ u[3] <= Price[u[1]]})

\* The sum of f over the sales, counted as a set with one element per unit, so that what
\* a change of one sale does to it follows from facts about cardinality.
SumOverSales(f) == Cardinality({u \in Sales \X (1..MaxUnits) : u[2] <= f[u[1]]})

\* The units of v the ACTIVE holds hold over all sales.
TotalHeld(v) == SumOverSales([s \in Sales |-> hold[s][v]])

\* The units that left with the customer of s and did not come back.
WithCustomer(s) ==
    [v \in Variants |->
        ((sold[s][v] - restored[s][v]) - returned[s][v]) + replaced[s][v]]

\* The units of v that are with the customers of all sales.
TotalDelivered(v) == SumOverSales([s \in Sales |-> WithCustomer(s)[v]])

Init ==
    /\ status = [s \in Sales |-> "NONE"]
    /\ items = [s \in Sales |-> EmptyRow]
    /\ total = [s \in Sales |-> 0]
    /\ number = [s \in Sales |-> 0]
    /\ accepted = [s \in Sales |-> 0]
    /\ hold = [s \in Sales |-> EmptyRow]
    /\ sold = [s \in Sales |-> EmptyRow]
    /\ restored = [s \in Sales |-> EmptyRow]
    /\ returned = [s \in Sales |-> EmptyRow]
    /\ replaced = [s \in Sales |-> EmptyRow]
    /\ exchanges = [s \in Sales |-> {}]
    /\ voided = [s \in Sales |-> FALSE]
    /\ physical = EmptyRow
    /\ reserved = EmptyRow
    /\ loaded = EmptyRow
    /\ nextValue = 1
    /\ request = [c \in Clients |-> NoRequest]

-----------------------------------------------------------------------------
(***************************************************************************)
(* Stock that comes from or goes to outside the shop.                      *)
(***************************************************************************)

LoadInitialStock(v, n) ==
    /\ physical[v] + n <= MaxPhysical
    /\ physical' = [physical EXCEPT ![v] = @ + n]
    /\ loaded' = [loaded EXCEPT ![v] = @ + n]
    /\ UNCHANGED <<saleVars, afterSaleVars, reserved, nextValue, request>>

\* Not the code: an adjustment that looks at the balance only.
MayAdjustIgnoringHolds(v, delta) == physical[v] + delta >= 0

\* STOCK_BELOW_RESERVED: what is promised to a sale is not adjusted away.
MayAdjust(v, delta) ==
    /\ physical[v] + delta >= 0
    /\ physical[v] + delta >= reserved[v]

AdjustStock(v, delta) ==
    /\ delta # 0
    /\ MayAdjust(v, delta)
    /\ physical[v] + delta <= MaxPhysical
    /\ physical' = [physical EXCEPT ![v] = @ + delta]
    /\ loaded' = [loaded EXCEPT ![v] = @ + delta]
    /\ UNCHANGED <<saleVars, afterSaleVars, reserved, nextValue, request>>

-----------------------------------------------------------------------------
(***************************************************************************)
(* Drafts.  addItem, updateItem and removeItem load the sale and check the *)
(* availability with plain reads (Prepare...), then write under the Sale   *)
(* lock (WriteItem), which re-checks the status and the line only.         *)
(***************************************************************************)

CreateDraftSale(s) ==
    /\ status[s] = "NONE"
    /\ status' = [status EXCEPT ![s] = "DRAFT"]
    /\ UNCHANGED <<items, total, number, accepted, hold, afterSaleVars, stockVars,
                   nextValue, request>>

Available(v) == physical[v] - reserved[v]

Prepared(c, kind, s, v, q) ==
    /\ request[c] = NoRequest
    /\ status[s] = "DRAFT"
    /\ request' = [request EXCEPT ![c] =
                      [kind |-> kind, sale |-> s, variant |-> v, quantity |-> q]]
    /\ UNCHANGED <<saleVars, afterSaleVars, stockVars, nextValue>>

PrepareAddItem(c, s, v, q) ==
    /\ Available(v) >= items[s][v] + q
    /\ Prepared(c, "add", s, v, q)

PrepareUpdateItem(c, s, v, q) ==
    /\ items[s][v] > 0
    /\ Available(v) >= q
    /\ Prepared(c, "update", s, v, q)

PrepareRemoveItem(c, s, v) ==
    /\ items[s][v] > 0
    /\ Prepared(c, "remove", s, v, 0)

\* The line of the request after it is written: addItem merges into the line it
\* finds under the lock, the other two overwrite it.
LineAfter(r) ==
    IF r.kind = "add" THEN items[r.sale][r.variant] + r.quantity ELSE r.quantity

\* Not the code: the status checked before the transaction only.
MayWriteItemUnlocked(r) ==
    /\ r.kind # "orphan"
    /\ r.kind = "add" \/ items[r.sale][r.variant] > 0
    /\ LineAfter(r) <= MaxQuantity

\* lockDraft, and the line re-read under the lock; MaxQuantity is the column's range.
MayWriteItem(r) ==
    /\ status[r.sale] = "DRAFT"
    /\ r.kind # "orphan"
    /\ r.kind = "add" \/ items[r.sale][r.variant] > 0
    /\ LineAfter(r) <= MaxQuantity

\* The requests in flight after c has written its own: none for c, and orphans for the
\* line it removed.
RequestsAfter(c) ==
    [d \in Clients |->
        IF d = c THEN NoRequest
        ELSE IF /\ request[c].kind = "remove"
                /\ request[d] # NoRequest
                /\ request[d].kind \in {"update", "remove"}
                /\ request[d].sale = request[c].sale
                /\ request[d].variant = request[c].variant
             THEN [request[d] EXCEPT !.kind = "orphan"]
             ELSE request[d]]

WriteItem(c) ==
    LET r == request[c]
        row == [items[r.sale] EXCEPT ![r.variant] = LineAfter(r)]
    IN  /\ r # NoRequest
        /\ MayWriteItem(r)
        /\ items' = [items EXCEPT ![r.sale] = row]
        /\ total' = [total EXCEPT ![r.sale] = LineTotal(row)]
        /\ request' = RequestsAfter(c)
        /\ UNCHANGED <<status, number, accepted, hold, afterSaleVars, stockVars,
                       nextValue>>

\* SALE_NOT_DRAFT or NOT_FOUND under the lock: the request dies and nothing changes.
RefuseItem(c) ==
    /\ request[c] # NoRequest
    /\ ~ MayWriteItem(request[c])
    /\ request' = [request EXCEPT ![c] = NoRequest]
    /\ UNCHANGED <<saleVars, afterSaleVars, stockVars, nextValue>>

-----------------------------------------------------------------------------
(***************************************************************************)
(* Holds: send to cashier, correction, cancellation.                       *)
(***************************************************************************)

\* Inventory.reserved when the ACTIVE holds of a sale go from the row old to the row new.
Rehold(old, new) == [v \in Variants |-> (reserved[v] - old[v]) + new[v]]

\* The rows are enough, on the locked inventory, for holding new in place of old.
MayRehold(old, new) ==
    \A v \in Variants :
        /\ new[v] > old[v] => Available(v) >= new[v] - old[v]
        /\ new[v] < old[v] => reserved[v] >= old[v] - new[v]

\* The next commercial number of the branch, taken under the counter's lock.
TakeNumber(s) ==
    /\ number' = [number EXCEPT ![s] = nextValue]
    /\ nextValue' = nextValue + 1

SendToCashier(s) ==
    /\ status[s] = "DRAFT"
    /\ items[s] # EmptyRow
    /\ MayRehold(EmptyRow, items[s])
    /\ reserved' = Rehold(EmptyRow, items[s])
    /\ hold' = [hold EXCEPT ![s] = items[s]]
    /\ TakeNumber(s)
    /\ status' = [status EXCEPT ![s] = "PENDING_PAYMENT"]
    /\ UNCHANGED <<items, total, accepted, afterSaleVars, physical, loaded, request>>

\* evaluateCurrentHoldCoverage: the ACTIVE holds are exactly the lines.
Covered(s) == items[s] # EmptyRow /\ hold[s] = items[s]

\* Not the code: a correction that does not look for payments.
MayCorrectPaid(s) == status[s] = "PENDING_PAYMENT" /\ Covered(s)

\* INVALID_SALE_STATE, PAYMENT_ALREADY_ACCEPTED, RESERVATION_EXPIRED.
MayCorrect(s) ==
    /\ status[s] = "PENDING_PAYMENT"
    /\ accepted[s] = 0
    /\ Covered(s)

CorrectPendingSale(s, target) ==
    /\ MayCorrect(s)
    /\ target # items[s]
    /\ target # EmptyRow
    /\ MayRehold(hold[s], target)
    /\ reserved' = Rehold(hold[s], target)
    /\ hold' = [hold EXCEPT ![s] = target]
    /\ items' = [items EXCEPT ![s] = target]
    /\ total' = [total EXCEPT ![s] = LineTotal(target)]
    /\ UNCHANGED <<status, number, accepted, afterSaleVars, physical, loaded,
                   nextValue, request>>

\* releaseReservations finds the units it gives back among the reserved ones.
MayRelease(s) == \A v \in Variants : reserved[v] >= hold[s][v]

Release(s) ==
    /\ reserved' = Rehold(hold[s], EmptyRow)
    /\ hold' = [hold EXCEPT ![s] = EmptyRow]

\* Not the code: a cancellation that does not look for payments.
MayCancelPaid(s) == status[s] \in {"DRAFT", "PENDING_PAYMENT"}

\* The existence of a SalePayment row, never their sum, blocks a cancellation.
MayCancel(s) ==
    /\ status[s] \in {"DRAFT", "PENDING_PAYMENT"}
    /\ accepted[s] = 0

CancelSale(s) ==
    /\ MayCancel(s)
    /\ status[s] = "DRAFT" => hold[s] = EmptyRow
    /\ MayRelease(s)
    /\ Release(s)
    /\ status' = [status EXCEPT ![s] = "CANCELLED"]
    /\ UNCHANGED <<items, total, number, accepted, afterSaleVars, physical, loaded,
                   nextValue, request>>

-----------------------------------------------------------------------------
(***************************************************************************)
(* Money and delivery.                                                     *)
(***************************************************************************)

\* A FIXED_TOTAL sale is paid in parts; the part that reaches the total makes it PAID.
MayAccept(s, amount) ==
    /\ status[s] = "PENDING_PAYMENT"
    /\ Covered(s)
    /\ amount <= total[s] - accepted[s]

RegisterPayment(s, amount) ==
    /\ s \notin ProportionalSales
    /\ MayAccept(s, amount)
    /\ accepted' = [accepted EXCEPT ![s] = @ + amount]
    /\ status' = [status EXCEPT ![s] =
                     IF accepted[s] + amount = total[s] THEN "PAID" ELSE @]
    /\ UNCHANGED <<items, total, number, hold, afterSaleVars, stockVars, nextValue,
                   request>>

\* What finalizePaidSaleInTransaction needs of the holds and the inventory.
MayDeliver(s) ==
    /\ Covered(s)
    /\ \A v \in Variants :
        /\ physical[v] >= items[s][v]
        /\ reserved[v] >= items[s][v]

\* Not the code: a delivery that ends the hold and leaves the balance.
DeliverKeepingPhysical(s) ==
    /\ UNCHANGED physical
    /\ reserved' = Rehold(items[s], EmptyRow)
    /\ sold' = [sold EXCEPT ![s] = items[s]]
    /\ hold' = [hold EXCEPT ![s] = EmptyRow]

\* The units leave: physical and reserved together, a SALE movement, holds CONSUMED.
Deliver(s) ==
    /\ physical' = [v \in Variants |-> physical[v] - items[s][v]]
    /\ reserved' = Rehold(items[s], EmptyRow)
    /\ sold' = [sold EXCEPT ![s] = items[s]]
    /\ hold' = [hold EXCEPT ![s] = EmptyRow]

CompleteSale(s) ==
    /\ status[s] = "PAID"
    /\ MayDeliver(s)
    /\ Deliver(s)
    /\ status' = [status EXCEPT ![s] = "COMPLETED"]
    /\ UNCHANGED <<items, total, number, accepted, restored, returned, replaced,
                   exchanges, voided, loaded, nextValue, request>>

\* The proportional checkout: total, payments, PAID and COMPLETED in one transaction.
Checkout(s, settlement) ==
    /\ s \in ProportionalSales
    /\ status[s] = "PENDING_PAYMENT"
    /\ accepted[s] = 0
    /\ MayDeliver(s)
    /\ total' = [total EXCEPT ![s] = settlement]
    /\ accepted' = [accepted EXCEPT ![s] = settlement]
    /\ Deliver(s)
    /\ status' = [status EXCEPT ![s] = "COMPLETED"]
    /\ UNCHANGED <<items, number, restored, returned, replaced, exchanges, voided,
                   loaded, nextValue, request>>

-----------------------------------------------------------------------------
(***************************************************************************)
(* After the sale: void and exchange, mutually exclusive for a sale.       *)
(***************************************************************************)

\* SALE_ALREADY_VOIDED, INVALID_SALE_STATE, SALE_HAS_EXCHANGES.
MayVoid(s) ==
    /\ ~ voided[s]
    /\ status[s] \in {"PAID", "COMPLETED"}
    /\ exchanges[s] = {}

VoidPaidSale(s) ==
    /\ MayVoid(s)
    /\ status[s] = "PAID"
    /\ MayRelease(s)
    /\ Release(s)
    /\ voided' = [voided EXCEPT ![s] = TRUE]
    /\ status' = [status EXCEPT ![s] = "CANCELLED"]
    /\ UNCHANGED <<items, total, number, accepted, sold, restored, returned, replaced,
                   exchanges, physical, loaded, nextValue, request>>

\* The units come back by the SALE movements, never by the lines.
VoidCompletedSale(s) ==
    /\ MayVoid(s)
    /\ status[s] = "COMPLETED"
    /\ sold[s] # EmptyRow
    /\ \A v \in Variants : physical[v] + sold[s][v] <= MaxPhysical
    /\ physical' = [v \in Variants |-> physical[v] + sold[s][v]]
    /\ restored' = [restored EXCEPT ![s] = sold[s]]
    /\ voided' = [voided EXCEPT ![s] = TRUE]
    /\ status' = [status EXCEPT ![s] = "CANCELLED"]
    /\ UNCHANGED <<items, total, number, accepted, hold, sold, returned, replaced,
                   exchanges, reserved, loaded, nextValue, request>>

\* Not the code: the whole line on offer at every exchange.
RemainderOfLine(s, v) == items[s][v]

\* What is left of a line to exchange: sold minus what earlier exchanges took back.
Remainder(s, v) == items[s][v] - returned[s][v]

\* One line of the request per exchanged variant a: give[a] units of a come back and as
\* many of swap[a] go out.  Demand sums the lines that draw the same replacement.
Demand(give, swap, w) ==
    Cardinality({u \in Variants \X (1..MaxQuantity) : swap[u[1]] = w /\ u[2] <= give[u[1]]})

\* The rows MayExchange can accept, which spares TLC the enumeration of the others.
Returnable(s) ==
    {give \in Rows : status[s] = "COMPLETED" /\ \A v \in Variants : give[v] <= Remainder(s, v)}

MayExchange(s, give, swap) ==
    \A a \in {v \in Variants : give[v] > 0} :
        /\ give[a] <= Remainder(s, a)
        /\ swap[a] # a
        /\ Price[swap[a]] = Price[a]

\* The last conjunct is a bound, not the code's: it ends the exchanges of a sale of finite units.
ExchangeSale(s, key, give, swap) ==
    /\ key \notin exchanges[s]
    /\ status[s] = "COMPLETED"
    /\ give # EmptyRow
    /\ MayExchange(s, give, swap)
    /\ \A v \in Variants :
        /\ Available(v) >= Demand(give, swap, v)
        /\ physical[v] + give[v] <= MaxPhysical
        /\ replaced[s][v] + Demand(give, swap, v) <= MaxQuantity
    /\ physical' = [v \in Variants |-> (physical[v] + give[v]) - Demand(give, swap, v)]
    /\ returned' = [returned EXCEPT ![s] = [v \in Variants |-> @[v] + give[v]]]
    /\ replaced' = [replaced EXCEPT ![s] =
                       [v \in Variants |-> @[v] + Demand(give, swap, v)]]
    /\ exchanges' = [exchanges EXCEPT ![s] = @ \cup {key}]
    /\ UNCHANGED <<saleVars, sold, restored, voided, reserved, loaded, nextValue, request>>

-----------------------------------------------------------------------------
Stock ==
    \E v \in Variants :
        \/ \E n \in 1..MaxPhysical : LoadInitialStock(v, n)
        \/ \E delta \in (-MaxDelta)..MaxDelta : AdjustStock(v, delta)

Draft ==
    \/ \E s \in Sales : CreateDraftSale(s)
    \/ \E c \in Clients, s \in Sales, v \in Variants :
        \/ \E q \in 1..MaxQuantity : PrepareAddItem(c, s, v, q)
        \/ \E q \in 1..MaxQuantity : PrepareUpdateItem(c, s, v, q)
        \/ PrepareRemoveItem(c, s, v)
    \/ \E c \in Clients : WriteItem(c) \/ RefuseItem(c)

Charge ==
    \E s \in Sales :
        \/ SendToCashier(s)
        \/ \E target \in Rows : CorrectPendingSale(s, target)
        \/ CancelSale(s)
        \/ \E amount \in 1..total[s] : RegisterPayment(s, amount)
        \/ CompleteSale(s)
        \/ \E settlement \in Settlements : Checkout(s, settlement)

AfterSale ==
    \E s \in Sales :
        \/ VoidPaidSale(s)
        \/ VoidCompletedSale(s)
        \/ \E key \in Keys, give \in Returnable(s), swap \in [Variants -> Variants] :
                ExchangeSale(s, key, give, swap)

Next == Stock \/ Draft \/ Charge \/ AfterSale

Spec == Init /\ [][Next]_vars

-----------------------------------------------------------------------------
(***************************************************************************)
(* Properties                                                              *)
(***************************************************************************)

\* Every column keeps its type and range.
TypeOK ==
    /\ status \in [Sales -> Statuses]
    /\ items \in [Sales -> Rows]
    /\ total \in [Sales -> Nat]
    /\ number \in [Sales -> Nat]
    /\ accepted \in [Sales -> Nat]
    /\ hold \in [Sales -> Rows]
    /\ sold \in [Sales -> Rows]
    /\ restored \in [Sales -> Rows]
    /\ returned \in [Sales -> Rows]
    /\ replaced \in [Sales -> Rows]
    /\ exchanges \in [Sales -> SUBSET Keys]
    /\ voided \in [Sales -> BOOLEAN]
    /\ physical \in [Variants -> 0..MaxPhysical]
    /\ reserved \in [Variants -> Nat]
    /\ loaded \in [Variants -> Int]
    /\ nextValue \in Nat \ {0}
    /\ request \in [Clients -> Requests \cup {NoRequest}]

\* Inventory.reserved, a counter every operation increments or overwrites on its own, is
\* always the sum of the ACTIVE reservation rows it stands for.
ReservedIsHeld == \A v \in Variants : reserved[v] = TotalHeld(v)

\* No oversell: what is promised to sales is on the shelf, although drafts are filled from
\* an availability read before their transaction.
NoOversell == \A v \in Variants : reserved[v] <= physical[v]

\* A sale that can be charged or delivered holds exactly its lines, and no other sale
\* holds anything: no draft edit that was validated before the sale was sent, no
\* correction and no release breaks the pair.
HoldsCoverLines ==
    \A s \in Sales :
        IF status[s] \in {"PENDING_PAYMENT", "PAID"}
        THEN items[s] # EmptyRow /\ hold[s] = items[s]
        ELSE hold[s] = EmptyRow

\* Every unit that came in is on the shelf or with a customer: the balance of each
\* inventory row is the sum of the stock movements written for it.
UnitsConserved ==
    \A v \in Variants : physical[v] + TotalDelivered(v) = loaded[v]

\* What a sale costs is the price of its lines, or what the checkout settled it at; the
\* customer has paid all of it before anything is delivered and never more; and a sale
\* that took money ends CANCELLED only through a void.
MoneyMatchesSale ==
    \A s \in Sales :
        /\ s \notin ProportionalSales \/ status[s] \notin {"COMPLETED", "CANCELLED"} =>
              total[s] = LineTotal(items[s])
        /\ accepted[s] <= total[s]
        /\ status[s] \in {"PAID", "COMPLETED"} => accepted[s] = total[s] /\ total[s] > 0
        /\ status[s] = "PENDING_PAYMENT" => accepted[s] < total[s]
        /\ status[s] \in {"NONE", "DRAFT"} => accepted[s] = 0
        /\ IF status[s] = "CANCELLED" THEN accepted[s] > 0 <=> voided[s] ELSE ~ voided[s]

\* The errors that would strand a sale (INVALID_RESERVATION, INSUFFICIENT_PHYSICAL and
\* INSUFFICIENT_RESERVED) are never met: a PAID sale can be delivered and a sale that
\* holds stock can give it back, whatever the other sales and the warehouse did.
NeverStranded ==
    \A s \in Sales :
        /\ status[s] = "PAID" => MayDeliver(s)
        /\ status[s] \in {"PENDING_PAYMENT", "PAID"} => MayRelease(s)

\* The stock movements of a sale tell its whole story: nothing before the delivery, the
\* lines once it is delivered, and after a void as many units back as out.  Exchanges and
\* a void never write movements for the same sale, so neither can give back what the
\* other already did.
MovementsMatchLife ==
    \A s \in Sales :
        /\ status[s] = "COMPLETED" => sold[s] = items[s]
        /\ status[s] = "CANCELLED" => sold[s] = restored[s]
        /\ status[s] \notin {"COMPLETED", "CANCELLED"} => sold[s] = EmptyRow
        /\ status[s] # "CANCELLED" => restored[s] = EmptyRow
        /\ exchanges[s] # {} => status[s] = "COMPLETED"
        /\ exchanges[s] = {} => returned[s] = EmptyRow /\ replaced[s] = EmptyRow
        /\ \A v \in Variants : returned[s][v] <= sold[s][v]

\* What a customer keeps is worth what was bought, through any exchanges, and is nothing
\* at all unless the sale is COMPLETED: a void takes back exactly what left.
CustomerKeepsValue ==
    \A s \in Sales :
        IF status[s] = "COMPLETED"
        THEN /\ \A v \in Variants : WithCustomer(s)[v] >= 0
             /\ LineTotal(WithCustomer(s)) = LineTotal(items[s])
        ELSE WithCustomer(s) = EmptyRow

\* No two sales of the branch share a commercial number, and the counter is past them all.
NumbersUnique ==
    \A s \in Sales :
        /\ number[s] < nextValue
        /\ \A t \in Sales \ {s} : number[s] # 0 => number[t] # number[s]
        /\ status[s] \in {"PENDING_PAYMENT", "PAID", "COMPLETED"} => number[s] # 0

\* Once money was accepted the lines and the total it was accepted for never change, and
\* the money is never taken out of the record.
PaidContentFrozen ==
    [][\A s \in Sales :
          accepted[s] > 0 => /\ items'[s] = items[s]
                             /\ total'[s] = total[s]
                             /\ accepted'[s] >= accepted[s]]_vars

\* The sale tables implement the abstract promise: free stock is what is neither reserved
\* nor gone, holds are holds, and the customer has what the stock movements say.
Promise ==
    INSTANCE StockPromise WITH
        free <- [v \in Variants |-> Available(v)],
        held <- hold,
        with <- [s \in Sales |-> WithCustomer(s)],
        phase <- [s \in Sales |-> IF status[s] = "COMPLETED" THEN "delivered"
                                  ELSE IF status[s] = "CANCELLED" THEN "closed"
                                  ELSE "open"]

KeepsPromise == Promise!PromiseSpec

=============================================================================
