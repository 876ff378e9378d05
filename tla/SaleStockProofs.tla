--------------------------- MODULE SaleStockProofs ---------------------------
(***************************************************************************)
(* Theorems about SaleStock.                                               *)
(***************************************************************************)
EXTENDS SaleStock, FiniteSetTheorems, TLAPS

-----------------------------------------------------------------------------
(***************************************************************************)
(* Counting units over the sales.                                          *)
(***************************************************************************)

\* The units that SumOverSales counts, and those of them that are not of the sale s.
UnitsOf(f) == {u \in Sales \X (1..MaxUnits) : u[2] <= f[u[1]]}
UnitsBut(f, s) == {u \in Sales \X (1..MaxUnits) : u[1] # s /\ u[2] <= f[u[1]]}

LEMMA MaxUnitsType == MaxUnits \in Nat
  BY BoundsAssumption DEF MaxUnits

\* Any set of numbered units of sales is finite.
LEMMA UnitsFinite ==
  ASSUME NEW U \in SUBSET (Sales \X (1..MaxUnits))
  PROVE  IsFiniteSet(U) /\ Cardinality(U) \in Nat
<1>1. IsFiniteSet(1..MaxUnits)
  BY MaxUnitsType, FS_Interval
<1>2. IsFiniteSet(Sales \X (1..MaxUnits))
  BY <1>1, SalesAssumption, FS_Product
<1> QED
  BY <1>2, FS_Subset, FS_CardinalityType

LEMMA SumType == \A f : SumOverSales(f) \in Nat
<1> SUFFICES ASSUME NEW f PROVE SumOverSales(f) \in Nat
  OBVIOUS
<1>1. UnitsOf(f) \in SUBSET (Sales \X (1..MaxUnits))
  BY DEF UnitsOf
<1> QED
  BY <1>1, UnitsFinite DEF SumOverSales, UnitsOf

\* The units of one sale are as many as f says.
LEMMA UnitsOfOneSale ==
  ASSUME NEW s \in Sales, NEW n \in 0..MaxUnits
  PROVE  /\ IsFiniteSet({s} \X (1..n))
         /\ Cardinality({s} \X (1..n)) = n
<1>1. n \in Nat
  BY MaxUnitsType
<1>2. IsFiniteSet(1..n) /\ Cardinality(1..n) = n
  BY <1>1, FS_Interval
<1>3. IsFiniteSet({s}) /\ Cardinality({s}) = 1
  BY FS_Singleton
<1>4. /\ IsFiniteSet({s} \X (1..n))
      /\ Cardinality({s} \X (1..n)) = Cardinality({s}) * Cardinality(1..n)
  BY <1>2, <1>3, FS_Product
<1> QED
  BY <1>1, <1>2, <1>3, <1>4

LEMMA SumSplit ==
  ASSUME NEW f, NEW s \in Sales, f[s] \in 0..MaxUnits
  PROVE  SumOverSales(f) = Cardinality(UnitsBut(f, s)) + f[s]
<1> DEFINE Own == {s} \X (1..f[s])
<1>1. UnitsOf(f) = UnitsBut(f, s) \cup Own
  <2>1. ASSUME NEW u \in UnitsOf(f)
        PROVE  u \in UnitsBut(f, s) \cup Own
    BY <2>1, MaxUnitsType DEF UnitsOf, UnitsBut
  <2>2. ASSUME NEW u \in Own
        PROVE  u \in UnitsOf(f)
    BY <2>2, MaxUnitsType DEF UnitsOf
  <2>3. UnitsBut(f, s) \subseteq UnitsOf(f)
    BY DEF UnitsOf, UnitsBut
  <2> QED
    BY <2>1, <2>2, <2>3
<1>2. UnitsBut(f, s) \cap Own = {}
  BY DEF UnitsBut
<1>3. IsFiniteSet(UnitsBut(f, s)) /\ Cardinality(UnitsBut(f, s)) \in Nat
  BY UnitsFinite DEF UnitsBut
<1>4. IsFiniteSet(Own) /\ Cardinality(Own) = f[s]
  BY UnitsOfOneSale
<1>5. Cardinality(UnitsOf(f)) =
        Cardinality(UnitsBut(f, s)) + Cardinality(Own)
          - Cardinality(UnitsBut(f, s) \cap Own)
  BY <1>1, <1>3, <1>4, FS_Union
<1>6. Cardinality(UnitsBut(f, s) \cap Own) = 0
  BY <1>2, FS_EmptySet
<1>7. SumOverSales(f) = Cardinality(UnitsOf(f))
  BY DEF SumOverSales, UnitsOf
<1>8. f[s] \in Nat
  BY MaxUnitsType
<1> QED
  BY <1>3, <1>4, <1>5, <1>6, <1>7, <1>8

\* A sum changes by what the one sale that changes does to it.
LEMMA SumChange ==
  ASSUME NEW f, NEW g, NEW s \in Sales,
         f[s] \in 0..MaxUnits, g[s] \in 0..MaxUnits,
         \A t \in Sales \ {s} : g[t] = f[t]
  PROVE  SumOverSales(g) = (SumOverSales(f) - f[s]) + g[s]
<1>1. UnitsBut(g, s) = UnitsBut(f, s)
  BY DEF UnitsBut
<1>2. Cardinality(UnitsBut(f, s)) \in Nat
  BY UnitsFinite DEF UnitsBut
<1>3. SumOverSales(f) = Cardinality(UnitsBut(f, s)) + f[s]
  BY SumSplit
<1>4. SumOverSales(g) = Cardinality(UnitsBut(g, s)) + g[s]
  BY SumSplit
<1> QED
  BY <1>1, <1>2, <1>3, <1>4, MaxUnitsType

\* A sum is at least each of its parts.
LEMMA SumAtLeast ==
  ASSUME NEW f, NEW s \in Sales, f[s] \in 0..MaxUnits
  PROVE  f[s] <= SumOverSales(f)
<1>1. Cardinality(UnitsBut(f, s)) \in Nat
  BY UnitsFinite DEF UnitsBut
<1> QED
  BY <1>1, SumSplit, MaxUnitsType

LEMMA SumOfZeros ==
  ASSUME NEW f, \A s \in Sales : f[s] = 0
  PROVE  SumOverSales(f) = 0
<1>1. UnitsOf(f) = {}
  BY MaxUnitsType DEF UnitsOf
<1> QED
  BY <1>1, FS_EmptySet DEF SumOverSales, UnitsOf

\* Sums of functions that agree on the sales are the same sum.
LEMMA SumSame ==
  ASSUME NEW f, NEW g, \A s \in Sales : f[s] = g[s]
  PROVE  SumOverSales(f) = SumOverSales(g)
<1>1. UnitsOf(f) = UnitsOf(g)
  BY DEF UnitsOf
<1> QED
  BY <1>1 DEF SumOverSales, UnitsOf

-----------------------------------------------------------------------------
(***************************************************************************)
(* Type correctness.                                                       *)
(***************************************************************************)

LEMMA RowTypes ==
  /\ Quantities \subseteq Nat
  /\ Quantities \subseteq 0..MaxUnits
  /\ EmptyRow \in Rows
  BY BoundsAssumption DEF Quantities, Rows, EmptyRow, MaxUnits

\* A price list and a request are finite, so what they count is a number.
LEMMA PesosFinite ==
  ASSUME NEW P \in SUBSET (Variants \X (1..MaxUnits) \X (1..MaxPrice))
  PROVE  IsFiniteSet(P) /\ Cardinality(P) \in Nat
<1> DEFINE Pairs == (Variants \X (1..MaxUnits)) \X (1..MaxPrice)
           All == Variants \X (1..MaxUnits) \X (1..MaxPrice)
           flat == [w \in Pairs |-> <<w[1][1], w[1][2], w[2]>>]
<1>1. IsFiniteSet(1..MaxUnits) /\ IsFiniteSet(1..MaxPrice)
  BY MaxUnitsType, BoundsAssumption, FS_Interval
<1>2. IsFiniteSet(Variants \X (1..MaxUnits))
  BY <1>1, VariantsAssumption, FS_Product
<1>3. IsFiniteSet(Pairs)
  BY <1>1, <1>2, FS_Product
<1>4. flat \in Surjection(Pairs, All)
  <2>1. flat \in [Pairs -> All]
    OBVIOUS
  <2>2. ASSUME NEW u \in All
        PROVE  \E w \in Pairs : flat[w] = u
    <3>1. flat[<<<<u[1], u[2]>>, u[3]>>] = u
      OBVIOUS
    <3> QED
      BY <3>1
  <2> QED
    BY <2>1, <2>2 DEF Surjection
<1>5. IsFiniteSet(All)
  BY <1>3, <1>4, FS_Surjection
<1> QED
  BY <1>5, FS_Subset, FS_CardinalityType

LEMMA LineTotalType == \A row : LineTotal(row) \in Nat
<1> SUFFICES ASSUME NEW row PROVE LineTotal(row) \in Nat
  OBVIOUS
<1>1. {u \in Variants \X (1..MaxUnits) \X (1..MaxPrice) :
          u[2] <= row[u[1]] /\ u[3] <= Price[u[1]]}
        \in SUBSET (Variants \X (1..MaxUnits) \X (1..MaxPrice))
  OBVIOUS
<1> QED
  BY <1>1, PesosFinite DEF LineTotal

LEMMA DemandType == \A give, swap, w : Demand(give, swap, w) \in Nat
<1> SUFFICES ASSUME NEW give, NEW swap, NEW w PROVE Demand(give, swap, w) \in Nat
  OBVIOUS
<1> DEFINE All == Variants \X (1..MaxQuantity)
           Drawn == {u \in All : swap[u[1]] = w /\ u[2] <= give[u[1]]}
<1>1. IsFiniteSet(1..MaxQuantity)
  BY BoundsAssumption, FS_Interval
<1>2. IsFiniteSet(All)
  BY <1>1, VariantsAssumption, FS_Product
<1>3. IsFiniteSet(Drawn)
  BY <1>2, FS_Subset
<1> QED
  BY <1>3, FS_CardinalityType DEF Demand

\* Rehold keeps a type when the counter has the units it gives back.
LEMMA ReholdType ==
  ASSUME reserved \in [Variants -> Nat], NEW old \in Rows, NEW new \in Rows,
         \A v \in Variants : new[v] < old[v] => reserved[v] >= old[v] - new[v]
  PROVE  Rehold(old, new) \in [Variants -> Nat]
<1> SUFFICES ASSUME NEW v \in Variants
             PROVE  (reserved[v] - old[v]) + new[v] \in Nat
  BY DEF Rehold
<1>1. reserved[v] \in Nat /\ old[v] \in Nat /\ new[v] \in Nat
  BY RowTypes DEF Rows
<1>2. new[v] < old[v] => reserved[v] >= old[v] - new[v]
  OBVIOUS
<1> QED
  BY <1>1, <1>2

LEMMA TypeInit == Init => TypeOK
<1> SUFFICES ASSUME Init PROVE TypeOK
  OBVIOUS
<1>1. EmptyRow \in [Variants -> 0..MaxPhysical] /\ EmptyRow \in [Variants -> Nat]
  BY BoundsAssumption DEF EmptyRow
<1> QED
  BY <1>1, RowTypes DEF Init, TypeOK, Statuses

LEMMA TypeStock == TypeOK /\ Stock => TypeOK'
<1> SUFFICES ASSUME TypeOK, Stock PROVE TypeOK'
  OBVIOUS
<1> USE BoundsAssumption DEF TypeOK, saleVars, afterSaleVars
<1>1. ASSUME NEW v \in Variants, NEW n \in 1..MaxPhysical, LoadInitialStock(v, n)
      PROVE  TypeOK'
  BY <1>1 DEF LoadInitialStock
<1>2. ASSUME NEW v \in Variants, NEW delta \in (-MaxDelta)..MaxDelta,
             AdjustStock(v, delta)
      PROVE  TypeOK'
  BY <1>2 DEF AdjustStock, MayAdjust
<1> QED
  BY <1>1, <1>2 DEF Stock

LEMMA TypeDraft == TypeOK /\ Draft => TypeOK'
<1> SUFFICES ASSUME TypeOK, Draft PROVE TypeOK'
  OBVIOUS
<1> USE BoundsAssumption DEF TypeOK, saleVars, afterSaleVars, stockVars
<1>1. ASSUME NEW s \in Sales, CreateDraftSale(s)
      PROVE  TypeOK'
  BY <1>1 DEF CreateDraftSale, Statuses
<1>2. ASSUME NEW c \in Clients, NEW s \in Sales, NEW v \in Variants,
             NEW kind \in {"add", "update", "remove"}, NEW q \in Quantities,
             Prepared(c, kind, s, v, q)
      PROVE  TypeOK'
  BY <1>2 DEF Prepared, Requests
<1>3. ASSUME NEW c \in Clients, WriteItem(c)
      PROVE  TypeOK'
  <2> DEFINE r == request[c]
             row == [items[r.sale] EXCEPT ![r.variant] = LineAfter(r)]
  <2>1. r \in Requests
    BY <1>3 DEF WriteItem
  <2>2. /\ r.sale \in Sales
        /\ r.variant \in Variants
        /\ r.quantity \in Nat
    BY <2>1, RowTypes DEF Requests
  <2>3. items[r.sale] \in Rows /\ items[r.sale][r.variant] \in Nat
    BY <2>2, RowTypes DEF Rows
  <2>4. LineAfter(r) \in Quantities
    BY <1>3, <2>2, <2>3 DEF WriteItem, MayWriteItem, LineAfter, Quantities
  <2>5. row \in Rows
    BY <2>3, <2>4 DEF Rows
  <2>6. items' \in [Sales -> Rows]
    BY <1>3, <2>2, <2>5 DEF WriteItem
  <2>7. total' \in [Sales -> Nat]
    BY <1>3, LineTotalType DEF WriteItem
  <2>8. request' \in [Clients -> Requests \cup {NoRequest}]
    <3>1. ASSUME NEW d \in Clients, request[d] # NoRequest
          PROVE  [request[d] EXCEPT !.kind = "orphan"] \in Requests
      BY <3>1 DEF Requests
    <3> QED
      BY <1>3, <3>1 DEF WriteItem, RequestsAfter
  <2> QED
    BY <1>3, <2>6, <2>7, <2>8 DEF WriteItem
<1>4. ASSUME NEW c \in Clients, RefuseItem(c)
      PROVE  TypeOK'
  BY <1>4 DEF RefuseItem
<1> QED
  BY <1>1, <1>2, <1>3, <1>4
     DEF Draft, PrepareAddItem, PrepareUpdateItem, PrepareRemoveItem, Quantities

LEMMA TypeCharge == TypeOK /\ Charge => TypeOK'
<1> SUFFICES ASSUME TypeOK, NEW s \in Sales,
                    \/ SendToCashier(s)
                    \/ \E target \in Rows : CorrectPendingSale(s, target)
                    \/ CancelSale(s)
                    \/ \E amount \in 1..total[s] : RegisterPayment(s, amount)
                    \/ CompleteSale(s)
                    \/ \E settlement \in Settlements : Checkout(s, settlement)
             PROVE  TypeOK'
  BY DEF Charge
<1> USE BoundsAssumption DEF TypeOK, saleVars, afterSaleVars, stockVars
<1>a. /\ items[s] \in Rows /\ hold[s] \in Rows /\ EmptyRow \in Rows
      /\ \A row \in Rows, v \in Variants : row[v] \in Nat
      /\ total[s] \in Nat /\ accepted[s] \in Nat
      /\ \A v \in Variants : EmptyRow[v] = 0 /\ reserved[v] \in Nat /\ physical[v] \in Nat
  <2>1. \A row \in Rows, v \in Variants : row[v] \in Nat
    BY RowTypes DEF Rows
  <2>2. items[s] \in Rows /\ hold[s] \in Rows /\ EmptyRow \in Rows
    BY RowTypes
  <2>3. \A v \in Variants : EmptyRow[v] = 0 /\ reserved[v] \in Nat /\ physical[v] \in Nat
    BY DEF EmptyRow
  <2> QED
    BY <2>1, <2>2, <2>3
<1>b. MayRelease(s) => Rehold(hold[s], EmptyRow) \in [Variants -> Nat]
  <2> SUFFICES ASSUME MayRelease(s)
               PROVE  Rehold(hold[s], EmptyRow) \in [Variants -> Nat]
    OBVIOUS
  <2>1. \A v \in Variants : EmptyRow[v] < hold[s][v] =>
            reserved[v] >= hold[s][v] - EmptyRow[v]
    BY <1>a DEF MayRelease
  <2> QED
    BY <1>a, <2>1, ReholdType
<1>c. MayDeliver(s) /\ Deliver(s) =>
        /\ physical' \in [Variants -> 0..MaxPhysical]
        /\ reserved' \in [Variants -> Nat]
        /\ sold' \in [Sales -> Rows]
        /\ hold' \in [Sales -> Rows]
  <2> SUFFICES ASSUME MayDeliver(s), Deliver(s)
               PROVE  /\ physical' \in [Variants -> 0..MaxPhysical]
                      /\ reserved' \in [Variants -> Nat]
                      /\ sold' \in [Sales -> Rows]
                      /\ hold' \in [Sales -> Rows]
    OBVIOUS
  <2>1. \A v \in Variants : EmptyRow[v] < items[s][v] =>
            reserved[v] >= items[s][v] - EmptyRow[v]
    BY <1>a DEF MayDeliver
  <2>2. reserved' \in [Variants -> Nat]
    BY <1>a, <2>1, ReholdType DEF Deliver
  <2>3. \A v \in Variants : physical[v] - items[s][v] \in 0..MaxPhysical
    BY <1>a DEF MayDeliver
  <2> QED
    BY <1>a, <2>2, <2>3 DEF Deliver
<1>1. CASE SendToCashier(s)
  <2>1. \A v \in Variants : items[s][v] < EmptyRow[v] =>
            reserved[v] >= EmptyRow[v] - items[s][v]
    BY <1>a
  <2>2. Rehold(EmptyRow, items[s]) \in [Variants -> Nat]
    BY <1>a, <2>1, ReholdType
  <2> QED
    BY <1>1, <1>a, <2>2 DEF SendToCashier, TakeNumber, Statuses
<1>2. ASSUME NEW target \in Rows, CorrectPendingSale(s, target)
      PROVE  TypeOK'
  <2>1. \A v \in Variants : target[v] < hold[s][v] =>
            reserved[v] >= hold[s][v] - target[v]
    BY <1>2 DEF CorrectPendingSale, MayRehold
  <2>2. Rehold(hold[s], target) \in [Variants -> Nat]
    BY <1>a, <2>1, ReholdType
  <2> QED
    BY <1>2, <2>2, LineTotalType DEF CorrectPendingSale
<1>3. CASE CancelSale(s)
  BY <1>3, <1>a, <1>b DEF CancelSale, Release, Statuses
<1>4. ASSUME NEW amount \in 1..total[s], RegisterPayment(s, amount)
      PROVE  TypeOK'
  BY <1>4, <1>a DEF RegisterPayment, Statuses
<1>5. CASE CompleteSale(s)
  BY <1>5, <1>c DEF CompleteSale, Statuses
<1>6. ASSUME NEW settlement \in Settlements, Checkout(s, settlement)
      PROVE  TypeOK'
  BY <1>6, <1>c, PriceAssumption DEF Checkout, Statuses
<1> QED
  BY <1>1, <1>2, <1>3, <1>4, <1>5, <1>6

LEMMA TypeAfterSale == TypeOK /\ AfterSale => TypeOK'
<1> SUFFICES ASSUME TypeOK, NEW s \in Sales,
                    \/ VoidPaidSale(s)
                    \/ VoidCompletedSale(s)
                    \/ \E key \in Keys, give \in Rows, swap \in [Variants -> Variants] :
                          ExchangeSale(s, key, give, swap)
             PROVE  TypeOK'
  BY DEF AfterSale, Returnable
<1> USE BoundsAssumption DEF TypeOK, saleVars, afterSaleVars, stockVars
<1>a. /\ hold[s] \in Rows /\ EmptyRow \in Rows /\ sold[s] \in Rows
      /\ \A v \in Variants : EmptyRow[v] = 0 /\ reserved[v] \in Nat /\ physical[v] \in Nat
  <2>1. \A v \in Variants : EmptyRow[v] = 0
    BY DEF EmptyRow
  <2> QED
    BY <2>1, RowTypes
<1>b. \A row \in Rows, v \in Variants : row[v] \in Nat
  BY RowTypes DEF Rows
<1>1. CASE VoidPaidSale(s)
  <2>1. \A v \in Variants : EmptyRow[v] < hold[s][v] =>
            reserved[v] >= hold[s][v] - EmptyRow[v]
    BY <1>1, <1>a, <1>b DEF VoidPaidSale, MayRelease
  <2>2. Rehold(hold[s], EmptyRow) \in [Variants -> Nat]
    BY <1>a, <2>1, ReholdType
  <2> QED
    BY <1>1, <1>a, <2>2 DEF VoidPaidSale, Release, Statuses
<1>2. CASE VoidCompletedSale(s)
  <2>1. \A v \in Variants : physical[v] + sold[s][v] \in 0..MaxPhysical
    BY <1>2, <1>a, <1>b DEF VoidCompletedSale
  <2> QED
    BY <1>2, <1>a, <2>1 DEF VoidCompletedSale, Statuses
<1>3. ASSUME NEW key \in Keys, NEW give \in Rows, NEW swap \in [Variants -> Variants],
             ExchangeSale(s, key, give, swap)
      PROVE  TypeOK'
  <2>1. \A v \in Variants : Demand(give, swap, v) \in Nat
    BY DemandType
  <2>2. \A v \in Variants :
          (physical[v] + give[v]) - Demand(give, swap, v) \in 0..MaxPhysical
    <3> TAKE v \in Variants
    <3>1. /\ physical[v] - reserved[v] >= Demand(give, swap, v)
          /\ physical[v] + give[v] <= MaxPhysical
      BY <1>3 DEF ExchangeSale, Available
    <3> QED
      BY <3>1, <2>1, <1>a, <1>b
  <2>3. \A v \in Variants : returned[s][v] + give[v] \in Quantities
    <3> TAKE v \in Variants
    <3>1. /\ items[s][v] \in Nat /\ items[s][v] <= MaxQuantity
          /\ returned[s][v] \in Nat /\ returned[s][v] <= MaxQuantity
          /\ give[v] \in Nat
      BY DEF Rows, Quantities
    <3>2. give[v] > 0 => give[v] <= items[s][v] - returned[s][v]
      BY <1>3 DEF ExchangeSale, MayExchange, Remainder
    <3> QED
      BY <3>1, <3>2 DEF Quantities
  <2>4. \A v \in Variants : replaced[s][v] + Demand(give, swap, v) \in Quantities
    <3> TAKE v \in Variants
    <3>1. replaced[s][v] \in Nat
      BY <1>b
    <3>2. replaced[s][v] + Demand(give, swap, v) <= MaxQuantity
      BY <1>3 DEF ExchangeSale
    <3> QED
      BY <3>1, <3>2, <2>1 DEF Quantities
  <2>5. /\ physical' \in [Variants -> 0..MaxPhysical]
        /\ returned' \in [Sales -> Rows]
        /\ replaced' \in [Sales -> Rows]
    BY <1>3, <2>2, <2>3, <2>4 DEF ExchangeSale, Rows
  <2> QED
    BY <1>3, <2>5 DEF ExchangeSale
<1> QED
  BY <1>1, <1>2, <1>3

LEMMA TypeStep == TypeOK /\ [Next]_vars => TypeOK'
<1>1. TypeOK /\ UNCHANGED vars => TypeOK'
  BY DEF TypeOK, vars, saleVars, afterSaleVars, stockVars
<1> QED
  BY <1>1, TypeStock, TypeDraft, TypeCharge, TypeAfterSale DEF Next

\* Every column keeps its type and range, whatever the operations and their order.
THEOREM TypeCorrect == Spec => []TypeOK
  BY TypeInit, TypeStep, PTL DEF Spec

-----------------------------------------------------------------------------
(***************************************************************************)
(* The holds.  No part of HoldInv is inductive alone: that reserved is the *)
(* sum of the holds needs a delivery to consume the units its sale holds,  *)
(* which HoldsCoverLines says; that an oversell never happens needs that   *)
(* what a release gives back is part of reserved.                          *)
(***************************************************************************)
HoldInv == TypeOK /\ HoldsCoverLines /\ ReservedIsHeld /\ NoOversell

LEMMA RowValues ==
  ASSUME NEW row \in Rows, NEW v \in Variants
  PROVE  row[v] \in Nat /\ row[v] \in 0..MaxUnits
  BY RowTypes DEF Rows

LEMMA EmptyValues == \A v \in Variants : EmptyRow[v] = 0
  BY DEF EmptyRow

\* When the row of one sale changes and the counter is changed by the difference, the
\* counter is still the sum.
LEMMA ReheldSum ==
  ASSUME TypeOK, ReservedIsHeld, NEW s \in Sales, NEW new \in Rows,
         hold' = [hold EXCEPT ![s] = new], reserved' = Rehold(hold[s], new)
  PROVE  ReservedIsHeld'
<1> SUFFICES ASSUME NEW v \in Variants
             PROVE  reserved'[v] = TotalHeld(v)'
  BY DEF ReservedIsHeld
<1> DEFINE f == [t \in Sales |-> hold[t][v]]
           g == [t \in Sales |-> hold'[t][v]]
<1>1. hold \in [Sales -> Rows]
  BY DEF TypeOK
<1>2. f[s] = hold[s][v] /\ g[s] = new[v] /\ \A t \in Sales \ {s} : g[t] = f[t]
  BY <1>1
<1>3. f[s] \in 0..MaxUnits /\ g[s] \in 0..MaxUnits
  BY <1>1, <1>2, RowValues
<1> HIDE DEF f, g
<1>4. SumOverSales(g) = (SumOverSales(f) - f[s]) + g[s]
  BY <1>2, <1>3, SumChange
<1>5. reserved[v] = SumOverSales(f) /\ TotalHeld(v)' = SumOverSales(g)
  BY DEF ReservedIsHeld, TotalHeld, f, g
<1>6. reserved'[v] = (reserved[v] - hold[s][v]) + new[v]
  BY DEF Rehold
<1> QED
  BY <1>2, <1>4, <1>5, <1>6

LEMMA SameHolds ==
  ASSUME ReservedIsHeld, UNCHANGED <<hold, reserved>>
  PROVE  ReservedIsHeld'
  BY DEF ReservedIsHeld, TotalHeld

\* A sale never holds more than what is reserved.
LEMMA HoldIsReserved ==
  ASSUME TypeOK, ReservedIsHeld, NEW s \in Sales, NEW v \in Variants
  PROVE  hold[s][v] <= reserved[v]
<1> DEFINE f == [t \in Sales |-> hold[t][v]]
<1>1. f[s] = hold[s][v] /\ f[s] \in 0..MaxUnits
  BY RowValues DEF TypeOK
<1> HIDE DEF f
<1>2. f[s] <= SumOverSales(f)
  BY <1>1, SumAtLeast
<1> QED
  BY <1>1, <1>2 DEF ReservedIsHeld, TotalHeld, f

LEMMA HoldInit == Init => HoldInv
<1> SUFFICES ASSUME Init PROVE HoldInv
  OBVIOUS
<1>1. TypeOK
  BY TypeInit
<1>2. HoldsCoverLines
  BY DEF Init, HoldsCoverLines
<1>3. ReservedIsHeld
  <2> SUFFICES ASSUME NEW v \in Variants PROVE reserved[v] = TotalHeld(v)
    BY DEF ReservedIsHeld
  <2> DEFINE f == [s \in Sales |-> hold[s][v]]
  <2>1. \A s \in Sales : f[s] = 0
    BY EmptyValues DEF Init
  <2> HIDE DEF f
  <2>2. SumOverSales(f) = 0
    BY <2>1, SumOfZeros
  <2> QED
    BY <2>2, EmptyValues DEF Init, TotalHeld, f
<1>4. NoOversell
  BY EmptyValues DEF Init, NoOversell
<1> QED
  BY <1>1, <1>2, <1>3, <1>4 DEF HoldInv

LEMMA HoldStock == HoldInv /\ Stock => HoldInv'
<1> SUFFICES ASSUME HoldInv, Stock PROVE HoldInv'
  OBVIOUS
<1>1. TypeOK'
  BY TypeStock DEF HoldInv
<1>2. UNCHANGED <<saleVars, reserved>> /\ NoOversell'
  <2>1. ASSUME NEW v \in Variants, NEW n \in 1..MaxPhysical, LoadInitialStock(v, n)
        PROVE  UNCHANGED <<saleVars, reserved>> /\ NoOversell'
    BY <2>1, BoundsAssumption DEF LoadInitialStock, HoldInv, NoOversell, TypeOK
  <2>2. ASSUME NEW v \in Variants, NEW delta \in (-MaxDelta)..MaxDelta,
               AdjustStock(v, delta)
        PROVE  UNCHANGED <<saleVars, reserved>> /\ NoOversell'
    BY <2>2, BoundsAssumption DEF AdjustStock, MayAdjust, HoldInv, NoOversell, TypeOK
  <2> QED
    BY <2>1, <2>2 DEF Stock
<1>3. HoldsCoverLines'
  BY <1>2 DEF HoldInv, HoldsCoverLines, saleVars
<1>4. ReservedIsHeld'
  BY <1>2, SameHolds DEF HoldInv, saleVars
<1> QED
  BY <1>1, <1>2, <1>3, <1>4 DEF HoldInv

LEMMA HoldDraft == HoldInv /\ Draft => HoldInv'
<1> SUFFICES ASSUME HoldInv, Draft PROVE HoldInv'
  OBVIOUS
<1>1. TypeOK'
  BY TypeDraft DEF HoldInv
<1>2. UNCHANGED <<hold, stockVars>> /\ HoldsCoverLines'
  <2> USE DEF HoldInv, TypeOK, HoldsCoverLines, saleVars, afterSaleVars, stockVars
  <2>1. ASSUME NEW s \in Sales, CreateDraftSale(s)
        PROVE  UNCHANGED <<hold, stockVars>> /\ HoldsCoverLines'
    BY <2>1 DEF CreateDraftSale
  <2>2. ASSUME NEW c \in Clients, NEW s \in Sales, NEW v \in Variants,
               \/ \E q \in 1..MaxQuantity : PrepareAddItem(c, s, v, q)
               \/ \E q \in 1..MaxQuantity : PrepareUpdateItem(c, s, v, q)
               \/ PrepareRemoveItem(c, s, v)
        PROVE  UNCHANGED <<hold, stockVars>> /\ HoldsCoverLines'
    BY <2>2 DEF PrepareAddItem, PrepareUpdateItem, PrepareRemoveItem, Prepared
  <2>3. ASSUME NEW c \in Clients, WriteItem(c)
        PROVE  UNCHANGED <<hold, stockVars>> /\ HoldsCoverLines'
    <3> DEFINE r == request[c]
    <3>1. r \in Requests /\ r.sale \in Sales /\ status[r.sale] = "DRAFT"
      BY <2>3 DEF WriteItem, MayWriteItem, Requests
    <3>2. \A s \in Sales \ {r.sale} : items'[s] = items[s]
      BY <2>3, <3>1 DEF WriteItem
    <3> QED
      BY <2>3, <3>1, <3>2 DEF WriteItem
  <2>4. ASSUME NEW c \in Clients, RefuseItem(c)
        PROVE  UNCHANGED <<hold, stockVars>> /\ HoldsCoverLines'
    BY <2>4 DEF RefuseItem
  <2> QED
    BY <2>1, <2>2, <2>3, <2>4 DEF Draft
<1>3. ReservedIsHeld'
  BY <1>2, SameHolds DEF HoldInv, stockVars
<1>4. NoOversell'
  BY <1>2 DEF HoldInv, NoOversell, stockVars
<1> QED
  BY <1>1, <1>2, <1>3, <1>4 DEF HoldInv

LEMMA HoldCharge == HoldInv /\ Charge => HoldInv'
<1> SUFFICES ASSUME HoldInv, NEW s \in Sales,
                    \/ SendToCashier(s)
                    \/ \E target \in Rows : CorrectPendingSale(s, target)
                    \/ CancelSale(s)
                    \/ \E amount \in 1..total[s] : RegisterPayment(s, amount)
                    \/ CompleteSale(s)
                    \/ \E settlement \in Settlements : Checkout(s, settlement)
             PROVE  HoldInv'
  BY DEF Charge
<1>t. TypeOK /\ TypeOK'
  BY TypeCharge DEF HoldInv, Charge
<1>h. HoldsCoverLines /\ ReservedIsHeld /\ NoOversell
  BY DEF HoldInv
<1>a. /\ items[s] \in Rows /\ hold[s] \in Rows /\ EmptyRow \in Rows
      /\ \A v \in Variants : EmptyRow[v] = 0
      /\ \A v \in Variants : reserved[v] \in Nat /\ physical[v] \in Nat
  BY <1>t, RowTypes, EmptyValues DEF TypeOK
<1>e. \A v \in Variants : hold[s][v] <= reserved[v] /\ reserved[v] <= physical[v]
  BY <1>t, <1>h, HoldIsReserved DEF NoOversell
\* A release and a delivery, whatever the status becomes.
<1>r. Release(s) /\ UNCHANGED physical => ReservedIsHeld' /\ NoOversell'
  <2> SUFFICES ASSUME Release(s), UNCHANGED physical
               PROVE  ReservedIsHeld' /\ NoOversell'
    OBVIOUS
  <2>1. ReservedIsHeld'
    BY <1>t, <1>h, <1>a, ReheldSum DEF Release
  <2>2. \A v \in Variants : (reserved[v] - hold[s][v]) + EmptyRow[v] <= physical[v]
    BY <1>a, <1>e, RowValues
  <2> QED
    BY <2>1, <2>2 DEF Release, Rehold, NoOversell
<1>d. Covered(s) /\ Deliver(s) => ReservedIsHeld' /\ NoOversell'
  <2> SUFFICES ASSUME Covered(s), Deliver(s)
               PROVE  ReservedIsHeld' /\ NoOversell'
    OBVIOUS
  <2>1. hold[s] = items[s]
    BY DEF Covered
  <2>2. ReservedIsHeld'
    BY <1>t, <1>h, <1>a, <2>1, ReheldSum DEF Deliver
  <2>3. \A v \in Variants :
          (reserved[v] - items[s][v]) + EmptyRow[v] <= physical[v] - items[s][v]
    BY <1>a, <1>e, RowValues
  <2> QED
    BY <2>2, <2>3 DEF Deliver, Rehold, NoOversell
<1>1. CASE SendToCashier(s)
  <2>1. hold[s] = EmptyRow
    BY <1>1, <1>h DEF SendToCashier, HoldsCoverLines
  <2>2. ReservedIsHeld'
    BY <1>1, <1>t, <1>h, <1>a, <2>1, ReheldSum DEF SendToCashier
  <2>3. NoOversell'
    <3>1. \A v \in Variants : (reserved[v] - EmptyRow[v]) + items[s][v] <= physical[v]
      BY <1>1, <1>a, <1>e, RowValues DEF SendToCashier, MayRehold, Available
    <3> QED
      BY <1>1, <3>1 DEF SendToCashier, Rehold, NoOversell
  <2>4. HoldsCoverLines'
    BY <1>1, <1>t, <1>h DEF SendToCashier, HoldsCoverLines, TypeOK
  <2> QED
    BY <1>t, <2>2, <2>3, <2>4 DEF HoldInv
<1>2. ASSUME NEW target \in Rows, CorrectPendingSale(s, target)
      PROVE  HoldInv'
  <2>1. ReservedIsHeld'
    BY <1>2, <1>t, <1>h, ReheldSum DEF CorrectPendingSale
  <2>2. NoOversell'
    <3>1. ASSUME NEW v \in Variants
          PROVE  (reserved[v] - hold[s][v]) + target[v] <= physical[v]
      <4>1. target[v] \in Nat /\ hold[s][v] \in Nat /\ reserved[v] \in Nat
            /\ physical[v] \in Nat /\ reserved[v] <= physical[v]
        BY <1>a, <1>e, RowValues
      <4>2. target[v] > hold[s][v] => physical[v] - reserved[v] >= target[v] - hold[s][v]
        BY <1>2 DEF CorrectPendingSale, MayRehold, Available
      <4> QED
        BY <4>1, <4>2
    <3> QED
      BY <1>2, <3>1 DEF CorrectPendingSale, Rehold, NoOversell
  <2>3. HoldsCoverLines'
    BY <1>2, <1>t, <1>h DEF CorrectPendingSale, MayCorrect, HoldsCoverLines, TypeOK
  <2> QED
    BY <1>t, <2>1, <2>2, <2>3 DEF HoldInv
<1>3. CASE CancelSale(s)
  <2>1. HoldsCoverLines'
    BY <1>3, <1>t, <1>h DEF CancelSale, Release, HoldsCoverLines, TypeOK
  <2> QED
    BY <1>3, <1>t, <1>r, <2>1 DEF CancelSale, HoldInv
<1>4. ASSUME NEW amount \in 1..total[s], RegisterPayment(s, amount)
      PROVE  HoldInv'
  <2>1. HoldsCoverLines'
    BY <1>4, <1>t, <1>h DEF RegisterPayment, MayAccept, HoldsCoverLines, TypeOK
  <2>2. ReservedIsHeld'
    BY <1>4, <1>h, SameHolds DEF RegisterPayment, stockVars
  <2>3. NoOversell'
    BY <1>4, <1>h DEF RegisterPayment, NoOversell, stockVars
  <2> QED
    BY <1>t, <2>1, <2>2, <2>3 DEF HoldInv
<1>5. CASE CompleteSale(s)
  <2>1. HoldsCoverLines'
    BY <1>5, <1>t, <1>h DEF CompleteSale, Deliver, HoldsCoverLines, TypeOK
  <2> QED
    BY <1>5, <1>t, <1>d, <2>1 DEF CompleteSale, MayDeliver, HoldInv
<1>6. ASSUME NEW settlement \in Settlements, Checkout(s, settlement)
      PROVE  HoldInv'
  <2>1. HoldsCoverLines'
    BY <1>6, <1>t, <1>h DEF Checkout, Deliver, HoldsCoverLines, TypeOK
  <2> QED
    BY <1>6, <1>t, <1>d, <2>1 DEF Checkout, MayDeliver, HoldInv
<1> QED
  BY <1>1, <1>2, <1>3, <1>4, <1>5, <1>6

LEMMA HoldAfterSale == HoldInv /\ AfterSale => HoldInv'
<1> SUFFICES ASSUME HoldInv, AfterSale, NEW s \in Sales,
                    \/ VoidPaidSale(s)
                    \/ VoidCompletedSale(s)
                    \/ \E key \in Keys, give \in Rows, swap \in [Variants -> Variants] :
                          ExchangeSale(s, key, give, swap)
             PROVE  HoldInv'
  BY DEF AfterSale, Returnable
<1>t. TypeOK /\ TypeOK'
  BY TypeAfterSale DEF HoldInv
<1>h. HoldsCoverLines /\ ReservedIsHeld /\ NoOversell
  BY DEF HoldInv
<1>a. \A v \in Variants : reserved[v] \in Nat /\ physical[v] \in Nat
  BY <1>t DEF TypeOK
<1>1. CASE VoidPaidSale(s)
  <2>1. EmptyRow \in Rows /\ hold[s] \in Rows
    BY <1>t, RowTypes DEF TypeOK
  <2>2. ReservedIsHeld'
    BY <1>1, <1>t, <1>h, <2>1, ReheldSum DEF VoidPaidSale, Release
  <2>3. \A v \in Variants : (reserved[v] - hold[s][v]) + EmptyRow[v] <= physical[v]
    BY <1>t, <1>h, <1>a, <2>1, EmptyValues, RowValues DEF NoOversell
  <2>4. NoOversell'
    BY <1>1, <2>3 DEF VoidPaidSale, Release, Rehold, NoOversell
  <2>5. HoldsCoverLines'
    BY <1>1, <1>t, <1>h DEF VoidPaidSale, Release, HoldsCoverLines, TypeOK
  <2> QED
    BY <1>t, <2>2, <2>4, <2>5 DEF HoldInv
<1>2. CASE VoidCompletedSale(s)
  <2>1. \A v \in Variants : sold[s][v] \in Nat
    BY <1>t, RowValues DEF TypeOK
  <2>2. NoOversell'
    BY <1>2, <1>h, <1>a, <2>1 DEF VoidCompletedSale, NoOversell
  <2>3. HoldsCoverLines'
    BY <1>2, <1>t, <1>h DEF VoidCompletedSale, HoldsCoverLines, TypeOK
  <2>4. ReservedIsHeld'
    BY <1>2, <1>h, SameHolds DEF VoidCompletedSale
  <2> QED
    BY <1>t, <2>2, <2>3, <2>4 DEF HoldInv
<1>3. ASSUME NEW key \in Keys, NEW give \in Rows, NEW swap \in [Variants -> Variants],
             ExchangeSale(s, key, give, swap)
      PROVE  HoldInv'
  <2>1. ASSUME NEW v \in Variants
        PROVE  reserved[v] <= (physical[v] + give[v]) - Demand(give, swap, v)
    <3>1. physical[v] - reserved[v] >= Demand(give, swap, v)
      BY <1>3 DEF ExchangeSale, Available
    <3> QED
      BY <3>1, <1>a, DemandType, RowValues
  <2>2. NoOversell'
    BY <1>3, <2>1 DEF ExchangeSale, NoOversell
  <2>3. HoldsCoverLines'
    BY <1>3, <1>h DEF ExchangeSale, HoldsCoverLines, saleVars
  <2>4. ReservedIsHeld'
    BY <1>3, <1>h, SameHolds DEF ExchangeSale, saleVars
  <2> QED
    BY <1>t, <2>2, <2>3, <2>4 DEF HoldInv
<1> QED
  BY <1>1, <1>2, <1>3

LEMMA HoldStep == HoldInv /\ [Next]_vars => HoldInv'
<1>1. HoldInv /\ UNCHANGED vars => HoldInv'
  <2> SUFFICES ASSUME HoldInv, UNCHANGED vars PROVE HoldInv'
    OBVIOUS
  <2>1. TypeOK'
    BY TypeStep DEF HoldInv
  <2>2. ReservedIsHeld'
    BY SameHolds DEF HoldInv, vars, saleVars, stockVars
  <2>3. HoldsCoverLines' /\ NoOversell'
    BY DEF HoldInv, HoldsCoverLines, NoOversell, vars, saleVars, stockVars
  <2> QED
    BY <2>1, <2>2, <2>3 DEF HoldInv
<1> QED
  BY <1>1, HoldStock, HoldDraft, HoldCharge, HoldAfterSale DEF Next

LEMMA HoldAlways == Spec => []HoldInv
  BY HoldInit, HoldStep, PTL DEF Spec

\* Inventory.reserved is the sum of the ACTIVE reservation rows after any operations.
THEOREM ReservedAlwaysHeld == Spec => []ReservedIsHeld
<1>1. HoldInv => ReservedIsHeld
  BY DEF HoldInv
<1> QED
  BY <1>1, HoldAlways, PTL

\* What is promised to sales is on the shelf, with any number of sales and drafts.
THEOREM NeverOversold == Spec => []NoOversell
<1>1. HoldInv => NoOversell
  BY DEF HoldInv
<1> QED
  BY <1>1, HoldAlways, PTL

\* A sale that can be charged or delivered holds exactly its lines, and no other holds.
THEOREM HoldsAlwaysCover == Spec => []HoldsCoverLines
<1>1. HoldInv => HoldsCoverLines
  BY DEF HoldInv
<1> QED
  BY <1>1, HoldAlways, PTL

\* The guards of the delivery and of the release never refuse a sale that reached them.
THEOREM NeverStrandedAlways == Spec => []NeverStranded
<1>1. HoldInv => NeverStranded
  <2> SUFFICES ASSUME HoldInv, NEW s \in Sales,
                      status[s] \in {"PENDING_PAYMENT", "PAID"}
               PROVE  MayDeliver(s) /\ MayRelease(s)
    BY DEF NeverStranded
  <2>1. items[s] # EmptyRow /\ hold[s] = items[s] /\ hold[s] \in Rows
    BY DEF HoldInv, HoldsCoverLines, TypeOK
  <2>2. \A v \in Variants : hold[s][v] <= reserved[v] /\ reserved[v] <= physical[v]
    BY HoldIsReserved DEF HoldInv, NoOversell
  <2>3. \A v \in Variants : reserved[v] \in Nat /\ physical[v] \in Nat /\ hold[s][v] \in Nat
    BY <2>1, RowValues DEF HoldInv, TypeOK
  <2> QED
    BY <2>1, <2>2, <2>3 DEF MayDeliver, MayRelease, Covered
<1> QED
  BY <1>1, HoldAlways, PTL

\* Editing a draft touches neither numbers, holds and stock nor what happens after a sale.
LEMMA DraftLeaves ==
  Draft => UNCHANGED <<number, accepted, hold, afterSaleVars, stockVars, nextValue>>
<1> SUFFICES ASSUME Draft
             PROVE  UNCHANGED <<number, accepted, hold, afterSaleVars, stockVars, nextValue>>
  OBVIOUS
<1>1. ASSUME NEW s \in Sales, CreateDraftSale(s)
      PROVE  UNCHANGED <<number, accepted, hold, afterSaleVars, stockVars, nextValue>>
  BY <1>1 DEF CreateDraftSale
<1>2. ASSUME NEW c, NEW kind, NEW s, NEW v, NEW q, Prepared(c, kind, s, v, q)
      PROVE  UNCHANGED <<number, accepted, hold, afterSaleVars, stockVars, nextValue>>
  BY <1>2 DEF Prepared, saleVars
<1>3. ASSUME NEW c \in Clients, WriteItem(c) \/ RefuseItem(c)
      PROVE  UNCHANGED <<number, accepted, hold, afterSaleVars, stockVars, nextValue>>
  BY <1>3 DEF WriteItem, RefuseItem, saleVars
<1> QED
  BY <1>1, <1>2, <1>3 DEF Draft, PrepareAddItem, PrepareUpdateItem, PrepareRemoveItem

\* The only status that an edit sets is that of a sale it creates.
LEMMA DraftOpens ==
  Draft => UNCHANGED status \/ \E s \in Sales : CreateDraftSale(s)
<1>1. ASSUME NEW c, NEW kind, NEW s, NEW v, NEW q, Prepared(c, kind, s, v, q)
      PROVE  status' = status
  BY <1>1 DEF Prepared, saleVars
<1>2. ASSUME NEW c \in Clients, WriteItem(c) \/ RefuseItem(c)
      PROVE  status' = status
  BY <1>2 DEF WriteItem, RefuseItem, saleVars
<1> QED
  BY <1>1, <1>2 DEF Draft, PrepareAddItem, PrepareUpdateItem, PrepareRemoveItem

-----------------------------------------------------------------------------
(***************************************************************************)
(* The commercial numbers.                                                 *)
(***************************************************************************)
NumberInv == TypeOK /\ NumbersUnique

LEMMA NumberStep == NumberInv /\ [Next]_vars => NumberInv'
<1> SUFFICES ASSUME NumberInv, [Next]_vars PROVE NumberInv'
  OBVIOUS
<1>t. TypeOK /\ TypeOK'
  BY TypeStep DEF NumberInv
<1> SUFFICES NumbersUnique'
  BY <1>t DEF NumberInv
<1>1. ASSUME NEW s \in Sales, SendToCashier(s)
      PROVE  NumbersUnique'
  <2>1. /\ number' = [number EXCEPT ![s] = nextValue]
        /\ nextValue' = nextValue + 1
        /\ status' = [status EXCEPT ![s] = "PENDING_PAYMENT"]
    BY <1>1 DEF SendToCashier, TakeNumber
  <2>2. \A t \in Sales : number[t] \in Nat /\ nextValue \in Nat \ {0}
    BY <1>t DEF TypeOK
  <2> QED
    BY <1>t, <2>1, <2>2 DEF NumberInv, NumbersUnique, TypeOK
<1>2. ASSUME UNCHANGED <<number, nextValue>>,
             \A s \in Sales : status'[s] = status[s]
                \/ status'[s] \in {"DRAFT", "CANCELLED"}
                \/ status[s] \in {"PENDING_PAYMENT", "PAID", "COMPLETED"}
      PROVE  NumbersUnique'
  BY <1>2 DEF NumberInv, NumbersUnique
<1>3. CASE Stock
  BY <1>2, <1>3 DEF Stock, LoadInitialStock, AdjustStock, saleVars
<1>4. CASE Draft
  <2>1. UNCHANGED <<number, nextValue>>
    BY <1>4, DraftLeaves
  <2>2. UNCHANGED status \/ \E s \in Sales : status' = [status EXCEPT ![s] = "DRAFT"]
    BY <1>4, DraftOpens DEF CreateDraftSale
  <2>3. \A s \in Sales : status'[s] = status[s] \/ status'[s] = "DRAFT"
    BY <2>2, <1>t DEF TypeOK
  <2> QED
    BY <1>2, <2>1, <2>3
<1>5. CASE Charge
  <2> SUFFICES ASSUME NEW s \in Sales,
                      \/ \E target \in Rows : CorrectPendingSale(s, target)
                      \/ CancelSale(s)
                      \/ \E amount \in 1..total[s] : RegisterPayment(s, amount)
                      \/ CompleteSale(s)
                      \/ \E settlement \in Settlements : Checkout(s, settlement)
               PROVE  NumbersUnique'
    BY <1>1, <1>5 DEF Charge
  <2> USE <1>t DEF TypeOK
  <2>1. ASSUME NEW target \in Rows, CorrectPendingSale(s, target) PROVE NumbersUnique'
    BY <1>2, <2>1 DEF CorrectPendingSale
  <2>2. CASE CancelSale(s)
    BY <1>2, <2>2 DEF CancelSale
  <2>3. ASSUME NEW amount \in 1..total[s], RegisterPayment(s, amount) PROVE NumbersUnique'
    BY <1>2, <2>3 DEF RegisterPayment, MayAccept
  <2>4. CASE CompleteSale(s)
    BY <1>2, <2>4 DEF CompleteSale
  <2>5. ASSUME NEW settlement \in Settlements, Checkout(s, settlement) PROVE NumbersUnique'
    BY <1>2, <2>5 DEF Checkout
  <2> QED
    BY <2>1, <2>2, <2>3, <2>4, <2>5
<1>6. CASE AfterSale
  <2> SUFFICES ASSUME NEW s \in Sales,
                      \/ VoidPaidSale(s)
                      \/ VoidCompletedSale(s)
                      \/ \E key \in Keys, give \in Rows, swap \in [Variants -> Variants] :
                            ExchangeSale(s, key, give, swap)
               PROVE  NumbersUnique'
    BY <1>6 DEF AfterSale, Returnable
  <2> USE <1>t DEF TypeOK
  <2>1. CASE VoidPaidSale(s)
    BY <1>2, <2>1 DEF VoidPaidSale
  <2>2. CASE VoidCompletedSale(s)
    BY <1>2, <2>2 DEF VoidCompletedSale
  <2>3. ASSUME NEW key \in Keys, NEW give \in Rows, NEW swap \in [Variants -> Variants],
               ExchangeSale(s, key, give, swap)
        PROVE  NumbersUnique'
    BY <1>2, <2>3 DEF ExchangeSale, saleVars
  <2> QED
    BY <2>1, <2>2, <2>3
<1>7. CASE UNCHANGED vars
  BY <1>2, <1>7 DEF vars, saleVars
<1> QED
  BY <1>t, <1>3, <1>4, <1>5, <1>6, <1>7 DEF Next, NumberInv

\* No two sales of the branch share a commercial number, however many are sent.
THEOREM NumbersAlwaysUnique == Spec => []NumbersUnique
<1>1. Init => NumberInv
  <2>1. Init => TypeOK
    BY TypeInit
  <2>2. Init => NumbersUnique
    BY DEF Init, NumbersUnique
  <2> QED
    BY <2>1, <2>2 DEF NumberInv
<1>2. NumberInv => NumbersUnique
  BY DEF NumberInv
<1> QED
  BY <1>1, <1>2, NumberStep, PTL DEF Spec

-----------------------------------------------------------------------------
(***************************************************************************)
(* The money.                                                              *)
(***************************************************************************)

LEMMA LineTotalPositive ==
  ASSUME NEW row \in Rows, row # EmptyRow
  PROVE  LineTotal(row) > 0
<1> DEFINE All == Variants \X (1..MaxUnits) \X (1..MaxPrice)
           Pesos == {u \in All : u[2] <= row[u[1]] /\ u[3] <= Price[u[1]]}
<1>1. PICK v \in Variants : row[v] # 0
  BY DEF Rows, EmptyRow
<1>2. row[v] \in 1..MaxUnits
  BY <1>1, RowValues
<1>3. Price[v] \in 1..MaxPrice /\ MaxPrice \in Nat
  BY PriceAssumption, BoundsAssumption
<1>4. <<v, 1, 1>> \in Pesos
  BY <1>2, <1>3, MaxUnitsType
<1>5. LineTotal(row) = Cardinality(Pesos) /\ LineTotal(row) \in Nat
  BY LineTotalType DEF LineTotal
<1>6. IsFiniteSet(Pesos)
  BY PesosFinite
<1>7. Cardinality(Pesos) # 0
  BY <1>4, <1>6, FS_EmptySet
<1> QED
  BY <1>5, <1>7

LEMMA LineTotalEmpty == LineTotal(EmptyRow) = 0
<1>1. {u \in Variants \X (1..MaxUnits) \X (1..MaxPrice) :
          u[2] <= EmptyRow[u[1]] /\ u[3] <= Price[u[1]]} = {}
  BY MaxUnitsType, EmptyValues
<1> QED
  BY <1>1, FS_EmptySet DEF LineTotal

MoneyInv == TypeOK /\ MoneyMatchesSale

LEMMA MoneyDraft == MoneyInv /\ Draft => MoneyMatchesSale'
<1> SUFFICES ASSUME MoneyInv, Draft PROVE MoneyMatchesSale'
  OBVIOUS
<1> USE DEF MoneyInv, MoneyMatchesSale, TypeOK, saleVars, afterSaleVars
<1>1. ASSUME NEW s \in Sales, CreateDraftSale(s)
      PROVE  MoneyMatchesSale'
  BY <1>1 DEF CreateDraftSale
<1>2. ASSUME NEW c \in Clients, NEW s \in Sales, NEW v \in Variants,
             \/ \E q \in 1..MaxQuantity : PrepareAddItem(c, s, v, q)
             \/ \E q \in 1..MaxQuantity : PrepareUpdateItem(c, s, v, q)
             \/ PrepareRemoveItem(c, s, v)
      PROVE  MoneyMatchesSale'
  BY <1>2 DEF PrepareAddItem, PrepareUpdateItem, PrepareRemoveItem, Prepared
<1>3. ASSUME NEW c \in Clients, WriteItem(c)
      PROVE  MoneyMatchesSale'
  <2> DEFINE r == request[c]
             row == [items[r.sale] EXCEPT ![r.variant] = LineAfter(r)]
  <2>1. r.sale \in Sales /\ status[r.sale] = "DRAFT"
    BY <1>3 DEF WriteItem, MayWriteItem, Requests
  <2>2. /\ items' = [items EXCEPT ![r.sale] = row]
        /\ total' = [total EXCEPT ![r.sale] = LineTotal(row)]
        /\ UNCHANGED <<status, accepted, voided>>
    BY <1>3 DEF WriteItem
  <2>3. LineTotal(row) \in Nat
    BY LineTotalType
  <2> HIDE DEF row, r
  <2> QED
    BY <2>1, <2>2, <2>3
<1>4. ASSUME NEW c \in Clients, RefuseItem(c)
      PROVE  MoneyMatchesSale'
  BY <1>4 DEF RefuseItem
<1> QED
  BY <1>1, <1>2, <1>3, <1>4 DEF Draft

LEMMA MoneyCharge == MoneyInv /\ Charge => MoneyMatchesSale'
<1> SUFFICES ASSUME MoneyInv, NEW s \in Sales,
                    \/ SendToCashier(s)
                    \/ \E target \in Rows : CorrectPendingSale(s, target)
                    \/ CancelSale(s)
                    \/ \E amount \in 1..total[s] : RegisterPayment(s, amount)
                    \/ CompleteSale(s)
                    \/ \E settlement \in Settlements : Checkout(s, settlement)
             PROVE  MoneyMatchesSale'
  BY DEF Charge
<1> USE DEF MoneyInv, MoneyMatchesSale, TypeOK, afterSaleVars
<1>1. CASE SendToCashier(s)
  <2>1. LineTotal(items[s]) > 0
    BY <1>1, LineTotalPositive DEF SendToCashier
  <2> QED
    BY <1>1, <2>1 DEF SendToCashier
<1>2. ASSUME NEW target \in Rows, CorrectPendingSale(s, target)
      PROVE  MoneyMatchesSale'
  <2>1. LineTotal(target) > 0 /\ LineTotal(target) \in Nat
    BY <1>2, LineTotalPositive, LineTotalType DEF CorrectPendingSale
  <2> QED
    BY <1>2, <2>1 DEF CorrectPendingSale, MayCorrect
<1>3. CASE CancelSale(s)
  BY <1>3 DEF CancelSale, MayCancel
<1>4. ASSUME NEW amount \in 1..total[s], RegisterPayment(s, amount)
      PROVE  MoneyMatchesSale'
  BY <1>4 DEF RegisterPayment, MayAccept
<1>5. CASE CompleteSale(s)
  BY <1>5 DEF CompleteSale
<1>6. ASSUME NEW settlement \in Settlements, Checkout(s, settlement)
      PROVE  MoneyMatchesSale'
  BY <1>6, PriceAssumption DEF Checkout
<1> QED
  BY <1>1, <1>2, <1>3, <1>4, <1>5, <1>6

LEMMA MoneyAfterSale == MoneyInv /\ AfterSale => MoneyMatchesSale'
<1> SUFFICES ASSUME MoneyInv, NEW s \in Sales,
                    \/ VoidPaidSale(s)
                    \/ VoidCompletedSale(s)
                    \/ \E key \in Keys, give \in Rows, swap \in [Variants -> Variants] :
                          ExchangeSale(s, key, give, swap)
             PROVE  MoneyMatchesSale'
  BY DEF AfterSale, Returnable
<1> USE DEF MoneyInv, MoneyMatchesSale, TypeOK
<1>1. CASE VoidPaidSale(s)
  BY <1>1 DEF VoidPaidSale
<1>2. CASE VoidCompletedSale(s)
  BY <1>2 DEF VoidCompletedSale
<1>3. ASSUME NEW key \in Keys, NEW give \in Rows, NEW swap \in [Variants -> Variants],
             ExchangeSale(s, key, give, swap)
      PROVE  MoneyMatchesSale'
  BY <1>3 DEF ExchangeSale, saleVars
<1> QED
  BY <1>1, <1>2, <1>3

LEMMA MoneyStep == MoneyInv /\ [Next]_vars => MoneyInv'
<1> SUFFICES ASSUME MoneyInv, [Next]_vars PROVE MoneyInv'
  OBVIOUS
<1>1. TypeOK'
  BY TypeStep DEF MoneyInv
<1>2. CASE Stock
  <2>1. UNCHANGED <<saleVars, afterSaleVars>>
    BY <1>2 DEF Stock, LoadInitialStock, AdjustStock
  <2> QED
    BY <1>1, <2>1 DEF MoneyInv, MoneyMatchesSale, saleVars, afterSaleVars
<1>3. CASE UNCHANGED vars
  BY <1>1, <1>3 DEF MoneyInv, MoneyMatchesSale, vars, saleVars, afterSaleVars
<1> QED
  BY <1>1, <1>2, <1>3, MoneyDraft, MoneyCharge, MoneyAfterSale DEF Next, MoneyInv

LEMMA MoneyAlways == Spec => []MoneyInv
<1>1. Init => MoneyInv
  <2>1. Init => TypeOK
    BY TypeInit
  <2>2. Init => MoneyMatchesSale
    BY LineTotalEmpty DEF Init, MoneyMatchesSale
  <2> QED
    BY <2>1, <2>2 DEF MoneyInv
<1> QED
  BY <1>1, MoneyStep, PTL DEF Spec

\* A sale costs the price of its lines or its settlement, is paid in full before it is
\* delivered and never overpaid, and loses its payments only to a void.
THEOREM MoneyAlwaysMatches == Spec => []MoneyMatchesSale
<1>1. MoneyInv => MoneyMatchesSale
  BY DEF MoneyInv
<1> QED
  BY <1>1, MoneyAlways, PTL

PaidContentKept ==
  \A s \in Sales :
    accepted[s] > 0 => /\ items'[s] = items[s]
                       /\ total'[s] = total[s]
                       /\ accepted'[s] >= accepted[s]

LEMMA PaidContentStep == MoneyInv /\ [Next]_vars => PaidContentKept
<1> SUFFICES ASSUME MoneyInv, [Next]_vars, NEW s \in Sales, accepted[s] > 0
             PROVE  /\ items'[s] = items[s]
                    /\ total'[s] = total[s]
                    /\ accepted'[s] >= accepted[s]
  BY DEF PaidContentKept
<1> DEFINE Kept == /\ items'[s] = items[s]
                   /\ total'[s] = total[s]
                   /\ accepted'[s] >= accepted[s]
<1>t. TypeOK /\ accepted[s] \in Nat /\ status[s] \notin {"NONE", "DRAFT"}
  BY DEF MoneyInv, MoneyMatchesSale, TypeOK
<1>0. ASSUME UNCHANGED <<items, total, accepted>> PROVE Kept
  BY <1>0, <1>t
<1>1. CASE Stock
  BY <1>0, <1>1 DEF Stock, LoadInitialStock, AdjustStock, saleVars
<1>2. CASE Draft
  <2>1. ASSUME NEW c \in Clients, WriteItem(c) PROVE Kept
    <3>1. request[c].sale # s /\ request[c].sale \in Sales
      BY <2>1, <1>t DEF WriteItem, MayWriteItem, TypeOK, Requests
    <3> QED
      BY <2>1, <3>1, <1>t DEF WriteItem, TypeOK
  <2> QED
    BY <1>0, <1>2, <2>1 DEF Draft, CreateDraftSale, PrepareAddItem, PrepareUpdateItem,
       PrepareRemoveItem, Prepared, RefuseItem, saleVars
<1>3. CASE Charge
  <2> SUFFICES ASSUME NEW t \in Sales,
                      \/ SendToCashier(t)
                      \/ \E target \in Rows : CorrectPendingSale(t, target)
                      \/ CancelSale(t)
                      \/ \E amount \in 1..total[t] : RegisterPayment(t, amount)
                      \/ CompleteSale(t)
                      \/ \E settlement \in Settlements : Checkout(t, settlement)
               PROVE  Kept
    BY <1>3 DEF Charge
  <2> USE <1>t DEF TypeOK
  <2>1. CASE SendToCashier(t)
    BY <1>0, <2>1 DEF SendToCashier
  <2>2. ASSUME NEW target \in Rows, CorrectPendingSale(t, target) PROVE Kept
    BY <2>2 DEF CorrectPendingSale, MayCorrect
  <2>3. CASE CancelSale(t)
    BY <1>0, <2>3 DEF CancelSale
  <2>4. ASSUME NEW amount \in 1..total[t], RegisterPayment(t, amount) PROVE Kept
    BY <2>4 DEF RegisterPayment
  <2>5. CASE CompleteSale(t)
    BY <1>0, <2>5 DEF CompleteSale
  <2>6. ASSUME NEW settlement \in Settlements, Checkout(t, settlement) PROVE Kept
    BY <2>6 DEF Checkout
  <2> QED
    BY <2>1, <2>2, <2>3, <2>4, <2>5, <2>6
<1>4. CASE AfterSale
  BY <1>0, <1>4 DEF AfterSale, Returnable, VoidPaidSale, VoidCompletedSale, ExchangeSale, saleVars
<1>5. CASE UNCHANGED vars
  BY <1>0, <1>5 DEF vars, saleVars
<1> QED
  BY <1>1, <1>2, <1>3, <1>4, <1>5 DEF Next

\* Once money was accepted, no step changes the lines or the total it was accepted for.
THEOREM PaidContentAlwaysFrozen == Spec => PaidContentFrozen
<1>1. MoneyInv /\ [Next]_vars => [PaidContentKept]_vars
  BY PaidContentStep
<1>2. PaidContentFrozen <=> [][PaidContentKept]_vars
  BY DEF PaidContentFrozen, PaidContentKept
<1> QED
  BY <1>1, <1>2, MoneyAlways, PTL DEF Spec

-----------------------------------------------------------------------------
(***************************************************************************)
(* The stock movements.                                                    *)
(***************************************************************************)
MoveInv == TypeOK /\ MovementsMatchLife

LEMMA MoveCharge == MoveInv /\ Charge => MovementsMatchLife'
<1> SUFFICES ASSUME MoveInv, NEW s \in Sales,
                    \/ SendToCashier(s)
                    \/ \E target \in Rows : CorrectPendingSale(s, target)
                    \/ CancelSale(s)
                    \/ \E amount \in 1..total[s] : RegisterPayment(s, amount)
                    \/ CompleteSale(s)
                    \/ \E settlement \in Settlements : Checkout(s, settlement)
             PROVE  MovementsMatchLife'
  BY DEF Charge
<1> USE DEF MoveInv, MovementsMatchLife, TypeOK, afterSaleVars
<1>1. CASE SendToCashier(s)
  BY <1>1 DEF SendToCashier, TakeNumber
<1>2. ASSUME NEW target \in Rows, CorrectPendingSale(s, target)
      PROVE  MovementsMatchLife'
  BY <1>2 DEF CorrectPendingSale, MayCorrect
<1>3. CASE CancelSale(s)
  BY <1>3 DEF CancelSale, MayCancel
<1>4. ASSUME NEW amount \in 1..total[s], RegisterPayment(s, amount)
      PROVE  MovementsMatchLife'
  BY <1>4 DEF RegisterPayment, MayAccept
\* Nothing came back to a sale that is being delivered now.
<1>5. ASSUME status[s] \in {"PENDING_PAYMENT", "PAID"}
      PROVE  exchanges[s] = {} /\ \A v \in Variants : returned[s][v] <= items[s][v]
  <2>1. exchanges[s] = {} /\ returned[s] = EmptyRow
    BY <1>5
  <2> QED
    BY <2>1, EmptyValues, RowValues
<1>6. CASE CompleteSale(s)
  BY <1>5, <1>6 DEF CompleteSale, Deliver
<1>7. ASSUME NEW settlement \in Settlements, Checkout(s, settlement)
      PROVE  MovementsMatchLife'
  BY <1>5, <1>7 DEF Checkout, Deliver
<1> QED
  BY <1>1, <1>2, <1>3, <1>4, <1>6, <1>7

LEMMA MoveAfterSale == MoveInv /\ AfterSale => MovementsMatchLife'
<1> SUFFICES ASSUME MoveInv, AfterSale, NEW s \in Sales,
                    \/ VoidPaidSale(s)
                    \/ VoidCompletedSale(s)
                    \/ \E key \in Keys, give \in Rows, swap \in [Variants -> Variants] :
                          ExchangeSale(s, key, give, swap)
             PROVE  MovementsMatchLife'
  BY DEF AfterSale, Returnable
<1> USE DEF MoveInv, MovementsMatchLife, TypeOK
<1>1. CASE VoidPaidSale(s)
  BY <1>1 DEF VoidPaidSale, MayVoid
<1>2. CASE VoidCompletedSale(s)
  BY <1>2 DEF VoidCompletedSale, MayVoid
<1>3. ASSUME NEW key \in Keys, NEW give \in Rows, NEW swap \in [Variants -> Variants],
             ExchangeSale(s, key, give, swap)
      PROVE  MovementsMatchLife'
  <2>1. sold[s] = items[s] /\ restored[s] = EmptyRow /\ status[s] = "COMPLETED"
    BY <1>3 DEF ExchangeSale
  <2>2. /\ returned' = [returned EXCEPT ![s] = [v \in Variants |-> returned[s][v] + give[v]]]
        /\ replaced' \in [Sales -> Rows]
        /\ \A t \in Sales \ {s} : replaced'[t] = replaced[t]
        /\ exchanges' = [exchanges EXCEPT ![s] = @ \cup {key}]
        /\ UNCHANGED <<status, items, sold, restored>>
    <3>1. TypeOK'
      BY TypeAfterSale
    <3> QED
      BY <1>3, <3>1 DEF ExchangeSale, saleVars
  <2>3. ASSUME NEW v \in Variants
        PROVE  returned[s][v] + give[v] <= items[s][v]
    <3>1. returned[s][v] \in Nat /\ items[s][v] \in Nat /\ give[v] \in Nat
      BY RowValues
    <3>2. give[v] > 0 => give[v] <= items[s][v] - returned[s][v]
      BY <1>3 DEF ExchangeSale, MayExchange, Remainder
    <3>3. returned[s][v] <= items[s][v]
      BY <2>1
    <3> QED
      BY <3>1, <3>2, <3>3
  <2> QED
    BY <2>1, <2>2, <2>3
<1> QED
  BY <1>1, <1>2, <1>3

LEMMA MoveStep == MoveInv /\ [Next]_vars => MoveInv'
<1> SUFFICES ASSUME MoveInv, [Next]_vars PROVE MoveInv'
  OBVIOUS
<1>1. TypeOK'
  BY TypeStep DEF MoveInv
<1>0. ASSUME UNCHANGED <<status, items, afterSaleVars>> PROVE MoveInv'
  BY <1>0, <1>1 DEF MoveInv, MovementsMatchLife, afterSaleVars
<1>2. CASE Stock
  BY <1>0, <1>2 DEF Stock, LoadInitialStock, AdjustStock, saleVars
<1>3. CASE Draft
  <2> USE DEF MoveInv, MovementsMatchLife, TypeOK, afterSaleVars
  <2>1. ASSUME NEW s \in Sales, CreateDraftSale(s) PROVE MovementsMatchLife'
    BY <2>1 DEF CreateDraftSale
  <2>2. ASSUME NEW c \in Clients, WriteItem(c) PROVE MovementsMatchLife'
    <3>1. request[c].sale \in Sales /\ status[request[c].sale] = "DRAFT"
      BY <2>2 DEF WriteItem, MayWriteItem, Requests
    <3>2. \A s \in Sales \ {request[c].sale} : items'[s] = items[s]
      BY <2>2, <3>1 DEF WriteItem
    <3> QED
      BY <2>2, <3>1, <3>2 DEF WriteItem
  <2> QED
    BY <1>0, <1>1, <1>3, <2>1, <2>2 DEF Draft, PrepareAddItem, PrepareUpdateItem,
       PrepareRemoveItem, Prepared, RefuseItem, saleVars
<1>4. CASE UNCHANGED vars
  BY <1>0, <1>4 DEF vars, saleVars
<1> QED
  BY <1>1, <1>2, <1>3, <1>4, MoveCharge, MoveAfterSale DEF Next, MoveInv

LEMMA MoveAlways == Spec => []MoveInv
<1>1. Init => MoveInv
  <2>1. Init => TypeOK
    BY TypeInit
  <2>2. Init => MovementsMatchLife
    BY EmptyValues DEF Init, MovementsMatchLife
  <2> QED
    BY <2>1, <2>2 DEF MoveInv
<1> QED
  BY <1>1, MoveStep, PTL DEF Spec

\* The movements of a sale tell its whole story; a void and an exchange never meet.
THEOREM MovementsAlwaysMatch == Spec => []MovementsMatchLife
<1>1. MoveInv => MovementsMatchLife
  BY DEF MoveInv
<1> QED
  BY <1>1, MoveAlways, PTL

-----------------------------------------------------------------------------
(***************************************************************************)
(* Conservation of units.                                                  *)
(***************************************************************************)

\* What the movements say is with the customer of a sale is a number of units.
LEMMA WithType ==
  MoveInv => \A s \in Sales, v \in Variants :
                /\ WithCustomer(s)[v] \in 0..MaxUnits
                /\ status[s] # "COMPLETED" => WithCustomer(s)[v] = 0
<1> SUFFICES ASSUME MoveInv, NEW s \in Sales, NEW v \in Variants
             PROVE  /\ WithCustomer(s)[v] \in 0..MaxUnits
                    /\ status[s] # "COMPLETED" => WithCustomer(s)[v] = 0
  OBVIOUS
<1>1. /\ sold[s][v] \in Nat /\ sold[s][v] <= MaxQuantity
      /\ replaced[s][v] \in Nat /\ replaced[s][v] <= MaxQuantity
      /\ restored[s][v] \in Nat
      /\ returned[s][v] \in Nat /\ returned[s][v] <= sold[s][v]
  <2>1. \A row \in Rows : row[v] \in Nat /\ row[v] <= MaxQuantity
    BY BoundsAssumption DEF Rows, Quantities
  <2> QED
    BY <2>1 DEF MoveInv, TypeOK, MovementsMatchLife
<1>2. status[s] = "COMPLETED" => restored[s][v] = 0
  BY EmptyValues DEF MoveInv, MovementsMatchLife
<1>3. status[s] # "COMPLETED" =>
        returned[s][v] = 0 /\ replaced[s][v] = 0 /\ sold[s][v] = restored[s][v]
  BY EmptyValues DEF MoveInv, MovementsMatchLife
<1>4. WithCustomer(s)[v] =
        ((sold[s][v] - restored[s][v]) - returned[s][v]) + replaced[s][v]
  BY DEF WithCustomer
<1>5. MaxUnits = 2 * MaxQuantity /\ MaxQuantity \in Nat
  BY BoundsAssumption DEF MaxUnits
<1>6. CASE status[s] = "COMPLETED"
  BY <1>1, <1>2, <1>4, <1>5, <1>6
<1>7. CASE status[s] # "COMPLETED"
  <2>1. returned[s][v] = 0 /\ replaced[s][v] = 0 /\ sold[s][v] = restored[s][v]
    BY <1>3, <1>7
  <2>2. ((sold[s][v] - sold[s][v]) - 0) + 0 = 0
    BY <1>1
  <2>3. WithCustomer(s)[v] = 0
    BY <1>4, <2>1, <2>2
  <2> QED
    BY <1>5, <2>3
<1> QED
  BY <1>6, <1>7

LEMMA WithTypePrimed ==
  MoveInv' => \A s \in Sales, v \in Variants : WithCustomer(s)'[v] \in 0..MaxUnits
<1>1. MoveInv => \A s \in Sales, v \in Variants : WithCustomer(s)[v] \in 0..MaxUnits
  BY WithType
<1>2. (MoveInv => \A s \in Sales, v \in Variants : WithCustomer(s)[v] \in 0..MaxUnits)'
  BY <1>1, PTL
<1> QED
  BY <1>2

\* When only what the customer of one sale has changes, and the shelf changes by the
\* difference, no unit is lost or made.
LEMMA UnitsMoved ==
  ASSUME MoveInv, MoveInv', UnitsConserved, NEW s \in Sales,
         \A t \in Sales \ {s} : WithCustomer(t)' = WithCustomer(t),
         \A v \in Variants :
            physical'[v] + WithCustomer(s)'[v] = physical[v] + WithCustomer(s)[v],
         UNCHANGED loaded
  PROVE  UnitsConserved'
<1> SUFFICES ASSUME NEW v \in Variants
             PROVE  physical'[v] + TotalDelivered(v)' = loaded'[v]
  BY DEF UnitsConserved
<1> DEFINE f == [t \in Sales |-> WithCustomer(t)[v]]
           g == [t \in Sales |-> WithCustomer(t)'[v]]
<1>1. /\ f[s] = WithCustomer(s)[v] /\ f[s] \in 0..MaxUnits
      /\ g[s] = WithCustomer(s)'[v] /\ g[s] \in 0..MaxUnits
  BY WithType, WithTypePrimed
<1>2. \A t \in Sales \ {s} : g[t] = f[t]
  OBVIOUS
<1> HIDE DEF f, g
<1>3. SumOverSales(g) = (SumOverSales(f) - f[s]) + g[s]
  BY <1>1, <1>2, SumChange
<1>4. TotalDelivered(v) = SumOverSales(f) /\ TotalDelivered(v)' = SumOverSales(g)
  BY DEF TotalDelivered, f, g
<1>5. SumOverSales(f) \in Nat
  BY SumType
<1>6. /\ physical[v] + SumOverSales(f) = loaded[v]
      /\ physical[v] \in Nat /\ physical'[v] \in Nat /\ loaded[v] \in Int
  BY <1>4 DEF UnitsConserved, MoveInv, TypeOK
<1> QED
  BY <1>1, <1>3, <1>4, <1>5, <1>6, MaxUnitsType

\* What an operation that writes stock movements does to what the customer of its sale has.
LEMMA WithStep ==
  ASSUME MoveInv, HoldsCoverLines, MoveInv', NEW s \in Sales
  PROVE  /\ CompleteSale(s) \/ (\E settlement \in Settlements : Checkout(s, settlement)) =>
              /\ WithCustomer(s)' = hold[s]
              /\ WithCustomer(s) = EmptyRow
              /\ \A t \in Sales \ {s} : WithCustomer(t)' = WithCustomer(t)
         /\ VoidCompletedSale(s) =>
              /\ WithCustomer(s)' = EmptyRow
              /\ WithCustomer(s) = sold[s]
              /\ \A t \in Sales \ {s} : WithCustomer(t)' = WithCustomer(t)
         /\ \A key \in Keys, give \in Rows, swap \in [Variants -> Variants] :
              ExchangeSale(s, key, give, swap) =>
              /\ \A v \in Variants : WithCustomer(s)'[v] =
                    (WithCustomer(s)[v] - give[v]) + Demand(give, swap, v)
              /\ \A t \in Sales \ {s} : WithCustomer(t)' = WithCustomer(t)
<1> USE DEF MoveInv, TypeOK
<1>a. \A t \in Sales, v \in Variants :
        sold[t][v] \in Nat /\ restored[t][v] \in Nat /\ returned[t][v] \in Nat
          /\ replaced[t][v] \in Nat /\ items[t][v] \in Nat
  BY RowValues
<1>b. /\ EmptyRow = [v \in Variants |-> 0]
      /\ \A t \in Sales : /\ sold[t] = [v \in Variants |-> sold[t][v]]
                          /\ items[t] = [v \in Variants |-> items[t][v]]
  BY DEF EmptyRow, Rows
<1>1. ASSUME CompleteSale(s) \/ (\E settlement \in Settlements : Checkout(s, settlement))
      PROVE  /\ WithCustomer(s)' = hold[s]
             /\ WithCustomer(s) = EmptyRow
             /\ \A t \in Sales \ {s} : WithCustomer(t)' = WithCustomer(t)
  <2>1. /\ sold' = [sold EXCEPT ![s] = items[s]]
        /\ UNCHANGED <<restored, returned, replaced>>
        /\ status[s] \in {"PENDING_PAYMENT", "PAID"}
        /\ hold[s] = items[s]
    BY <1>1 DEF CompleteSale, Checkout, Deliver, MayDeliver, Covered
  <2>2. sold[s] = EmptyRow /\ restored[s] = EmptyRow /\ returned[s] = EmptyRow
        /\ replaced[s] = EmptyRow
    BY <2>1 DEF MovementsMatchLife
  <2>3. \A v \in Variants : ((items[s][v] - 0) - 0) + 0 = items[s][v]
    BY <1>a
  <2>4. WithCustomer(s)' = [v \in Variants |-> ((items[s][v] - 0) - 0) + 0]
    BY <2>1, <2>2, EmptyValues DEF WithCustomer
  <2>5. WithCustomer(s) = [v \in Variants |-> ((0 - 0) - 0) + 0]
    BY <2>2, EmptyValues DEF WithCustomer
  <2>6. \A t \in Sales \ {s} : WithCustomer(t)' = WithCustomer(t)
    BY <2>1 DEF WithCustomer
  <2> QED
    BY <2>1, <2>3, <2>4, <2>5, <2>6, <1>b
<1>2. ASSUME VoidCompletedSale(s)
      PROVE  /\ WithCustomer(s)' = EmptyRow
             /\ WithCustomer(s) = sold[s]
             /\ \A t \in Sales \ {s} : WithCustomer(t)' = WithCustomer(t)
  <2>1. /\ restored' = [restored EXCEPT ![s] = sold[s]]
        /\ UNCHANGED <<sold, returned, replaced>>
        /\ status[s] = "COMPLETED" /\ exchanges[s] = {}
    BY <1>2 DEF VoidCompletedSale, MayVoid
  <2>2. restored[s] = EmptyRow /\ returned[s] = EmptyRow /\ replaced[s] = EmptyRow
    BY <2>1 DEF MovementsMatchLife
  <2>3. \A v \in Variants : /\ ((sold[s][v] - 0) - 0) + 0 = sold[s][v]
                            /\ ((sold[s][v] - sold[s][v]) - 0) + 0 = 0
    BY <1>a
  <2>4. WithCustomer(s)' = [v \in Variants |-> ((sold[s][v] - sold[s][v]) - 0) + 0]
    BY <2>1, <2>2, EmptyValues DEF WithCustomer
  <2>5. WithCustomer(s) = [v \in Variants |-> ((sold[s][v] - 0) - 0) + 0]
    BY <2>2, EmptyValues DEF WithCustomer
  <2>6. \A t \in Sales \ {s} : WithCustomer(t)' = WithCustomer(t)
    BY <2>1 DEF WithCustomer
  <2> QED
    BY <2>3, <2>4, <2>5, <2>6, <1>b
<1>3. ASSUME NEW key \in Keys, NEW give \in Rows, NEW swap \in [Variants -> Variants],
             ExchangeSale(s, key, give, swap)
      PROVE  /\ \A v \in Variants : WithCustomer(s)'[v] =
                  (WithCustomer(s)[v] - give[v]) + Demand(give, swap, v)
             /\ \A t \in Sales \ {s} : WithCustomer(t)' = WithCustomer(t)
  <2>1. /\ returned' = [returned EXCEPT ![s] = [v \in Variants |-> returned[s][v] + give[v]]]
        /\ replaced' = [replaced EXCEPT ![s] =
                          [v \in Variants |-> replaced[s][v] + Demand(give, swap, v)]]
        /\ UNCHANGED <<sold, restored>>
    BY <1>3 DEF ExchangeSale
  <2>2. ASSUME NEW v \in Variants
        PROVE  WithCustomer(s)'[v] = (WithCustomer(s)[v] - give[v]) + Demand(give, swap, v)
    <3>1. WithCustomer(s)'[v] = ((sold[s][v] - restored[s][v]) - (returned[s][v] + give[v]))
                                  + (replaced[s][v] + Demand(give, swap, v))
      BY <2>1 DEF WithCustomer
    <3>2. WithCustomer(s)[v] = ((sold[s][v] - restored[s][v]) - returned[s][v])
                                  + replaced[s][v]
      BY DEF WithCustomer
    <3>3. Demand(give, swap, v) \in Nat /\ give[v] \in Nat
      BY DemandType, RowValues
    <3> QED
      BY <3>1, <3>2, <3>3, <1>a
  <2>3. \A t \in Sales \ {s} : WithCustomer(t)' = WithCustomer(t)
    BY <2>1 DEF WithCustomer
  <2> QED
    BY <2>2, <2>3
<1> QED
  BY <1>1, <1>2, <1>3

\* An operation that writes no stock movement leaves the customers with what they have.
LEMMA WithSame ==
  ASSUME UNCHANGED <<sold, restored, returned, replaced>>
  PROVE  \A s \in Sales : WithCustomer(s)' = WithCustomer(s)
  BY DEF WithCustomer

LEMMA DeliveredSame ==
  ASSUME UNCHANGED <<sold, restored, returned, replaced>>
  PROVE  \A v \in Variants : TotalDelivered(v)' = TotalDelivered(v)
  BY WithSame DEF TotalDelivered

LEMMA UnitStep ==
  MoveInv /\ MoveInv' /\ HoldInv /\ UnitsConserved /\ [Next]_vars => UnitsConserved'
<1> SUFFICES ASSUME MoveInv, MoveInv', HoldInv, UnitsConserved, [Next]_vars
             PROVE  UnitsConserved'
  OBVIOUS
<1>h. HoldsCoverLines /\ TypeOK
  BY DEF HoldInv
<1>a. \A row \in Rows, v \in Variants : row[v] \in Nat
  BY RowValues
<1>b. \A v \in Variants : physical[v] \in Nat
  BY <1>h DEF TypeOK
<1>0. ASSUME UNCHANGED <<physical, loaded, sold, restored, returned, replaced>>
      PROVE  UnitsConserved'
  BY <1>0, DeliveredSame DEF UnitsConserved
<1>1. CASE Stock
  <2> SUFFICES ASSUME NEW v \in Variants, NEW n \in Int,
                      physical' = [physical EXCEPT ![v] = @ + n],
                      loaded' = [loaded EXCEPT ![v] = @ + n],
                      UNCHANGED afterSaleVars
               PROVE  UnitsConserved'
    BY <1>1, BoundsAssumption DEF Stock, LoadInitialStock, AdjustStock
  <2>1. \A w \in Variants : TotalDelivered(w)' = TotalDelivered(w) /\ TotalDelivered(w) \in Nat
    BY DeliveredSame, SumType DEF afterSaleVars, TotalDelivered
  <2> QED
    BY <2>1, <1>h DEF UnitsConserved, TypeOK
<1>2. CASE Draft
  <2>1. UNCHANGED <<stockVars, afterSaleVars>>
    BY <1>2, DraftLeaves
  <2> QED
    BY <1>0, <2>1 DEF stockVars, afterSaleVars
<1>3. CASE Charge
  <2> SUFFICES ASSUME NEW s \in Sales,
                      CompleteSale(s) \/ \E settlement \in Settlements : Checkout(s, settlement)
               PROVE  UnitsConserved'
    BY <1>0, <1>3 DEF Charge, SendToCashier, CorrectPendingSale, CancelSale,
       RegisterPayment, Release, stockVars, afterSaleVars
  <2>1. /\ WithCustomer(s)' = hold[s] /\ WithCustomer(s) = EmptyRow
        /\ \A t \in Sales \ {s} : WithCustomer(t)' = WithCustomer(t)
    BY <1>h, WithStep
  <2>2. /\ hold[s] = items[s] /\ items[s] \in Rows /\ UNCHANGED loaded
        /\ physical' = [v \in Variants |-> physical[v] - items[s][v]]
    BY <1>h DEF CompleteSale, Checkout, Deliver, MayDeliver, Covered, TypeOK
  <2>3. \A v \in Variants : physical'[v] + WithCustomer(s)'[v] = physical[v] + WithCustomer(s)[v]
    BY <2>1, <2>2, <1>a, <1>b, EmptyValues
  <2> QED
    BY <2>1, <2>2, <2>3, UnitsMoved
<1>4. CASE AfterSale
  <2> SUFFICES ASSUME NEW s \in Sales,
                      \/ VoidCompletedSale(s)
                      \/ \E key \in Keys, give \in Rows, swap \in [Variants -> Variants] :
                            ExchangeSale(s, key, give, swap)
               PROVE  UnitsConserved'
    BY <1>0, <1>4 DEF AfterSale, Returnable, VoidPaidSale, Release
  <2>1. CASE VoidCompletedSale(s)
    <3>1. /\ WithCustomer(s)' = EmptyRow /\ WithCustomer(s) = sold[s]
          /\ \A t \in Sales \ {s} : WithCustomer(t)' = WithCustomer(t)
      BY <2>1, <1>h, WithStep
    <3>2. /\ sold[s] \in Rows /\ UNCHANGED loaded
          /\ physical' = [v \in Variants |-> physical[v] + sold[s][v]]
      BY <2>1, <1>h DEF VoidCompletedSale, TypeOK
    <3>3. \A v \in Variants : physical'[v] + WithCustomer(s)'[v] = physical[v] + WithCustomer(s)[v]
      BY <3>1, <3>2, <1>a, <1>b, EmptyValues
    <3> QED
      BY <3>1, <3>2, <3>3, UnitsMoved
  <2>2. ASSUME NEW key \in Keys, NEW give \in Rows, NEW swap \in [Variants -> Variants],
               ExchangeSale(s, key, give, swap)
        PROVE  UnitsConserved'
    <3>1. /\ \A v \in Variants : WithCustomer(s)'[v] =
                (WithCustomer(s)[v] - give[v]) + Demand(give, swap, v)
          /\ \A t \in Sales \ {s} : WithCustomer(t)' = WithCustomer(t)
      BY <2>2, <1>h, WithStep
    <3>2. /\ UNCHANGED loaded
          /\ physical' = [v \in Variants |-> (physical[v] + give[v]) - Demand(give, swap, v)]
      BY <2>2 DEF ExchangeSale
    <3>3. ASSUME NEW v \in Variants
          PROVE  physical'[v] + WithCustomer(s)'[v] = physical[v] + WithCustomer(s)[v]
      <4>1. /\ Demand(give, swap, v) \in Nat /\ give[v] \in Nat
            /\ WithCustomer(s)[v] \in Int /\ physical[v] \in Nat
        BY DemandType, WithType, <1>a, <1>b
      <4> QED
        BY <3>1, <3>2, <4>1
    <3> QED
      BY <3>1, <3>2, <3>3, UnitsMoved
  <2> QED
    BY <2>1, <2>2
<1>5. CASE UNCHANGED vars
  BY <1>0, <1>5 DEF vars, stockVars, afterSaleVars
<1> QED
  BY <1>1, <1>2, <1>3, <1>4, <1>5 DEF Next

LEMMA UnitInit == Init => UnitsConserved
<1> SUFFICES ASSUME Init, NEW v \in Variants
             PROVE  physical[v] + TotalDelivered(v) = loaded[v]
  BY DEF UnitsConserved
<1> DEFINE f == [s \in Sales |-> WithCustomer(s)[v]]
<1>1. \A s \in Sales : f[s] = 0
  BY EmptyValues DEF Init, WithCustomer
<1> HIDE DEF f
<1>2. SumOverSales(f) = 0
  BY <1>1, SumOfZeros
<1> QED
  BY <1>2, EmptyValues DEF Init, TotalDelivered, f

\* Every unit that came in is on the shelf or with a customer, for any stock and sales.
THEOREM UnitsAlwaysConserved == Spec => []UnitsConserved
  BY UnitInit, UnitStep, HoldAlways, MoveAlways, PTL DEF Spec

-----------------------------------------------------------------------------
(***************************************************************************)
(* What a customer keeps is worth what was bought.                         *)
(***************************************************************************)

\* The pesos that LineTotal counts.
Pesos(row) == {u \in Variants \X (1..MaxUnits) \X (1..MaxPrice) :
                  u[2] <= row[u[1]] /\ u[3] <= Price[u[1]]}

LEMMA PesosOfRow ==
  \A row : LineTotal(row) = Cardinality(Pesos(row)) /\ IsFiniteSet(Pesos(row))
<1> SUFFICES ASSUME NEW row
             PROVE  LineTotal(row) = Cardinality(Pesos(row)) /\ IsFiniteSet(Pesos(row))
  OBVIOUS
<1>1. Pesos(row) \in SUBSET (Variants \X (1..MaxUnits) \X (1..MaxPrice))
  BY DEF Pesos
<1> QED
  BY <1>1, PesosFinite DEF LineTotal, Pesos

\* Rows are worth together what their sum is worth: the units of the second are counted
\* after those of the first.
LEMMA LineTotalSplit ==
  ASSUME NEW row \in [Variants -> 0..MaxUnits],
         NEW kept \in [Variants -> 0..MaxUnits],
         NEW more \in [Variants -> 0..MaxUnits],
         \A v \in Variants : row[v] = kept[v] + more[v]
  PROVE  LineTotal(row) = LineTotal(kept) + LineTotal(more)
<1> USE MaxUnitsType
<1>t. \A v \in Variants : kept[v] \in Nat /\ more[v] \in Nat /\ row[v] \in Nat
                            /\ row[v] <= MaxUnits
  OBVIOUS
<1> DEFINE Rest == {u \in Pesos(row) : u[2] > kept[u[1]]}
           shift == [u \in Pesos(more) |-> <<u[1], u[2] + kept[u[1]], u[3]>>]
<1>1. Pesos(row) = Pesos(kept) \cup Rest
  <2>1. ASSUME NEW u \in Pesos(row)
        PROVE  u \in Pesos(kept) \/ u \in Rest
    BY <1>t DEF Pesos
  <2>2. ASSUME NEW u \in Pesos(kept)
        PROVE  u \in Pesos(row)
    <3>1. u[1] \in Variants /\ u[2] \in Nat /\ u[2] <= kept[u[1]]
      BY DEF Pesos
    <3>2. u[2] <= row[u[1]]
      BY <1>t, <3>1
    <3> QED
      BY <3>2 DEF Pesos
  <2> QED
    BY <2>1, <2>2
<1>2. Pesos(kept) \cap Rest = {}
  <2> SUFFICES ASSUME NEW u \in Pesos(kept), u[2] > kept[u[1]] PROVE FALSE
    OBVIOUS
  <2> QED
    BY <1>t DEF Pesos
<1>3. Cardinality(Rest) = Cardinality(Pesos(more))
  <2>1. ASSUME NEW u \in Pesos(more)
        PROVE  <<u[1], u[2] + kept[u[1]], u[3]>> \in Rest
    <3>1. /\ u[1] \in Variants /\ u[2] \in 1..MaxUnits /\ u[3] \in 1..MaxPrice
          /\ u[2] <= more[u[1]] /\ u[3] <= Price[u[1]]
      BY DEF Pesos
    <3> DEFINE n == u[2] + kept[u[1]]
    <3>2. n \in 1..MaxUnits /\ n <= row[u[1]] /\ n > kept[u[1]]
      BY <1>t, <3>1
    <3> HIDE DEF n
    <3>3. <<u[1], n, u[3]>> \in Rest
      BY <3>1, <3>2 DEF Pesos
    <3> QED
      BY <3>3 DEF n
  <2>2. shift \in [Pesos(more) -> Rest]
    BY <2>1
  <2>3. ASSUME NEW u \in Pesos(more), NEW w \in Pesos(more), shift[u] = shift[w]
        PROVE  u = w
    <3>1. u[1] = w[1] /\ u[2] + kept[u[1]] = w[2] + kept[w[1]] /\ u[3] = w[3]
      BY <2>3
    <3>2. /\ u = <<u[1], u[2], u[3]>> /\ w = <<w[1], w[2], w[3]>>
          /\ u[1] \in Variants /\ u[2] \in Nat /\ w[2] \in Nat
      BY DEF Pesos
    <3>3. kept[u[1]] = kept[w[1]] /\ kept[u[1]] \in Nat
      BY <1>t, <3>1, <3>2
    <3>4. \A i, j, n \in Nat : i + n = j + n => i = j
      OBVIOUS
    <3>5. u[2] = w[2]
      BY <3>1, <3>2, <3>3, <3>4
    <3> QED
      BY <3>1, <3>2, <3>5
  <2>4. ASSUME NEW r \in Rest
        PROVE  \E u \in Pesos(more) : shift[u] = r
    <3>1. /\ r = <<r[1], r[2], r[3]>>
          /\ r[1] \in Variants /\ r[2] \in 1..MaxUnits /\ r[3] \in 1..MaxPrice
          /\ r[2] <= row[r[1]] /\ r[3] <= Price[r[1]] /\ r[2] > kept[r[1]]
      BY DEF Pesos
    <3> DEFINE n == r[2] - kept[r[1]]
    <3>2. n \in 1..MaxUnits /\ n <= more[r[1]] /\ n + kept[r[1]] = r[2]
      BY <1>t, <3>1
    <3> HIDE DEF n
    <3>3. <<r[1], n, r[3]>> \in Pesos(more)
      BY <3>1, <3>2 DEF Pesos
    <3>4. shift[<<r[1], n, r[3]>>] = <<r[1], n + kept[r[1]], r[3]>>
      BY <3>3
    <3> QED
      BY <3>1, <3>2, <3>3, <3>4
  <2>5. shift \in Bijection(Pesos(more), Rest)
    BY <2>2, <2>3, <2>4 DEF Bijection, Injection, IsInjective, Surjection
  <2> QED
    BY <2>5, PesosOfRow, FS_Bijection DEF ExistsBijection
<1>4. IsFiniteSet(Rest)
  BY PesosOfRow, FS_Subset
<1>5. Cardinality(Pesos(row)) = Cardinality(Pesos(kept)) + Cardinality(Rest) - Cardinality({})
  BY <1>1, <1>2, <1>4, PesosOfRow, FS_Union
<1>6. Cardinality({}) = 0
  BY FS_EmptySet
<1>7. Cardinality(Pesos(kept)) \in Nat /\ Cardinality(Rest) \in Nat
  BY <1>4, PesosOfRow, FS_CardinalityType
<1> QED
  BY <1>3, <1>5, <1>6, <1>7, PesosOfRow

\* What an exchange hands out is worth what it takes back, however its lines share a
\* replacement: the units a replacement is drawn for are numbered line by line.
LEMMA DemandWorth ==
  ASSUME NEW give \in Rows, NEW swap \in [Variants -> Variants],
         \A a \in Variants : give[a] > 0 => Price[swap[a]] = Price[a],
         \A w \in Variants : Demand(give, swap, w) <= MaxUnits
  PROVE  LineTotal([w \in Variants |-> Demand(give, swap, w)]) = LineTotal(give)
<1> DEFINE out == [w \in Variants |-> Demand(give, swap, w)]
           Drawn(w) == {u \in Variants \X (1..MaxQuantity) :
                            swap[u[1]] = w /\ u[2] <= give[u[1]]}
           drawn == [w \in Variants |-> CHOOSE b \in Bijection(1..out[w], Drawn(w)) : TRUE]
           back == [u \in Pesos(out) |->
                       <<drawn[u[1]][u[2]][1], drawn[u[1]][u[2]][2], u[3]>>]
<1>b. MaxQuantity \in Nat /\ MaxUnits = 2 * MaxQuantity
  BY BoundsAssumption DEF MaxUnits
<1>g. \A a \in Variants : give[a] \in Nat /\ give[a] <= MaxQuantity
  BY <1>b DEF Rows, Quantities
<1>1. \A w \in Variants : out[w] \in Nat /\ out[w] <= MaxUnits
  BY DemandType
<1>2. ASSUME NEW w \in Variants
      PROVE  drawn[w] \in Bijection(1..out[w], Drawn(w))
  <2>0. IsFiniteSet(1..MaxQuantity)
    BY <1>b, FS_Interval
  <2>1. IsFiniteSet(Variants \X (1..MaxQuantity))
    BY <2>0, VariantsAssumption, FS_Product
  <2>2. IsFiniteSet(Drawn(w)) /\ out[w] = Cardinality(Drawn(w))
    BY <2>1, FS_Subset DEF Demand
  <2>3. Bijection(1..out[w], Drawn(w)) # {}
    BY <2>2, FS_CardinalityType DEF ExistsBijection
  <2> QED
    BY <2>3
<1>3. ASSUME NEW w \in Variants
      PROVE  /\ \A i \in 1..out[w] : drawn[w][i] \in Drawn(w)
             /\ \A i, j \in 1..out[w] : drawn[w][i] = drawn[w][j] => i = j
             /\ \A u \in Drawn(w) : \E i \in 1..out[w] : drawn[w][i] = u
  <2> HIDE DEF drawn, Drawn, out
  <2>1. drawn[w] \in Bijection(1..out[w], Drawn(w))
    BY <1>2
  <2>2. drawn[w] \in [1..out[w] -> Drawn(w)]
    BY <2>1 DEF Bijection, Injection
  <2> QED
    BY <2>1, <2>2 DEF Bijection, Injection, IsInjective, Surjection
<1>o. \A u \in Pesos(out) :
         /\ u = <<u[1], u[2], u[3]>>
         /\ u[1] \in Variants /\ u[2] \in 1..out[u[1]] /\ u[3] \in 1..MaxPrice
         /\ u[3] <= Price[u[1]]
  BY <1>1 DEF Pesos
<1> HIDE DEF out, drawn
<1>d. \A u \in Pesos(out) : drawn[u[1]][u[2]] \in Drawn(u[1])
  BY <1>3, <1>o
<1>4. back \in [Pesos(out) -> Pesos(give)]
  <2> SUFFICES ASSUME NEW u \in Pesos(out)
               PROVE  <<drawn[u[1]][u[2]][1], drawn[u[1]][u[2]][2], u[3]>> \in Pesos(give)
    OBVIOUS
  <2> DEFINE x == drawn[u[1]][u[2]]
  <2>1. /\ x[1] \in Variants /\ x[2] \in 1..MaxQuantity
        /\ swap[x[1]] = u[1] /\ x[2] <= give[x[1]]
    BY <1>d
  <2> HIDE DEF x
  <2>2. x[2] \in 1..MaxUnits /\ give[x[1]] > 0
    BY <1>b, <1>g, <2>1
  <2>3. Price[u[1]] = Price[x[1]]
    BY <2>1, <2>2
  <2>4. u[3] \in 1..MaxPrice /\ u[3] <= Price[x[1]]
    BY <1>o, <2>3
  <2>5. <<x[1], x[2], u[3]>> \in Pesos(give)
    BY <2>1, <2>2, <2>4 DEF Pesos
  <2> QED
    BY <2>5 DEF x
<1>5. ASSUME NEW u \in Pesos(out), NEW w \in Pesos(out), back[u] = back[w]
      PROVE  u = w
  <2> DEFINE x == drawn[u[1]][u[2]]
             y == drawn[w[1]][w[2]]
  <2>1. x[1] = y[1] /\ x[2] = y[2] /\ u[3] = w[3]
    BY <1>5
  <2>2. /\ x = <<x[1], x[2]>> /\ y = <<y[1], y[2]>>
        /\ swap[x[1]] = u[1] /\ swap[y[1]] = w[1]
    BY <1>d
  <2>3. x = y /\ u[1] = w[1]
    BY <2>1, <2>2
  <2>4. u[2] = w[2]
    BY <1>3, <1>o, <2>3
  <2> QED
    BY <1>o, <2>1, <2>3, <2>4
<1>6. ASSUME NEW r \in Pesos(give)
      PROVE  \E u \in Pesos(out) : back[u] = r
  <2>1. /\ r = <<r[1], r[2], r[3]>> /\ r[1] \in Variants
        /\ r[2] \in 1..MaxUnits /\ r[3] \in 1..MaxPrice
        /\ r[2] <= give[r[1]] /\ r[3] <= Price[r[1]]
    BY DEF Pesos
  <2>2. r[2] \in 1..MaxQuantity /\ give[r[1]] > 0
    BY <1>b, <1>g, <2>1, MaxUnitsType
  <2>3. swap[r[1]] \in Variants /\ <<r[1], r[2]>> \in Drawn(swap[r[1]])
    BY <2>1, <2>2
  <2>4. PICK i \in 1..out[swap[r[1]]] : drawn[swap[r[1]]][i] = <<r[1], r[2]>>
    BY <1>3, <2>3
  <2> DEFINE u == <<swap[r[1]], i, r[3]>>
  <2>5. r[3] <= Price[swap[r[1]]]
    BY <2>1, <2>2
  <2>6. i \in 1..MaxUnits /\ i <= out[swap[r[1]]]
    BY <1>1, <2>3, <2>4, MaxUnitsType
  <2>7. u \in Pesos(out)
    BY <2>1, <2>3, <2>5, <2>6 DEF Pesos
  <2>8. back[u] = <<drawn[swap[r[1]]][i][1], drawn[swap[r[1]]][i][2], r[3]>>
    BY <2>7
  <2>9. back[u] = <<r[1], r[2], r[3]>>
    <3> DEFINE d == drawn[swap[r[1]]][i]
    <3>1. d[1] = r[1] /\ d[2] = r[2]
      <4>1. d = <<r[1], r[2]>>
        BY <2>4
      <4> HIDE DEF d
      <4> QED
        BY <4>1
    <3>2. back[u] = <<d[1], d[2], r[3]>>
      BY <2>8
    <3> HIDE DEF d, back, u
    <3> QED
      BY <3>1, <3>2
  <2>10. back[u] = r
    <3> HIDE DEF back, u
    <3> QED
      BY <2>1, <2>9
  <2> QED
    BY <2>7, <2>10
<1>7. back \in Bijection(Pesos(out), Pesos(give))
  BY <1>4, <1>5, <1>6 DEF Bijection, Injection, IsInjective, Surjection
<1>8. Cardinality(Pesos(give)) = Cardinality(Pesos(out))
  BY <1>7, PesosOfRow, FS_Bijection DEF ExistsBijection
<1> QED
  BY <1>8, PesosOfRow DEF out

\* The part of CustomerKeepsValue that does not follow from the movements alone.
WorthKept ==
  \A s \in Sales : status[s] = "COMPLETED" => LineTotal(WithCustomer(s)) = LineTotal(items[s])

\* An exchange keeps the worth of what the customer has.
LEMMA WorthExchange ==
  ASSUME HoldInv, MoveInv, MoveInv', NEW s \in Sales, NEW key \in Keys, NEW give \in Rows,
         NEW swap \in [Variants -> Variants], ExchangeSale(s, key, give, swap)
  PROVE  LineTotal(WithCustomer(s)') = LineTotal(WithCustomer(s))
<1> DEFINE old == WithCustomer(s)
           new == WithCustomer(s)'
           kept == [v \in Variants |-> old[v] - give[v]]
           out == [w \in Variants |-> Demand(give, swap, w)]
<1>b. MaxQuantity \in Nat /\ MaxUnits = 2 * MaxQuantity
  BY BoundsAssumption DEF MaxUnits
<1>g. \A v \in Variants : give[v] \in Nat /\ give[v] <= MaxQuantity
  BY <1>b DEF Rows, Quantities
<1>1. \A v \in Variants : old[v] \in 0..MaxUnits /\ new[v] \in 0..MaxUnits
  BY WithType, WithTypePrimed
<1>2. \A v \in Variants : new[v] = (old[v] - give[v]) + Demand(give, swap, v)
  BY WithStep DEF HoldInv
<1>3. ASSUME NEW v \in Variants
      PROVE  give[v] <= old[v]
  <2>1. old[v] = ((sold[s][v] - restored[s][v]) - returned[s][v]) + replaced[s][v]
    BY DEF WithCustomer
  <2>2. sold[s] = items[s] /\ restored[s][v] = 0
    BY EmptyValues DEF ExchangeSale, MoveInv, MovementsMatchLife
  <2>3. /\ items[s][v] \in Nat /\ returned[s][v] \in Nat /\ replaced[s][v] \in Nat
        /\ returned[s][v] <= sold[s][v]
    BY RowValues DEF MoveInv, TypeOK, MovementsMatchLife
  <2>4. give[v] > 0 => give[v] <= items[s][v] - returned[s][v]
    BY DEF ExchangeSale, MayExchange, Remainder
  <2> QED
    BY <1>g, <2>1, <2>2, <2>3, <2>4
<1>4. \A w \in Variants : Demand(give, swap, w) \in Nat /\ Demand(give, swap, w) <= MaxUnits
  BY <1>1, <1>2, <1>3, <1>g, DemandType, MaxUnitsType
<1>5. \A a \in Variants : give[a] > 0 => Price[swap[a]] = Price[a]
  BY DEF ExchangeSale, MayExchange
<1>6. LineTotal(out) = LineTotal(give)
  BY <1>4, <1>5, DemandWorth
<1>7. /\ old \in [Variants -> 0..MaxUnits] /\ new \in [Variants -> 0..MaxUnits]
      /\ kept \in [Variants -> 0..MaxUnits] /\ out \in [Variants -> 0..MaxUnits]
      /\ give \in [Variants -> 0..MaxUnits]
  <2>1. old = [v \in Variants |-> old[v]] /\ new = [v \in Variants |-> new[v]]
    BY DEF WithCustomer
  <2>2. give = [v \in Variants |-> give[v]]
    BY DEF Rows
  <2>3. \A v \in Variants : old[v] - give[v] \in 0..MaxUnits /\ give[v] \in 0..MaxUnits
    BY <1>1, <1>3, <1>g, <1>b
  <2>4. \A v \in Variants : Demand(give, swap, v) \in 0..MaxUnits
    BY <1>4, MaxUnitsType
  <2> QED
    BY <1>1, <2>1, <2>2, <2>3, <2>4
<1>8. \A v \in Variants : old[v] = kept[v] + give[v] /\ new[v] = kept[v] + out[v]
  BY <1>1, <1>2, <1>g, <1>4, MaxUnitsType
<1> HIDE DEF old, new, kept, out
<1>9. LineTotal(old) = LineTotal(kept) + LineTotal(give)
  BY <1>7, <1>8, LineTotalSplit
<1>10. LineTotal(new) = LineTotal(kept) + LineTotal(out)
  BY <1>7, <1>8, LineTotalSplit
<1> QED
  BY <1>6, <1>9, <1>10 DEF old, new

LEMMA WorthStep == HoldInv /\ MoveInv /\ MoveInv' /\ WorthKept /\ [Next]_vars => WorthKept'
<1> SUFFICES ASSUME HoldInv, MoveInv, MoveInv', WorthKept, [Next]_vars,
                    NEW t \in Sales, status'[t] = "COMPLETED"
             PROVE  LineTotal(WithCustomer(t)') = LineTotal(items'[t])
  BY DEF WorthKept, LineTotal
<1> USE DEF HoldInv, TypeOK
\* The sales a step does not touch.
<1>0. ASSUME status'[t] = status[t], items'[t] = items[t], WithCustomer(t)' = WithCustomer(t)
      PROVE  LineTotal(WithCustomer(t)') = LineTotal(items'[t])
  BY <1>0 DEF WorthKept
<1>1. CASE Stock
  BY <1>0, <1>1, WithSame DEF Stock, LoadInitialStock, AdjustStock, saleVars, afterSaleVars
<1>2. CASE Draft
  <2>1. UNCHANGED <<sold, restored, returned, replaced>>
    BY <1>2, DraftLeaves DEF afterSaleVars
  <2>2. status'[t] = status[t] /\ items'[t] = items[t]
    <3>1. ASSUME NEW s \in Sales, CreateDraftSale(s)
          PROVE  status'[t] = status[t] /\ items'[t] = items[t]
      BY <3>1 DEF CreateDraftSale
    <3>2. ASSUME NEW c \in Clients, WriteItem(c)
          PROVE  status'[t] = status[t] /\ items'[t] = items[t]
      <4>1. request[c].sale \in Sales /\ status[request[c].sale] = "DRAFT" /\ status' = status
        BY <3>2 DEF WriteItem, MayWriteItem, Requests
      <4> QED
        BY <3>2, <4>1 DEF WriteItem
    <3> QED
      BY <1>2, <3>1, <3>2 DEF Draft, PrepareAddItem, PrepareUpdateItem, PrepareRemoveItem,
                              Prepared, RefuseItem, saleVars
  <2> QED
    BY <1>0, <2>1, <2>2, WithSame
<1>3. CASE Charge
  <2> PICK s \in Sales :
         \/ SendToCashier(s)
         \/ \E target \in Rows : CorrectPendingSale(s, target)
         \/ CancelSale(s)
         \/ \E amount \in 1..total[s] : RegisterPayment(s, amount)
         \/ CompleteSale(s)
         \/ \E settlement \in Settlements : Checkout(s, settlement)
    BY <1>3 DEF Charge
  <2>1. CASE CompleteSale(s) \/ (\E settlement \in Settlements : Checkout(s, settlement))
    <3>1. /\ WithCustomer(s)' = hold[s]
          /\ \A u \in Sales \ {s} : WithCustomer(u)' = WithCustomer(u)
      BY <2>1, WithStep
    <3>2. /\ hold[s] = items[s] /\ items' = items
          /\ \A u \in Sales \ {s} : status'[u] = status[u]
      BY <2>1 DEF CompleteSale, Checkout, MayDeliver, Covered
    <3> QED
      BY <1>0, <3>1, <3>2
  <2>2. CASE ~ (CompleteSale(s) \/ (\E settlement \in Settlements : Checkout(s, settlement)))
    <3>1. UNCHANGED <<sold, restored, returned, replaced>>
      BY <2>2 DEF SendToCashier, CorrectPendingSale, CancelSale, RegisterPayment, afterSaleVars
    <3>2. /\ t # s /\ status'[t] = status[t] /\ items'[t] = items[t]
      BY <2>2 DEF SendToCashier, CorrectPendingSale, CancelSale, RegisterPayment, MayCancel,
                  MayCorrect, MayAccept
    <3> QED
      BY <1>0, <3>1, <3>2, WithSame
  <2> QED
    BY <2>1, <2>2
<1>4. CASE AfterSale
  <2> PICK s \in Sales :
         \/ VoidPaidSale(s)
         \/ VoidCompletedSale(s)
         \/ \E key \in Keys, give \in Rows, swap \in [Variants -> Variants] :
               ExchangeSale(s, key, give, swap)
    BY <1>4 DEF AfterSale, Returnable
  <2>1. CASE VoidPaidSale(s)
    <3>1. UNCHANGED <<sold, restored, returned, replaced>> /\ items' = items /\ t # s
          /\ status'[t] = status[t]
      BY <2>1 DEF VoidPaidSale
    <3> QED
      BY <1>0, <3>1, WithSame
  <2>2. CASE VoidCompletedSale(s)
    <3>1. items' = items /\ t # s /\ status'[t] = status[t]
      BY <2>2 DEF VoidCompletedSale
    <3>2. WithCustomer(t)' = WithCustomer(t)
      BY <2>2, <3>1, WithStep
    <3> QED
      BY <1>0, <3>1, <3>2
  <2>3. ASSUME NEW key \in Keys, NEW give \in Rows, NEW swap \in [Variants -> Variants],
               ExchangeSale(s, key, give, swap)
        PROVE  LineTotal(WithCustomer(t)') = LineTotal(items'[t])
    <3>1. UNCHANGED <<status, items>> /\ status[s] = "COMPLETED"
      BY <2>3 DEF ExchangeSale, saleVars
    <3>2. LineTotal(WithCustomer(s)') = LineTotal(WithCustomer(s))
      BY <2>3, WorthExchange
    <3>3. t # s => WithCustomer(t)' = WithCustomer(t)
      BY <2>3, WithStep
    <3> QED
      BY <1>0, <3>1, <3>2, <3>3 DEF WorthKept
  <2> QED
    BY <2>1, <2>2, <2>3
<1>5. CASE UNCHANGED vars
  BY <1>0, <1>5, WithSame DEF vars, saleVars, afterSaleVars
<1> QED
  BY <1>1, <1>2, <1>3, <1>4, <1>5 DEF Next

\* Through any exchanges a customer keeps the worth of what was bought, at the catalog
\* prices, and a void takes back exactly what left (exchangeSale's equal unit prices, the
\* remainder of each line, voidSale's restitution by the SALE movements).
THEOREM CustomerAlwaysKeepsValue == Spec => []CustomerKeepsValue
<1>1. Init => WorthKept
  BY DEF Init, WorthKept
<1>2. MoveInv /\ WorthKept => CustomerKeepsValue
  <2> SUFFICES ASSUME MoveInv, WorthKept, NEW s \in Sales
               PROVE  IF status[s] = "COMPLETED"
                      THEN /\ \A v \in Variants : WithCustomer(s)[v] >= 0
                           /\ LineTotal(WithCustomer(s)) = LineTotal(items[s])
                      ELSE WithCustomer(s) = EmptyRow
    BY DEF CustomerKeepsValue
  <2>1. \A v \in Variants : /\ WithCustomer(s)[v] \in 0..MaxUnits
                            /\ status[s] # "COMPLETED" => WithCustomer(s)[v] = 0
    BY WithType
  <2>2. \A v \in Variants : WithCustomer(s)[v] >= 0
    BY <2>1, MaxUnitsType
  <2>3. status[s] # "COMPLETED" => WithCustomer(s) = EmptyRow
    BY <2>1 DEF WithCustomer, EmptyRow
  <2> QED
    BY <2>2, <2>3 DEF WorthKept
<1> QED
  BY <1>1, <1>2, WorthStep, HoldAlways, MoveAlways, PTL DEF Spec

-----------------------------------------------------------------------------
(***************************************************************************)
(* The refinement.  Every operation is a step of StockPromise or changes   *)
(* nothing it sees: sending and correcting a sale are Hold, a cancellation *)
(* and both voids are Close, completion and checkout are Deliver, an       *)
(* exchange is Trade, and drafts and partial payments are stutters.        *)
(***************************************************************************)
Free == [v \in Variants |-> Available(v)]
With == [s \in Sales |-> WithCustomer(s)]
Phase == [s \in Sales |-> IF status[s] = "COMPLETED" THEN "delivered"
                          ELSE IF status[s] = "CANCELLED" THEN "closed"
                          ELSE "open"]

LEMMA PromiseInitially == Init => Promise!PromiseInit
<1> SUFFICES ASSUME Init PROVE Promise!PromiseInit
  OBVIOUS
<1>1. \A s \in Sales : WithCustomer(s) = EmptyRow
  <2>1. \A v \in Variants : ((0 - 0) - 0) + 0 = 0
    OBVIOUS
  <2> QED
    BY <2>1, EmptyValues DEF Init, WithCustomer, EmptyRow
<1>2. \A v \in Variants : Available(v) = 0
  BY EmptyValues DEF Init, Available
<1> QED
  BY <1>1, <1>2 DEF Init, EmptyRow, Promise!PromiseInit, Promise!NoUnits

LEMMA PromiseStutter ==
  ASSUME UNCHANGED <<physical, reserved, hold, sold, restored, returned, replaced>>,
         Phase' = Phase
  PROVE  UNCHANGED Promise!promiseVars
<1>1. Free' = Free
  BY DEF Free, Available
<1>2. With' = With
  BY WithSame DEF With
<1> QED
  BY <1>1, <1>2 DEF Promise!promiseVars, Free, With, Phase

\* What is free is never negative.
LEMMA FreeType ==
  HoldInv => \A v \in Variants : Available(v) \in Nat
  BY DEF HoldInv, NoOversell, TypeOK, Available

LEMMA FreeTypePrimed ==
  HoldInv' => \A v \in Variants : Free'[v] \in Nat
<1>1. HoldInv => \A v \in Variants : Free[v] \in Nat
  BY FreeType DEF Free
<1>2. (HoldInv => \A v \in Variants : Free[v] \in Nat)'
  BY <1>1, PTL
<1> QED
  BY <1>2

LEMMA PromiseStock ==
  HoldInv /\ HoldInv' /\ Stock => Promise!PromiseNext \/ UNCHANGED Promise!promiseVars
<1> SUFFICES ASSUME HoldInv, HoldInv',
                    NEW v \in Variants, NEW n \in Int,
                    physical' = [physical EXCEPT ![v] = @ + n],
                    UNCHANGED <<saleVars, afterSaleVars, reserved>>
             PROVE  Promise!Supply
  BY BoundsAssumption DEF Stock, LoadInitialStock, AdjustStock, Promise!PromiseNext
<1>1. \A w \in Variants : w # v => Available(w)' = Available(w)
  BY DEF Available, HoldInv, TypeOK
<1>2. Free' = [Free EXCEPT ![v] = Free'[v]]
  BY <1>1 DEF Free
<1>3. \A w \in Variants : Free'[w] >= 0
  BY FreeTypePrimed
<1>4. With' = With
  BY WithSame DEF With, afterSaleVars
<1>5. Phase' = Phase /\ hold' = hold
  BY DEF Phase, saleVars
<1> QED
  BY <1>2, <1>3, <1>4, <1>5 DEF Promise!Supply, Free, With, Phase

LEMMA PromiseDraft ==
  HoldInv /\ Draft => UNCHANGED Promise!promiseVars
<1> SUFFICES ASSUME HoldInv, Draft PROVE UNCHANGED Promise!promiseVars
  OBVIOUS
<1>1. UNCHANGED <<hold, stockVars, afterSaleVars>>
  BY DraftLeaves
<1>2. Phase' = Phase
  <2>1. UNCHANGED status \/ \E s \in Sales : CreateDraftSale(s)
    BY DraftOpens
  <2> QED
    BY <2>1 DEF CreateDraftSale, Phase, HoldInv, TypeOK
<1> QED
  BY <1>1, <1>2, PromiseStutter DEF stockVars, afterSaleVars

LEMMA PromiseHold ==
  ASSUME HoldInv, HoldInv', NEW s \in Sales, NEW new \in Rows,
         status[s] \notin {"COMPLETED", "CANCELLED"},
         reserved' = Rehold(hold[s], new),
         hold' = [hold EXCEPT ![s] = new],
         Phase' = Phase,
         UNCHANGED <<physical, afterSaleVars>>
  PROVE  Promise!Hold(s)
<1>1. hold \in [Sales -> Rows] /\ hold'[s] = new
  BY DEF HoldInv, TypeOK
<1>2. Free' = [v \in Variants |-> (Free[v] + hold[s][v]) - hold'[s][v]]
  <2> SUFFICES ASSUME NEW v \in Variants
               PROVE  Available(v)' = (Available(v) + hold[s][v]) - new[v]
    BY <1>1 DEF Free
  <2>1. /\ reserved'[v] = (reserved[v] - hold[s][v]) + new[v]
        /\ physical'[v] = physical[v]
    BY DEF Rehold
  <2>2. /\ physical[v] \in Nat /\ reserved[v] \in Nat
        /\ hold[s][v] \in Nat /\ new[v] \in Nat
    BY <1>1, RowValues DEF HoldInv, TypeOK
  <2> QED
    BY <2>1, <2>2 DEF Available
<1>3. \A v \in Variants : hold'[s][v] >= 0 /\ Free'[v] >= 0
  BY <1>1, RowValues, FreeTypePrimed
<1>4. With' = With
  BY WithSame DEF With, afterSaleVars
<1>5. Phase[s] = "open"
  BY DEF Phase
<1> QED
  BY <1>1, <1>2, <1>3, <1>4, <1>5 DEF Promise!Hold, Free, With, Phase

\* The rows of a sale that ends CANCELLED: its holds and its customer's units are free.
LEMMA PromiseClose ==
  ASSUME HoldInv, NEW s \in Sales,
         status[s] # "CANCELLED",
         status' = [status EXCEPT ![s] = "CANCELLED"],
         hold' = [hold EXCEPT ![s] = EmptyRow],
         With' = [With EXCEPT ![s] = EmptyRow],
         \A v \in Variants :
            Available(v)' = (Available(v) + hold[s][v]) + WithCustomer(s)[v]
  PROVE  Promise!Close(s)
<1>1. Free' = [v \in Variants |-> (Free[v] + hold[s][v]) + With[s][v]]
  BY DEF Free, With
<1>2. Phase[s] # "closed"
  BY DEF Phase, HoldInv, TypeOK
<1>3. Phase' = [Phase EXCEPT ![s] = "closed"]
  BY DEF Phase, HoldInv, TypeOK
<1> QED
  BY <1>1, <1>2, <1>3 DEF Promise!Close, Promise!NoUnits, EmptyRow, Free, With, Phase

LEMMA PromiseRelease ==
  ASSUME HoldInv, MoveInv, NEW s \in Sales,
         status[s] \notin {"CANCELLED", "COMPLETED"},
         status' = [status EXCEPT ![s] = "CANCELLED"],
         Release(s),
         UNCHANGED <<physical, sold, restored, returned, replaced>>
  PROVE  Promise!Close(s)
<1>1. WithCustomer(s) = EmptyRow
  BY WithType DEF EmptyRow, WithCustomer
<1>2. With' = [With EXCEPT ![s] = EmptyRow]
  BY <1>1, WithSame DEF With
<1>3. ASSUME NEW v \in Variants
      PROVE  Available(v)' = (Available(v) + hold[s][v]) + WithCustomer(s)[v]
  <2>1. reserved'[v] = (reserved[v] - hold[s][v]) + 0 /\ physical'[v] = physical[v]
    BY EmptyValues DEF Release, Rehold
  <2>2. WithCustomer(s)[v] = 0
    BY <1>1, EmptyValues
  <2>3. physical[v] \in Nat /\ reserved[v] \in Nat /\ hold[s][v] \in Nat
    BY RowValues DEF HoldInv, TypeOK
  <2> QED
    BY <2>1, <2>2, <2>3 DEF Available
<1> QED
  BY <1>2, <1>3, PromiseClose DEF Release

LEMMA PromiseDeliver ==
  ASSUME HoldInv, MoveInv, MoveInv', NEW s \in Sales,
         CompleteSale(s) \/ \E settlement \in Settlements : Checkout(s, settlement)
  PROVE  Promise!Deliver(s)
<1>1. /\ WithCustomer(s)' = hold[s]
      /\ \A t \in Sales \ {s} : WithCustomer(t)' = WithCustomer(t)
  BY WithStep DEF HoldInv
<1>2. /\ status[s] \in {"PENDING_PAYMENT", "PAID"}
      /\ status' = [status EXCEPT ![s] = "COMPLETED"]
      /\ hold[s] = items[s] /\ hold[s] # EmptyRow
      /\ Deliver(s)
  BY DEF CompleteSale, Checkout, MayDeliver, Covered
<1>3. With' = [With EXCEPT ![s] = hold[s]]
  BY <1>1 DEF With
<1>4. Free' = Free
  <2> SUFFICES ASSUME NEW v \in Variants PROVE Available(v)' = Available(v)
    BY DEF Free
  <2>1. /\ reserved'[v] = (reserved[v] - items[s][v]) + 0
        /\ physical'[v] = physical[v] - items[s][v]
    BY <1>2, EmptyValues DEF Deliver, Rehold
  <2>2. physical[v] \in Nat /\ reserved[v] \in Nat /\ items[s][v] \in Nat
    BY RowValues DEF HoldInv, TypeOK
  <2> QED
    BY <2>1, <2>2 DEF Available
<1>5. Phase[s] = "open" /\ Phase' = [Phase EXCEPT ![s] = "delivered"]
  BY <1>2 DEF Phase, HoldInv, TypeOK
<1>6. hold' = [hold EXCEPT ![s] = EmptyRow]
  BY <1>2 DEF Deliver
<1> QED
  BY <1>2, <1>3, <1>4, <1>5, <1>6
     DEF Promise!Deliver, Promise!NoUnits, EmptyRow, Free, With, Phase

LEMMA PromiseCharge ==
  HoldInv /\ HoldInv' /\ MoveInv /\ MoveInv' /\ Charge =>
    Promise!PromiseNext \/ UNCHANGED Promise!promiseVars
<1> SUFFICES ASSUME HoldInv, HoldInv', MoveInv, MoveInv', NEW s \in Sales,
                    \/ SendToCashier(s)
                    \/ \E target \in Rows : CorrectPendingSale(s, target)
                    \/ CancelSale(s)
                    \/ \E amount \in 1..total[s] : RegisterPayment(s, amount)
                    \/ CompleteSale(s)
                    \/ \E settlement \in Settlements : Checkout(s, settlement)
             PROVE  \/ Promise!Hold(s) \/ Promise!Deliver(s) \/ Promise!Close(s)
                    \/ UNCHANGED Promise!promiseVars
  BY DEF Charge, Promise!PromiseNext
<1>t. /\ TypeOK /\ items[s] \in Rows
      /\ status \in [Sales -> Statuses]
  BY DEF HoldInv, TypeOK
<1>1. CASE SendToCashier(s)
  <2>1. hold[s] = EmptyRow /\ status[s] = "DRAFT"
    BY <1>1 DEF HoldInv, HoldsCoverLines, SendToCashier
  <2>2. Phase' = Phase
    BY <1>1, <1>t DEF SendToCashier, Phase
  <2>3. /\ reserved' = Rehold(hold[s], items[s])
        /\ hold' = [hold EXCEPT ![s] = items[s]]
        /\ UNCHANGED <<physical, afterSaleVars>>
    BY <1>1, <2>1 DEF SendToCashier
  <2> QED
    BY <1>t, <2>1, <2>2, <2>3, PromiseHold
<1>2. ASSUME NEW target \in Rows, CorrectPendingSale(s, target)
      PROVE  Promise!Hold(s)
  <2>1. Phase' = Phase
    BY <1>2 DEF CorrectPendingSale, Phase
  <2>2. /\ reserved' = Rehold(hold[s], target)
        /\ hold' = [hold EXCEPT ![s] = target]
        /\ UNCHANGED <<physical, afterSaleVars>>
        /\ status[s] = "PENDING_PAYMENT"
    BY <1>2 DEF CorrectPendingSale, MayCorrect
  <2> QED
    BY <2>1, <2>2, PromiseHold
<1>3. CASE CancelSale(s)
  <2>1. /\ status[s] \notin {"CANCELLED", "COMPLETED"}
        /\ status' = [status EXCEPT ![s] = "CANCELLED"]
        /\ Release(s)
        /\ UNCHANGED <<physical, sold, restored, returned, replaced>>
    BY <1>3 DEF CancelSale, MayCancel, afterSaleVars
  <2> QED
    BY <2>1, PromiseRelease
<1>4. ASSUME NEW amount \in 1..total[s], RegisterPayment(s, amount)
      PROVE  UNCHANGED Promise!promiseVars
  <2>1. Phase' = Phase
    BY <1>4, <1>t DEF RegisterPayment, MayAccept, Phase
  <2> QED
    BY <1>4, <2>1, PromiseStutter DEF RegisterPayment, stockVars, afterSaleVars
<1>5. CASE CompleteSale(s) \/ \E settlement \in Settlements : Checkout(s, settlement)
  BY <1>5, PromiseDeliver
<1> QED
  BY <1>1, <1>2, <1>3, <1>4, <1>5

LEMMA PromiseAfterSale ==
  HoldInv /\ HoldInv' /\ MoveInv /\ MoveInv' /\ AfterSale =>
    Promise!PromiseNext \/ UNCHANGED Promise!promiseVars
<1> SUFFICES ASSUME HoldInv, HoldInv', MoveInv, MoveInv', NEW s \in Sales,
                    \/ VoidPaidSale(s)
                    \/ VoidCompletedSale(s)
                    \/ \E key \in Keys, give \in Rows, swap \in [Variants -> Variants] :
                          ExchangeSale(s, key, give, swap)
             PROVE  Promise!Close(s) \/ Promise!Trade(s)
  BY DEF AfterSale, Returnable, Promise!PromiseNext
<1>h. HoldsCoverLines /\ TypeOK
  BY DEF HoldInv
<1>a. \A v \in Variants : /\ physical[v] \in Nat /\ reserved[v] \in Nat
                          /\ hold[s][v] \in Nat /\ sold[s][v] \in Nat
                          /\ WithCustomer(s)[v] \in Nat
  BY <1>h, RowValues, WithType, MaxUnitsType DEF TypeOK
<1>1. CASE VoidPaidSale(s)
  <2>1. /\ status[s] = "PAID"
        /\ status' = [status EXCEPT ![s] = "CANCELLED"]
        /\ Release(s)
        /\ UNCHANGED <<physical, sold, restored, returned, replaced>>
    BY <1>1 DEF VoidPaidSale
  <2> QED
    BY <2>1, PromiseRelease
<1>2. CASE VoidCompletedSale(s)
  <2>1. /\ WithCustomer(s)' = EmptyRow /\ WithCustomer(s) = sold[s]
        /\ \A t \in Sales \ {s} : WithCustomer(t)' = WithCustomer(t)
    BY <1>2, <1>h, WithStep
  <2>2. /\ status[s] = "COMPLETED"
        /\ status' = [status EXCEPT ![s] = "CANCELLED"]
        /\ UNCHANGED <<hold, reserved>>
        /\ physical' = [v \in Variants |-> physical[v] + sold[s][v]]
    BY <1>2 DEF VoidCompletedSale
  <2>3. hold[s] = EmptyRow
    BY <1>h, <2>2 DEF HoldsCoverLines
  <2>4. With' = [With EXCEPT ![s] = EmptyRow]
    BY <2>1 DEF With
  <2>5. hold' = [hold EXCEPT ![s] = EmptyRow]
    BY <1>h, <2>2, <2>3 DEF TypeOK
  <2>6. ASSUME NEW v \in Variants
        PROVE  Available(v)' = (Available(v) + hold[s][v]) + WithCustomer(s)[v]
    <3>1. hold[s][v] = 0 /\ WithCustomer(s)[v] = sold[s][v]
      BY <2>1, <2>3, EmptyValues
    <3> QED
      BY <3>1, <2>2, <1>a DEF Available
  <2> QED
    BY <2>2, <2>4, <2>5, <2>6, PromiseClose
<1>3. ASSUME NEW key \in Keys, NEW give \in Rows, NEW swap \in [Variants -> Variants],
             ExchangeSale(s, key, give, swap)
      PROVE  Promise!Trade(s)
  <2>1. /\ \A v \in Variants : WithCustomer(s)'[v] =
              (WithCustomer(s)[v] - give[v]) + Demand(give, swap, v)
        /\ \A t \in Sales \ {s} : WithCustomer(t)' = WithCustomer(t)
    BY <1>3, <1>h, WithStep
  <2>2. /\ status[s] = "COMPLETED"
        /\ UNCHANGED <<status, hold, reserved>>
        /\ physical' = [v \in Variants |-> (physical[v] + give[v]) - Demand(give, swap, v)]
    BY <1>3 DEF ExchangeSale, saleVars
  <2>3. With' = [With EXCEPT ![s] = With'[s]]
    BY <2>1 DEF With
  <2>4. ASSUME NEW v \in Variants
        PROVE  Available(v)' = (Available(v) + WithCustomer(s)[v]) - WithCustomer(s)'[v]
    <3>1. give[v] \in Nat /\ Demand(give, swap, v) \in Nat
      BY RowValues, DemandType
    <3> QED
      BY <3>1, <2>1, <2>2, <1>a DEF Available
  <2>5. Free' = [v \in Variants |-> (Free[v] + With[s][v]) - With'[s][v]]
    BY <2>4 DEF Free, With
  <2>6. \A v \in Variants : With'[s][v] >= 0 /\ Free'[v] >= 0
    BY WithTypePrimed, FreeTypePrimed, MaxUnitsType DEF With
  <2>7. Phase[s] = "delivered" /\ Phase' = Phase
    BY <2>2 DEF Phase
  <2> QED
    BY <2>2, <2>3, <2>5, <2>6, <2>7 DEF Promise!Trade, Free, With, Phase
<1> QED
  BY <1>1, <1>2, <1>3

LEMMA PromiseStep ==
  HoldInv /\ HoldInv' /\ MoveInv /\ MoveInv' /\ [Next]_vars =>
    [Promise!PromiseNext]_(Promise!promiseVars)
<1>1. UNCHANGED vars => UNCHANGED Promise!promiseVars
  <2> SUFFICES ASSUME UNCHANGED vars PROVE UNCHANGED Promise!promiseVars
    OBVIOUS
  <2>1. Phase' = Phase
    BY DEF vars, saleVars, Phase
  <2> QED
    BY <2>1, PromiseStutter DEF vars, saleVars, stockVars, afterSaleVars
<1> QED
  BY <1>1, PromiseStock, PromiseDraft, PromiseCharge, PromiseAfterSale DEF Next

\* The sale tables keep the promise: a unit is free, held for one sale or with one sale's
\* customer, and moves between them only as StockPromise allows.
THEOREM PromiseKept == Spec => KeepsPromise
  BY PromiseInitially, PromiseStep, HoldAlways, MoveAlways, PTL
  DEF Spec, KeepsPromise, Promise!PromiseSpec
=============================================================================
