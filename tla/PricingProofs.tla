---------------------------- MODULE PricingProofs ----------------------------
(***************************************************************************)
(* Proofs about what is charged, for every value of the constants.         *)
(*                                                                         *)
(* SalePricing: PricingInv is inductive: a draft is unpaid and unconfirmed, *)
(* so what a confirmation covered can only change by a correction, which   *)
(* clears it.                                                              *)
(*                                                                         *)
(* ProportionalQuote: what its sums and products over lines and methods    *)
(* are is proved from the set that would be the least to break each claim, *)
(* so no theorem with an operator parameter is needed.  On them rest the   *)
(* arithmetic of the rounding, the distribution of the residue by largest  *)
(* remainders, and with both every promise of a quote.  The same sums give *)
(* the types of a sale's amounts.                                          *)
(***************************************************************************)
EXTENDS SalePricing, ProportionalQuote, FiniteSetTheorems, WellFoundedInduction, TLAPS

-----------------------------------------------------------------------------
(* SalePricing *)

Fields == {"status", "model", "pricingMode", "priceMode", "lines", "total", "paid",
           "confirmedBy"}

\* The sale is one row with a line, or none, for each variant.
SaleShape ==
    /\ sale = [f \in Fields |-> sale[f]]
    /\ sale.lines = [v \in Variants |-> sale.lines[v]]

DraftIsFresh == sale.status = "DRAFT" => sale.paid = 0 /\ sale.confirmedBy = Nobody

ConfirmationSound ==
    sale.pricingMode = "WHOLESALE" /\ sale.confirmedBy # Nobody =>
        /\ sale.confirmedBy \in Cashiers \ {Seller}
        /\ sale.lines = confirmedLines

PaidIsConfirmed ==
    sale.pricingMode = "WHOLESALE" /\ sale.paid # 0 => sale.confirmedBy # Nobody

PricingInv ==
    /\ SaleShape
    /\ OnePriceMode
    /\ DraftIsFresh
    /\ ConfirmationSound
    /\ PaidIsConfirmed

\* Every new row of lines this module writes keeps the sale's other columns.
LEMMA WithLinesIs ==
    ASSUME SaleShape, NEW lines
    PROVE  /\ WithLines(lines) = [f \in Fields |-> WithLines(lines)[f]]
           /\ WithLines(lines).lines = lines
           /\ \A f \in Fields \ {"lines", "total"} : WithLines(lines)[f] = sale[f]
  BY DEF SaleShape, WithLines, Fields

\* A new sale is an empty draft.
LEMMA InitPricing == Init => PricingInv
  BY DEF Init, PricingInv, SaleShape, Fields, OnePriceMode, Carried, DraftIsFresh,
         ConfirmationSound, PaidIsConfirmed

\* A draft whose lines are written in the modes it ends with stays sound.
LEMMA DraftStep ==
    ASSUME PricingInv, sale.status = "DRAFT", NEW lines, NEW tier, NEW mode,
           lines = [v \in Variants |-> lines[v]],
           \A v \in Variants : lines[v] # NoLine =>
               lines[v].price.tier = tier /\ lines[v].price.mode = mode,
           sale.model = "PROPORTIONAL_V1" => mode = "CASH",
           sale' = [f \in Fields |-> sale'[f]],
           sale'.status = "DRAFT", sale'.paid = sale.paid, sale'.model = sale.model,
           sale'.confirmedBy = Nobody, sale'.lines = lines,
           sale'.pricingMode = tier, sale'.priceMode = mode
    PROVE  PricingInv'
  <1>1. SaleShape'
    BY DEF SaleShape
  <1>2. OnePriceMode'
    BY DEF OnePriceMode, Carried
  <1>3. DraftIsFresh' /\ ConfirmationSound' /\ PaidIsConfirmed'
    BY DEF PricingInv, DraftIsFresh, ConfirmationSound, PaidIsConfirmed
  <1>4. QED
    BY <1>1, <1>2, <1>3 DEF PricingInv

\* A step that keeps the lines and the modes, and only moves the sale on.
LEMMA MoveOnStep ==
    ASSUME PricingInv,
           sale' = [f \in Fields |-> sale'[f]],
           sale'.model = sale.model, sale'.lines = sale.lines,
           sale'.pricingMode = sale.pricingMode, sale'.priceMode = sale.priceMode,
           DraftIsFresh', ConfirmationSound', PaidIsConfirmed'
    PROVE  PricingInv'
  BY DEF PricingInv, SaleShape, OnePriceMode, Carried

\* Each action keeps the invariant.
LEMMA PricingStep == PricingInv /\ [Next]_vars => PricingInv'
  <1> SUFFICES ASSUME PricingInv, [Next]_vars PROVE PricingInv'
    OBVIOUS
  <1> USE DEF PricingInv
  <1>s. SaleShape /\ OnePriceMode /\ DraftIsFresh /\ ConfirmationSound /\ PaidIsConfirmed
    OBVIOUS
  <1>1. CASE UNCHANGED <<sale, confirmedLines>>
    BY <1>1, <1>s DEF SaleShape, OnePriceMode, Carried, DraftIsFresh, ConfirmationSound,
                      PaidIsConfirmed
  <1>2. ASSUME NEW c \in Clients, NEW q \in Quantities, AddItem(c, q)
        PROVE  PricingInv'
    <2> DEFINE r == request[c]
               new == IF sale.lines[r.variant] # NoLine
                      THEN [sale.lines EXCEPT ![r.variant] = LineOf(@.quantity + q, @.price)]
                      ELSE [sale.lines EXCEPT ![r.variant] = LineOf(q, PriceOfNew(r))]
    <2>1. sale' = WithLines(new) /\ sale.status = "DRAFT"
      BY <1>2 DEF AddItem
    <2>2. new = [v \in Variants |-> new[v]]
      BY <1>s DEF SaleShape
    <2>3. \A v \in Variants : new[v] # NoLine =>
              new[v].price.tier = sale.pricingMode /\ new[v].price.mode = sale.priceMode
      <3> SUFFICES ASSUME NEW v \in Variants, new[v] # NoLine
                   PROVE  new[v].price.tier = sale.pricingMode
                          /\ new[v].price.mode = sale.priceMode
        OBVIOUS
      <3>1. CASE v # r.variant
        BY <3>1, <1>s DEF SaleShape, OnePriceMode, Carried
      <3>2. CASE v = r.variant /\ sale.lines[v] # NoLine
        BY <3>2, <1>s DEF SaleShape, OnePriceMode, Carried, LineOf
      <3>3. CASE v = r.variant /\ sale.lines[v] = NoLine
        BY <3>3, <1>s DEF SaleShape, LineOf, PriceOfNew, UnitPriceFor
      <3>4. QED
        BY <3>1, <3>2, <3>3
    <2> HIDE DEF new
    <2>4. QED
      BY <2>1, <2>2, <2>3, <1>s, WithLinesIs, DraftStep
         DEF Fields, DraftIsFresh, OnePriceMode
  <1>3. ASSUME NEW c \in Clients, NEW q \in Quantities, UpdateItem(c, q)
        PROVE  PricingInv'
    <2> DEFINE r == request[c]
               new == [sale.lines EXCEPT ![r.variant] = UpdatedLine(r, q)]
    <2>1. sale' = WithLines(new) /\ sale.status = "DRAFT" /\ sale.lines[r.variant] # NoLine
      BY <1>3 DEF UpdateItem
    <2>2. new = [v \in Variants |-> new[v]]
      BY <1>s DEF SaleShape
    <2>3. \A v \in Variants : new[v] # NoLine =>
              new[v].price.tier = sale.pricingMode /\ new[v].price.mode = sale.priceMode
      <3> SUFFICES ASSUME NEW v \in Variants, new[v] # NoLine
                   PROVE  new[v].price.tier = sale.pricingMode
                          /\ new[v].price.mode = sale.priceMode
        OBVIOUS
      <3>1. CASE v # r.variant
        BY <3>1, <1>s DEF SaleShape, OnePriceMode, Carried
      <3>2. CASE v = r.variant
        BY <3>2, <2>1, <1>s DEF SaleShape, OnePriceMode, Carried, UpdatedLine, LineOf
      <3>3. QED
        BY <3>1, <3>2
    <2> HIDE DEF new
    <2>4. QED
      BY <2>1, <2>2, <2>3, <1>s, WithLinesIs, DraftStep
         DEF Fields, DraftIsFresh, OnePriceMode
  <1>4. ASSUME NEW v \in Variants, RemoveItem(v)
        PROVE  PricingInv'
    <2> DEFINE new == [sale.lines EXCEPT ![v] = NoLine]
    <2>1. sale' = WithLines(new) /\ sale.status = "DRAFT"
      BY <1>4 DEF RemoveItem
    <2>2. new = [w \in Variants |-> new[w]]
      BY <1>s DEF SaleShape
    <2>3. \A w \in Variants : new[w] # NoLine =>
              new[w].price.tier = sale.pricingMode /\ new[w].price.mode = sale.priceMode
      BY <1>s DEF SaleShape, OnePriceMode, Carried
    <2> HIDE DEF new
    <2>4. QED
      BY <2>1, <2>2, <2>3, <1>s, WithLinesIs, DraftStep
         DEF Fields, DraftIsFresh, OnePriceMode
  <1>5. ASSUME ActivateWholesale
        PROVE  PricingInv'
    <2> DEFINE new == Repriced("WHOLESALE", sale.priceMode)
    <2>1. /\ sale' = [WithLines(new) EXCEPT !.pricingMode = "WHOLESALE"]
          /\ sale.status = "DRAFT"
      BY <1>5 DEF ActivateWholesale
    <2>2. new = [v \in Variants |-> new[v]]
      BY DEF Repriced
    <2>3. \A v \in Variants : new[v] # NoLine =>
              new[v].price.tier = "WHOLESALE" /\ new[v].price.mode = sale.priceMode
      BY DEF Repriced, LineOf, UnitPriceFor
    <2> HIDE DEF new
    <2>4. /\ sale' = [f \in Fields |-> sale'[f]]
          /\ sale'.lines = new
          /\ sale'.status = "DRAFT" /\ sale'.paid = sale.paid
          /\ sale'.model = sale.model
          /\ sale'.pricingMode = "WHOLESALE" /\ sale'.priceMode = sale.priceMode
          /\ sale'.confirmedBy = Nobody
      BY <2>1, <1>s, WithLinesIs DEF Fields, DraftIsFresh
    <2>5. sale.model = "PROPORTIONAL_V1" => sale.priceMode = "CASH"
      BY <2>1, <1>s DEF OnePriceMode
    <2>6. SaleShape' /\ OnePriceMode'
      BY <2>2, <2>3, <2>4, <2>5 DEF SaleShape, OnePriceMode, Carried
    <2>7. DraftIsFresh' /\ ConfirmationSound' /\ PaidIsConfirmed'
      BY <2>1, <2>4, <1>s DEF DraftIsFresh, ConfirmationSound, PaidIsConfirmed
    <2>8. QED
      BY <2>6, <2>7
  <1>6. ASSUME NEW m \in PriceModes, UpdatePriceMode(m)
        PROVE  PricingInv'
    <2> DEFINE new == Repriced(sale.pricingMode, m)
    <2>1. /\ sale' = [WithLines(new) EXCEPT
                         !.priceMode = m,
                         !.confirmedBy = IF sale.pricingMode = "WHOLESALE" THEN Nobody ELSE @]
          /\ sale.status = "DRAFT"
          /\ sale.model = "PROPORTIONAL_V1" => m = "CASH"
      BY <1>6 DEF UpdatePriceMode, PriceModeApplies
    <2>2. new = [v \in Variants |-> new[v]]
      BY DEF Repriced
    <2>3. \A v \in Variants : new[v] # NoLine =>
              new[v].price.tier = sale.pricingMode /\ new[v].price.mode = m
      BY DEF Repriced, LineOf, UnitPriceFor
    <2> HIDE DEF new
    <2>4. /\ sale' = [f \in Fields |-> sale'[f]]
          /\ sale'.lines = new
          /\ sale'.status = "DRAFT" /\ sale'.paid = sale.paid
          /\ sale'.model = sale.model
          /\ sale'.pricingMode = sale.pricingMode /\ sale'.priceMode = m
          /\ sale'.confirmedBy = Nobody
      <3> DEFINE row == WithLines(new)
      <3>1. /\ row = [f \in Fields |-> row[f]]
            /\ row.lines = new
            /\ \A f \in Fields \ {"lines", "total"} : row[f] = sale[f]
        BY <1>s, WithLinesIs
      <3>2. sale' = [row EXCEPT !.priceMode = m,
                                !.confirmedBy = IF sale.pricingMode = "WHOLESALE"
                                                THEN Nobody ELSE @]
        BY <2>1
      <3>3. sale.confirmedBy = Nobody /\ sale.status = "DRAFT"
        BY <2>1, <1>s DEF DraftIsFresh
      <3> HIDE DEF row
      <3>4. row.confirmedBy = Nobody
        BY <3>1, <3>3 DEF Fields
      <3>5. sale' = [row EXCEPT !.priceMode = m, !.confirmedBy = Nobody]
        BY <3>2, <3>4
      <3>6. QED
        BY <3>1, <3>3, <3>5 DEF Fields
    <2>5. sale.model = "PROPORTIONAL_V1" => m = "CASH"
      BY <2>1, <1>s DEF OnePriceMode
    <2>6. SaleShape' /\ OnePriceMode'
      BY <2>2, <2>3, <2>4, <2>5 DEF SaleShape, OnePriceMode, Carried
    <2>7. DraftIsFresh' /\ ConfirmationSound' /\ PaidIsConfirmed'
      BY <2>1, <2>4, <1>s DEF DraftIsFresh, ConfirmationSound, PaidIsConfirmed
    <2>8. QED
      BY <2>6, <2>7
  <1>7. ASSUME NEW quantity, CorrectPendingSale(quantity)
        PROVE  PricingInv'
    <2> DEFINE new == Corrected(quantity)
    <2>1. /\ sale' = [WithLines(new) EXCEPT !.confirmedBy = ConfirmationAfterCorrection]
          /\ sale.status = "PENDING_PAYMENT"
          /\ sale.paid = 0
      BY <1>7 DEF CorrectPendingSale, MayCorrect
    <2>2. new = [v \in Variants |-> new[v]]
      BY DEF Corrected
    <2>3. \A v \in Variants : new[v] # NoLine =>
              new[v].price.tier = sale.pricingMode /\ new[v].price.mode = sale.priceMode
      BY <1>s DEF Corrected, LineOf, UnitPriceFor, OnePriceMode, Carried
    <2> HIDE DEF new
    <2>4. /\ sale' = [f \in Fields |-> sale'[f]]
          /\ sale'.lines = new
          /\ sale'.status = "PENDING_PAYMENT" /\ sale'.paid = 0
          /\ sale'.model = sale.model
          /\ sale'.pricingMode = sale.pricingMode /\ sale'.priceMode = sale.priceMode
          /\ sale'.confirmedBy =
                IF sale.pricingMode = "WHOLESALE" THEN Nobody ELSE sale.confirmedBy
      BY <2>1, <1>s, WithLinesIs DEF Fields, ConfirmationAfterCorrection
    <2>5. SaleShape' /\ OnePriceMode'
      BY <2>2, <2>3, <2>4, <1>s DEF SaleShape, OnePriceMode, Carried
    <2>6. DraftIsFresh' /\ ConfirmationSound' /\ PaidIsConfirmed'
      BY <2>4 DEF DraftIsFresh, ConfirmationSound, PaidIsConfirmed
    <2>7. QED
      BY <2>5, <2>6
  <1>8. ASSUME NEW u \in Cashiers, ConfirmWholesale(u)
        PROVE  PricingInv'
    <2>1. /\ sale' = [sale EXCEPT !.confirmedBy = u]
          /\ confirmedLines' = sale.lines
          /\ u \in Cashiers \ {Seller} /\ u # Nobody
          /\ sale.status = "PENDING_PAYMENT"
      BY <1>8, NobodyAssumption DEF ConfirmWholesale, MayConfirm
    <2>2. /\ sale' = [f \in Fields |-> sale'[f]]
          /\ sale'.confirmedBy = u
          /\ \A f \in Fields \ {"confirmedBy"} : sale'[f] = sale[f]
      BY <2>1, <1>s DEF SaleShape, Fields
    <2>3. DraftIsFresh' /\ ConfirmationSound' /\ PaidIsConfirmed'
      BY <2>1, <2>2 DEF Fields, DraftIsFresh, ConfirmationSound, PaidIsConfirmed
    <2>4. QED
      BY <2>2, <2>3, MoveOnStep DEF Fields
  <1>9. ASSUME SendToCashier \/ CancelSale \/ CompleteSale
        PROVE  PricingInv'
    <2>1. PICK status \in {"PENDING_PAYMENT", "CANCELLED", "COMPLETED"} :
              /\ sale' = [sale EXCEPT !.status = status]
              /\ confirmedLines' = confirmedLines
      BY <1>9 DEF SendToCashier, CancelSale, CompleteSale
    <2>2. /\ sale' = [f \in Fields |-> sale'[f]]
          /\ sale'.status = status
          /\ \A f \in Fields \ {"status"} : sale'[f] = sale[f]
      BY <2>1, <1>s DEF SaleShape, Fields
    <2>3. DraftIsFresh' /\ ConfirmationSound' /\ PaidIsConfirmed'
      BY <2>1, <2>2, <1>s DEF Fields, DraftIsFresh, ConfirmationSound, PaidIsConfirmed
    <2>4. QED
      BY <2>2, <2>3, MoveOnStep DEF Fields
  <1>10. ASSUME (\E amount : RegisterPayment(amount)) \/ ConfirmAttempt
         PROVE  PricingInv'
    <2>1. /\ PricingFinalizable
          /\ confirmedLines' = confirmedLines
      BY <1>10 DEF RegisterPayment, ConfirmAttempt
    <2>2. /\ sale' = [f \in Fields |-> sale'[f]]
          /\ sale'.status # "DRAFT"
          /\ \A f \in Fields \ {"status", "paid"} : sale'[f] = sale[f]
      <3>1. CASE ConfirmAttempt
        BY <3>1, <1>s DEF SaleShape, Fields, ConfirmAttempt
      <3>2. ASSUME NEW amount, RegisterPayment(amount)
            PROVE  /\ sale' = [f \in Fields |-> sale'[f]]
                   /\ sale'.status # "DRAFT"
                   /\ \A f \in Fields \ {"status", "paid"} : sale'[f] = sale[f]
        <4>1. PICK paid : sale' = [sale EXCEPT !.paid = paid,
                                               !.status = IF paid = sale.total
                                                          THEN "PAID" ELSE @]
          BY <3>2 DEF RegisterPayment
        <4>2. sale.status = "PENDING_PAYMENT"
          BY <3>2 DEF RegisterPayment
        <4>3. QED
          BY <4>1, <4>2, <1>s DEF SaleShape, Fields
      <3>3. QED
        BY <3>1, <3>2, <1>10
    <2>3. DraftIsFresh' /\ ConfirmationSound' /\ PaidIsConfirmed'
      BY <2>1, <2>2, <1>s DEF Fields, DraftIsFresh, ConfirmationSound, PaidIsConfirmed,
                              PricingFinalizable
    <2>4. QED
      BY <2>2, <2>3, MoveOnStep DEF Fields
  <1>11. QED
    <2>1. CASE EditStep
      BY <2>1, <1>1, <1>2, <1>3, <1>4 DEF EditStep, Prepare, RefuseItem
    <2>2. CASE SaleStep
      BY <2>2, <1>5, <1>6, <1>7, <1>8, <1>9, <1>10 DEF SaleStep
    <2>3. CASE PriceStep
      BY <2>3, <1>1 DEF PriceStep, UpdateVariantPrice, UpdateConfig
    <2>4. CASE UNCHANGED vars
      BY <2>4, <1>1 DEF vars
    <2>5. QED
      BY <2>1, <2>2, <2>3, <2>4 DEF Next

\* What is charged, what was confirmed and what was paid agree in every reachable state.
THEOREM PricingInvariant == Spec => []PricingInv
  BY InitPricing, PricingStep, PTL DEF Spec

\* Every line is priced in the tier and mode of its sale, a proportional one in cash,
\* whatever runs between an edit's reads and its write (OnePriceMode).
THEOREM AlwaysOnePriceMode == Spec => []OnePriceMode
  <1>1. PricingInv => OnePriceMode
    BY DEF PricingInv
  <1>2. QED
    BY <1>1, PricingInvariant, PTL

\* A wholesale sale that took money was confirmed by a cashier who did not sell it, with
\* the lines it charges (ChargedAsConfirmed).
THEOREM AlwaysChargedAsConfirmed == Spec => []ChargedAsConfirmed
  <1>1. PricingInv => ChargedAsConfirmed
    BY DEF PricingInv, ConfirmationSound, PaidIsConfirmed, ChargedAsConfirmed
  <1>2. QED
    BY <1>1, PricingInvariant, PTL

\* From the first payment on neither lines, nor prices, nor modes, nor the confirmation
\* change: what the trigger on Sale enforces never has to bite (FrozenOnceCharged).
THEOREM FrozenOnceChargedAlways == Spec => FrozenOnceCharged
  <1> DEFINE Frozen == sale.paid > 0 =>
                 /\ sale'.lines = sale.lines
                 /\ sale'.total = sale.total
                 /\ sale'.pricingMode = sale.pricingMode
                 /\ sale'.priceMode = sale.priceMode
                 /\ sale'.confirmedBy = sale.confirmedBy
  <1>1. PricingInv /\ [Next]_vars => Frozen \/ UNCHANGED vars
    <2> SUFFICES ASSUME PricingInv, Next, sale.paid > 0 PROVE Frozen
      BY DEF vars
    <2>1. sale.status # "DRAFT" /\ sale.paid # 0
      BY DEF PricingInv, DraftIsFresh
    <2>2. SaleShape
      BY DEF PricingInv
    <2>3. CASE EditStep
      BY <2>1, <2>3 DEF EditStep, Prepare, RefuseItem, AddItem, UpdateItem, RemoveItem
    <2>4. CASE PriceStep
      BY <2>4 DEF PriceStep, UpdateVariantPrice, UpdateConfig
    <2>5. CASE SaleStep
      <3>1. ~ ActivateWholesale /\ ~ SendToCashier /\ ~ CancelSale
        BY <2>1 DEF ActivateWholesale, SendToCashier, CancelSale
      <3>2. \A m : ~ UpdatePriceMode(m)
        BY <2>1 DEF UpdatePriceMode
      <3>3. \A quantity : ~ CorrectPendingSale(quantity)
        BY <2>1 DEF CorrectPendingSale, MayCorrect
      <3>4. \A u : ~ ConfirmWholesale(u)
        BY <2>1 DEF PricingInv, PaidIsConfirmed, ConfirmWholesale
      <3>5. QED
        BY <2>5, <3>1, <3>2, <3>3, <3>4, <2>2
           DEF SaleStep, RegisterPayment, ConfirmAttempt, CompleteSale, SaleShape, Fields
    <2>6. QED
      BY <2>3, <2>4, <2>5 DEF Next
  <1>2. QED
    BY <1>1, PricingInvariant, PTL DEF Spec, FrozenOnceCharged

-----------------------------------------------------------------------------
(***************************************************************************)
(* Sums and products over finite sets.  A fold chooses the order of its    *)
(* elements; whatever is proved of the least set that would break a claim  *)
(* holds of every finite set.                                              *)
(***************************************************************************)

\* Among the parts of a finite set that break a claim, one has no smaller one within it.
LEMMA LeastSet ==
    ASSUME NEW S, IsFiniteSet(S), NEW T \in SUBSET SUBSET S, T # {}
    PROVE  \E x \in T : \A y \in T : ~(y \subseteq x /\ y # x)
<1>1. IsWellFoundedOn(StrictSubsetOrdering(S), FiniteSubsetsOf(S))
    BY FS_StrictSubsetOrderingWellFounded
<1>2. T \subseteq FiniteSubsetsOf(S)
    BY FS_Subset DEF FiniteSubsetsOf
<1>3. \E x \in T : \A y \in T : ~(<<y, x>> \in StrictSubsetOrdering(S))
    BY <1>1, <1>2, WFMin
<1> QED BY <1>3 DEF StrictSubsetOrdering

\* What holds of a set whenever it holds of its proper subsets holds of every finite set.
LEMMA StrongInduction ==
    ASSUME NEW S, IsFiniteSet(S), NEW G,
           \A s \in SUBSET S : (\A r \in SUBSET s : r # s => r \in G) => s \in G
    PROVE  \A s \in SUBSET S : s \in G
<1> DEFINE Bad == {s \in SUBSET S : s \notin G}
<1>1. Bad \in SUBSET SUBSET S
    OBVIOUS
<1>2. SUFFICES ASSUME Bad # {} PROVE FALSE
    OBVIOUS
<1>3. PICK b \in Bad : \A y \in Bad : ~(y \subseteq b /\ y # b)
  <2> HIDE DEF Bad
  <2> QED BY <1>1, <1>2, LeastSet
<1>4. \A r \in SUBSET b : r # b => r \in G
    BY <1>3
<1> QED BY <1>3, <1>4

\* What holds of the empty set, and with one more element, holds of every finite set.
LEMMA SetInduction ==
    ASSUME NEW S, IsFiniteSet(S), NEW G, {} \in G,
           \A s \in SUBSET S : \A x \in S \ s : s \in G => s \cup {x} \in G
    PROVE  S \in G
<1>1. ASSUME NEW s \in SUBSET S, \A r \in SUBSET s : r # s => r \in G
      PROVE  s \in G
  <2>1. CASE s = {}
      BY <2>1
  <2>2. ASSUME NEW x \in s PROVE s \in G
    <3>1. s \ {x} \in G /\ (s \ {x}) \cup {x} = s /\ x \in S \ (s \ {x}) /\ s \ {x} \in SUBSET S
        BY <1>1
    <3> QED BY <3>1
  <2> QED BY <2>1, <2>2
<1> QED BY <1>1, StrongInduction

\* The results of a fold over each part of S: g of the empty set is the base, and step[x] takes
\* the result without x to the result with x.
Folded(step, base, S, g) ==
    g = [s \in SUBSET S |->
            IF s = {} THEN base ELSE LET x == CHOOSE x \in s : TRUE IN step[x][g[s \ {x}]]]

Fold(step, base, S) == (CHOOSE g : Folded(step, base, S, g))[S]

\* At most one function gives the results of a fold.
LEMMA FoldedUnique ==
    ASSUME NEW step, NEW base, NEW S, IsFiniteSet(S), NEW g, NEW h,
           Folded(step, base, S, g), Folded(step, base, S, h)
    PROVE  g = h
<1> DEFINE G == {s \in SUBSET S : g[s] = h[s]}
<1>1. ASSUME NEW s \in SUBSET S, \A r \in SUBSET s : r # s => r \in G
      PROVE  s \in G
  <2> DEFINE x == CHOOSE x \in s : TRUE
  <2>1. CASE s = {}
      BY <2>1 DEF Folded
  <2>2. CASE s # {}
    <3>1. x \in s
        BY <2>2
    <3>2. g[s \ {x}] = h[s \ {x}]
        BY <1>1, <3>1
    <3>3. g[s] = step[x][g[s \ {x}]] /\ h[s] = step[x][h[s \ {x}]]
        BY <2>2 DEF Folded
    <3> QED BY <3>2, <3>3
  <2> QED BY <2>1, <2>2
<1>2. \A s \in SUBSET S : s \in G
  <2> HIDE DEF G
  <2> QED BY <1>1, StrongInduction
<1>3. \A s \in SUBSET S : g[s] = h[s]
    BY <1>2
<1>4. g = [s \in SUBSET S |-> g[s]] /\ h = [s \in SUBSET S |-> h[s]]
    BY DEF Folded
<1> QED BY <1>3, <1>4

\* The results over S include those over each part of it.
LEMMA FoldedPart ==
    ASSUME NEW step, NEW base, NEW S, NEW g, Folded(step, base, S, g), NEW s \in SUBSET S
    PROVE  Folded(step, base, s, [r \in SUBSET s |-> g[r]])
<1> DEFINE h == [r \in SUBSET s |-> g[r]]
<1>1. ASSUME NEW r \in SUBSET s
      PROVE  h[r] = IF r = {} THEN base
                    ELSE LET x == CHOOSE x \in r : TRUE IN step[x][h[r \ {x}]]
  <2>1. r \in SUBSET S /\ \A x \in r : r \ {x} \in SUBSET s
      OBVIOUS
  <2>2. h[r] = g[r] /\ \A x : h[r \ {x}] = g[r \ {x}]
      OBVIOUS
  <2>3. g[r] = IF r = {} THEN base
               ELSE LET x == CHOOSE x \in r : TRUE IN step[x][g[r \ {x}]]
      BY <2>1 DEF Folded
  <2> QED BY <2>2, <2>3
<1>2. h = [r \in SUBSET s |->
              IF r = {} THEN base ELSE LET x == CHOOSE x \in r : TRUE IN step[x][h[r \ {x}]]]
    BY <1>1
<1> QED BY <1>2 DEF Folded

\* There is such a function.
LEMMA FoldedExists ==
    ASSUME NEW step, NEW base, NEW S, IsFiniteSet(S)
    PROVE  \E g : Folded(step, base, S, g)
<1> DEFINE G == {s \in SUBSET S : \E g : Folded(step, base, s, g)}
<1>1. ASSUME NEW s \in SUBSET S, \A r \in SUBSET s : r # s => r \in G
      PROVE  s \in G
  <2> DEFINE of(r) == CHOOSE g : Folded(step, base, r, g)
             value(r) == of(r)[r]
             g == [r \in SUBSET s |->
                      IF r = {} THEN base
                      ELSE LET x == CHOOSE x \in r : TRUE IN step[x][value(r \ {x})]]
  <2>1. ASSUME NEW r \in SUBSET s, r # s PROVE g[r] = value(r)
    <3>1. Folded(step, base, r, of(r))
        BY <1>1, <2>1
    <3>2. CASE r = {}
        BY <3>1, <3>2 DEF Folded
    <3>3. CASE r # {}
      <4> DEFINE x == CHOOSE x \in r : TRUE
                 p == r \ {x}
      <4>1. x \in r /\ p \in SUBSET s /\ p # s /\ p \in SUBSET r
          BY <3>3
      <4>2. Folded(step, base, p, of(p))
          BY <1>1, <4>1
      <4>3. Folded(step, base, p, [q \in SUBSET p |-> of(r)[q]])
          BY <3>1, <4>1, FoldedPart
      <4>4. IsFiniteSet(p)
          BY <4>1, FS_Subset
      <4>5. of(p) = [q \in SUBSET p |-> of(r)[q]]
          BY <4>2, <4>3, <4>4, FoldedUnique
      <4>6. value(p) = of(r)[p]
          BY <4>5
      <4>7. of(r)[r] = step[x][of(r)[p]]
          BY <3>1, <3>3 DEF Folded
      <4>8. g[r] = step[x][value(p)]
          BY <3>3
      <4> QED BY <4>6, <4>7, <4>8
    <3> QED BY <3>2, <3>3
  <2>2. ASSUME NEW r \in SUBSET s
        PROVE  g[r] = IF r = {} THEN base
                      ELSE LET x == CHOOSE x \in r : TRUE IN step[x][g[r \ {x}]]
    <3>1. CASE r = {}
        BY <3>1
    <3>2. CASE r # {}
      <4> DEFINE x == CHOOSE x \in r : TRUE
      <4>1. x \in r /\ r \ {x} \in SUBSET s /\ r \ {x} # s
          BY <3>2
      <4>2. g[r \ {x}] = value(r \ {x})
          BY <2>1, <4>1
      <4>3. g[r] = step[x][value(r \ {x})]
          BY <3>2
      <4> HIDE DEF g, value
      <4> QED BY <3>2, <4>2, <4>3
    <3> QED BY <3>1, <3>2
  <2>3. g = [r \in SUBSET s |->
                IF r = {} THEN base ELSE LET x == CHOOSE x \in r : TRUE IN step[x][g[r \ {x}]]]
    <3>1. g = [r \in SUBSET s |-> g[r]]
        OBVIOUS
    <3> HIDE DEF g
    <3> QED BY <2>2, <3>1
  <2>4. Folded(step, base, s, g)
    <3> HIDE DEF g
    <3> QED BY <2>3 DEF Folded
  <2> QED BY <2>4
<1>2. \A s \in SUBSET S : s \in G
  <2> HIDE DEF G
  <2> QED BY <1>1, StrongInduction
<1> QED BY <1>2

\* So the fold is what any such function gives.
LEMMA FoldIs ==
    ASSUME NEW step, NEW base, NEW S, IsFiniteSet(S), NEW g, Folded(step, base, S, g)
    PROVE  Fold(step, base, S) = g[S]
<1>1. \A h : Folded(step, base, S, h) => h = g
    BY FoldedUnique
<1> QED BY <1>1 DEF Fold

First(s) == CHOOSE x \in s : TRUE

\* A fold over no element is its base; over some, one of them is taken out first.
LEMMA FoldChosen ==
    ASSUME NEW step, NEW base, NEW S, IsFiniteSet(S)
    PROVE  /\ S = {} => Fold(step, base, S) = base
           /\ S # {} => Fold(step, base, S) =
                            step[First(S)][Fold(step, base, S \ {First(S)})]
<1>1. PICK g : Folded(step, base, S, g)
    BY FoldedExists
<1>2. Fold(step, base, S) = g[S]
    BY <1>1, FoldIs
<1>3. CASE S = {}
    BY <1>1, <1>2, <1>3 DEF Folded
<1>4. ASSUME S # {}, NEW c, c = First(S)
      PROVE  Fold(step, base, S) = step[c][Fold(step, base, S \ {c})]
  <2> DEFINE p == S \ {c}
  <2>1. Folded(step, base, p, [r \in SUBSET p |-> g[r]])
      BY <1>1, FoldedPart
  <2>2. IsFiniteSet(p)
      BY FS_Subset
  <2>3. Fold(step, base, p) = g[p]
      BY <2>1, <2>2, FoldIs
  <2>4. g[S] = step[c][g[p]]
      BY <1>1, <1>4 DEF Folded, First
  <2> QED BY <1>2, <2>3, <2>4
<1> QED BY <1>3, <1>4

\* Steps that may be taken in either order.
Commuting(step, S, V) ==
    /\ \A x \in S : \A v \in V : step[x][v] \in V
    /\ \A x, y \in S : \A v \in V : step[x][step[y][v]] = step[y][step[x][v]]

\* Then any element may be taken out first.
LEMMA FoldTaken ==
    ASSUME NEW step, NEW V, NEW base \in V, NEW S, IsFiniteSet(S), Commuting(step, S, V)
    PROVE  \A s \in SUBSET S :
              /\ Fold(step, base, s) \in V
              /\ \A x \in s : Fold(step, base, s) = step[x][Fold(step, base, s \ {x})]
<1> DEFINE G == {s \in SUBSET S :
                    /\ Fold(step, base, s) \in V
                    /\ \A x \in s : Fold(step, base, s) = step[x][Fold(step, base, s \ {x})]}
<1>1. ASSUME NEW s \in SUBSET S, \A r \in SUBSET s : r # s => r \in G
      PROVE  s \in G
  <2>0. IsFiniteSet(s)
      BY FS_Subset
  <2>1. CASE s = {}
      BY <2>0, <2>1, FoldChosen
  <2>2. ASSUME s # {}, NEW c, c = First(s)
        PROVE  s \in G
    <3>1. c \in s
        BY <2>2 DEF First
    <3>2. Fold(step, base, s) = step[c][Fold(step, base, s \ {c})]
        BY <2>0, <2>2, FoldChosen
    <3>3. Fold(step, base, s \ {c}) \in V
        BY <1>1, <3>1
    <3>4. Fold(step, base, s) \in V
        BY <3>1, <3>2, <3>3 DEF Commuting
    <3>5. ASSUME NEW x \in s
          PROVE  Fold(step, base, s) = step[x][Fold(step, base, s \ {x})]
      <4>1. CASE x = c
          BY <3>2, <4>1
      <4>2. CASE x # c
        <5> DEFINE rest == s \ {c, x}
        <5>1. s \ {c} \in G /\ s \ {x} \in G /\ x \in s \ {c} /\ c \in s \ {x}
            BY <1>1, <3>1, <4>2
        <5>2. (s \ {c}) \ {x} = rest /\ (s \ {x}) \ {c} = rest
            OBVIOUS
        <5>3. Fold(step, base, s \ {c}) = step[x][Fold(step, base, rest)]
            BY <5>1, <5>2
        <5>4. Fold(step, base, s \ {x}) = step[c][Fold(step, base, rest)]
            BY <5>1, <5>2
        <5>5. rest \in SUBSET s /\ rest # s
            BY <3>1
        <5>6. Fold(step, base, rest) \in V /\ x \in S /\ c \in S
            BY <1>1, <3>1, <5>5
        <5> HIDE DEF rest
        <5> QED BY <3>2, <5>3, <5>4, <5>6 DEF Commuting
      <4> QED BY <4>1, <4>2
    <3>6. s \in SUBSET S /\ Fold(step, base, s) \in V
          /\ \A x \in s : Fold(step, base, s) = step[x][Fold(step, base, s \ {x})]
        BY <3>4, <3>5
    <3> QED BY <3>6
  <2> QED BY <2>1, <2>2
<1>2. \A s \in SUBSET S : s \in G
  <2> HIDE DEF G
  <2> QED BY <1>1, StrongInduction
<1> QED BY <1>2

-----------------------------------------------------------------------------
(* Sums *)

Integral(f, S) == \A x \in S : f[x] \in Int
Adding(f, S) == [x \in S |-> [v \in Int |-> f[x] + v]]

\* The library's sum is such a fold.
LEMMA SumIsFold ==
    ASSUME NEW f, NEW S, Integral(f, S), NEW s \in SUBSET S, IsFiniteSet(s)
    PROVE  SumFunctionOnSet(f, s) = Fold(Adding(f, S), 0, s)
<1> DEFINE Sums(g) ==
              g = [r \in SUBSET s |->
                      IF r = {} THEN 0 ELSE LET x == CHOOSE x \in r : TRUE IN f[x] + g[r \ {x}]]
           step == Adding(f, S)
<1>1. ASSUME NEW g, Sums(g)
      PROVE  Folded(step, 0, s, g)
  <2> DEFINE G == {r \in SUBSET s : g[r] \in Int}
  <2>1. ASSUME NEW r \in SUBSET s, \A q \in SUBSET r : q # r => q \in G
        PROVE  r \in G
    <3>1. CASE r = {}
        BY <1>1, <3>1
    <3>2. ASSUME NEW x \in r, x = CHOOSE y \in r : TRUE
          PROVE  g[r] \in Int
      <4>1. g[r] = f[x] + g[r \ {x}]
          BY <1>1, <3>2
      <4>2. f[x] \in Int /\ g[r \ {x}] \in Int
          BY <2>1 DEF Integral
      <4> QED BY <4>1, <4>2
    <3> QED BY <3>1, <3>2
  <2>2. \A r \in SUBSET s : r \in G
    <3> HIDE DEF G
    <3> QED BY <2>1, StrongInduction
  <2>3. ASSUME NEW r \in SUBSET s, NEW x \in r
        PROVE  f[x] + g[r \ {x}] = step[x][g[r \ {x}]]
      BY <2>2 DEF Adding
  <2>4. ASSUME NEW r \in SUBSET s
        PROVE  g[r] = IF r = {} THEN 0
                      ELSE LET x == CHOOSE x \in r : TRUE IN step[x][g[r \ {x}]]
    <3>1. CASE r = {}
        BY <1>1, <3>1
    <3>2. ASSUME NEW x \in r, x = CHOOSE y \in r : TRUE
          PROVE  g[r] = step[x][g[r \ {x}]]
        BY <1>1, <2>3, <3>2
    <3> HIDE DEF step
    <3> QED BY <3>1, <3>2
  <2>5. g = [r \in SUBSET s |-> g[r]]
      BY <1>1
  <2> HIDE DEF step
  <2> QED BY <2>4, <2>5 DEF Folded
<1>2. ASSUME NEW g, Folded(step, 0, s, g)
      PROVE  Sums(g)
  <2> DEFINE G == {r \in SUBSET s : g[r] \in Int}
  <2>1. ASSUME NEW r \in SUBSET s, \A q \in SUBSET r : q # r => q \in G
        PROVE  r \in G
    <3>1. CASE r = {}
        BY <1>2, <3>1 DEF Folded
    <3>2. ASSUME NEW x \in r, x = CHOOSE y \in r : TRUE
          PROVE  g[r] \in Int
      <4>1. g[r] = step[x][g[r \ {x}]]
        <5> HIDE DEF step
        <5> QED BY <1>2, <3>2 DEF Folded
      <4>2. f[x] \in Int /\ g[r \ {x}] \in Int
          BY <2>1 DEF Integral
      <4> QED BY <4>1, <4>2 DEF Adding
    <3> QED BY <3>1, <3>2
  <2>2. \A r \in SUBSET s : r \in G
    <3> HIDE DEF G
    <3> QED BY <2>1, StrongInduction
  <2>3. ASSUME NEW r \in SUBSET s, NEW x \in r
        PROVE  f[x] + g[r \ {x}] = step[x][g[r \ {x}]]
      BY <2>2 DEF Adding
  <2>4. ASSUME NEW r \in SUBSET s
        PROVE  g[r] = IF r = {} THEN 0
                      ELSE LET x == CHOOSE x \in r : TRUE IN f[x] + g[r \ {x}]
    <3>1. CASE r = {}
        BY <1>2, <3>1 DEF Folded
    <3>2. ASSUME NEW x \in r, x = CHOOSE y \in r : TRUE
          PROVE  g[r] = f[x] + g[r \ {x}]
      <4>1. g[r] = step[x][g[r \ {x}]]
        <5> HIDE DEF step
        <5> QED BY <1>2, <3>2 DEF Folded
      <4> QED BY <2>3, <4>1
    <3> QED BY <3>1, <3>2
  <2>5. g = [r \in SUBSET s |-> g[r]]
      BY <1>2 DEF Folded
  <2> QED BY <2>4, <2>5
<1>3. \A g : Sums(g) <=> Folded(step, 0, s, g)
    BY <1>1, <1>2
<1>4. SumFunctionOnSet(f, s) = (CHOOSE g : Sums(g))[s]
    BY DEF SumFunctionOnSet, FoldFunctionOnSet, MapThenFoldSet
<1> QED BY <1>3, <1>4 DEF Fold

\* A sum does not depend on the order in which it is made.
LEMMA SumTaken ==
    ASSUME NEW f, NEW S, IsFiniteSet(S), Integral(f, S), NEW s \in SUBSET S
    PROVE  /\ SumFunctionOnSet(f, s) \in Int
           /\ s = {} => SumFunctionOnSet(f, s) = 0
           /\ \A x \in s : SumFunctionOnSet(f, s) = f[x] + SumFunctionOnSet(f, s \ {x})
<1> DEFINE step == Adding(f, S)
<1>1. Commuting(step, S, Int)
    BY DEF Commuting, Adding, Integral
<1>2. \A r \in SUBSET S : IsFiniteSet(r) /\ SumFunctionOnSet(f, r) = Fold(step, 0, r)
    BY SumIsFold, FS_Subset
<1>3. /\ Fold(step, 0, s) \in Int
      /\ \A x \in s : Fold(step, 0, s) = step[x][Fold(step, 0, s \ {x})]
      /\ \A x \in s : Fold(step, 0, s \ {x}) \in Int
  <2> HIDE DEF step
  <2>1. \A r \in SUBSET S :
            /\ Fold(step, 0, r) \in Int
            /\ \A x \in r : Fold(step, 0, r) = step[x][Fold(step, 0, r \ {x})]
    <3>1. 0 \in Int
        OBVIOUS
    <3> QED BY <1>1, <3>1, FoldTaken
  <2>2. \A x \in s : s \ {x} \in SUBSET S
      OBVIOUS
  <2> QED BY <2>1, <2>2
<1>4. ASSUME NEW x \in s PROVE Fold(step, 0, s) = f[x] + Fold(step, 0, s \ {x})
    BY <1>3 DEF Adding
<1>5. s = {} => Fold(step, 0, s) = 0
  <2> HIDE DEF step
  <2>1. IsFiniteSet(s)
      BY FS_Subset
  <2> QED BY <2>1, FoldChosen
<1> HIDE DEF step
<1>6. ASSUME NEW x \in s PROVE SumFunctionOnSet(f, s) = f[x] + SumFunctionOnSet(f, s \ {x})
  <2>1. s \ {x} \in SUBSET S
      OBVIOUS
  <2> QED BY <1>2, <1>4, <2>1
<1> QED BY <1>2, <1>3, <1>5, <1>6

\* One more element adds its term.
LEMMA SumAdds ==
    ASSUME NEW f, NEW S, IsFiniteSet(S), Integral(f, S), NEW s \in SUBSET S, NEW x \in S \ s
    PROVE  /\ SumFunctionOnSet(f, s) \in Int
           /\ f[x] \in Int
           /\ SumFunctionOnSet(f, s \cup {x}) = f[x] + SumFunctionOnSet(f, s)
<1>1. (s \cup {x}) \ {x} = s /\ s \cup {x} \in SUBSET S /\ x \in s \cup {x}
    OBVIOUS
<1> QED BY <1>1, SumTaken DEF Integral

\* Nothing adds up to nothing.
LEMMA SumOfNone == ASSUME NEW f PROVE SumFunctionOnSet(f, {}) = 0
BY SumTaken, FS_EmptySet DEF Integral

\* A sum of integers is an integer.
LEMMA SumType ==
    ASSUME NEW f, NEW S, IsFiniteSet(S), Integral(f, S)
    PROVE  SumFunctionOnSet(f, S) \in Int
BY SumTaken

\* A sum of one term is the term.
LEMMA SumOfOne ==
    ASSUME NEW f, NEW x, f[x] \in Int
    PROVE  SumFunctionOnSet(f, {x}) = f[x]
<1>1. IsFiniteSet({x}) /\ Integral(f, {x}) /\ {x} \ {x} = {} /\ {x} \in SUBSET {x}
    BY FS_Singleton DEF Integral
<1> QED BY <1>1, SumTaken, SumOfNone

\* Sums that are related element by element.
LEMMA SumPlus ==
    ASSUME NEW S, IsFiniteSet(S), NEW f, NEW g, NEW h, Integral(f, S), Integral(g, S),
           \A x \in S : h[x] = f[x] + g[x]
    PROVE  SumFunctionOnSet(h, S) = SumFunctionOnSet(f, S) + SumFunctionOnSet(g, S)
<1> DEFINE G == {s \in SUBSET S :
                    SumFunctionOnSet(h, s) = SumFunctionOnSet(f, s) + SumFunctionOnSet(g, s)}
<1>1. {} \in G
    BY SumOfNone
<1>2. Integral(h, S)
    BY DEF Integral
<1>3. ASSUME NEW s \in SUBSET S, NEW x \in S \ s, s \in G PROVE s \cup {x} \in G
    BY <1>2, <1>3, SumAdds
<1> HIDE DEF G
<1>4. S \in G
    BY <1>1, <1>3, SetInduction
<1> QED BY <1>4 DEF G

\* A common factor of the terms is a factor of the sum.
LEMMA SumTimes ==
    ASSUME NEW S, IsFiniteSet(S), NEW f, NEW g, NEW c \in Int, Integral(f, S),
           \A x \in S : g[x] = c * f[x]
    PROVE  SumFunctionOnSet(g, S) = c * SumFunctionOnSet(f, S)
<1> DEFINE G == {s \in SUBSET S : SumFunctionOnSet(g, s) = c * SumFunctionOnSet(f, s)}
<1>1. {} \in G
    BY SumOfNone
<1>2. Integral(g, S)
    BY DEF Integral
<1>3. ASSUME NEW s \in SUBSET S, NEW x \in S \ s, s \in G PROVE s \cup {x} \in G
  <2>1. /\ SumFunctionOnSet(f, s \cup {x}) = f[x] + SumFunctionOnSet(f, s)
        /\ SumFunctionOnSet(g, s \cup {x}) = g[x] + SumFunctionOnSet(g, s)
        /\ SumFunctionOnSet(f, s) \in Int /\ f[x] \in Int
      BY <1>2, SumAdds
  <2>3. c * (f[x] + SumFunctionOnSet(f, s)) = c * f[x] + c * SumFunctionOnSet(f, s)
      BY <2>1
  <2>4. g[x] = c * f[x] /\ SumFunctionOnSet(g, s) = c * SumFunctionOnSet(f, s)
      BY <1>3
  <2> QED BY <2>1, <2>3, <2>4
<1> HIDE DEF G
<1>4. S \in G
    BY <1>1, <1>3, SetInduction
<1> QED BY <1>4 DEF G

\* Terms that are not larger do not add up to more.
LEMMA SumAtMost ==
    ASSUME NEW S, IsFiniteSet(S), NEW f, NEW g, Integral(f, S), Integral(g, S),
           \A x \in S : f[x] <= g[x]
    PROVE  SumFunctionOnSet(f, S) <= SumFunctionOnSet(g, S)
<1> DEFINE G == {s \in SUBSET S : SumFunctionOnSet(f, s) <= SumFunctionOnSet(g, s)}
<1>1. {} \in G
    BY SumOfNone
<1>2. ASSUME NEW s \in SUBSET S, NEW x \in S \ s, s \in G PROVE s \cup {x} \in G
    BY <1>2, SumAdds
<1> HIDE DEF G
<1>3. S \in G
    BY <1>1, <1>2, SetInduction
<1> QED BY <1>3 DEF G

\* Equal terms have equal sums.
LEMMA SumAlike ==
    ASSUME NEW S, IsFiniteSet(S), NEW f, NEW g, Integral(f, S), \A x \in S : f[x] = g[x]
    PROVE  SumFunctionOnSet(f, S) = SumFunctionOnSet(g, S)
<1>1. Integral(g, S) /\ \A x \in S : f[x] <= g[x] /\ g[x] <= f[x]
    BY DEF Integral
<1>2. /\ SumFunctionOnSet(f, S) <= SumFunctionOnSet(g, S)
      /\ SumFunctionOnSet(g, S) <= SumFunctionOnSet(f, S)
    BY <1>1, SumAtMost
<1>3. SumFunctionOnSet(f, S) \in Int /\ SumFunctionOnSet(g, S) \in Int
    BY <1>1, SumType
<1> QED BY <1>2, <1>3

\* A sum of natural numbers is one, and no term is above it.
LEMMA SumNonnegative ==
    ASSUME NEW S, IsFiniteSet(S), NEW f, \A x \in S : f[x] \in Nat
    PROVE  /\ SumFunctionOnSet(f, S) \in Nat
           /\ \A x \in S : f[x] <= SumFunctionOnSet(f, S)
<1> DEFINE G == {s \in SUBSET S : SumFunctionOnSet(f, s) \in Nat}
<1>1. Integral(f, S)
    BY DEF Integral
<1>2. {} \in G
    BY SumOfNone
<1>3. ASSUME NEW s \in SUBSET S, NEW x \in S \ s, s \in G PROVE s \cup {x} \in G
    BY <1>1, <1>3, SumAdds
<1>4. ASSUME NEW s \in SUBSET S PROVE s \in G
  <2> DEFINE H == {r \in SUBSET s : r \in G}
  <2>1. {} \in H /\ \A r \in SUBSET s : \A x \in s \ r : r \in H => r \cup {x} \in H
    <3> HIDE DEF G
    <3> QED BY <1>2, <1>3
  <2>2. IsFiniteSet(s)
      BY FS_Subset
  <2> HIDE DEF H
  <2>3. s \in H
      BY <2>1, <2>2, SetInduction
  <2> QED BY <2>3 DEF H
<1>5. ASSUME NEW x \in S PROVE f[x] <= SumFunctionOnSet(f, S)
  <2>1. S \ {x} \in SUBSET S /\ S \in SUBSET S
      OBVIOUS
  <2>2. SumFunctionOnSet(f, S) = f[x] + SumFunctionOnSet(f, S \ {x})
      BY <1>1, <2>1, SumTaken
  <2>3. SumFunctionOnSet(f, S \ {x}) \in Nat
      BY <1>4, <2>1
  <2> QED BY <2>2, <2>3
<1> QED BY <1>4, <1>5

\* A table a, turned around in of, with the sum of each of its rows and columns.
Tabulated(a, of, row, column, S, T) ==
    /\ \A x \in S, y \in T : a[x][y] \in Int /\ of[y][x] = a[x][y]
    /\ \A x \in S : row[x] = SumFunctionOnSet(a[x], T)
    /\ \A y \in T : column[y] = SumFunctionOnSet(of[y], S)

\* It adds up to the same by rows and by columns.
LEMMA SumSwap ==
    ASSUME NEW S, IsFiniteSet(S), NEW T, IsFiniteSet(T), NEW a, NEW of, NEW row, NEW column,
           Tabulated(a, of, row, column, S, T)
    PROVE  SumFunctionOnSet(row, S) = SumFunctionOnSet(column, T)
<1>0. /\ \A x \in S, y \in T : a[x][y] \in Int /\ of[y][x] = a[x][y]
      /\ \A x \in S : row[x] = SumFunctionOnSet(a[x], T)
      /\ \A y \in T : column[y] = SumFunctionOnSet(of[y], S)
    BY DEF Tabulated
<1> DEFINE part(s) == [y \in T |-> SumFunctionOnSet(of[y], s)]
           G == {s \in SUBSET S : SumFunctionOnSet(row, s) = SumFunctionOnSet(part(s), T)}
<1>1. /\ \A x \in S : Integral(a[x], T) /\ row[x] \in Int
      /\ \A y \in T : Integral(of[y], S)
      /\ Integral(row, S)
  <2>1. ASSUME NEW x \in S PROVE Integral(a[x], T) /\ row[x] \in Int
      BY <1>0, SumType DEF Integral
  <2>2. \A y \in T : Integral(of[y], S)
      BY <1>0 DEF Integral
  <2> QED BY <2>1, <2>2 DEF Integral
<1>2. {} \in G
  <2>1. \A y \in T : part({})[y] = 0
      BY SumOfNone
  <2>2. Integral(part({}), T) /\ \A y \in T : part({})[y] = 0 * part({})[y]
      BY <2>1 DEF Integral
  <2>3. SumFunctionOnSet(part({}), T) = 0 * SumFunctionOnSet(part({}), T)
    <3> HIDE DEF part
    <3> QED BY <2>2, SumTimes
  <2>4. SumFunctionOnSet(part({}), T) \in Int
    <3> HIDE DEF part
    <3> QED BY <2>2, SumType
  <2>5. SumFunctionOnSet(part({}), T) = 0
    <3> HIDE DEF part
    <3> QED BY <2>3, <2>4
  <2> HIDE DEF part
  <2> QED BY <2>5, SumOfNone
<1>3. ASSUME NEW s \in SUBSET S, NEW x \in S \ s, s \in G PROVE s \cup {x} \in G
  <2>1. SumFunctionOnSet(row, s \cup {x}) = row[x] + SumFunctionOnSet(row, s)
      BY <1>0, <1>1, SumAdds
  <2>2. ASSUME NEW y \in T
        PROVE  /\ part(s \cup {x})[y] = a[x][y] + part(s)[y]
               /\ part(s)[y] \in Int
    <3>1. Integral(of[y], S)
        BY <1>1
    <3>2. /\ SumFunctionOnSet(of[y], s \cup {x}) = of[y][x] + SumFunctionOnSet(of[y], s)
          /\ SumFunctionOnSet(of[y], s) \in Int
        BY <3>1, SumAdds
    <3> QED BY <1>0, <3>2
  <2>3. Integral(part(s), T) /\ Integral(a[x], T)
      BY <1>1, <2>2 DEF Integral
  <2>4. SumFunctionOnSet(part(s \cup {x}), T)
            = SumFunctionOnSet(a[x], T) + SumFunctionOnSet(part(s), T)
    <3> DEFINE whole == part(s \cup {x})
               rest == part(s)
               new == a[x]
    <3>1. Integral(new, T) /\ Integral(rest, T) /\ \A y \in T : whole[y] = new[y] + rest[y]
      <4> HIDE DEF part
      <4> QED BY <2>2, <2>3
    <3> HIDE DEF whole, rest, new
    <3>2. SumFunctionOnSet(whole, T) = SumFunctionOnSet(new, T) + SumFunctionOnSet(rest, T)
        BY <3>1, SumPlus
    <3> QED BY <3>2 DEF whole, rest, new
  <2> HIDE DEF part
  <2> QED BY <1>0, <1>3, <2>1, <2>4
<1>4. S \in G
  <2> HIDE DEF G
  <2> QED BY <1>2, <1>3, SetInduction
<1>5. Integral(part(S), T) /\ \A y \in T : part(S)[y] = column[y]
    BY <1>0, <1>1, SumType DEF Integral
<1>6. SumFunctionOnSet(part(S), T) = SumFunctionOnSet(column, T)
  <2> HIDE DEF part
  <2> QED BY <1>5, SumAlike
<1> HIDE DEF part
<1> QED BY <1>4, <1>6

\* Terms that are renamed one to one.
LEMMA SumRenamed ==
    ASSUME NEW S, IsFiniteSet(S), NEW T, NEW p \in [S -> T],
           \A x, y \in S : p[x] = p[y] => x = y, \A t \in T : \E x \in S : p[x] = t,
           NEW f, NEW g, IsFiniteSet(T), Integral(f, T), \A x \in S : g[x] = f[p[x]]
    PROVE  SumFunctionOnSet(g, S) = SumFunctionOnSet(f, T)
<1> DEFINE image(s) == {p[x] : x \in s}
           G == {s \in SUBSET S : SumFunctionOnSet(g, s) = SumFunctionOnSet(f, image(s))}
<1>1. Integral(g, S)
    BY DEF Integral
<1>2. {} \in G
  <2>1. image({}) = {}
      OBVIOUS
  <2> QED BY <2>1, SumOfNone
<1>3. ASSUME NEW s \in SUBSET S, NEW x \in S \ s, s \in G PROVE s \cup {x} \in G
  <2>1. /\ image(s) \in SUBSET T /\ p[x] \in T \ image(s)
        /\ image(s \cup {x}) = image(s) \cup {p[x]}
      OBVIOUS
  <2>2. SumFunctionOnSet(f, image(s \cup {x})) = f[p[x]] + SumFunctionOnSet(f, image(s))
    <3> HIDE DEF image
    <3>1. SumFunctionOnSet(f, image(s) \cup {p[x]}) = f[p[x]] + SumFunctionOnSet(f, image(s))
        BY <2>1, SumAdds
    <3> QED BY <2>1, <3>1
  <2>3. SumFunctionOnSet(g, s \cup {x}) = g[x] + SumFunctionOnSet(g, s)
      BY <1>1, SumAdds
  <2> HIDE DEF image
  <2> QED BY <1>3, <2>2, <2>3
<1>4. S \in G
  <2> HIDE DEF G
  <2> QED BY <1>2, <1>3, SetInduction
<1>5. image(S) = T
    OBVIOUS
<1> HIDE DEF image
<1> QED BY <1>4, <1>5

\* One for each element of T counts them.
LEMMA SumCounts ==
    ASSUME NEW S, IsFiniteSet(S), NEW T \in SUBSET S, NEW f,
           \A x \in S : f[x] = IF x \in T THEN 1 ELSE 0
    PROVE  SumFunctionOnSet(f, S) = Cardinality(T)
<1> DEFINE G == {s \in SUBSET S : SumFunctionOnSet(f, s) = Cardinality(s \cap T)}
<1>1. Integral(f, S)
    BY DEF Integral
<1>2. {} \in G
    BY SumOfNone, FS_EmptySet
<1>3. ASSUME NEW s \in SUBSET S, NEW x \in S \ s, s \in G PROVE s \cup {x} \in G
  <2>1. SumFunctionOnSet(f, s \cup {x}) = f[x] + SumFunctionOnSet(f, s)
      BY <1>1, SumAdds
  <2>2. IsFiniteSet(s \cap T) /\ Cardinality(s \cap T) \in Nat
      BY FS_Subset, FS_CardinalityType
  <2>3. CASE x \in T
    <3>1. (s \cup {x}) \cap T = (s \cap T) \cup {x} /\ x \notin s \cap T
        BY <2>3
    <3>2. Cardinality((s \cap T) \cup {x}) = Cardinality(s \cap T) + 1
        BY <2>2, <3>1, FS_AddElement
    <3> QED BY <1>3, <2>1, <2>2, <2>3, <3>1, <3>2
  <2>4. CASE x \notin T
    <3>1. (s \cup {x}) \cap T = s \cap T
        BY <2>4
    <3> QED BY <1>3, <2>1, <2>2, <2>4, <3>1
  <2> QED BY <2>3, <2>4
<1> HIDE DEF G
<1>4. S \in G
    BY <1>2, <1>3, SetInduction
<1>5. S \cap T = T
    OBVIOUS
<1> QED BY <1>4, <1>5 DEF G

-----------------------------------------------------------------------------
(* Products *)

ProductOnSet(f, s) == FoldFunctionOnSet(LAMBDA a, b : a * b, 1, f, s)

Natural(f, S) == \A x \in S : f[x] \in Nat
Multiplying(f, S) == [x \in S |-> [v \in Nat |-> f[x] * v]]

\* The engine's product is such a fold.
LEMMA ProductIsFold ==
    ASSUME NEW f, NEW S, Natural(f, S), NEW s \in SUBSET S, IsFiniteSet(s)
    PROVE  ProductOnSet(f, s) = Fold(Multiplying(f, S), 1, s)
<1> DEFINE Products(g) ==
              g = [r \in SUBSET s |->
                      IF r = {} THEN 1 ELSE LET x == CHOOSE x \in r : TRUE IN f[x] * g[r \ {x}]]
           step == Multiplying(f, S)
<1>1. ASSUME NEW g, Products(g)
      PROVE  Folded(step, 1, s, g)
  <2> DEFINE G == {r \in SUBSET s : g[r] \in Nat}
  <2>1. ASSUME NEW r \in SUBSET s, \A q \in SUBSET r : q # r => q \in G
        PROVE  r \in G
    <3>1. CASE r = {}
        BY <1>1, <3>1
    <3>2. ASSUME NEW x \in r, x = CHOOSE y \in r : TRUE
          PROVE  g[r] \in Nat
      <4>1. g[r] = f[x] * g[r \ {x}]
          BY <1>1, <3>2
      <4>2. f[x] \in Nat /\ g[r \ {x}] \in Nat
          BY <2>1 DEF Natural
      <4> QED BY <4>1, <4>2
    <3> QED BY <3>1, <3>2
  <2>2. \A r \in SUBSET s : r \in G
    <3> HIDE DEF G
    <3> QED BY <2>1, StrongInduction
  <2>3. ASSUME NEW r \in SUBSET s, NEW x \in r
        PROVE  f[x] * g[r \ {x}] = step[x][g[r \ {x}]]
      BY <2>2 DEF Multiplying
  <2>4. ASSUME NEW r \in SUBSET s
        PROVE  g[r] = IF r = {} THEN 1
                      ELSE LET x == CHOOSE x \in r : TRUE IN step[x][g[r \ {x}]]
    <3>1. CASE r = {}
        BY <1>1, <3>1
    <3>2. ASSUME NEW x \in r, x = CHOOSE y \in r : TRUE
          PROVE  g[r] = step[x][g[r \ {x}]]
        BY <1>1, <2>3, <3>2
    <3> HIDE DEF step
    <3> QED BY <3>1, <3>2
  <2>5. g = [r \in SUBSET s |-> g[r]]
      BY <1>1
  <2> HIDE DEF step
  <2> QED BY <2>4, <2>5 DEF Folded
<1>2. ASSUME NEW g, Folded(step, 1, s, g)
      PROVE  Products(g)
  <2> DEFINE G == {r \in SUBSET s : g[r] \in Nat}
  <2>1. ASSUME NEW r \in SUBSET s, \A q \in SUBSET r : q # r => q \in G
        PROVE  r \in G
    <3>1. CASE r = {}
        BY <1>2, <3>1 DEF Folded
    <3>2. ASSUME NEW x \in r, x = CHOOSE y \in r : TRUE
          PROVE  g[r] \in Nat
      <4>1. g[r] = step[x][g[r \ {x}]]
        <5> HIDE DEF step
        <5> QED BY <1>2, <3>2 DEF Folded
      <4>2. f[x] \in Nat /\ g[r \ {x}] \in Nat
          BY <2>1 DEF Natural
      <4> QED BY <4>1, <4>2 DEF Multiplying
    <3> QED BY <3>1, <3>2
  <2>2. \A r \in SUBSET s : r \in G
    <3> HIDE DEF G
    <3> QED BY <2>1, StrongInduction
  <2>3. ASSUME NEW r \in SUBSET s, NEW x \in r
        PROVE  f[x] * g[r \ {x}] = step[x][g[r \ {x}]]
      BY <2>2 DEF Multiplying
  <2>4. ASSUME NEW r \in SUBSET s
        PROVE  g[r] = IF r = {} THEN 1
                      ELSE LET x == CHOOSE x \in r : TRUE IN f[x] * g[r \ {x}]
    <3>1. CASE r = {}
        BY <1>2, <3>1 DEF Folded
    <3>2. ASSUME NEW x \in r, x = CHOOSE y \in r : TRUE
          PROVE  g[r] = f[x] * g[r \ {x}]
      <4>1. g[r] = step[x][g[r \ {x}]]
        <5> HIDE DEF step
        <5> QED BY <1>2, <3>2 DEF Folded
      <4> QED BY <2>3, <4>1
    <3> QED BY <3>1, <3>2
  <2>5. g = [r \in SUBSET s |-> g[r]]
      BY <1>2 DEF Folded
  <2> QED BY <2>4, <2>5
<1>3. \A g : Products(g) <=> Folded(step, 1, s, g)
    BY <1>1, <1>2
<1>4. ProductOnSet(f, s) = (CHOOSE g : Products(g))[s]
    BY DEF ProductOnSet, FoldFunctionOnSet, MapThenFoldSet
<1> QED BY <1>3, <1>4 DEF Fold

\* A product does not depend on the order in which it is made.
LEMMA ProductTaken ==
    ASSUME NEW f, NEW S, IsFiniteSet(S), Natural(f, S), NEW s \in SUBSET S
    PROVE  /\ ProductOnSet(f, s) \in Nat
           /\ s = {} => ProductOnSet(f, s) = 1
           /\ \A x \in s : ProductOnSet(f, s) = f[x] * ProductOnSet(f, s \ {x})
<1> DEFINE step == Multiplying(f, S)
<1>1. Commuting(step, S, Nat)
  <2>1. ASSUME NEW x \in S, NEW v \in Nat PROVE step[x][v] = f[x] * v /\ f[x] * v \in Nat
      BY DEF Multiplying, Natural
  <2>2. ASSUME NEW x \in S, NEW y \in S, NEW v \in Nat
        PROVE  step[x][step[y][v]] = step[y][step[x][v]]
    <3>1. /\ step[x][step[y][v]] = f[x] * (f[y] * v)
          /\ step[y][step[x][v]] = f[y] * (f[x] * v)
        BY <2>1
    <3>2. f[x] \in Nat /\ f[y] \in Nat
        BY DEF Natural
    <3>3. f[x] * (f[y] * v) = f[y] * (f[x] * v)
        BY <3>2
    <3> QED BY <3>1, <3>3
  <2> HIDE DEF step
  <2> QED BY <2>1, <2>2 DEF Commuting
<1>2. \A r \in SUBSET S : IsFiniteSet(r) /\ ProductOnSet(f, r) = Fold(step, 1, r)
    BY ProductIsFold, FS_Subset
<1>3. /\ Fold(step, 1, s) \in Nat
      /\ \A x \in s : Fold(step, 1, s) = step[x][Fold(step, 1, s \ {x})]
      /\ \A x \in s : Fold(step, 1, s \ {x}) \in Nat
  <2> HIDE DEF step
  <2>1. \A r \in SUBSET S :
            /\ Fold(step, 1, r) \in Nat
            /\ \A x \in r : Fold(step, 1, r) = step[x][Fold(step, 1, r \ {x})]
    <3> DEFINE V == Nat
    <3>1. 1 \in V /\ Commuting(step, S, V)
        BY <1>1
    <3>2. \A r \in SUBSET S :
              /\ Fold(step, 1, r) \in V
              /\ \A x \in r : Fold(step, 1, r) = step[x][Fold(step, 1, r \ {x})]
      <4> HIDE DEF V
      <4> QED BY <3>1, FoldTaken
    <3> QED BY <3>2
  <2>2. \A x \in s : s \ {x} \in SUBSET S
      OBVIOUS
  <2> QED BY <2>1, <2>2
<1>4. ASSUME NEW x \in s PROVE Fold(step, 1, s) = f[x] * Fold(step, 1, s \ {x})
    BY <1>3 DEF Multiplying, Natural
<1>5. s = {} => Fold(step, 1, s) = 1
  <2> HIDE DEF step
  <2>1. IsFiniteSet(s)
      BY FS_Subset
  <2> QED BY <2>1, FoldChosen
<1> HIDE DEF step
<1>6. ASSUME NEW x \in s PROVE ProductOnSet(f, s) = f[x] * ProductOnSet(f, s \ {x})
  <2>1. s \ {x} \in SUBSET S
      OBVIOUS
  <2> QED BY <1>2, <1>4, <2>1
<1> QED BY <1>2, <1>3, <1>5, <1>6

\* Equal factors have equal products.
LEMMA ProductAlike ==
    ASSUME NEW S, IsFiniteSet(S), NEW f, NEW g, Natural(f, S), \A x \in S : f[x] = g[x]
    PROVE  ProductOnSet(f, S) = ProductOnSet(g, S)
<1> DEFINE G == {s \in SUBSET S : ProductOnSet(f, s) = ProductOnSet(g, s)}
<1>1. Natural(g, S)
    BY DEF Natural
<1>2. {} \in G
    BY <1>1, ProductTaken
<1>3. ASSUME NEW s \in SUBSET S, NEW x \in S \ s, s \in G PROVE s \cup {x} \in G
  <2>1. (s \cup {x}) \ {x} = s /\ s \cup {x} \in SUBSET S /\ x \in s \cup {x}
      OBVIOUS
  <2>2. /\ ProductOnSet(f, s \cup {x}) = f[x] * ProductOnSet(f, s)
        /\ ProductOnSet(g, s \cup {x}) = g[x] * ProductOnSet(g, s)
      BY <1>1, <2>1, ProductTaken
  <2> QED BY <1>3, <2>2
<1> HIDE DEF G
<1>4. S \in G
    BY <1>2, <1>3, SetInduction
<1> QED BY <1>4 DEF G

-----------------------------------------------------------------------------
(* Ranks *)

\* R orders S: any two elements one way, none before itself.
Orders(R, S) ==
    /\ \A x \in S : <<x, x>> \notin R
    /\ \A x, y \in S : x = y \/ <<x, y>> \in R \/ <<y, x>> \in R
    /\ \A x, y, z \in S : <<x, y>> \in R /\ <<y, z>> \in R => <<x, z>> \in R

Earlier(R, S, x) == {y \in S : <<y, x>> \in R}

\* As many elements come before t others as there are places before t.
LEMMA RanksAreAllDifferent ==
    ASSUME NEW S, IsFiniteSet(S), NEW R, Orders(R, S), NEW rank,
           \A x \in S : rank[x] = Cardinality(Earlier(R, S, x)),
           NEW t \in 0 .. Cardinality(S)
    PROVE  Cardinality({x \in S : rank[x] < t}) = t
<1> DEFINE n == Cardinality(S)
           place == [x \in S |-> rank[x]]
           T == {x \in S : rank[x] < t}
<1>1. n \in Nat
    BY FS_CardinalityType
<1>2. ASSUME NEW x \in S PROVE rank[x] \in 0 .. n - 1
  <2>1. Earlier(R, S, x) \in SUBSET (S \ {x})
      BY DEF Earlier, Orders
  <2>2. IsFiniteSet(S \ {x}) /\ Cardinality(S \ {x}) = n - 1
      BY FS_RemoveElement
  <2>3. /\ IsFiniteSet(Earlier(R, S, x))
        /\ Cardinality(Earlier(R, S, x)) <= Cardinality(S \ {x})
      BY <2>1, <2>2, FS_Subset
  <2>4. Cardinality(Earlier(R, S, x)) \in Nat
      BY <2>3, FS_CardinalityType
  <2> QED BY <1>1, <2>2, <2>3, <2>4
<1>3. ASSUME NEW x \in S, NEW y \in S, <<x, y>> \in R PROVE rank[x] # rank[y]
  <2>1. /\ Earlier(R, S, x) \in SUBSET Earlier(R, S, y)
        /\ x \in Earlier(R, S, y) /\ x \notin Earlier(R, S, x)
      BY <1>3 DEF Earlier, Orders
  <2>2. IsFiniteSet(Earlier(R, S, y))
      BY FS_Subset DEF Earlier
  <2> QED BY <2>1, <2>2, FS_Subset
<1>4. place \in Injection(S, 0 .. n - 1)
  <2>1. \A x, y \in S : rank[x] = rank[y] => x = y
      BY <1>3 DEF Orders
  <2> QED BY <1>2, <2>1 DEF Injection, IsInjective
<1>5. IsFiniteSet(0 .. n - 1) /\ Cardinality(0 .. n - 1) = n
  <2> HIDE DEF n
  <2>1. 0 \in Int /\ n - 1 \in Int /\ (n - 1) - 0 + 1 = n
      BY <1>1
  <2>2. IsFiniteSet(0 .. n - 1)
        /\ Cardinality(0 .. n - 1) = IF 0 > n - 1 THEN 0 ELSE (n - 1) - 0 + 1
      BY <2>1, FS_Interval
  <2> QED BY <1>1, <2>1, <2>2
<1>6. place \in Surjection(S, 0 .. n - 1)
  <2> HIDE DEF place
  <2> QED BY <1>4, <1>5, FS_Injection
<1>7. [x \in T |-> rank[x]] \in Bijection(T, 0 .. t - 1)
  <2>1. [x \in T |-> rank[x]] \in [T -> 0 .. t - 1]
      BY <1>1, <1>2
  <2>2. \A x, y \in T : rank[x] = rank[y] => x = y
      BY <1>4 DEF Injection, IsInjective
  <2>3. ASSUME NEW k \in 0 .. t - 1 PROVE \E x \in T : rank[x] = k
    <3>1. k \in 0 .. n - 1
        BY <1>1
    <3>2. PICK x \in S : place[x] = k
        BY <1>6, <3>1 DEF Surjection
    <3>3. k < t
        OBVIOUS
    <3> QED BY <3>2, <3>3
  <2> QED BY <2>1, <2>2, <2>3 DEF Bijection, Injection, Surjection, IsInjective
<1>8. IsFiniteSet(T)
    BY FS_Subset
<1>9. Cardinality(0 .. t - 1) = Cardinality(T)
    BY <1>7, <1>8, FS_Bijection DEF ExistsBijection
<1>10. Cardinality(0 .. t - 1) = t
    BY <1>1, FS_Interval
<1> QED BY <1>9, <1>10

-----------------------------------------------------------------------------
(* Division *)

\* The quotient and the remainder of a division.
LEMMA Division ==
    ASSUME NEW a \in Nat, NEW b \in Nat \ {0}
    PROVE  a \div b \in Nat /\ a % b \in 0 .. b - 1 /\ a = b * (a \div b) + (a % b)
OBVIOUS

\* Only they make up the dividend.
LEMMA DivisionIs ==
    ASSUME NEW b \in Nat \ {0}, NEW q \in Nat, NEW r \in 0 .. b - 1
    PROVE  (b * q + r) \div b = q /\ (b * q + r) % b = r
OBVIOUS

\* A product of natural numbers is one.
LEMMA ProductNatural == ASSUME NEW a \in Nat, NEW b \in Nat PROVE a * b \in Nat
OBVIOUS

\* A natural factor keeps the order.
LEMMA ProductMonotone ==
    ASSUME NEW a \in Int, NEW b \in Int, NEW c \in Nat, a <= b
    PROVE  a * c <= b * c /\ c * a <= c * b
OBVIOUS

\* A positive factor keeps and reflects the order.
LEMMA ProductStrict ==
    ASSUME NEW a \in Int, NEW b \in Int, NEW c \in Nat \ {0}
    PROVE  /\ a < b <=> a * c < b * c
           /\ a <= b <=> a * c <= b * c
           /\ a * c = b * c <=> a = b
OBVIOUS

-----------------------------------------------------------------------------
(* The distribution of whole units by largest remainders *)

\* Shares q rounded down, with remainders r, and e of what is left to those that rank first.
SharedOut(S, w, full, units, q, r, R, rank, residue, e) ==
    /\ IsFiniteSet(S) /\ Natural(w, S)
    /\ full \in Nat \ {0} /\ full = SumFunctionOnSet(w, S) /\ units \in Nat
    /\ \A x \in S : q[x] = (units * w[x]) \div full
    /\ \A x \in S : r[x] = (units * w[x]) % full
    /\ Orders(R, S) /\ \A x, y \in S : r[x] > r[y] => <<x, y>> \in R
    /\ \A x \in S : rank[x] = Cardinality(Earlier(R, S, x))
    /\ residue = units - SumFunctionOnSet(q, S)
    /\ \A x \in S : e[x] = IF rank[x] < residue THEN 1 ELSE 0

\* What is left over of the units is shared out one by one, and only to who has a remainder.
LEMMA LargestRemainders ==
    ASSUME NEW S, NEW w, NEW full, NEW units, NEW q, NEW r, NEW R, NEW rank, NEW residue, NEW e,
           SharedOut(S, w, full, units, q, r, R, rank, residue, e)
    PROVE  /\ SumFunctionOnSet(q, S) \in Nat
           /\ SumFunctionOnSet(q, S) + SumFunctionOnSet(e, S) = units
           /\ \A x \in S : /\ q[x] \in Nat /\ r[x] \in 0 .. full - 1
                           /\ units * w[x] = full * q[x] + r[x]
                           /\ e[x] = 1 => r[x] > 0
<1>0. /\ IsFiniteSet(S) /\ Natural(w, S)
      /\ full \in Nat \ {0} /\ full = SumFunctionOnSet(w, S) /\ units \in Nat
      /\ \A x \in S : q[x] = (units * w[x]) \div full
      /\ \A x \in S : r[x] = (units * w[x]) % full
      /\ Orders(R, S) /\ \A x, y \in S : r[x] > r[y] => <<x, y>> \in R
      /\ \A x \in S : rank[x] = Cardinality(Earlier(R, S, x))
      /\ residue = units - SumFunctionOnSet(q, S)
      /\ \A x \in S : e[x] = IF rank[x] < residue THEN 1 ELSE 0
    BY DEF SharedOut
<1> USE <1>0
<1> DEFINE some == {x \in S : r[x] > 0}
           k == Cardinality(some)
           has == [x \in S |-> IF x \in some THEN 1 ELSE 0]
           most == [x \in S |-> (full - 1) * has[x]]
           exact == [x \in S |-> units * w[x]]
           whole == [x \in S |-> full * q[x]]
<1>1. ASSUME NEW x \in S
      PROVE  /\ w[x] \in Nat
             /\ q[x] \in Nat /\ r[x] \in 0 .. full - 1
             /\ units * w[x] = full * q[x] + r[x]
             /\ units * w[x] \in Nat /\ full * q[x] \in Nat
  <2>1. w[x] \in Nat /\ units * w[x] \in Nat
      BY ProductNatural DEF Natural
  <2>2. q[x] \in Nat /\ r[x] \in 0 .. full - 1 /\ units * w[x] = full * q[x] + r[x]
    <3> DEFINE p == units * w[x]
    <3>1. p \in Nat /\ q[x] = p \div full /\ r[x] = p % full
        BY <2>1
    <3> HIDE DEF p
    <3>2. /\ p \div full \in Nat /\ p % full \in 0 .. full - 1
          /\ p = full * (p \div full) + (p % full)
        BY <3>1, Division
    <3>3. q[x] \in Nat /\ r[x] \in 0 .. full - 1 /\ p = full * q[x] + r[x]
        BY <3>1, <3>2, Zenon
    <3> QED BY <3>3 DEF p
  <2> QED BY <2>1, <2>2, ProductNatural
<1>2. /\ Integral(w, S) /\ Integral(q, S) /\ Integral(r, S)
      /\ Integral(exact, S) /\ Integral(whole, S) /\ Integral(has, S)
      /\ \A x \in S : q[x] \in Nat
    BY <1>1 DEF Integral
<1>3. SumFunctionOnSet(q, S) \in Nat /\ SumFunctionOnSet(r, S) \in Int
    BY <1>2, SumNonnegative, SumType
<1>4. SumFunctionOnSet(exact, S) = units * full
  <2>1. \A x \in S : exact[x] = units * w[x]
      OBVIOUS
  <2> HIDE DEF exact
  <2> QED BY <1>2, <2>1, SumTimes
<1>5. SumFunctionOnSet(whole, S) = full * SumFunctionOnSet(q, S)
  <2>1. \A x \in S : whole[x] = full * q[x]
      OBVIOUS
  <2> HIDE DEF whole
  <2> QED BY <1>2, <2>1, SumTimes
<1>6. SumFunctionOnSet(exact, S) = SumFunctionOnSet(whole, S) + SumFunctionOnSet(r, S)
  <2>1. \A x \in S : exact[x] = whole[x] + r[x]
      BY <1>1
  <2> HIDE DEF exact, whole
  <2> QED BY <1>2, <2>1, SumPlus
<1>7. SumFunctionOnSet(r, S) = full * residue /\ residue \in Int
  <2>1. full * (units - SumFunctionOnSet(q, S)) = units * full - full * SumFunctionOnSet(q, S)
      BY <1>3
  <2> QED BY <1>3, <1>4, <1>5, <1>6, <2>1
<1>8. SumFunctionOnSet(r, S) >= 0
    BY <1>1, SumNonnegative
<1>9. IsFiniteSet(some) /\ k \in Nat /\ k <= Cardinality(S)
    BY FS_Subset, FS_CardinalityType
<1>10. SumFunctionOnSet(has, S) = k
  <2>1. \A x \in S : has[x] = IF x \in some THEN 1 ELSE 0
      OBVIOUS
  <2>2. some \in SUBSET S
      OBVIOUS
  <2> HIDE DEF has, some
  <2> QED BY <2>1, <2>2, SumCounts
<1>11. Integral(most, S) /\ \A x \in S : r[x] <= most[x]
    BY <1>1 DEF Integral
<1>12. SumFunctionOnSet(most, S) = (full - 1) * k
  <2>1. \A x \in S : most[x] = (full - 1) * has[x]
      OBVIOUS
  <2> HIDE DEF most, has
  <2> QED BY <1>2, <1>10, <2>1, SumTimes
<1>13. SumFunctionOnSet(r, S) <= (full - 1) * k
  <2> HIDE DEF most
  <2> QED BY <1>2, <1>11, <1>12, SumAtMost
<1> HIDE DEF some, has, most, exact, whole, k
<1>14. 0 <= residue /\ residue <= k
  <2>1. full * residue <= full * k
    <3>1. (full - 1) * k <= full * k
        BY <1>9
    <3>2. (full - 1) * k \in Int /\ full * k \in Int
        BY <1>9
    <3> QED BY <1>3, <1>7, <1>13, <3>1, <3>2
  <2>2. residue * full <= k * full /\ 0 * full <= residue * full
      BY <1>7, <1>8, <1>9, <2>1
  <2> QED BY <1>7, <1>9, <2>2, ProductStrict
<1>15. ASSUME NEW x \in S, e[x] = 1 PROVE r[x] > 0
  <2>1. SUFFICES ASSUME r[x] = 0 PROVE FALSE
      BY <1>1
  <2>2. some \in SUBSET Earlier(R, S, x)
      BY <2>1 DEF some, Earlier
  <2>3. IsFiniteSet(Earlier(R, S, x))
      BY FS_Subset DEF Earlier
  <2>4. k <= rank[x] /\ rank[x] \in Nat
      BY <2>2, <2>3, FS_Subset, FS_CardinalityType DEF k
  <2>5. rank[x] < residue
      BY <1>15
  <2> QED BY <1>7, <1>9, <1>14, <2>4, <2>5
<1>16. SumFunctionOnSet(e, S) = residue
  <2> DEFINE early == {x \in S : rank[x] < residue}
  <2>1. residue \in 0 .. Cardinality(S)
      BY <1>7, <1>9, <1>14, FS_CardinalityType
  <2>2. Cardinality(early) = residue
      BY <2>1, RanksAreAllDifferent
  <2>3. early \in SUBSET S /\ \A x \in S : e[x] = IF x \in early THEN 1 ELSE 0
      OBVIOUS
  <2> HIDE DEF early
  <2> QED BY <2>2, <2>3, SumCounts
<1> QED BY <1>1, <1>3, <1>15, <1>16

-----------------------------------------------------------------------------
(* Rounding to the peso *)

Pesos(x) == \E k \in Nat : x = k * PESO

\* A rounded quotient is of whole pesos, and half a peso or less from the exact one.
LEMMA RoundedPeso ==
    ASSUME NEW n \in Nat, NEW d \in Nat \ {0}
    PROVE  /\ RoundPeso(n, d) \in Nat /\ Pesos(RoundPeso(n, d))
           /\ 2 * (d * RoundPeso(n, d)) <= 2 * n + d * PESO
           /\ 2 * n <= 2 * (d * RoundPeso(n, d)) + d * PESO
<1> DEFINE half == PESO \div 2
           x == n + half * d
           y == PESO * d
           k == x \div y
<1>1. PESO \in Nat \ {0} /\ half \in Nat /\ PESO = 2 * half
    BY QuoteAssumption
<1>2. x \in Nat /\ y \in Nat \ {0}
  <2>1. half * d \in Nat /\ PESO * d \in Nat
      BY <1>1, ProductNatural
  <2>2. PESO * d # 0
      BY <1>1
  <2> QED BY <2>1, <2>2
<1>3. k \in Nat /\ x % y \in 0 .. y - 1 /\ x = y * k + (x % y)
  <2> HIDE DEF x, y
  <2> QED BY <1>2, Division
<1>4. RoundPeso(n, d) = k * PESO
    BY DEF RoundPeso
<1>5. d * (k * PESO) = y * k /\ 2 * (half * d) = d * PESO
  <2> HIDE DEF k, half
  <2> QED BY <1>1, <1>3
<1>6. k * PESO \in Nat
  <2> HIDE DEF k
  <2> QED BY <1>1, <1>3, ProductNatural
<1>7. x = n + half * d /\ half * d \in Nat /\ y = d * PESO
    BY <1>1, ProductNatural
<1> HIDE DEF half, x, y, k
<1>8. /\ 2 * (d * (k * PESO)) <= 2 * n + d * PESO
      /\ 2 * n <= 2 * (d * (k * PESO)) + d * PESO
  <2> DEFINE whole == d * (k * PESO)
             rest == x % y
             rounding == half * d
             pesos == d * PESO
  <2>1. /\ whole \in Nat /\ rest \in Nat /\ rounding \in Nat /\ pesos \in Nat
        /\ x = whole + rest /\ x = n + rounding
        /\ 2 * rounding = pesos /\ rest < pesos
      BY <1>1, <1>2, <1>3, <1>5, <1>6, <1>7, ProductNatural
  <2> HIDE DEF whole, rest, rounding, pesos
  <2>2. 2 * whole <= 2 * n + pesos /\ 2 * n <= 2 * whole + pesos
      BY <2>1
  <2> QED BY <2>2 DEF whole, pesos
<1> QED BY <1>3, <1>4, <1>6, <1>8 DEF Pesos

\* Rounding moves nothing across a whole number of pesos.
LEMMA RoundedWithin ==
    ASSUME NEW n \in Nat, NEW d \in Nat \ {0}, NEW c \in Nat
    PROVE  /\ n <= d * (c * PESO) => RoundPeso(n, d) <= c * PESO
           /\ n = d * (c * PESO) => RoundPeso(n, d) = c * PESO
<1> DEFINE half == PESO \div 2
           x == n + half * d
           y == PESO * d
           k == x \div y
<1>1. PESO \in Nat \ {0} /\ half \in Nat /\ PESO = 2 * half
    BY QuoteAssumption
<1>2. x \in Nat /\ y \in Nat \ {0} /\ half * d \in Nat /\ half * d < y
  <2>1. half * d \in Nat /\ PESO * d \in Nat
      BY <1>1, ProductNatural
  <2>2. half * d < PESO * d /\ half < PESO
      BY <1>1, ProductStrict
  <2> QED BY <2>1, <2>2
<1>3. k \in Nat /\ x % y \in 0 .. y - 1 /\ x = y * k + (x % y)
  <2> HIDE DEF x, y
  <2> QED BY <1>2, Division
<1>4. RoundPeso(n, d) = k * PESO
    BY DEF RoundPeso
<1>5. d * (c * PESO) = y * c /\ y * c \in Nat /\ y * k \in Nat /\ c * y = y * c /\ k * y = y * k
  <2>1. y * c \in Nat /\ y * k \in Nat
    <3> HIDE DEF y, k
    <3> QED BY <1>2, <1>3, ProductNatural
  <2> HIDE DEF k
  <2> QED BY <1>1, <1>3, <2>1
<1>6. x = n + half * d
    OBVIOUS
<1> HIDE DEF half, x, y, k
<1>7. ASSUME n <= d * (c * PESO) PROVE k * PESO <= c * PESO
  <2>1. y * k < y * c + y
      BY <1>2, <1>3, <1>5, <1>6, <1>7
  <2>2. (c + 1) * y = y * c + y
      BY <1>2
  <2>3. k * y < (c + 1) * y
      BY <1>5, <2>1, <2>2
  <2>4. k < c + 1
      BY <1>2, <1>3, <2>3, ProductStrict
  <2> QED BY <1>1, <1>3, <2>4, ProductMonotone
<1>8. ASSUME n = d * (c * PESO) PROVE k * PESO = c * PESO
  <2>1. x = y * c + half * d /\ half * d \in 0 .. y - 1
      BY <1>2, <1>5, <1>6, <1>8
  <2>2. k = c
      BY <1>2, <2>1, DivisionIs DEF k
  <2> QED BY <2>2
<1> QED BY <1>4, <1>7, <1>8

-----------------------------------------------------------------------------
(* Full prices *)

\* The lines of a sale are finitely many.
LEMMA LinesAre ==
    ASSUME NEW lines \in LineSets
    PROVE  /\ Len(lines) \in Nat /\ DOMAIN lines = 1 .. Len(lines)
           /\ IsFiniteSet(DOMAIN lines)
           /\ \A i \in DOMAIN lines : lines[i] \in Lines
<1>1. lines \in Seq(Lines)
    BY QuoteAssumption
<1>2. Len(lines) \in Nat /\ DOMAIN lines = 1 .. Len(lines)
      /\ \A i \in DOMAIN lines : lines[i] \in Lines
    BY <1>1
<1> QED BY <1>2, FS_Interval

\* A unit costs whole pesos, and so does what is made of units.
LEMMA PricesAre ==
    ASSUME NEW lines \in LineSets, NEW bps \in Nat
    PROVE  /\ LineFullPrices(lines, bps) \in [DOMAIN lines -> Nat]
           /\ \A i \in DOMAIN lines : Pesos(LineFullPrices(lines, bps)[i])
           /\ SumFunction(LineFullPrices(lines, bps))
                = SumFunctionOnSet(LineFullPrices(lines, bps), DOMAIN lines)
           /\ SumFunction(LineFullPrices(lines, bps)) \in Nat
           /\ Pesos(SumFunction(LineFullPrices(lines, bps)))
<1> DEFINE D == DOMAIN lines
           W == LineFullPrices(lines, bps)
<1>1. ASSUME NEW i \in D
      PROVE  W[i] \in Nat /\ Pesos(W[i])
  <2>1. lines[i].quantity \in Nat /\ lines[i].base \in Nat
      BY LinesAre DEF Lines
  <2>2. lines[i].base * (WHOLE_BPS + bps) \in Nat /\ WHOLE_BPS \in Nat \ {0}
      BY <2>1, ProductNatural, QuoteAssumption
  <2>3. PICK k \in Nat : UnitPrice(lines[i], bps) = k * PESO
      BY <2>2, RoundedPeso DEF UnitPrice, Pesos
  <2>4. W[i] = lines[i].quantity * (k * PESO)
      BY <2>3 DEF LineFullPrices
  <2>5. lines[i].quantity * k \in Nat /\ PESO \in Nat
      BY <2>1, ProductNatural, QuoteAssumption
  <2>6. lines[i].quantity * (k * PESO) = (lines[i].quantity * k) * PESO
      BY <2>1, <2>5
  <2> QED BY <2>4, <2>5, <2>6, ProductNatural DEF Pesos
<1>2. DOMAIN W = D /\ W \in [D -> Nat]
    BY <1>1 DEF LineFullPrices
<1>3. SumFunction(W) = SumFunctionOnSet(W, D)
    BY <1>2 DEF SumFunction
<1>4. SumFunctionOnSet(W, D) \in Nat
    BY <1>1, LinesAre, SumNonnegative
<1>5. Pesos(SumFunctionOnSet(W, D))
  <2> DEFINE v == [i \in D |-> CHOOSE k \in Nat : W[i] = k * PESO]
  <2>1. ASSUME NEW i \in D PROVE v[i] \in Nat /\ W[i] = PESO * v[i]
    <3>1. PICK k \in Nat : W[i] = k * PESO
        BY <1>1 DEF Pesos
    <3>2. v[i] \in Nat /\ W[i] = v[i] * PESO
        BY <3>1
    <3> HIDE DEF v, W
    <3> QED BY <3>2, QuoteAssumption
  <2> HIDE DEF v, W
  <2>2. Integral(v, D) /\ SumFunctionOnSet(v, D) \in Nat
      BY <2>1, LinesAre, SumNonnegative DEF Integral
  <2>3. SumFunctionOnSet(W, D) = PESO * SumFunctionOnSet(v, D)
    <3>1. PESO \in Int /\ IsFiniteSet(D)
        BY LinesAre, QuoteAssumption
    <3> QED BY <2>1, <2>2, <3>1, SumTimes
  <2>4. PESO * SumFunctionOnSet(v, D) = SumFunctionOnSet(v, D) * PESO
      BY <2>2, QuoteAssumption
  <2> QED BY <2>2, <2>3, <2>4 DEF Pesos
<1> QED BY <1>1, <1>2, <1>3, <1>4, <1>5

-----------------------------------------------------------------------------
(* The share of each line *)

\* An amount, and every amount of pesos, is a whole number of the units it is shared out in.
LEMMA UnitIs ==
    ASSUME NEW amount \in Nat
    PROVE  /\ Unit(amount) \in Nat \ {0}
           /\ amount \div Unit(amount) \in Nat
           /\ amount = (amount \div Unit(amount)) * Unit(amount)
           /\ \A x : Pesos(x) => \E v \in Nat : x = v * Unit(amount)
           /\ Unit(amount) <= PESO
<1>1. PESO \in Nat \ {0}
    BY QuoteAssumption
<1>2. CASE amount % PESO = 0
  <2>1. Unit(amount) = PESO
      BY <1>2 DEF Unit
  <2>2. amount \div PESO \in Nat /\ amount = PESO * (amount \div PESO) + (amount % PESO)
      BY <1>1, Division
  <2>3. amount = (amount \div PESO) * PESO
      BY <1>1, <1>2, <2>2
  <2> QED BY <1>1, <2>1, <2>2, <2>3 DEF Pesos
<1>3. CASE amount % PESO # 0
  <2>1. Unit(amount) = 1 /\ amount \div 1 = amount /\ amount = amount * 1
      BY <1>3 DEF Unit
  <2>2. ASSUME NEW x, Pesos(x) PROVE \E v \in Nat : x = v * 1
    <3>1. PICK k \in Nat : x = k * PESO
        BY <2>2 DEF Pesos
    <3>2. x \in Nat /\ x = x * 1
        BY <1>1, <3>1, ProductNatural
    <3> QED BY <3>2
  <2> QED BY <1>1, <2>1, <2>2
<1> QED BY <1>2, <1>3

\* What the rounding of one line does.
Fits(p, u, n, v, a, c) ==
    /\ (a + c) * u \in 0 .. v * u
    /\ ((a + c) * u) * p - (n * u) * (v * u) < u * p
    /\ (n * u) * (v * u) - ((a + c) * u) * p < u * p
    /\ n * u = p => (a + c) * u = v * u

Rounded(p, u, n, v, a, b, c) ==
    /\ p \in Nat \ {0} /\ u \in Nat \ {0} /\ n \in Nat /\ v \in Nat
    /\ a \in Nat /\ b \in 0 .. p - 1 /\ c \in {0, 1}
    /\ c = 1 => b > 0
    /\ n * (v * u) = p * a + b
    /\ n * u <= p

\* A share is within a unit of the exact one and never above the weight of its line.
LEMMA OneShare ==
    ASSUME NEW p, NEW u, NEW n, NEW v, NEW a, NEW b, NEW c, Rounded(p, u, n, v, a, b, c)
    PROVE  Fits(p, u, n, v, a, c)
<1>0. /\ p \in Nat \ {0} /\ u \in Nat \ {0} /\ n \in Nat /\ v \in Nat
      /\ a \in Nat /\ b \in 0 .. p - 1 /\ c \in {0, 1}
      /\ c = 1 => b > 0
      /\ n * (v * u) = p * a + b
      /\ n * u <= p
    BY DEF Rounded
<1>1. (n * u) * v <= p * v
    BY <1>0, ProductNatural, ProductMonotone
<1>2. n * (v * u) = (n * u) * v
    BY <1>0
<1>3. p * a + b <= p * v /\ a * p = p * a /\ v * p = p * v
    BY <1>0, <1>1, <1>2
<1>4. /\ p * a \in Nat /\ p * v \in Nat /\ a + c \in Nat
      /\ (a + c) * p = p * a + c * p
    BY <1>0, ProductNatural
<1>5. a + c <= v
  <2>1. CASE c = 0
    <3>1. a * p <= v * p
        BY <1>0, <1>3, <1>4
    <3> QED BY <1>0, <2>1, <3>1, ProductStrict
  <2>2. CASE c = 1
    <3>1. a * p < v * p
        BY <1>0, <1>3, <1>4, <2>2
    <3>2. a < v
        BY <1>0, <3>1, ProductStrict
    <3> QED BY <1>0, <2>2, <3>2
  <2> QED BY <1>0, <2>1, <2>2
<1>6. (a + c) * u <= v * u /\ (a + c) * u \in Nat /\ v * u \in Nat
    BY <1>0, <1>4, <1>5, ProductMonotone, ProductNatural
<1>7. c * p - b < p /\ b - c * p < p /\ c * p \in Nat
  <2>1. CASE c = 0
      BY <1>0, <2>1
  <2>2. CASE c = 1
      BY <1>0, <2>2
  <2> QED BY <1>0, <2>1, <2>2
<1>8. /\ ((a + c) * u) * p - (n * u) * (v * u) = (c * p - b) * u
      /\ (n * u) * (v * u) - ((a + c) * u) * p = (b - c * p) * u
  <2>1. ((a + c) * u) * p = (p * a + c * p) * u
      BY <1>0, <1>4
  <2>2. (n * u) * (v * u) = (p * a + b) * u
    <3>1. (n * u) * (v * u) = (n * (v * u)) * u
        BY <1>0
    <3> QED BY <1>0, <3>1
  <2> DEFINE whole == p * a
             extra == c * p
  <2>3. whole \in Nat /\ extra \in Nat
      BY <1>0, <1>4, <1>7
  <2> HIDE DEF whole, extra
  <2>4. /\ (whole + extra) * u - (whole + b) * u = (extra - b) * u
        /\ (whole + b) * u - (whole + extra) * u = (b - extra) * u
      BY <1>0, <2>3
  <2> QED BY <1>0, <2>1, <2>2, <2>4 DEF whole, extra
<1>9. (c * p - b) * u < p * u /\ (b - c * p) * u < p * u
    BY <1>0, <1>7, ProductStrict
<1>10. ASSUME n * u = p PROVE a + c = v
  <2>1. p * a + b = p * v + 0
      BY <1>0, <1>2, <1>4, <1>10
  <2>2. b = 0
    <3>1. (p * a + b) % p = b
        BY <1>0, DivisionIs
    <3>2. (p * v + 0) % p = 0
        BY <1>0, DivisionIs
    <3> QED BY <2>1, <3>1, <3>2
  <2>3. c = 0 /\ a * p = v * p
      BY <1>0, <1>3, <1>4, <2>1, <2>2
  <2>4. a = v
      BY <1>0, <2>3, ProductStrict
  <2> QED BY <1>0, <2>3, <2>4
<1>11. p * u = u * p
    BY <1>0
<1> QED BY <1>0, <1>6, <1>8, <1>9, <1>10, <1>11 DEF Fits

\* The order in which the residue is given out.
Order(lines, weights, units, full) ==
    {p \in (DOMAIN lines) \X (DOMAIN lines) : Before(lines, weights, units, full, p[1], p[2])}

\* Order is Before, as a set of pairs.
LEMMA OrderIs ==
    ASSUME NEW lines, NEW weights, NEW units, NEW full
    PROVE  \A i, j \in DOMAIN lines :
              <<i, j>> \in Order(lines, weights, units, full)
                 <=> Before(lines, weights, units, full, i, j)
<1>1. ASSUME NEW i \in DOMAIN lines, NEW j \in DOMAIN lines
      PROVE  <<i, j>> \in Order(lines, weights, units, full)
                 <=> Before(lines, weights, units, full, i, j)
  <2> DEFINE p == <<i, j>>
  <2>1. p \in (DOMAIN lines) \X (DOMAIN lines) /\ p[1] = i /\ p[2] = j
      OBVIOUS
  <2> HIDE DEF p
  <2>2. p \in Order(lines, weights, units, full) <=> Before(lines, weights, units, full, i, j)
      BY <2>1 DEF Order
  <2> QED BY <2>2 DEF p
<1> QED BY <1>1

\* No two lines tie: their items differ.
LEMMA BeforeOrders ==
    ASSUME NEW lines \in LineSets, NEW weights \in [DOMAIN lines -> Nat],
           NEW units \in Nat, NEW full \in Nat \ {0}
    PROVE  Orders(Order(lines, weights, units, full), DOMAIN lines)
<1> DEFINE D == DOMAIN lines
           r == [i \in D |-> Remainder(units, weights[i], full)]
           s == [i \in D |-> lines[i].sku]
           t == [i \in D |-> lines[i].item]
           w == [i \in D |-> weights[i]]
           R == Order(lines, weights, units, full)
<1>1. ASSUME NEW i \in D
      PROVE  r[i] \in Nat /\ w[i] \in Nat /\ s[i] \in Nat /\ t[i] \in Nat
  <2>1. units * weights[i] \in Nat
      BY ProductNatural
  <2>2. r[i] \in Nat
    <3> DEFINE a == units * weights[i]
    <3>1. a \in Nat /\ r[i] = a % full
        BY <2>1 DEF Remainder
    <3> HIDE DEF a
    <3> QED BY <3>1, Division
  <2>3. lines[i] \in Lines
      BY LinesAre
  <2> QED BY <2>2, <2>3 DEF Lines
<1>2. \A i, j \in D : t[i] = t[j] => i = j
    BY QuoteAssumption
<1>3. \A i, j \in D : <<i, j>> \in R <=>
          \/ r[i] > r[j]
          \/ r[i] = r[j] /\ w[i] > w[j]
          \/ r[i] = r[j] /\ w[i] = w[j] /\ s[i] < s[j]
          \/ r[i] = r[j] /\ w[i] = w[j] /\ s[i] = s[j] /\ t[i] < t[j]
  <2>1. \A i, j \in D : <<i, j>> \in R <=> Before(lines, weights, units, full, i, j)
      BY OrderIs
  <2>2. ASSUME NEW i \in D, NEW j \in D
        PROVE  Before(lines, weights, units, full, i, j) <=>
                  \/ r[i] > r[j]
                  \/ r[i] = r[j] /\ w[i] > w[j]
                  \/ r[i] = r[j] /\ w[i] = w[j] /\ s[i] < s[j]
                  \/ r[i] = r[j] /\ w[i] = w[j] /\ s[i] = s[j] /\ t[i] < t[j]
      BY DEF Before
  <2> HIDE DEF r, s, t, w, R
  <2> QED BY <2>1, <2>2
<1>4. Orders(R, D)
  <2> HIDE DEF D, r, s, t, w, R
  <2>1. \A i \in D : <<i, i>> \notin R
      BY <1>1, <1>3
  <2>2. ASSUME NEW i \in D, NEW j \in D PROVE i = j \/ <<i, j>> \in R \/ <<j, i>> \in R
      BY <1>1, <1>2, <1>3
  <2>3. ASSUME NEW i \in D, NEW j \in D, NEW k \in D, <<i, j>> \in R, <<j, k>> \in R
        PROVE  <<i, k>> \in R
      BY <1>1, <1>3, <2>3
  <2> QED BY <2>1, <2>2, <2>3 DEF Orders
<1> QED BY <1>4

\* The shares of what a method pays add up to it, and each is its line's part of it.
LEMMA SharesAreRight ==
    ASSUME NEW lines \in LineSets, NEW weights \in [DOMAIN lines -> Nat],
           \A i \in DOMAIN lines : Pesos(weights[i]),
           NEW full \in Nat \ {0}, full = SumFunctionOnSet(weights, DOMAIN lines),
           NEW amount \in Nat, amount <= full,
           NEW a, a = Allocate(lines, weights, amount, full)
    PROVE  /\ DOMAIN a = DOMAIN lines
           /\ SumFunctionOnSet(a, DOMAIN lines) = amount
           /\ \A i \in DOMAIN lines :
                 /\ a[i] \in 0 .. weights[i]
                 /\ a[i] * full - amount * weights[i] < Unit(amount) * full
                 /\ amount * weights[i] - a[i] * full < Unit(amount) * full
                 /\ amount = full => a[i] = weights[i]
<1> DEFINE D == DOMAIN lines
           unit == Unit(amount)
           units == amount \div unit
           q == [i \in D |-> Quotient(units, weights[i], full)]
           r == [i \in D |-> Remainder(units, weights[i], full)]
           residue == units - SumFunctionOnSet(q, D)
           R == Order(lines, weights, units, full)
           rank == [i \in D |->
                       Cardinality({j \in D : Before(lines, weights, units, full, j, i)})]
           e == [i \in D |-> Extra(residue, rank[i])]
           given == [i \in D |-> q[i] + e[i]]
<1>1. /\ unit \in Nat \ {0} /\ units \in Nat /\ amount = units * unit
      /\ \A x : Pesos(x) => \E v \in Nat : x = v * unit
    BY UnitIs
<1>2. a = [i \in D |-> (q[i] + e[i]) * unit]
    BY DEF Allocate, SumFunction
<1>3. \A i \in D : rank[i] = Cardinality(Earlier(R, D, i))
  <2>1. ASSUME NEW i \in D
        PROVE  {j \in D : Before(lines, weights, units, full, j, i)} = Earlier(R, D, i)
      BY OrderIs DEF Earlier
  <2> QED BY <2>1
<1>4. Orders(R, D)
    BY <1>1, BeforeOrders
<1>5. \A i, j \in D : r[i] > r[j] => <<i, j>> \in R
  <2>1. \A i, j \in D : <<i, j>> \in R <=> Before(lines, weights, units, full, i, j)
      BY OrderIs
  <2>2. ASSUME NEW i \in D, NEW j \in D, r[i] > r[j]
        PROVE  Before(lines, weights, units, full, i, j)
      BY <2>2 DEF Before
  <2> HIDE DEF R
  <2> QED BY <2>1, <2>2
<1>6. IsFiniteSet(D) /\ Natural(weights, D)
    BY LinesAre DEF Natural
<1>7. /\ \A i \in D : q[i] = (units * weights[i]) \div full
      /\ \A i \in D : r[i] = (units * weights[i]) % full
      /\ \A i \in D : e[i] = IF rank[i] < residue THEN 1 ELSE 0
      /\ residue = units - SumFunctionOnSet(q, D)
      /\ full = SumFunctionOnSet(weights, D)
    BY DEF Quotient, Remainder, Extra
<1> HIDE DEF D, unit, units, q, r, residue, R, rank, e
<1>8. /\ SumFunctionOnSet(q, D) \in Nat
      /\ SumFunctionOnSet(q, D) + SumFunctionOnSet(e, D) = units
      /\ \A i \in D : /\ q[i] \in Nat /\ r[i] \in 0 .. full - 1
                      /\ units * weights[i] = full * q[i] + r[i]
                      /\ e[i] = 1 => r[i] > 0
  <2>1. full \in Nat \ {0} /\ units \in Nat
      BY <1>1
  <2>2. SharedOut(D, weights, full, units, q, r, R, rank, residue, e)
      BY <1>3, <1>4, <1>5, <1>6, <1>7, <2>1 DEF SharedOut
  <2> QED BY <2>2, LargestRemainders
<1>9. \A i \in D : e[i] \in {0, 1}
    BY <1>7
<1>10. DOMAIN a = D
    BY <1>2
<1>11. SumFunctionOnSet(a, D) = amount
  <2>1. Integral(q, D) /\ Integral(e, D) /\ Integral(given, D)
      BY <1>8, <1>9 DEF Integral
  <2>2. \A i \in D : given[i] = q[i] + e[i]
      OBVIOUS
  <2>3. \A i \in D : a[i] = unit * given[i]
      BY <1>1, <1>2, <1>8, <1>9
  <2> HIDE DEF given
  <2>4. SumFunctionOnSet(given, D) = units
      BY <1>6, <1>8, <2>1, <2>2, SumPlus
  <2>5. SumFunctionOnSet(a, D) = unit * SumFunctionOnSet(given, D)
    <3>1. unit \in Int
        BY <1>1
    <3> QED BY <1>6, <2>1, <2>3, <3>1, SumTimes
  <2> QED BY <1>1, <2>4, <2>5
<1>12. ASSUME NEW i \in D
       PROVE  /\ a[i] \in 0 .. weights[i]
              /\ a[i] * full - amount * weights[i] < unit * full
              /\ amount * weights[i] - a[i] * full < unit * full
              /\ amount = full => a[i] = weights[i]
  <2>1. PICK v \in Nat : weights[i] = v * unit
      BY <1>1 DEF D
  <2>2. /\ q[i] \in Nat /\ r[i] \in 0 .. full - 1 /\ e[i] \in {0, 1} /\ (e[i] = 1 => r[i] > 0)
        /\ units * (v * unit) = full * q[i] + r[i] /\ units * unit <= full
      BY <1>1, <1>8, <1>9, <2>1
  <2>3. a[i] = (q[i] + e[i]) * unit
      BY <1>2
  <2>4. /\ (q[i] + e[i]) * unit \in 0 .. v * unit
        /\ ((q[i] + e[i]) * unit) * full - (units * unit) * (v * unit) < unit * full
        /\ (units * unit) * (v * unit) - ((q[i] + e[i]) * unit) * full < unit * full
        /\ units * unit = full => (q[i] + e[i]) * unit = v * unit
    <3>1. Rounded(full, unit, units, v, q[i], r[i], e[i])
        BY <1>1, <2>1, <2>2 DEF Rounded
    <3>5. Fits(full, unit, units, v, q[i], e[i])
        BY <3>1, OneShare
    <3> QED BY <3>5 DEF Fits
  <2> QED BY <1>1, <2>1, <2>3, <2>4
<1> QED BY <1>10, <1>11, <1>12 DEF D, unit

-----------------------------------------------------------------------------
(* What is left to pay *)

\* What a question holds.
LEMMA InputIs ==
    ASSUME NEW in \in Inputs
    PROVE  /\ in.lines \in LineSets /\ in.balance \in PaymentMethods
           /\ \E n \in Nat : in.tenders \in [1..n -> Tenders]
           /\ \A m \in PaymentMethods : in.bps[m] # None => in.bps[m] \in Nat
<1>1. in.lines \in LineSets /\ in.balance \in PaymentMethods
    BY DEF Inputs
<1>2. PICK n \in 0..MaxTenders : in.tenders \in [1..n -> Tenders]
    BY DEF Inputs
<1>3. n \in Nat
    BY QuoteAssumption
<1>4. PICK b \in [PaymentMethods -> AdjustmentsBps] : in.bps = [b EXCEPT ![Cash] = 0]
    BY DEF Inputs
<1>5. ASSUME NEW m \in PaymentMethods, in.bps[m] # None PROVE in.bps[m] \in Nat
  <2>1. in.bps[m] = IF m = Cash THEN 0 ELSE b[m]
      BY <1>4
  <2>2. b[m] \in Nat \cup {None}
      BY QuoteAssumption
  <2> QED BY <1>5, <2>1, <2>2
<1> QED BY <1>1, <1>2, <1>3, <1>5

\* The methods with a fixed amount are finitely many, and the amounts are positive.
LEMMA FixedAre ==
    ASSUME NEW in \in Inputs
    PROVE  /\ IsFiniteSet(Fixed(in)) /\ Fixed(in) \subseteq PaymentMethods
           /\ \A m \in Fixed(in) : FixedAmount(in, m) \in Nat \ {0}
           /\ IsFiniteSet(Charged(in)) /\ Charged(in) \subseteq PaymentMethods
<1>1. PICK n \in Nat : in.tenders \in [1..n -> Tenders]
    BY InputIs
<1>2. Fixed(in) = {in.tenders[i].method : i \in 1..n}
    BY <1>1 DEF Fixed
<1>3. \A i \in 1..n : /\ in.tenders[i].method \in PaymentMethods
                      /\ in.tenders[i].amount \in Nat \ {0}
    BY <1>1, QuoteAssumption DEF Tenders
<1>4. [i \in 1..n |-> in.tenders[i].method] \in Surjection(1..n, Fixed(in))
    BY <1>2, <1>3 DEF Surjection
<1>5. IsFiniteSet(Fixed(in))
  <2>1. IsFiniteSet(1..n)
      BY FS_Interval
  <2> QED BY <1>4, <2>1, FS_Surjection
<1>6. ASSUME NEW m \in Fixed(in) PROVE FixedAmount(in, m) \in Nat \ {0}
  <2> DEFINE i == CHOOSE i \in DOMAIN in.tenders : in.tenders[i].method = m
  <2>1. i \in DOMAIN in.tenders
      BY DEF Fixed
  <2>2. i \in 1..n
      BY <1>1, <2>1
  <2>3. FixedAmount(in, m) = in.tenders[i].amount
      BY DEF FixedAmount
  <2> HIDE DEF i
  <2> QED BY <1>3, <2>2, <2>3
<1>7. IsFiniteSet(Charged(in)) /\ Charged(in) \subseteq PaymentMethods
    BY <1>2, <1>3, <1>5, InputIs, FS_AddElement DEF Charged
<1> QED BY <1>2, <1>3, <1>5, <1>6, <1>7

\* What an answer with a quote has passed.
Quotes(in) == ComputeProportionalQuote(in).outcome = "quoted"

\* A quote is the answer when no refusal applies.
LEMMA QuotedMeans ==
    ASSUME NEW in \in Inputs, Quotes(in)
    PROVE  /\ ~ \E i \in DOMAIN in.tenders :
                    in.tenders[i].amount > MAX_INT8 /\ \A j \in 1 .. i : ~Repeated(in, j)
           /\ ~ \E i \in DOMAIN in.tenders : Repeated(in, i)
           /\ in.balance \notin Fixed(in)
           /\ \A m \in Charged(in) : in.bps[m] # None
           /\ ~Overflows(in)
           /\ ~(Covered(in) >= Denominator(in))
           /\ ~(Balance(in) > MAX_INT8)
           /\ ~(Balance(in) < PESO)
           /\ ~(Total(in) > MAX_INT8)
           /\ ComputeProportionalQuote(in) =
                [outcome |-> "quoted", total |-> Total(in), balance |-> Balance(in),
                 shares |-> [m \in Charged(in) |-> Shares(in, m)]]
BY DEF Quotes, ComputeProportionalQuote, Refused

\* The full prices of the methods that are charged.
LEMMA FullPricesAre ==
    ASSUME NEW in \in Inputs, Quotes(in), NEW m \in Charged(in)
    PROVE  /\ in.bps[m] \in Nat
           /\ FullPrices(in, m) \in Nat
           /\ Pesos(FullPrices(in, m))
           /\ FullPrices(in, m) = SumFunctionOnSet(LineFullPrices(in.lines, in.bps[m]),
                                                  DOMAIN in.lines)
<1>1. in.bps[m] \in Nat
    BY InputIs, FixedAre, QuotedMeans
<1> QED BY <1>1, InputIs, PricesAre DEF FullPrices

\* The sale as a fraction: the part of the fixed amounts over the whole of it.
LEMMA CoveredIs ==
    ASSUME NEW in \in Inputs, Quotes(in), NEW rest,
           \A m \in Fixed(in) : rest[m] = Product([n \in Fixed(in) \ {m} |-> FullPrices(in, n)])
    PROVE  /\ Denominator(in) \in Nat
           /\ \A m \in Fixed(in) :
                 /\ rest[m] \in Nat
                 /\ Denominator(in) = FullPrices(in, m) * rest[m]
                 /\ FixedAmount(in, m) * rest[m] \in Nat
                 /\ FixedAmount(in, m) * rest[m] <= Covered(in)
           /\ Covered(in) = SumFunctionOnSet([m \in Fixed(in) |-> FixedAmount(in, m) * rest[m]],
                                             Fixed(in))
           /\ Covered(in) \in Nat
<1> DEFINE F == Fixed(in)
           P == [m \in F |-> FullPrices(in, m)]
           part == [m \in F |-> FixedAmount(in, m) * rest[m]]
<1>1. IsFiniteSet(F) /\ F \subseteq Charged(in)
    BY FixedAre DEF Charged
<1>2. Natural(P, F)
    BY <1>1, FullPricesAre DEF Natural
<1>3. Denominator(in) = ProductOnSet(P, F)
    BY DEF Denominator, Product, FoldFunction, ProductOnSet
<1>4. ASSUME NEW m \in F PROVE rest[m] = ProductOnSet(P, F \ {m})
  <2> DEFINE Q == [n \in F \ {m} |-> FullPrices(in, n)]
  <2>1. rest[m] = ProductOnSet(Q, F \ {m})
      BY DEF Product, FoldFunction, ProductOnSet
  <2>2. IsFiniteSet(F \ {m}) /\ Natural(Q, F \ {m}) /\ \A n \in F \ {m} : Q[n] = P[n]
      BY <1>1, <1>2, FS_RemoveElement DEF Natural
  <2> HIDE DEF Q, P, F
  <2> QED BY <2>1, <2>2, ProductAlike
<1>5. /\ ProductOnSet(P, F) \in Nat
      /\ \A m \in F : /\ ProductOnSet(P, F \ {m}) \in Nat
                      /\ ProductOnSet(P, F) = P[m] * ProductOnSet(P, F \ {m})
  <2>1. F \in SUBSET F /\ \A m \in F : F \ {m} \in SUBSET F
      OBVIOUS
  <2> HIDE DEF P, F
  <2> QED BY <1>1, <1>2, <2>1, ProductTaken
<1>6. \A m \in F : /\ rest[m] \in Nat /\ Denominator(in) = FullPrices(in, m) * rest[m]
    BY <1>3, <1>4, <1>5
<1>7. \A m \in F : part[m] = FixedAmount(in, m) * rest[m] /\ part[m] \in Nat
    BY <1>6, FixedAre, ProductNatural
<1>8. Covered(in) = SumFunctionOnSet(part, F)
  <2>1. part = [m \in F |-> FixedAmount(in, m) *
                   Product([n \in F \ {m} |-> FullPrices(in, n)])]
      OBVIOUS
  <2> QED BY <2>1 DEF Covered, SumFunction
<1>9. /\ SumFunctionOnSet(part, F) \in Nat
      /\ \A m \in F : part[m] <= SumFunctionOnSet(part, F)
  <2> HIDE DEF part, F
  <2> QED BY <1>1, <1>7, SumNonnegative
<1> QED BY <1>3, <1>5, <1>6, <1>7, <1>8, <1>9

\* Every method has something to pay for, and pays no more than its full price.
LEMMA AmountsFit ==
    ASSUME NEW in \in Inputs, Quotes(in)
    PROVE  /\ Denominator(in) \in Nat \ {0}
           /\ Denominator(in) - Covered(in) \in Nat \ {0}
           /\ \A m \in Charged(in) :
                 /\ FullPrices(in, m) \in Nat \ {0}
                 /\ Amount(in, m) \in Nat
                 /\ Amount(in, m) <= FullPrices(in, m)
<1> DEFINE F == Fixed(in)
           D == Denominator(in)
           C == Covered(in)
           rest == [m \in F |-> Product([n \in F \ {m} |-> FullPrices(in, n)])]
           b == in.balance
<1>1. /\ D \in Nat /\ C \in Nat
      /\ \A m \in F : /\ rest[m] \in Nat
                      /\ D = FullPrices(in, m) * rest[m]
                      /\ FixedAmount(in, m) * rest[m] <= C
  <2>1. \A m \in F : rest[m] = Product([n \in F \ {m} |-> FullPrices(in, n)])
      OBVIOUS
  <2> HIDE DEF rest
  <2> QED BY <2>1, CoveredIs
<1>2. C < D
    BY <1>1, QuotedMeans
<1>3. D \in Nat \ {0} /\ D - C \in Nat \ {0} /\ D - C <= D
    BY <1>1, <1>2
<1>4. ASSUME NEW m \in F
      PROVE  /\ FullPrices(in, m) \in Nat \ {0} /\ Amount(in, m) \in Nat
             /\ Amount(in, m) <= FullPrices(in, m)
  <2>1. /\ FullPrices(in, m) \in Nat /\ FixedAmount(in, m) \in Nat
        /\ Amount(in, m) = FixedAmount(in, m)
    <3>1. m \in Charged(in) /\ m # b
        BY QuotedMeans DEF Charged
    <3> QED BY <3>1, FullPricesAre, FixedAre DEF Amount
  <2>2. /\ rest[m] \in Nat /\ D = FullPrices(in, m) * rest[m]
        /\ FixedAmount(in, m) * rest[m] < FullPrices(in, m) * rest[m]
    <3>1. FixedAmount(in, m) * rest[m] \in Nat
        BY <1>1, <2>1, ProductNatural
    <3> HIDE DEF rest, D, C
    <3> QED BY <1>1, <1>2, <3>1
  <2>3. FullPrices(in, m) # 0 /\ rest[m] # 0
    <3> HIDE DEF rest, D
    <3> QED BY <1>3, <2>1, <2>2
  <2>4. FixedAmount(in, m) < FullPrices(in, m)
    <3> HIDE DEF rest, D
    <3> QED BY <2>1, <2>2, <2>3, ProductStrict
  <2> QED BY <2>1, <2>3, <2>4
<1>5. b \in Charged(in) /\ Amount(in, b) = Balance(in) /\ FullPrices(in, b) \in Nat
    BY FullPricesAre DEF Amount, Charged
<1>6. /\ FullPrices(in, b) * (D - C) \in Nat
      /\ FullPrices(in, b) * (D - C) <= D * FullPrices(in, b)
      /\ Balance(in) = RoundPeso(FullPrices(in, b) * (D - C), D)
  <2>1. Balance(in) = RoundPeso(FullPrices(in, b) * (D - C), D)
      BY DEF Balance
  <2>2. D * FullPrices(in, b) = FullPrices(in, b) * D
      BY <1>3, <1>5
  <2> HIDE DEF b, C, D
  <2>3. FullPrices(in, b) * (D - C) <= FullPrices(in, b) * D
      BY <1>3, <1>5, ProductMonotone
  <2> QED BY <1>3, <1>5, <2>1, <2>2, <2>3, ProductNatural
<1>7. PICK c \in Nat : FullPrices(in, b) = c * PESO
    BY <1>5, FullPricesAre DEF Pesos
<1>8. Balance(in) \in Nat /\ Balance(in) <= FullPrices(in, b)
  <2> HIDE DEF b, C, D
  <2> QED BY <1>3, <1>6, <1>7, RoundedPeso, RoundedWithin
<1>9. FullPrices(in, b) # 0
  <2>1. Balance(in) > 0
      BY <1>8, QuotedMeans, QuoteAssumption
  <2> QED BY <1>5, <1>8, <2>1
<1> QED BY <1>3, <1>4, <1>5, <1>8, <1>9 DEF Charged

-----------------------------------------------------------------------------
(* The quote *)

\* What a method pays for each line of a quote.
LEMMA SharesAre ==
    ASSUME NEW in \in Inputs, Quotes(in), NEW m \in Charged(in)
    PROVE  LET W == LineFullPrices(in.lines, in.bps[m])
               a == Shares(in, m)
           IN  /\ W \in [DOMAIN in.lines -> Nat]
               /\ DOMAIN a = DOMAIN in.lines
               /\ SumFunctionOnSet(a, DOMAIN in.lines) = Amount(in, m)
               /\ \A i \in DOMAIN in.lines :
                     /\ a[i] \in 0 .. W[i]
                     /\ a[i] * FullPrices(in, m) - Amount(in, m) * W[i]
                          < Unit(Amount(in, m)) * FullPrices(in, m)
                     /\ Amount(in, m) * W[i] - a[i] * FullPrices(in, m)
                          < Unit(Amount(in, m)) * FullPrices(in, m)
                     /\ Amount(in, m) = FullPrices(in, m) => a[i] = W[i]
<1> DEFINE W == LineFullPrices(in.lines, in.bps[m])
           a == Shares(in, m)
           lines == in.lines
           full == FullPrices(in, m)
           amount == Amount(in, m)
<1>1. lines \in LineSets /\ in.bps[m] \in Nat
    BY InputIs, FullPricesAre
<1>2. W \in [DOMAIN lines -> Nat] /\ \A i \in DOMAIN lines : Pesos(W[i])
    BY <1>1, PricesAre
<1>3. full \in Nat \ {0} /\ full = SumFunctionOnSet(W, DOMAIN lines)
    BY AmountsFit, FullPricesAre
<1>4. amount \in Nat /\ amount <= full
    BY AmountsFit
<1>5. a = Allocate(lines, W, amount, full)
    BY DEF Shares
<1> HIDE DEF W, a, full, amount, lines
<1>6. /\ DOMAIN a = DOMAIN lines
      /\ SumFunctionOnSet(a, DOMAIN lines) = amount
      /\ \A i \in DOMAIN lines :
            /\ a[i] \in 0 .. W[i]
            /\ a[i] * full - amount * W[i] < Unit(amount) * full
            /\ amount * W[i] - a[i] * full < Unit(amount) * full
            /\ amount = full => a[i] = W[i]
    BY <1>1, <1>2, <1>3, <1>4, <1>5, SharesAreRight
<1> QED BY <1>2, <1>6 DEF W, a, full, amount, lines

\* The quote, once it was asked for, is the engine's.
QuoteInv ==
    /\ input \in Inputs
    /\ quote.outcome = "unasked" \/ quote = ComputeProportionalQuote(input)

\* What a quote says.
LEMMA QuoteIs ==
    ASSUME QuoteInv, Quoted
    PROVE  /\ input \in Inputs /\ Quotes(input)
           /\ quote = [outcome |-> "quoted", total |-> Total(input), balance |-> Balance(input),
                       shares |-> [m \in Charged(input) |-> Shares(input, m)]]
           /\ DOMAIN quote.shares = Charged(input)
           /\ \A m \in Charged(input) : quote.shares[m] = Shares(input, m)
           /\ quote.total = Total(input)
<1>1. input \in Inputs /\ Quotes(input)
    BY DEF QuoteInv, Quoted, Quotes
<1>2. quote = ComputeProportionalQuote(input)
    BY DEF QuoteInv, Quoted
<1>3. quote = [outcome |-> "quoted", total |-> Total(input), balance |-> Balance(input),
               shares |-> [m \in Charged(input) |-> Shares(input, m)]]
    BY <1>1, <1>2, QuotedMeans
<1> QED BY <1>1, <1>3

\* The total adds up what each method pays.
LEMMA TotalIs ==
    ASSUME NEW in
    PROVE  Total(in) = SumFunctionOnSet([m \in Charged(in) |-> Amount(in, m)], Charged(in))
BY DEF Total, SumFunction

\* The shares of each method add up to what it pays, and the lines add up to the total.
LEMMA NeverInconsistentHolds ==
    ASSUME QuoteInv, Quoted
    PROVE  NeverInconsistent
<1> DEFINE D == DOMAIN input.lines
           M == Charged(input)
           shares == quote.shares
           column == [m \in M |-> Amount(input, m)]
           table == [i \in D |-> [m \in M |-> shares[m][i]]]
           row == [i \in D |-> FinalAmount(quote, i)]
<1>1. input \in Inputs /\ Quotes(input) /\ DOMAIN shares = M
      /\ (\A m \in M : shares[m] = Shares(input, m)) /\ quote.total = Total(input)
    BY QuoteIs
<1>2. ASSUME NEW m \in M
      PROVE  /\ FullPrices(input, m) > 0
             /\ SumFunctionOnSet(shares[m], D) = Amount(input, m)
             /\ SumFunction(shares[m]) = Amount(input, m)
             /\ \A i \in D :
                   shares[m][i] \in 0 .. LineFullPrices(input.lines, input.bps[m])[i]
             /\ \A i \in D : shares[m][i] \in Nat
  <2>1. FullPrices(input, m) > 0
      BY <1>1, AmountsFit
  <2>2. /\ LineFullPrices(input.lines, input.bps[m]) \in [D -> Nat]
        /\ DOMAIN shares[m] = D
        /\ SumFunctionOnSet(shares[m], D) = Amount(input, m)
        /\ \A i \in D : shares[m][i] \in 0 .. LineFullPrices(input.lines, input.bps[m])[i]
      BY <1>1, SharesAre
  <2> QED BY <2>1, <2>2 DEF SumFunction
<1>3. IsFiniteSet(D) /\ IsFiniteSet(M)
    BY <1>1, InputIs, LinesAre, FixedAre
<1>4. \A i \in D : row[i] = SumFunctionOnSet(table[i], M)
    BY <1>1 DEF FinalAmount, SumFunction
<1>5. /\ \A i \in D, m \in M : table[i][m] \in Int /\ shares[m][i] = table[i][m]
      /\ \A m \in M : column[m] = SumFunctionOnSet(shares[m], D)
    BY <1>2
<1>6. SumFunctionOnSet(row, D) = SumFunctionOnSet(column, M)
  <2> HIDE DEF row, column, table, shares, M, D
  <2>1. Tabulated(table, shares, row, column, D, M)
      BY <1>4, <1>5 DEF Tabulated
  <2> QED BY <1>3, <2>1, SumSwap
<1>7. SumFunction(row) = quote.total
    BY <1>1, <1>6, TotalIs DEF SumFunction
<1> QED BY <1>1, <1>2, <1>7 DEF NeverInconsistent

\* No share is a unit away from the exact one.
LEMMA FairShareHolds ==
    ASSUME QuoteInv, Quoted
    PROVE  FairShare
<1>1. input \in Inputs /\ Quotes(input) /\ DOMAIN quote.shares = Charged(input)
      /\ \A m \in Charged(input) : quote.shares[m] = Shares(input, m)
    BY QuoteIs
<1>2. ASSUME NEW m \in Charged(input), NEW i \in DOMAIN input.lines
      PROVE  LET exact == Amount(input, m) * LineFullPrices(input.lines, input.bps[m])[i]
                 paid == quote.shares[m][i] * FullPrices(input, m)
                 tolerance == Unit(Amount(input, m)) * FullPrices(input, m)
             IN  paid - exact < tolerance /\ exact - paid < tolerance
    BY <1>1, SharesAre
<1> QED BY <1>1, <1>2 DEF FairShare

\* With one method the balance is its full price, and each share its whole line.
LEMMA OneMethodPriceHolds ==
    ASSUME QuoteInv, Quoted
    PROVE  OneMethodPrice
<1> DEFINE b == input.balance
           M == Charged(input)
           D == DOMAIN input.lines
<1>1. input \in Inputs /\ Quotes(input) /\ DOMAIN quote.shares = M
      /\ \A m \in M : quote.shares[m] = Shares(input, m)
    BY QuoteIs
<1>2. SUFFICES ASSUME Cardinality(M) = 1, NEW i \in D
      PROVE  LET alone == [input.lines[i] EXCEPT !.quantity = 1]
             IN FinalAmount(quote, i) = input.lines[i].quantity *
                   LineFullPrices(<<alone>>, input.bps[b])[1]
    BY <1>1 DEF OneMethodPrice
<1>3. M = {b} /\ Fixed(input) = {}
  <2>1. b \in M /\ IsFiniteSet(M)
      BY <1>1, FixedAre DEF Charged
  <2>2. M = {b}
      BY <1>2, <2>1, FS_Singleton
  <2> QED BY <1>1, <2>2, QuotedMeans DEF Charged
<1>4. Denominator(input) = 1 /\ Covered(input) = 0
  <2> DEFINE rest == [m \in {} |-> 1]
             none == [m \in {} |-> FixedAmount(input, m) * rest[m]]
             P == [m \in {} |-> FullPrices(input, m)]
  <2>1. Denominator(input) = ProductOnSet(P, {})
      BY <1>3 DEF Denominator, Product, FoldFunction, ProductOnSet
  <2>2. IsFiniteSet({}) /\ Natural(P, {})
      BY FS_EmptySet DEF Natural
  <2>3. ProductOnSet(P, {}) = 1
    <3> HIDE DEF P
    <3> QED BY <2>2, ProductTaken
  <2>4. Covered(input) = SumFunctionOnSet(none, {})
    <3>1. Covered(input) = SumFunctionOnSet([m \in Fixed(input) |->
                              FixedAmount(input, m) * rest[m]], Fixed(input))
        BY <1>1, <1>3, CoveredIs
    <3> QED BY <1>3, <3>1
  <2> HIDE DEF none
  <2> QED BY <2>1, <2>3, <2>4, SumOfNone
<1>5. /\ FullPrices(input, b) \in Nat /\ Pesos(FullPrices(input, b)) /\ input.bps[b] \in Nat
      /\ b \in M
    BY <1>1, <1>3, FullPricesAre
<1>6. Amount(input, b) = FullPrices(input, b)
  <2>1. PICK c \in Nat : FullPrices(input, b) = c * PESO
      BY <1>5 DEF Pesos
  <2>2. Balance(input) = RoundPeso(FullPrices(input, b), 1)
    <3>1. FullPrices(input, b) * (1 - 0) = FullPrices(input, b)
        BY <1>5
    <3> QED BY <1>4, <3>1 DEF Balance
  <2>3. FullPrices(input, b) = 1 * (c * PESO)
      BY <1>5, <2>1
  <2>4. RoundPeso(FullPrices(input, b), 1) = c * PESO
    <3>1. 1 \in Nat \ {0}
        OBVIOUS
    <3> HIDE DEF b
    <3> QED BY <1>5, <2>3, <3>1, RoundedWithin
  <2> QED BY <2>1, <2>2, <2>4 DEF Amount
<1>7. Shares(input, b)[i] = LineFullPrices(input.lines, input.bps[b])[i]
    BY <1>1, <1>5, <1>6, SharesAre
<1>8. FinalAmount(quote, i) = LineFullPrices(input.lines, input.bps[b])[i]
  <2> DEFINE f == [m \in M |-> quote.shares[m][i]]
  <2>1. FinalAmount(quote, i) = SumFunctionOnSet(f, {b})
      BY <1>1, <1>3 DEF FinalAmount, SumFunction
  <2>2. f[b] = LineFullPrices(input.lines, input.bps[b])[i] /\ f[b] \in Int
    <3>1. f[b] = Shares(input, b)[i]
        BY <1>1, <1>5
    <3>2. LineFullPrices(input.lines, input.bps[b]) \in [D -> Nat]
        BY <1>1, <1>5, SharesAre
    <3> HIDE DEF f, b
    <3>3. LineFullPrices(input.lines, input.bps[b])[i] \in Nat
        BY <3>2
    <3> QED BY <1>7, <3>1, <3>3
  <2> HIDE DEF f
  <2> QED BY <2>1, <2>2, SumOfOne
<1> DEFINE alone == [input.lines[i] EXCEPT !.quantity = 1]
<1>9. /\ LineFullPrices(input.lines, input.bps[b])[i] =
            input.lines[i].quantity * UnitPrice(input.lines[i], input.bps[b])
      /\ LineFullPrices(<<alone>>, input.bps[b])[1] = alone.quantity * UnitPrice(alone, input.bps[b])
  <2>1. LineFullPrices(input.lines, input.bps[b])[i] =
            input.lines[i].quantity * UnitPrice(input.lines[i], input.bps[b])
      BY DEF LineFullPrices
  <2> HIDE DEF alone, b
  <2>2. DOMAIN <<alone>> = {1} /\ <<alone>>[1] = alone
      OBVIOUS
  <2>3. LineFullPrices(<<alone>>, input.bps[b])[1]
            = alone.quantity * UnitPrice(alone, input.bps[b])
      BY <2>2 DEF LineFullPrices
  <2> QED BY <2>1, <2>3
<1>10. /\ alone.quantity = 1 /\ alone.base = input.lines[i].base
       /\ input.lines[i].base \in Nat /\ input.lines[i].quantity \in Nat
    BY <1>1, InputIs, LinesAre DEF Lines
<1>11. UnitPrice(alone, input.bps[b]) = UnitPrice(input.lines[i], input.bps[b])
    BY <1>10 DEF UnitPrice
<1>12. UnitPrice(input.lines[i], input.bps[b]) \in Nat
  <2>1. WHOLE_BPS \in Nat \ {0} /\ WHOLE_BPS + input.bps[b] \in Nat
      BY <1>5, QuoteAssumption
  <2>2. input.lines[i].base * (WHOLE_BPS + input.bps[b]) \in Nat
    <3> DEFINE base == input.lines[i].base
               bps == WHOLE_BPS + input.bps[b]
    <3>1. base \in Nat /\ bps \in Nat
        BY <1>10, <2>1
    <3> HIDE DEF base, bps
    <3>2. base * bps \in Nat
        BY <3>1, ProductNatural
    <3> QED BY <3>2 DEF base, bps
  <2> QED BY <2>1, <2>2, RoundedPeso DEF UnitPrice
<1> HIDE DEF alone, b
<1>13. LineFullPrices(<<alone>>, input.bps[b])[1] = UnitPrice(input.lines[i], input.bps[b])
    BY <1>9, <1>10, <1>11, <1>12
<1> QED BY <1>8, <1>9, <1>13 DEF alone, b

-----------------------------------------------------------------------------
(* What several methods cost *)

\* The fixed amounts, each over the full price of its method, against one price for all.
LEMMA FixedAgainst ==
    ASSUME NEW F, IsFiniteSet(F), NEW P, NEW a, NEW rest, NEW part, NEW D \in Nat,
           \A m \in F : /\ P[m] \in Nat /\ a[m] \in Nat /\ rest[m] \in Nat
                        /\ D = P[m] * rest[m] /\ part[m] = a[m] * rest[m],
           NEW T \in Int
    PROVE  /\ (\A m \in F : 2 * P[m] <= T)
                 => (2 * D) * SumFunctionOnSet(a, F) <= T * SumFunctionOnSet(part, F)
           /\ (\A m \in F : T <= 2 * P[m])
                 => T * SumFunctionOnSet(part, F) <= (2 * D) * SumFunctionOnSet(a, F)
<1> DEFINE f == [m \in F |-> (2 * D) * a[m]]
           g == [m \in F |-> T * part[m]]
<1>1. \A m \in F : a[m] \in Nat /\ part[m] \in Nat
    BY ProductNatural
<1>2. Integral(a, F) /\ Integral(part, F) /\ 2 * D \in Int
    BY <1>1 DEF Integral
<1>3. \A m \in F : f[m] = (2 * D) * a[m] /\ g[m] = T * part[m]
    OBVIOUS
<1>4. Integral(f, F) /\ Integral(g, F)
  <2> HIDE DEF f, g
  <2> QED BY <1>1, <1>2, <1>3 DEF Integral
<1>5. \A m \in F : f[m] = (2 * P[m]) * part[m]
  <2> SUFFICES ASSUME NEW m \in F PROVE (2 * D) * a[m] = (2 * P[m]) * (a[m] * rest[m])
      BY <1>3
  <2> DEFINE p == P[m]
             x == a[m]
             r == rest[m]
  <2>1. p \in Nat /\ x \in Nat /\ r \in Nat /\ D = p * r
      OBVIOUS
  <2> HIDE DEF p, x, r
  <2>2. (2 * (p * r)) * x = (2 * p) * (x * r)
      BY <2>1
  <2> QED BY <2>1, <2>2 DEF p, x, r
<1> HIDE DEF f, g
<1>6. /\ SumFunctionOnSet(f, F) = (2 * D) * SumFunctionOnSet(a, F)
      /\ SumFunctionOnSet(g, F) = T * SumFunctionOnSet(part, F)
  <2>1. SumFunctionOnSet(f, F) = (2 * D) * SumFunctionOnSet(a, F)
      BY <1>2, <1>3, SumTimes
  <2>2. SumFunctionOnSet(g, F) = T * SumFunctionOnSet(part, F)
      BY <1>2, <1>3, SumTimes
  <2> QED BY <2>1, <2>2
<1>7. ASSUME \A m \in F : 2 * P[m] <= T PROVE \A m \in F : f[m] <= g[m]
    BY <1>1, <1>3, <1>5, <1>7, ProductMonotone
<1>8. ASSUME \A m \in F : T <= 2 * P[m] PROVE \A m \in F : g[m] <= f[m]
    BY <1>1, <1>3, <1>5, <1>8, ProductMonotone
<1> QED BY <1>4, <1>6, <1>7, <1>8, SumAtMost

\* The fixed amounts s and the rounded balance v that is left of the price p, against one price.
LEMMA BlendedPrice ==
    ASSUME NEW d \in Nat \ {0}, NEW c \in Nat, d - c \in Nat \ {0}, NEW p \in Nat,
           NEW s \in Nat, NEW v \in Nat,
           2 * (d * v) <= 2 * (p * (d - c)) + d * PESO,
           2 * (p * (d - c)) <= 2 * (d * v) + d * PESO
    PROVE  /\ ~(/\ 2 * p < 2 * (s + v) - PESO
                /\ (2 * d) * s <= (2 * (s + v) - PESO) * c)
           /\ ~(/\ 2 * (s + v) + PESO < 2 * p
                /\ (2 * (s + v) + PESO) * c <= (2 * d) * s)
<1> DEFINE low == 2 * (s + v) - PESO
           high == 2 * (s + v) + PESO
           e == d - c
<1>1. low \in Int /\ high \in Int /\ PESO \in Nat /\ e \in Nat \ {0} /\ d = e + c
    BY QuoteAssumption
<1>2. (2 * p) * e = 2 * (p * e)
    BY <1>1
<1>3. /\ low * d = low * e + low * c /\ high * d = high * e + high * c
      /\ low * e \in Int /\ low * c \in Int /\ high * e \in Int /\ high * c \in Int
  <2> HIDE DEF low, high, e
  <2> QED BY <1>1
<1>4. /\ low * d = (2 * d) * s + 2 * (d * v) - d * PESO
      /\ high * d = (2 * d) * s + 2 * (d * v) + d * PESO
    BY <1>1
<1>5. 2 * p \in Int /\ p * e \in Nat /\ d * v \in Nat /\ d * PESO \in Nat /\ (2 * d) * s \in Nat
    BY <1>1, ProductNatural
<1>6. ASSUME 2 * p < low, (2 * d) * s <= low * c PROVE FALSE
  <2>1. 2 * (p * e) < low * e
      BY <1>1, <1>2, <1>5, <1>6, ProductStrict
  <2> DEFINE a == p * e
             b == d * v
             x == d * PESO
             y == (2 * d) * s
             l == low * e
             m == low * c
  <2>2. /\ a \in Nat /\ b \in Nat /\ x \in Nat /\ y \in Nat /\ l \in Int /\ m \in Int
        /\ 2 * a < l /\ y <= m /\ l + m = y + 2 * b - x /\ 2 * b <= 2 * a + x
      BY <1>3, <1>4, <1>5, <1>6, <2>1
  <2> HIDE DEF a, b, x, y, l, m
  <2> QED BY <2>2
<1>7. ASSUME high < 2 * p, high * c <= (2 * d) * s PROVE FALSE
  <2>1. high * e < 2 * (p * e)
      BY <1>1, <1>2, <1>5, <1>7, ProductStrict
  <2> DEFINE a == p * e
             b == d * v
             x == d * PESO
             y == (2 * d) * s
             l == high * e
             m == high * c
  <2>2. /\ a \in Nat /\ b \in Nat /\ x \in Nat /\ y \in Nat /\ l \in Int /\ m \in Int
        /\ l < 2 * a /\ m <= y /\ l + m = y + 2 * b + x /\ 2 * a <= 2 * b + x
      BY <1>3, <1>4, <1>5, <1>7, <2>1
  <2> HIDE DEF a, b, x, y, l, m
  <2> QED BY <2>2
<1> QED BY <1>6, <1>7

\* If every method were dearer than the total and half a peso, so would be what they pay together.
LEMMA BetweenMethodsHolds ==
    ASSUME QuoteInv, Quoted
    PROVE  BetweenMethods
<1> DEFINE F == Fixed(input)
           M == Charged(input)
           b == input.balance
           D == Denominator(input)
           C == Covered(input)
           P == [m \in F |-> FullPrices(input, m)]
           fixed == [m \in F |-> FixedAmount(input, m)]
           rest == [m \in F |-> Product([n \in F \ {m} |-> FullPrices(input, n)])]
           part == [m \in F |-> FixedAmount(input, m) * rest[m]]
           amount == [m \in M |-> Amount(input, m)]
           s == SumFunctionOnSet(fixed, F)
           v == Balance(input)
           p == FullPrices(input, b)
<1>1. input \in Inputs /\ Quotes(input) /\ DOMAIN quote.shares = M /\ quote.total = Total(input)
    BY QuoteIs
<1>2. /\ IsFiniteSet(F) /\ b \notin F /\ M = F \cup {b}
      /\ D \in Nat \ {0} /\ C \in Nat /\ D - C \in Nat \ {0}
      /\ \A m \in M : FullPrices(input, m) \in Nat /\ Amount(input, m) \in Nat
      /\ Amount(input, b) = v
      /\ \A m \in F : Amount(input, m) = FixedAmount(input, m)
  <2>1. C \in Nat
    <3>1. \A m \in F : rest[m] = Product([n \in F \ {m} |-> FullPrices(input, n)])
        OBVIOUS
    <3> HIDE DEF rest
    <3> QED BY <1>1, <3>1, CoveredIs
  <2>2. IsFiniteSet(F) /\ b \notin F /\ M = F \cup {b}
      BY <1>1, FixedAre, QuotedMeans DEF Charged
  <2>3. /\ D \in Nat \ {0} /\ D - C \in Nat \ {0}
        /\ \A m \in M : FullPrices(input, m) \in Nat /\ Amount(input, m) \in Nat
      BY <1>1, AmountsFit
  <2>4. Amount(input, b) = v /\ \A m \in F : Amount(input, m) = FixedAmount(input, m)
      BY <2>2 DEF Amount
  <2> QED BY <2>1, <2>2, <2>3, <2>4
<1>3. /\ \A m \in F : /\ P[m] \in Nat /\ fixed[m] \in Nat /\ rest[m] \in Nat
                      /\ D = P[m] * rest[m] /\ part[m] = fixed[m] * rest[m]
      /\ C = SumFunctionOnSet(part, F)
  <2>1. \A m \in F : rest[m] = Product([n \in F \ {m} |-> FullPrices(input, n)])
      OBVIOUS
  <2>2. /\ \A m \in F : P[m] = FullPrices(input, m) /\ fixed[m] = FixedAmount(input, m)
                        /\ part[m] = FixedAmount(input, m) * rest[m]
      /\ \A m \in F : FullPrices(input, m) \in Nat /\ FixedAmount(input, m) \in Nat
      BY <1>2
  <2> HIDE DEF rest, P, fixed
  <2>3. \A m \in F : rest[m] \in Nat /\ D = FullPrices(input, m) * rest[m]
      BY <1>1, <2>1, CoveredIs
  <2>4. C = SumFunctionOnSet(part, F)
      BY <1>1, <2>1, CoveredIs
  <2> QED BY <2>2, <2>3, <2>4
<1>4. s \in Nat /\ v \in Nat /\ quote.total = s + v
  <2>1. \A m \in F : fixed[m] = amount[m] /\ amount[m] \in Nat
      BY <1>2
  <2>2. amount[b] = v /\ v \in Nat
      BY <1>2
  <2>3. s \in Nat
    <3>1. \A m \in F : fixed[m] \in Nat
        BY <1>3
    <3> HIDE DEF fixed
    <3> QED BY <1>2, <3>1, SumNonnegative
  <2>4. SumFunctionOnSet(amount, F) = s
    <3> HIDE DEF fixed, amount, P, rest, part, F
    <3>1. Integral(fixed, F)
        BY <1>3 DEF Integral
    <3> QED BY <1>2, <2>1, <3>1, SumAlike
  <2>5. SumFunctionOnSet(amount, F \cup {b}) = amount[b] + SumFunctionOnSet(amount, F)
    <3>1. IsFiniteSet(M)
        BY <1>1, FixedAre
    <3>2. \A m \in M : amount[m] \in Int
        BY <1>2
    <3> HIDE DEF amount, M, F, b
    <3>3. Integral(amount, M) /\ F \in SUBSET M /\ b \in M \ F
        BY <1>2, <3>2 DEF Integral
    <3> QED BY <3>1, <3>3, SumAdds
  <2>6. quote.total = SumFunctionOnSet(amount, F \cup {b})
      BY <1>1, <1>2, TotalIs
  <2> HIDE DEF amount, s, v, F, b, M
  <2> QED BY <2>2, <2>3, <2>4, <2>5, <2>6
<1>5. /\ p \in Nat /\ v = RoundPeso(p * (D - C), D)
      /\ 2 * (D * v) <= 2 * (p * (D - C)) + D * PESO
      /\ 2 * (p * (D - C)) <= 2 * (D * v) + D * PESO
  <2>1. p \in Nat /\ v = RoundPeso(p * (D - C), D)
      BY <1>2 DEF Balance
  <2> DEFINE n == p * (D - C)
  <2>2. n \in Nat
    <3> HIDE DEF p, D, C
    <3> QED BY <1>2, <2>1, ProductNatural
  <2>3. v = RoundPeso(n, D)
      BY <2>1
  <2> HIDE DEF n, v, D
  <2>4. 2 * (D * v) <= 2 * n + D * PESO /\ 2 * n <= 2 * (D * v) + D * PESO
      BY <1>2, <2>2, <2>3, RoundedPeso
  <2> QED BY <2>1, <2>4 DEF n
<1>6. PESO \in Nat
    BY QuoteAssumption
<1> HIDE DEF P, fixed, rest, part, amount, s, v, p, D, C, F, M
<1>7. ASSUME \A m \in M : ~(2 * quote.total <= 2 * FullPrices(input, m) + PESO) PROVE FALSE
  <2> DEFINE T == 2 * (s + v) - PESO
  <2>1. T \in Int /\ \A m \in M : 2 * FullPrices(input, m) < T
      BY <1>2, <1>4, <1>6, <1>7
  <2>2. \A m \in F : 2 * P[m] <= T
      BY <1>2, <2>1 DEF P
  <2> HIDE DEF T
  <2>3. (2 * D) * SumFunctionOnSet(fixed, F) <= T * SumFunctionOnSet(part, F)
      BY <1>2, <1>3, <2>1, <2>2, FixedAgainst
  <2>4. 2 * p < T
      BY <1>2, <2>1 DEF p
  <2> USE DEF T
  <2>5. (2 * D) * s <= T * C
      BY <1>3, <2>3 DEF s
  <2> QED BY <1>2, <1>4, <1>5, <2>4, <2>5, BlendedPrice
<1>8. ASSUME \A m \in M : ~(2 * quote.total >= 2 * FullPrices(input, m) - PESO) PROVE FALSE
  <2> DEFINE T == 2 * (s + v) + PESO
  <2>1. T \in Int /\ \A m \in M : T < 2 * FullPrices(input, m)
      BY <1>2, <1>4, <1>6, <1>8
  <2>2. \A m \in F : T <= 2 * P[m]
      BY <1>2, <2>1 DEF P
  <2> HIDE DEF T
  <2>3. T * SumFunctionOnSet(part, F) <= (2 * D) * SumFunctionOnSet(fixed, F)
      BY <1>2, <1>3, <2>1, <2>2, FixedAgainst
  <2>4. T < 2 * p
      BY <1>2, <2>1 DEF p
  <2> USE DEF T
  <2>5. T * C <= (2 * D) * s
      BY <1>3, <2>3 DEF s
  <2> QED BY <1>2, <1>4, <1>5, <2>4, <2>5, BlendedPrice
<1> QED BY <1>1, <1>7, <1>8 DEF BetweenMethods, M

-----------------------------------------------------------------------------
(* The lines in the opposite order *)

Backwards(lines) == [i \in 1 .. Len(lines) |-> lines[Len(lines) + 1 - i]]
Reversed(in) == [in EXCEPT !.lines = Backwards(in.lines)]

\* Of n lines, the one that comes last is the first.
Mirrored(lines, n) ==
    /\ n \in Nat /\ DOMAIN lines = 1 .. n /\ DOMAIN Backwards(lines) = 1 .. n
    /\ \A i \in 1 .. n : /\ n + 1 - i \in 1 .. n /\ n + 1 - (n + 1 - i) = i
                         /\ Backwards(lines)[n + 1 - i] = lines[i]

Mirrors(n, g, f) == \A i \in 1 .. n : g[n + 1 - i] = f[i]

\* Reversing the lines keeps their number.
LEMMA BackwardsIs ==
    ASSUME NEW lines \in LineSets, NEW n, n = Len(lines)
    PROVE  Mirrored(lines, n)
<1>1. n \in Nat /\ DOMAIN lines = 1 .. n
    BY LinesAre
<1>2. \A i \in 1 .. n : n + 1 - i \in 1 .. n /\ n + 1 - (n + 1 - i) = i
    BY <1>1
<1> QED BY <1>1, <1>2 DEF Backwards, Mirrored

\* What is the same line by line adds up to the same.
LEMMA MirroredSum ==
    ASSUME NEW n \in Nat, NEW f, NEW g, DOMAIN f = 1 .. n, DOMAIN g = 1 .. n,
           Integral(f, 1 .. n), Mirrors(n, g, f)
    PROVE  SumFunction(g) = SumFunction(f)
<1> USE DEF Mirrors
<1> DEFINE S == 1 .. n
           p == [i \in S |-> n + 1 - i]
<1>1. IsFiniteSet(S)
    BY FS_Interval
<1>2. /\ p \in [S -> S] /\ (\A x, y \in S : p[x] = p[y] => x = y)
      /\ \A t \in S : p[t] \in S /\ p[p[t]] = t
    OBVIOUS
<1>3. \A x \in S : g[x] = f[p[x]]
  <2> SUFFICES ASSUME NEW x \in S PROVE g[x] = f[p[x]]
      OBVIOUS
  <2>1. g[n + 1 - p[x]] = f[p[x]] /\ n + 1 - p[x] = x
      BY <1>2
  <2> QED BY <2>1
<1> HIDE DEF p
<1>4. SumFunctionOnSet(g, S) = SumFunctionOnSet(f, S)
  <2>1. Integral(f, S) /\ \A t \in S : \E x \in S : p[x] = t
      BY <1>2
  <2> HIDE DEF S
  <2> QED BY <1>1, <1>2, <1>3, <2>1, SumRenamed
<1> QED BY <1>4 DEF SumFunction

\* The prices are those of the lines, in the opposite order.
LEMMA MirroredPrices ==
    ASSUME NEW lines \in LineSets, NEW bps \in Nat, NEW n, n = Len(lines)
    PROVE  /\ DOMAIN LineFullPrices(Backwards(lines), bps) = 1 .. n
           /\ DOMAIN LineFullPrices(lines, bps) = 1 .. n
           /\ Mirrors(n, LineFullPrices(Backwards(lines), bps), LineFullPrices(lines, bps))
           /\ SumFunction(LineFullPrices(Backwards(lines), bps))
                = SumFunction(LineFullPrices(lines, bps))
<1> DEFINE f == LineFullPrices(lines, bps)
           g == LineFullPrices(Backwards(lines), bps)
<1>1. DOMAIN f = 1 .. n /\ DOMAIN g = 1 .. n /\ n \in Nat
    BY BackwardsIs DEF LineFullPrices, Mirrored
<1>2. Mirrors(n, g, f)
  <2> SUFFICES ASSUME NEW i \in 1 .. n PROVE g[n + 1 - i] = f[i]
      BY DEF Mirrors
  <2> DEFINE o == n + 1 - i
  <2>1. o \in 1 .. n /\ Backwards(lines)[o] = lines[i]
        /\ DOMAIN Backwards(lines) = 1 .. n /\ DOMAIN lines = 1 .. n
      BY BackwardsIs DEF Mirrored
  <2> HIDE DEF o
  <2>2. /\ g[o] = Backwards(lines)[o].quantity * UnitPrice(Backwards(lines)[o], bps)
        /\ f[i] = lines[i].quantity * UnitPrice(lines[i], bps)
      BY <2>1 DEF LineFullPrices
  <2> QED BY <2>1, <2>2 DEF o
<1>3. Integral(f, 1 .. n)
  <2>1. f \in [1 .. n -> Nat]
      BY BackwardsIs, PricesAre DEF Mirrored
  <2> HIDE DEF f
  <2> QED BY <2>1 DEF Integral
<1> HIDE DEF f, g
<1>4. SumFunction(g) = SumFunction(f)
    BY <1>1, <1>2, <1>3, MirroredSum
<1> QED BY <1>1, <1>2, <1>4 DEF f, g, Mirrors

\* The residue is given out to the same lines.
LEMMA MirroredShares ==
    ASSUME NEW lines \in LineSets, NEW n, n = Len(lines), NEW w \in [1 .. n -> Nat], NEW x,
           DOMAIN x = 1 .. n, Mirrors(n, x, w), NEW amount \in Nat, NEW full \in Nat \ {0}
    PROVE  Mirrors(n, Allocate(Backwards(lines), x, amount, full),
                      Allocate(lines, w, amount, full))
<1> SUFFICES ASSUME NEW i \in 1 .. n
    PROVE  Allocate(Backwards(lines), x, amount, full)[n + 1 - i]
              = Allocate(lines, w, amount, full)[i]
    BY DEF Mirrors
<1> USE DEF Mirrors
<1> DEFINE D == 1 .. n
           other == Backwards(lines)
           units == amount \div Unit(amount)
           f == [k \in D |-> Quotient(units, w[k], full)]
           g == [k \in D |-> Quotient(units, x[k], full)]
           before(k) == {j \in D : Before(lines, w, units, full, j, k)}
           behind(k) == {j \in D : Before(other, x, units, full, j, k)}
           o == n + 1 - i
<1>1. /\ n \in Nat /\ DOMAIN lines = D /\ DOMAIN other = D /\ o \in D
      /\ \A k \in D : /\ n + 1 - k \in D /\ n + 1 - (n + 1 - k) = k
                      /\ other[n + 1 - k] = lines[k]
  <2>1. Mirrored(lines, n)
      BY BackwardsIs
  <2> QED BY <2>1 DEF Mirrored
<1>2. units \in Nat
    BY UnitIs
<1>3. SumFunction(g) = SumFunction(f)
  <2>1. \A k \in D : g[n + 1 - k] = f[k]
      BY <1>1
  <2>2. \A k \in D : f[k] \in Int
    <3> SUFFICES ASSUME NEW k \in D PROVE f[k] \in Int
        OBVIOUS
    <3> DEFINE a == units * w[k]
    <3>1. f[k] = a \div full
        BY DEF Quotient
    <3>2. a \in Nat
      <4> HIDE DEF units
      <4> QED BY <1>2, ProductNatural
    <3> HIDE DEF a, f
    <3> QED BY <3>1, <3>2, Division
  <2>3. DOMAIN f = D /\ DOMAIN g = D
      OBVIOUS
  <2>4. Integral(f, 1 .. n) /\ DOMAIN f = 1 .. n /\ DOMAIN g = 1 .. n
      BY <1>1, <2>2, <2>3 DEF Integral
  <2>5. Mirrors(n, g, f)
      BY <1>1, <2>1
  <2>6. n \in Nat
      BY <1>1
  <2> HIDE DEF f, g, Mirrors
  <2> QED BY <2>4, <2>5, <2>6, MirroredSum
<1>4. \A j, k \in D : Before(other, x, units, full, n + 1 - j, n + 1 - k)
                        <=> Before(lines, w, units, full, j, k)
  <2> SUFFICES ASSUME NEW j \in D, NEW k \in D
      PROVE  Before(other, x, units, full, n + 1 - j, n + 1 - k)
               <=> Before(lines, w, units, full, j, k)
      OBVIOUS
  <2>1. /\ other[n + 1 - j] = lines[j] /\ other[n + 1 - k] = lines[k]
        /\ x[n + 1 - j] = w[j] /\ x[n + 1 - k] = w[k]
      BY <1>1
  <2> HIDE DEF other, units
  <2> QED BY <2>1 DEF Before
<1>5. Cardinality(behind(o)) = Cardinality(before(i))
  <2> DEFINE S == before(i)
             T == behind(o)
             p == [j \in S |-> n + 1 - j]
  <2>1. \A j \in S : j \in D /\ n + 1 - j \in T
      BY <1>1, <1>4
  <2>2. \A j \in T : j \in D /\ n + 1 - j \in S
    <3> SUFFICES ASSUME NEW j \in T PROVE j \in D /\ n + 1 - j \in S
        OBVIOUS
    <3>1. j \in D /\ n + 1 - j \in D /\ n + 1 - (n + 1 - j) = j
        BY <1>1
    <3>2. Before(other, x, units, full, n + 1 - (n + 1 - j), n + 1 - i)
        BY <3>1
    <3>3. Before(lines, w, units, full, n + 1 - j, i)
        BY <1>4, <3>1, <3>2
    <3> QED BY <3>1, <3>3
  <2>3. IsFiniteSet(S)
    <3>1. IsFiniteSet(D) /\ S \in SUBSET D
        BY <1>1, FS_Interval
    <3> QED BY <3>1, FS_Subset
  <2> HIDE DEF S, T
  <2>4. p \in Bijection(S, T)
    <3>1. p \in [S -> T]
        BY <2>1
    <3>2. \A j, k \in S : p[j] = p[k] => j = k
        BY <1>1, <2>1
    <3>3. \A t \in T : \E j \in S : p[j] = t
        BY <1>1, <2>2
    <3> QED BY <3>1, <3>2, <3>3 DEF Bijection, Injection, Surjection, IsInjective
  <2>5. ExistsBijection(S, T)
      BY <2>4 DEF ExistsBijection
  <2>6. Cardinality(T) = Cardinality(S)
      BY <2>3, <2>5, FS_Bijection
  <2> QED BY <2>6 DEF S, T
<1>6. Allocate(lines, w, amount, full)[i] =
         (f[i] + Extra(units - SumFunction(f), Cardinality(before(i)))) * Unit(amount)
    BY <1>1 DEF Allocate
<1>7. Allocate(other, x, amount, full)[o] =
         (g[o] + Extra(units - SumFunction(g), Cardinality(behind(o)))) * Unit(amount)
  <2> HIDE DEF other
  <2> QED BY <1>1 DEF Allocate
<1>8. g[o] = f[i]
    BY <1>1
<1> QED BY <1>3, <1>5, <1>6, <1>7, <1>8

\* Reversing the lines leaves the rest of the question as it is.
LEMMA ReversedIs ==
    ASSUME NEW in \in Inputs
    PROVE  /\ Reversed(in).lines = Backwards(in.lines) /\ Reversed(in).bps = in.bps
           /\ Reversed(in).tenders = in.tenders /\ Reversed(in).balance = in.balance
           /\ Fixed(Reversed(in)) = Fixed(in) /\ Charged(Reversed(in)) = Charged(in)
           /\ Priced(Reversed(in)) = Priced(in)
           /\ \A m : FixedAmount(Reversed(in), m) = FixedAmount(in, m)
           /\ \A i : Repeated(Reversed(in), i) <=> Repeated(in, i)
<1>1. /\ Reversed(in).lines = Backwards(in.lines) /\ Reversed(in).bps = in.bps
      /\ Reversed(in).tenders = in.tenders /\ Reversed(in).balance = in.balance
    BY DEF Reversed, Inputs
<1> DEFINE other == Reversed(in)
<1> HIDE DEF other
<1>2. /\ other.bps = in.bps /\ other.tenders = in.tenders /\ other.balance = in.balance
    BY <1>1 DEF other
<1>3. /\ Fixed(other) = Fixed(in) /\ Priced(other) = Priced(in)
      /\ \A m : FixedAmount(other, m) = FixedAmount(in, m)
      /\ \A i : Repeated(other, i) <=> Repeated(in, i)
    BY <1>2 DEF Fixed, Priced, FixedAmount, Repeated
<1>4. Charged(other) = Charged(in)
    BY <1>2, <1>3 DEF Charged
<1> QED BY <1>1, <1>3, <1>4 DEF other

\* A method has the same full price.
LEMMA ReversedPrice ==
    ASSUME NEW in \in Inputs, NEW m \in Priced(in)
    PROVE  FullPrices(Reversed(in), m) = FullPrices(in, m)
<1>1. in.lines \in LineSets /\ in.bps[m] \in Nat
    BY InputIs DEF Priced
<1>2. Reversed(in).lines = Backwards(in.lines) /\ Reversed(in).bps = in.bps
    BY ReversedIs
<1> QED BY <1>1, <1>2, MirroredPrices DEF FullPrices

\* No price is too large in one order only.
LEMMA ReversedOverflows ==
    ASSUME NEW in \in Inputs, ~Overflows(in)
    PROVE  ~Overflows(Reversed(in))
<1> DEFINE n == Len(in.lines)
           other == Backwards(in.lines)
<1>1. in.lines \in LineSets /\ Reversed(in).lines = other /\ Reversed(in).bps = in.bps
      /\ Priced(Reversed(in)) = Priced(in)
    BY InputIs, ReversedIs
<1>2. n \in Nat /\ DOMAIN in.lines = 1 .. n /\ DOMAIN other = 1 .. n
      /\ \A i \in 1 .. n : n + 1 - i \in 1 .. n /\ other[i] = in.lines[n + 1 - i]
    BY <1>1, LinesAre DEF Backwards
<1>3. ASSUME NEW m \in Priced(in), NEW i \in 1 .. n
      PROVE  /\ ~(UnitPrice(other[i], in.bps[m]) > MAX_INT8)
             /\ ~(LineFullPrices(other, in.bps[m])[i] > MAX_INT8)
  <2> DEFINE o == n + 1 - i
  <2>1. o \in DOMAIN in.lines /\ other[i] = in.lines[o]
      BY <1>2
  <2>2. ~(UnitPrice(in.lines[o], in.bps[m]) > MAX_INT8)
        /\ ~(LineFullPrices(in.lines, in.bps[m])[o] > MAX_INT8)
    <3> HIDE DEF o
    <3> QED BY <2>1 DEF Overflows
  <2>3. LineFullPrices(other, in.bps[m])[i] = LineFullPrices(in.lines, in.bps[m])[o]
    <3> HIDE DEF o, other
    <3> QED BY <1>2, <2>1 DEF LineFullPrices
  <2> HIDE DEF o, other
  <2> QED BY <2>1, <2>2, <2>3
<1>4. ASSUME NEW m \in Priced(in) PROVE ~(FullPrices(Reversed(in), m) > MAX_INT8)
    BY ReversedPrice DEF Overflows
<1> HIDE DEF other, n
<1> QED BY <1>1, <1>2, <1>3, <1>4 DEF Overflows

\* The methods pay the same.
LEMMA ReversedAmounts ==
    ASSUME NEW in \in Inputs, Quotes(in)
    PROVE  /\ \A m \in Charged(in) : FullPrices(Reversed(in), m) = FullPrices(in, m)
           /\ Denominator(Reversed(in)) = Denominator(in) /\ Covered(Reversed(in)) = Covered(in)
           /\ Balance(Reversed(in)) = Balance(in) /\ Total(Reversed(in)) = Total(in)
           /\ \A m : Amount(Reversed(in), m) = Amount(in, m)
<1> DEFINE other == Reversed(in)
<1>1. \A m \in Charged(in) : FullPrices(other, m) = FullPrices(in, m)
  <2>1. \A m \in Charged(in) : m \in Priced(in)
      BY FixedAre, QuotedMeans DEF Priced
  <2> QED BY <2>1, ReversedPrice
<1>2. /\ other.balance = in.balance
      /\ Fixed(other) = Fixed(in) /\ Charged(other) = Charged(in)
      /\ \A m : FixedAmount(other, m) = FixedAmount(in, m)
    BY ReversedIs
<1> HIDE DEF other
<1>3. Fixed(in) \subseteq Charged(in) /\ in.balance \in Charged(in)
    BY DEF Charged
<1>4. Denominator(other) = Denominator(in)
  <2>1. [m \in Fixed(other) |-> FullPrices(other, m)] = [m \in Fixed(in) |-> FullPrices(in, m)]
      BY <1>1, <1>2, <1>3
  <2> QED BY <2>1 DEF Denominator
<1>5. Covered(other) = Covered(in)
  <2>1. ASSUME NEW m \in Fixed(in)
        PROVE  [n \in Fixed(other) \ {m} |-> FullPrices(other, n)]
                  = [n \in Fixed(in) \ {m} |-> FullPrices(in, n)]
      BY <1>1, <1>2, <1>3
  <2>2. [m \in Fixed(other) |-> FixedAmount(other, m) *
            Product([n \in Fixed(other) \ {m} |-> FullPrices(other, n)])]
          = [m \in Fixed(in) |-> FixedAmount(in, m) *
                Product([n \in Fixed(in) \ {m} |-> FullPrices(in, n)])]
      BY <1>2, <2>1, Zenon
  <2> QED BY <2>2 DEF Covered
<1>6. Balance(other) = Balance(in)
    BY <1>1, <1>2, <1>3, <1>4, <1>5 DEF Balance
<1>7. \A m : Amount(other, m) = Amount(in, m)
    BY <1>2, <1>6 DEF Amount
<1>8. Total(other) = Total(in)
    BY <1>2, <1>7 DEF Total
<1> QED BY <1>1, <1>4, <1>5, <1>6, <1>7, <1>8 DEF other

\* The share of a line does not depend on the order.
LEMMA MirroredAllocation ==
    ASSUME NEW lines \in LineSets, NEW bps \in Nat, NEW n, n = Len(lines),
           NEW amount \in Nat, NEW full \in Nat \ {0}
    PROVE  Mirrors(n,
              Allocate(Backwards(lines), LineFullPrices(Backwards(lines), bps), amount, full),
              Allocate(lines, LineFullPrices(lines, bps), amount, full))
<1> DEFINE w == LineFullPrices(lines, bps)
           x == LineFullPrices(Backwards(lines), bps)
<1>1. w \in [DOMAIN lines -> Nat] /\ DOMAIN lines = 1 .. n
    BY PricesAre, LinesAre
<1>2. DOMAIN x = 1 .. n /\ Mirrors(n, x, w)
    BY MirroredPrices
<1> HIDE DEF w, x
<1>3. w \in [1 .. n -> Nat]
    BY <1>1
<1>4. Mirrors(n, Allocate(Backwards(lines), x, amount, full), Allocate(lines, w, amount, full))
    BY <1>2, <1>3, MirroredShares
<1> QED BY <1>4 DEF w, x

\* The engine quotes the reversed sale as well.
LEMMA ReversedQuote ==
    ASSUME NEW in \in Inputs, Quotes(in)
    PROVE  ComputeProportionalQuote(Reversed(in)) =
              [outcome |-> "quoted", total |-> Total(in), balance |-> Balance(in),
               shares |-> [m \in Charged(in) |-> Shares(Reversed(in), m)]]
<1> DEFINE other == Reversed(in)
<1>1. /\ other.bps = in.bps /\ other.tenders = in.tenders /\ other.balance = in.balance
      /\ Fixed(other) = Fixed(in) /\ Charged(other) = Charged(in)
      /\ \A i : Repeated(other, i) <=> Repeated(in, i)
    BY ReversedIs
<1>2. /\ Denominator(other) = Denominator(in) /\ Covered(other) = Covered(in)
      /\ Balance(other) = Balance(in) /\ Total(other) = Total(in)
    BY ReversedAmounts
<1>3. ~Overflows(other)
    BY QuotedMeans, ReversedOverflows
<1> HIDE DEF other
<1>4. /\ ~ \E i \in DOMAIN other.tenders :
               other.tenders[i].amount > MAX_INT8 /\ \A j \in 1 .. i : ~Repeated(other, j)
      /\ ~ \E i \in DOMAIN other.tenders : Repeated(other, i)
      /\ other.balance \notin Fixed(other)
      /\ ~ \E m \in Charged(other) : other.bps[m] = None
      /\ ~(Covered(other) >= Denominator(other))
      /\ ~(Balance(other) > MAX_INT8)
      /\ ~(Balance(other) < PESO)
      /\ ~(Total(other) > MAX_INT8)
    BY <1>1, <1>2, QuotedMeans
<1>5. ComputeProportionalQuote(other) =
         [outcome |-> "quoted", total |-> Total(other), balance |-> Balance(other),
          shares |-> [m \in Charged(other) |-> Shares(other, m)]]
    BY <1>3, <1>4 DEF ComputeProportionalQuote
<1> QED BY <1>1, <1>2, <1>5 DEF other

\* The quote of the reversed sale has the shares of the quote, reversed.
LEMMA OrderFreeHolds ==
    ASSUME QuoteInv, Quoted
    PROVE  OrderFree
<1> DEFINE n == Len(input.lines)
           M == Charged(input)
           other == Reversed(input)
           q == ComputeProportionalQuote(other)
<1>1. /\ input \in Inputs /\ Quotes(input) /\ DOMAIN quote.shares = M
      /\ (\A m \in M : quote.shares[m] = Shares(input, m)) /\ quote.total = Total(input)
    BY QuoteIs
<1>2. /\ q.outcome = "quoted" /\ q.total = quote.total
      /\ \A m \in M : q.shares[m] = Shares(other, m)
    BY <1>1, ReversedQuote
<1>3. ASSUME NEW m \in M, NEW i \in 1 .. n
      PROVE  q.shares[m][n + 1 - i] = quote.shares[m][i]
  <2> DEFINE lines == input.lines
             bps == input.bps[m]
             amount == Amount(input, m)
             full == FullPrices(input, m)
  <2>1. lines \in LineSets /\ bps \in Nat
      BY <1>1, InputIs, FullPricesAre
  <2>2. amount \in Nat /\ full \in Nat \ {0}
      BY <1>1, AmountsFit
  <2>3. Shares(input, m) = Allocate(lines, LineFullPrices(lines, bps), amount, full)
      BY DEF Shares
  <2>4. Shares(other, m)
           = Allocate(Backwards(lines), LineFullPrices(Backwards(lines), bps), amount, full)
    <3>1. /\ other.lines = Backwards(lines) /\ other.bps = input.bps
          /\ Amount(other, m) = amount /\ FullPrices(other, m) = full
        BY <1>1, ReversedIs, ReversedAmounts
    <3> HIDE DEF other, amount, full, lines
    <3> QED BY <3>1 DEF Shares
  <2>5. quote.shares[m] = Shares(input, m) /\ q.shares[m] = Shares(other, m)
      BY <1>1, <1>2
  <2>6. n = Len(lines)
      OBVIOUS
  <2> HIDE DEF amount, full, lines, bps, other, q, M, n
  <2>7. Mirrors(n,
            Allocate(Backwards(lines), LineFullPrices(Backwards(lines), bps), amount, full),
            Allocate(lines, LineFullPrices(lines, bps), amount, full))
      BY <2>1, <2>2, <2>6, MirroredAllocation
  <2>8. Mirrors(n, q.shares[m], quote.shares[m])
      BY <2>3, <2>4, <2>5, <2>7
  <2> QED BY <2>8 DEF Mirrors
<1>4. other = [input EXCEPT !.lines = [i \in 1 .. n |-> input.lines[n + 1 - i]]]
    BY DEF Reversed, Backwards
<1> HIDE DEF other, n, M
<1> QED BY <1>1, <1>2, <1>3, <1>4 DEF OrderFree, n

-----------------------------------------------------------------------------
(* Every quote the engine gives *)

\* A quote is the engine's answer to its question.
LEMMA QuoteInvHolds == QuoteSpec => []QuoteInv
<1>1. QuoteInit => QuoteInv
    BY DEF QuoteInit, QuoteInv
<1>2. QuoteInv /\ [QuoteNext]_quoteVars => QuoteInv'
  <2> SUFFICES ASSUME QuoteInv, [QuoteNext]_quoteVars PROVE QuoteInv'
      OBVIOUS
  <2>1. CASE Ask
      BY <2>1 DEF QuoteInv, Ask
  <2>2. CASE UNCHANGED quoteVars
      BY <2>2 DEF QuoteInv, quoteVars
  <2> QED BY <2>1, <2>2 DEF QuoteNext
<1> QED BY <1>1, <1>2, PTL DEF QuoteSpec

\* Whatever is asked of the engine, its quote adds up to the total, gives each line its
\* fair share, depends on no order of the lines, lies between the prices of the
\* methods used, and is the method's own price when there is only one.
THEOREM QuoteAlwaysRight == QuoteSpec => []QuoteRight
<1>1. QuoteInv => QuoteRight
  <2> SUFFICES ASSUME QuoteInv PROVE QuoteRight
      OBVIOUS
  <2>1. CASE Quoted
      BY <2>1, NeverInconsistentHolds, FairShareHolds, OrderFreeHolds, BetweenMethodsHolds,
         OneMethodPriceHolds DEF QuoteRight
  <2>2. CASE ~Quoted
      BY <2>2 DEF QuoteRight, NeverInconsistent, FairShare, OrderFree, BetweenMethods,
         OneMethodPrice
  <2> QED BY <2>1, <2>2
<1> QED BY <1>1, QuoteInvHolds, PTL

-----------------------------------------------------------------------------
(* The amounts of a sale *)

\* What the row of a sale may hold.
SaleRows ==
    [status : Statuses, model : Models, pricingMode : Tiers, priceMode : PriceModes,
     lines : [Variants -> Line \cup {NoLine}], total : Nat, paid : Nat,
     confirmedBy : Cashiers \cup {Nobody}]

\* A sale takes no more than its total.
PaidWithinTotal == sale.paid <= sale.total

AmountsInv == TypeOK /\ PaidWithinTotal /\ PricingInv

\* The unit price of a line is a natural number of the catalog's.
LEMMA UnitPriceTyped ==
    ASSUME TypeOK, NEW tier \in Tiers, NEW prices \in PriceLists, NEW mode \in PriceModes,
           BasePrice(tier, prices) # NoPrice
    PROVE  UnitPriceFor(tier, prices, mode) \in SnapshotsOfPrice
<1> DEFINE base == BasePrice(tier, prices)
           bps == IF mode = "CASH" THEN 0 ELSE config[mode]
           a == base * (BASIS_POINTS + bps)
           half == BASIS_POINTS \div 2
<1>1. base \in Nat
    BY PricesAssumption DEF BasePrice, Tiers
<1>2. bps \in Nat /\ BASIS_POINTS \in Nat \ {0} /\ BASIS_POINTS + bps \in Nat
  <2>1. config[mode] \in Adjustments \cup {0}
      BY DEF TypeOK
  <2>2. Adjustments \subseteq Nat
      BY PricesAssumption
  <2>3. CASE mode = "CASH"
    <3>1. bps = 0
        BY <2>3
    <3> QED BY <3>1, PricesAssumption
  <2>4. CASE mode # "CASH"
    <3>1. bps = config[mode]
        BY <2>4
    <3>2. bps \in Adjustments \cup {0}
        BY <2>1, <3>1
    <3> HIDE DEF bps
    <3>3. bps \in Nat
      <4>1. CASE bps = 0
          BY <4>1
      <4>2. CASE bps \in Adjustments
          BY <2>2, <4>2
      <4> QED BY <3>2, <4>1, <4>2, Zenon
    <3> QED BY <3>3, PricesAssumption
  <2> QED BY <2>3, <2>4
<1>3. a \in Nat /\ half \in Nat
  <2>1. half \in Nat
      BY <1>2
  <2> HIDE DEF base, bps
  <2> QED BY <1>1, <1>2, <2>1, ProductNatural
<1>4. RoundHalfUpBps(base, bps) = (a + half) \div BASIS_POINTS
    BY DEF RoundHalfUpBps
<1>5. RoundHalfUpBps(base, bps) \in Nat
  <2> HIDE DEF a, half, base, bps
  <2>1. a + half \in Nat
      BY <1>3
  <2> QED BY <1>2, <1>4, <2>1, Division
<1> QED BY <1>1, <1>5 DEF UnitPriceFor, SnapshotsOfPrice

\* A line of a bounded quantity at a snapshot of a price is one the sale may hold.
LEMMA LineTyped ==
    ASSUME NEW quantity \in 1..MaxQuantity, NEW price \in SnapshotsOfPrice
    PROVE  LineOf(quantity, price) \in Line
<1>1. quantity \in Nat /\ price.unit \in Nat
    BY QuantitiesAssumption DEF SnapshotsOfPrice
<1>2. quantity * price.unit \in Nat
  <2> DEFINE unit == price.unit
  <2>1. unit \in Nat
      BY <1>1
  <2> HIDE DEF unit
  <2>2. quantity * unit \in Nat
      BY <1>1, <2>1, ProductNatural
  <2> QED BY <2>2 DEF unit
<1> QED BY <1>2 DEF LineOf, Line

\* The total is the library's sum of the subtotals.
LEMMA TotalIsSum ==
    ASSUME NEW lines
    PROVE  RecalculatedTotal(lines)
              = SumFunctionOnSet([v \in Carried(lines) |-> lines[v].subtotal], Carried(lines))
<1> DEFINE C == Carried(lines)
           f == [v \in C |-> lines[v].subtotal]
           OfFunction(g) ==
              g = [r \in SUBSET C |->
                      IF r = {} THEN 0 ELSE LET x == CHOOSE x \in r : TRUE IN f[x] + g[r \ {x}]]
           OfLines(g) ==
              g = [r \in SUBSET C |->
                      IF r = {} THEN 0
                      ELSE LET x == CHOOSE x \in r : TRUE IN lines[x].subtotal + g[r \ {x}]]
<1>1. ASSUME NEW g, NEW r \in SUBSET C
      PROVE  (IF r = {} THEN 0 ELSE LET x == CHOOSE x \in r : TRUE IN f[x] + g[r \ {x}])
               = (IF r = {} THEN 0
                  ELSE LET x == CHOOSE x \in r : TRUE IN lines[x].subtotal + g[r \ {x}])
  <2>1. CASE r = {}
      BY <2>1
  <2>2. ASSUME NEW x \in r, x = CHOOSE y \in r : TRUE
        PROVE  f[x] = lines[x].subtotal
      BY <2>2
  <2> HIDE DEF f, C
  <2> QED BY <2>1, <2>2
<1>2. ASSUME NEW g PROVE OfFunction(g) <=> OfLines(g)
  <2> HIDE DEF f, C
  <2> QED BY <1>1
<1>3. SumFunctionOnSet(f, C) = (CHOOSE g : OfFunction(g))[C]
    BY DEF SumFunctionOnSet, FoldFunctionOnSet, MapThenFoldSet
<1>4. RecalculatedTotal(lines) = (CHOOSE g : OfLines(g))[C]
    BY DEF RecalculatedTotal, MapThenSumSet, MapThenFoldSet
<1> HIDE DEF OfFunction, OfLines, C, f
<1> QED BY <1>2, <1>3, <1>4 DEF C, f

\* With its lines replaced and its total recalculated, the row keeps its types.
LEMMA LinesTyped ==
    ASSUME TypeOK, IsFiniteSet(Variants), NEW lines \in [Variants -> Line \cup {NoLine}]
    PROVE  WithLines(lines) \in SaleRows
<1> DEFINE C == Carried(lines)
           f == [v \in C |-> lines[v].subtotal]
<1>1. IsFiniteSet(C)
    BY FS_Subset DEF Carried
<1>2. \A v \in C : f[v] \in Nat
    BY DEF Carried, Line
<1>3. SumFunctionOnSet(f, C) \in Nat
  <2> HIDE DEF C, f
  <2> QED BY <1>1, <1>2, SumNonnegative
<1>4. RecalculatedTotal(lines) \in Nat
    BY <1>3, TotalIsSum
<1> QED BY <1>4 DEF TypeOK, WithLines, SaleRows

\* Initially there is no line and no money.
LEMMA InitAmounts == IsFiniteSet(Variants) /\ Init => AmountsInv
<1> SUFFICES ASSUME Init PROVE AmountsInv
    OBVIOUS
<1>1. TypeOK
    BY DEF Init, TypeOK, Models, Statuses, Tiers, PriceModes
<1>2. PaidWithinTotal
    BY DEF Init, PaidWithinTotal
<1> QED BY <1>1, <1>2, InitPricing DEF AmountsInv

\* A sale whose lines are rewritten was not charged yet.
LEMMA RewrittenAmounts ==
    ASSUME AmountsInv, IsFiniteSet(Variants), sale.paid = 0,
           NEW lines \in [Variants -> Line \cup {NoLine}],
           NEW tier \in Tiers, NEW mode \in PriceModes, NEW confirmer \in Cashiers \cup {Nobody},
           sale' = [WithLines(lines) EXCEPT !.pricingMode = tier, !.priceMode = mode,
                                            !.confirmedBy = confirmer]
    PROVE  sale' \in SaleRows /\ PaidWithinTotal'
<1>1. WithLines(lines) \in SaleRows /\ WithLines(lines).paid = 0
    BY LinesTyped DEF AmountsInv, WithLines, TypeOK
<1> DEFINE row == WithLines(lines)
<1> HIDE DEF row
<1>2. row \in SaleRows /\ row.paid = 0
      /\ sale' = [row EXCEPT !.pricingMode = tier, !.priceMode = mode, !.confirmedBy = confirmer]
    BY <1>1 DEF row
<1>3. sale' \in SaleRows
    BY <1>2 DEF SaleRows
<1>4. sale'.paid = 0 /\ sale'.total \in Nat
    BY <1>2 DEF SaleRows
<1> QED BY <1>3, <1>4 DEF PaidWithinTotal

\* The lines that the edits, the repricings and the corrections write.
LEMMA WrittenLines ==
    ASSUME AmountsInv
    PROVE  /\ \A c \in Clients, q \in Quantities :
                 LET r == request[c] IN
                 /\ (/\ r # NoRequest /\ sale.lines[r.variant] # NoLine
                     /\ sale.lines[r.variant].quantity + q <= MaxQuantity)
                       => [sale.lines EXCEPT ![r.variant] = LineOf(@.quantity + q, @.price)]
                             \in [Variants -> Line \cup {NoLine}]
                 /\ r # NoRequest /\ BasePrice(sale.pricingMode, r.prices) # NoPrice
                       => [sale.lines EXCEPT ![r.variant] = LineOf(q, PriceOfNew(r))]
                             \in [Variants -> Line \cup {NoLine}]
                 /\ r # NoRequest /\ sale.lines[r.variant] # NoLine
                       => [sale.lines EXCEPT ![r.variant] = UpdatedLine(r, q)]
                             \in [Variants -> Line \cup {NoLine}]
           /\ \A tier \in Tiers, mode \in PriceModes :
                 MayReprice(tier) => Repriced(tier, mode) \in [Variants -> Line \cup {NoLine}]
           /\ \A quantity \in [Variants -> Quantities \cup {0}] :
                 (\A v \in Variants \ Carried(sale.lines) :
                     quantity[v] > 0 => BasePrice(sale.pricingMode, catalog[v]) # NoPrice)
                   => Corrected(quantity) \in [Variants -> Line \cup {NoLine}]
<1>1. TypeOK
    BY DEF AmountsInv
<1>2. /\ sale.lines \in [Variants -> Line \cup {NoLine}] /\ sale.pricingMode \in Tiers
      /\ sale.priceMode \in PriceModes /\ catalog \in [Variants -> PriceLists]
    BY <1>1 DEF TypeOK
<1>3. ASSUME NEW c \in Clients, request[c] # NoRequest
      PROVE  request[c].variant \in Variants /\ request[c].prices \in PriceLists
    BY <1>1, <1>3 DEF TypeOK, Requests
<1>4. ASSUME NEW v \in Variants, sale.lines[v] # NoLine
      PROVE  sale.lines[v].quantity \in 1..MaxQuantity /\ sale.lines[v].price \in SnapshotsOfPrice
    BY <1>2, <1>4 DEF Line
<1>5. ASSUME NEW q \in Quantities PROVE q \in 1..MaxQuantity
    BY QuantitiesAssumption
<1>6. ASSUME NEW c \in Clients, NEW q \in Quantities, request[c] # NoRequest,
             sale.lines[request[c].variant] # NoLine,
             sale.lines[request[c].variant].quantity + q <= MaxQuantity
      PROVE  [sale.lines EXCEPT ![request[c].variant] = LineOf(@.quantity + q, @.price)]
                \in [Variants -> Line \cup {NoLine}]
  <2> DEFINE v == request[c].variant
  <2>1. v \in Variants /\ sale.lines[v].quantity + q \in 1..MaxQuantity
        /\ sale.lines[v].price \in SnapshotsOfPrice
      BY <1>3, <1>4, <1>5, <1>6, QuantitiesAssumption
  <2>2. LineOf(sale.lines[v].quantity + q, sale.lines[v].price) \in Line
      BY <2>1, LineTyped
  <2> QED BY <1>2, <2>1, <2>2
<1>7. ASSUME NEW c \in Clients, NEW q \in Quantities, request[c] # NoRequest,
             BasePrice(sale.pricingMode, request[c].prices) # NoPrice
      PROVE  [sale.lines EXCEPT ![request[c].variant] = LineOf(q, PriceOfNew(request[c]))]
                \in [Variants -> Line \cup {NoLine}]
  <2>1. PriceOfNew(request[c]) \in SnapshotsOfPrice
      BY <1>1, <1>2, <1>3, <1>7, UnitPriceTyped DEF PriceOfNew
  <2>2. LineOf(q, PriceOfNew(request[c])) \in Line
      BY <1>5, <2>1, LineTyped
  <2> QED BY <1>2, <2>2
<1>8. ASSUME NEW c \in Clients, NEW q \in Quantities, request[c] # NoRequest,
             sale.lines[request[c].variant] # NoLine
      PROVE  [sale.lines EXCEPT ![request[c].variant] = UpdatedLine(request[c], q)]
                \in [Variants -> Line \cup {NoLine}]
  <2>1. UpdatedLine(request[c], q) \in Line
      BY <1>3, <1>4, <1>5, <1>8, LineTyped DEF UpdatedLine
  <2> QED BY <1>2, <2>1
<1>9. ASSUME NEW tier \in Tiers, NEW mode \in PriceModes, MayReprice(tier)
      PROVE  Repriced(tier, mode) \in [Variants -> Line \cup {NoLine}]
  <2>1. ASSUME NEW v \in Variants, sale.lines[v] # NoLine
        PROVE  LineOf(sale.lines[v].quantity, UnitPriceFor(tier, catalog[v], mode)) \in Line
    <3>1. BasePrice(tier, catalog[v]) # NoPrice /\ catalog[v] \in PriceLists
        BY <1>2, <1>9, <2>1 DEF MayReprice, Carried
    <3>2. UnitPriceFor(tier, catalog[v], mode) \in SnapshotsOfPrice
        BY <1>1, <3>1, UnitPriceTyped
    <3> QED BY <1>4, <2>1, <3>2, LineTyped
  <2> QED BY <2>1 DEF Repriced
<1>10. ASSUME NEW quantity \in [Variants -> Quantities \cup {0}],
              \A v \in Variants \ Carried(sale.lines) :
                 quantity[v] > 0 => BasePrice(sale.pricingMode, catalog[v]) # NoPrice
       PROVE  Corrected(quantity) \in [Variants -> Line \cup {NoLine}]
  <2>1. ASSUME NEW v \in Variants, quantity[v] # 0
        PROVE  LineOf(quantity[v],
                      IF sale.lines[v] # NoLine THEN sale.lines[v].price
                      ELSE UnitPriceFor(sale.pricingMode, catalog[v], sale.priceMode)) \in Line
    <3>1. quantity[v] \in Quantities /\ quantity[v] \in 1..MaxQuantity /\ quantity[v] > 0
      <4>1. quantity[v] \in Quantities
          BY <2>1
      <4>2. quantity[v] \in 1..MaxQuantity
          BY <1>5, <4>1
      <4> QED BY <4>1, <4>2, QuantitiesAssumption
    <3>2. CASE sale.lines[v] # NoLine
        BY <1>4, <3>1, <3>2, LineTyped
    <3>3. CASE sale.lines[v] = NoLine
      <4>1. BasePrice(sale.pricingMode, catalog[v]) # NoPrice /\ catalog[v] \in PriceLists
          BY <1>2, <1>10, <3>1, <3>3 DEF Carried
      <4>2. UnitPriceFor(sale.pricingMode, catalog[v], sale.priceMode) \in SnapshotsOfPrice
          BY <1>1, <1>2, <4>1, UnitPriceTyped
      <4> QED BY <3>1, <3>3, <4>2, LineTyped
    <3> QED BY <3>2, <3>3
  <2> QED BY <2>1 DEF Corrected
<1> QED BY <1>6, <1>7, <1>8, <1>9, <1>10

\* Each action keeps the types, and what was paid within the total.
LEMMA AmountsStep == IsFiniteSet(Variants) /\ AmountsInv /\ [Next]_vars => AmountsInv'
<1> SUFFICES ASSUME IsFiniteSet(Variants), AmountsInv, [Next]_vars PROVE AmountsInv'
    OBVIOUS
<1> DEFINE Others == /\ catalog' \in [Variants -> PriceLists]
                     /\ config' \in [PriceModes -> Adjustments \cup {0}]
                     /\ request' \in [Clients -> Requests \cup {NoRequest}]
                     /\ confirmedLines' \in [Variants -> Line \cup {NoLine}]
           Goal == sale' \in SaleRows /\ PaidWithinTotal' /\ Others
<1>1. /\ sale \in SaleRows /\ sale.paid <= sale.total
      /\ catalog \in [Variants -> PriceLists]
      /\ config \in [PriceModes -> Adjustments \cup {0}]
      /\ request \in [Clients -> Requests \cup {NoRequest}]
      /\ confirmedLines \in [Variants -> Line \cup {NoLine}]
    BY DEF AmountsInv, TypeOK, PaidWithinTotal, SaleRows
<1>2. /\ sale.pricingMode \in Tiers /\ sale.priceMode \in PriceModes
      /\ sale.confirmedBy \in Cashiers \cup {Nobody} /\ sale.paid \in Nat /\ sale.total \in Nat
      /\ sale.lines \in [Variants -> Line \cup {NoLine}]
    BY <1>1 DEF SaleRows
<1>3. sale.status = "DRAFT" => sale.paid = 0 /\ sale.confirmedBy = Nobody
    BY DEF AmountsInv, PricingInv, DraftIsFresh
<1>4. ASSUME NEW lines \in [Variants -> Line \cup {NoLine}], sale.paid = 0,
             sale' = WithLines(lines)
      PROVE  sale' \in SaleRows /\ PaidWithinTotal'
  <2>1. sale' = [WithLines(lines) EXCEPT !.pricingMode = sale.pricingMode,
                    !.priceMode = sale.priceMode, !.confirmedBy = sale.confirmedBy]
    <3> DEFINE row == WithLines(lines)
    <3>1. /\ row.pricingMode = sale.pricingMode /\ row.priceMode = sale.priceMode
          /\ row.confirmedBy = sale.confirmedBy
          /\ row \in SaleRows
        BY <1>1, LinesTyped DEF WithLines, SaleRows, AmountsInv
    <3> HIDE DEF row
    <3>2. row = [row EXCEPT !.pricingMode = sale.pricingMode,
                    !.priceMode = sale.priceMode, !.confirmedBy = sale.confirmedBy]
        BY <3>1 DEF SaleRows
    <3> QED BY <1>4, <3>2 DEF row
  <2> DEFINE tier == sale.pricingMode
             mode == sale.priceMode
             confirmer == sale.confirmedBy
  <2>2. tier \in Tiers /\ mode \in PriceModes /\ confirmer \in Cashiers \cup {Nobody}
      BY <1>2
  <2> HIDE DEF tier, mode, confirmer
  <2>3. sale' = [WithLines(lines) EXCEPT !.pricingMode = tier, !.priceMode = mode,
                                         !.confirmedBy = confirmer]
      BY <2>1 DEF tier, mode, confirmer
  <2> QED BY <1>4, <2>2, <2>3, RewrittenAmounts
<1>5. ASSUME NEW c \in Clients, NEW kind \in {"add", "update"}, NEW v \in Variants,
             Prepare(c, kind, v)
      PROVE  Goal
    BY <1>1, <1>2, <1>5 DEF Prepare, Requests, PaidWithinTotal
<1>6. ASSUME NEW c \in Clients, NEW q \in Quantities, AddItem(c, q)
      PROVE  Goal
  <2>1. PICK lines \in [Variants -> Line \cup {NoLine}] : sale' = WithLines(lines)
    <3>1. CASE sale.lines[request[c].variant] # NoLine
        BY <1>6, <3>1, WrittenLines DEF AddItem
    <3>2. CASE sale.lines[request[c].variant] = NoLine
        BY <1>6, <3>2, WrittenLines DEF AddItem
    <3> QED BY <3>1, <3>2
  <2>2. Others
      BY <1>1, <1>6 DEF AddItem
  <2> QED BY <1>3, <1>4, <1>6, <2>1, <2>2 DEF AddItem
<1>7. ASSUME NEW c \in Clients, NEW q \in Quantities, UpdateItem(c, q)
      PROVE  Goal
  <2>1. PICK lines \in [Variants -> Line \cup {NoLine}] : sale' = WithLines(lines)
      BY <1>7, WrittenLines DEF UpdateItem
  <2>2. Others
      BY <1>1, <1>7 DEF UpdateItem
  <2> QED BY <1>3, <1>4, <1>7, <2>1, <2>2 DEF UpdateItem
<1>8. ASSUME NEW c \in Clients, RefuseItem(c)
      PROVE  Goal
    BY <1>1, <1>8 DEF RefuseItem, PaidWithinTotal
<1>9. ASSUME NEW v \in Variants, RemoveItem(v)
      PROVE  Goal
  <2>1. PICK lines \in [Variants -> Line \cup {NoLine}] : sale' = WithLines(lines)
      BY <1>2, <1>9 DEF RemoveItem
  <2>2. Others
      BY <1>1, <1>9 DEF RemoveItem
  <2> QED BY <1>3, <1>4, <1>9, <2>1, <2>2 DEF RemoveItem
<1>10. ASSUME ActivateWholesale
       PROVE  Goal
  <2>1. Repriced("WHOLESALE", sale.priceMode) \in [Variants -> Line \cup {NoLine}]
        /\ "WHOLESALE" \in Tiers
      BY <1>2, <1>10, WrittenLines DEF ActivateWholesale, Tiers
  <2> DEFINE lines == Repriced("WHOLESALE", sale.priceMode)
             row == WithLines(lines)
  <2>2. sale' = [row EXCEPT !.pricingMode = "WHOLESALE"]
      BY <1>10 DEF ActivateWholesale
  <2>3. row \in SaleRows /\ row.priceMode = sale.priceMode /\ row.confirmedBy = sale.confirmedBy
    <3> HIDE DEF lines
    <3> QED BY <1>1, <2>1, LinesTyped DEF WithLines, SaleRows, AmountsInv, lines
  <2> HIDE DEF row, lines
  <2>4. sale' = [row EXCEPT !.pricingMode = "WHOLESALE", !.priceMode = sale.priceMode,
                            !.confirmedBy = sale.confirmedBy]
      BY <2>2, <2>3 DEF SaleRows
  <2>5. sale' \in SaleRows /\ PaidWithinTotal'
    <3>1. sale.status = "DRAFT"
        BY <1>10 DEF ActivateWholesale
    <3>2. lines \in [Variants -> Line \cup {NoLine}] /\ row = WithLines(lines)
        BY <2>1 DEF row, lines
    <3> QED BY <1>2, <1>3, <2>1, <2>4, <3>1, <3>2, RewrittenAmounts
  <2> QED BY <1>1, <1>10, <2>5 DEF ActivateWholesale
<1>11. ASSUME NEW m \in PriceModes, UpdatePriceMode(m)
       PROVE  Goal
  <2> DEFINE lines == Repriced(sale.pricingMode, m)
             row == WithLines(lines)
  <2>1. lines \in [Variants -> Line \cup {NoLine}]
      BY <1>2, <1>11, WrittenLines DEF UpdatePriceMode
  <2>2. sale' = [row EXCEPT !.priceMode = m,
                    !.confirmedBy = IF sale.pricingMode = "WHOLESALE" THEN Nobody ELSE @]
      BY <1>11 DEF UpdatePriceMode
  <2>3. row \in SaleRows /\ row.pricingMode = sale.pricingMode /\ row.confirmedBy = sale.confirmedBy
    <3> HIDE DEF lines
    <3> QED BY <1>1, <2>1, LinesTyped DEF WithLines, SaleRows, AmountsInv
  <2>4. sale.paid = 0 /\ sale.confirmedBy = Nobody
      BY <1>3, <1>11 DEF UpdatePriceMode
  <2> HIDE DEF row
  <2>5. sale' = [row EXCEPT !.pricingMode = sale.pricingMode, !.priceMode = m,
                            !.confirmedBy = Nobody]
      BY <2>2, <2>3, <2>4 DEF SaleRows
  <2> HIDE DEF lines
  <2>6. sale' \in SaleRows /\ PaidWithinTotal'
      BY <1>2, <2>1, <2>4, <2>5, RewrittenAmounts DEF row
  <2> QED BY <1>1, <1>11, <2>6 DEF UpdatePriceMode
<1>12. ASSUME NEW quantity \in [Variants -> Quantities \cup {0}], CorrectPendingSale(quantity)
       PROVE  Goal
  <2> DEFINE lines == Corrected(quantity)
             row == WithLines(lines)
             confirmer == ConfirmationAfterCorrection
  <2>1. lines \in [Variants -> Line \cup {NoLine}] /\ sale.paid = 0
      BY <1>12, WrittenLines DEF CorrectPendingSale, MayCorrect
  <2>2. sale' = [row EXCEPT !.confirmedBy = confirmer]
      BY <1>12 DEF CorrectPendingSale
  <2>3. row \in SaleRows /\ row.pricingMode = sale.pricingMode /\ row.priceMode = sale.priceMode
    <3> HIDE DEF lines
    <3> QED BY <1>1, <2>1, LinesTyped DEF WithLines, SaleRows, AmountsInv
  <2>4. confirmer \in Cashiers \cup {Nobody}
      BY <1>2 DEF ConfirmationAfterCorrection
  <2> HIDE DEF row, confirmer
  <2>5. sale' = [row EXCEPT !.pricingMode = sale.pricingMode, !.priceMode = sale.priceMode,
                            !.confirmedBy = confirmer]
      BY <2>2, <2>3 DEF SaleRows
  <2> HIDE DEF lines
  <2>6. sale' \in SaleRows /\ PaidWithinTotal'
      BY <1>2, <2>1, <2>4, <2>5, RewrittenAmounts DEF row
  <2> QED BY <1>1, <1>12, <2>6 DEF CorrectPendingSale
<1>13. ASSUME NEW u \in Cashiers, ConfirmWholesale(u)
       PROVE  Goal
  <2>1. sale' = [sale EXCEPT !.confirmedBy = u]
      BY <1>13 DEF ConfirmWholesale
  <2>2. sale' \in SaleRows /\ sale'.paid = sale.paid /\ sale'.total = sale.total
      BY <1>1, <2>1 DEF SaleRows
  <2> QED BY <1>1, <1>2, <1>13, <2>2 DEF ConfirmWholesale, PaidWithinTotal
<1>14. ASSUME SendToCashier \/ CancelSale \/ CompleteSale
       PROVE  Goal
  <2>1. PICK status \in Statuses : sale' = [sale EXCEPT !.status = status]
      BY <1>14 DEF SendToCashier, CancelSale, CompleteSale, Statuses
  <2>2. sale' \in SaleRows /\ sale'.paid = sale.paid /\ sale'.total = sale.total
      BY <1>1, <2>1 DEF SaleRows
  <2> QED BY <1>1, <1>14, <2>2 DEF SendToCashier, CancelSale, CompleteSale, PaidWithinTotal
<1>15. ASSUME NEW amount \in PartPayments \cup {sale.total - sale.paid}, RegisterPayment(amount)
       PROVE  Goal
  <2>1. amount \in Nat /\ sale.paid + amount \in Nat /\ sale.paid + amount <= sale.total
    <3>1. amount \in Nat
      <4>1. PartPayments \subseteq Nat
          BY QuantitiesAssumption
      <4>2. sale.total - sale.paid \in Nat
          BY <1>1, <1>2
      <4> QED BY <4>1, <4>2
    <3> QED BY <1>2, <1>15, <3>1 DEF RegisterPayment
  <2>2. PICK status \in Statuses :
            sale' = [sale EXCEPT !.paid = sale.paid + amount, !.status = status]
    <3>1. sale' = [sale EXCEPT !.paid = sale.paid + amount,
                      !.status = IF sale.paid + amount = sale.total THEN "PAID" ELSE sale.status]
        BY <1>1, <1>15 DEF RegisterPayment, SaleRows
    <3>2. sale.status \in Statuses /\ "PAID" \in Statuses
        BY <1>1 DEF SaleRows, Statuses
    <3> QED BY <3>1, <3>2
  <2>3. /\ sale' \in SaleRows /\ sale'.paid = sale.paid + amount /\ sale'.total = sale.total
      BY <1>1, <2>1, <2>2 DEF SaleRows
  <2> QED BY <1>1, <1>15, <2>1, <2>3 DEF RegisterPayment, PaidWithinTotal
<1>16. ASSUME ConfirmAttempt
       PROVE  Goal
  <2>1. sale' = [sale EXCEPT !.paid = sale.total, !.status = "COMPLETED"]
      BY <1>16 DEF ConfirmAttempt
  <2>2. sale' \in SaleRows /\ sale'.paid = sale.total /\ sale'.total = sale.total
      BY <1>1, <1>2, <2>1 DEF SaleRows, Statuses
  <2> QED BY <1>1, <1>2, <1>16, <2>2 DEF ConfirmAttempt, PaidWithinTotal
<1>17. ASSUME PriceStep
       PROVE  Goal
    BY <1>1, <1>17 DEF PriceStep, UpdateVariantPrice, UpdateConfig, PaidWithinTotal
<1>18. ASSUME UNCHANGED vars
       PROVE  Goal
    BY <1>1, <1>18 DEF vars, PaidWithinTotal
<1>19. Goal
  <2> HIDE DEF Goal
  <2>1. CASE EditStep
      BY <1>5, <1>6, <1>7, <1>8, <1>9, <2>1 DEF EditStep
  <2>2. CASE SaleStep
      BY <1>10, <1>11, <1>12, <1>13, <1>14, <1>15, <1>16, <2>2 DEF SaleStep
  <2> QED BY <1>17, <1>18, <2>1, <2>2 DEF Next
<1>20. PricingInv'
    BY PricingStep DEF AmountsInv
<1>21. TypeOK'
    BY <1>19 DEF TypeOK, SaleRows
<1> QED BY <1>19, <1>20, <1>21 DEF AmountsInv

\* Of a catalog with finitely many variants, the rows keep their types: totals are natural
\* numbers, and what was paid never exceeds them.
THEOREM TypeCorrect ==
    ASSUME IsFiniteSet(Variants)
    PROVE  Spec => [](TypeOK /\ PaidWithinTotal)
<1>1. Init => AmountsInv
    BY InitAmounts
<1>2. AmountsInv /\ [Next]_vars => AmountsInv'
    BY AmountsStep
<1>3. AmountsInv => TypeOK /\ PaidWithinTotal
    BY DEF AmountsInv
<1> QED BY <1>1, <1>2, <1>3, PTL DEF Spec
=============================================================================
