--------------------------- MODULE CheckoutProofs ---------------------------
(***************************************************************************)
(* Theorems about Checkout, for any number of sales, attempts, methods and *)
(* sessions.  They do not unfold the arithmetic of a quote: an attempt     *)
(* keeps what it sealed, and equal prices give equal quotes.               *)
(***************************************************************************)
EXTENDS Checkout, TLAPS

-----------------------------------------------------------------------------
(* The invariant *)

States == {"NONE", "RESERVED", "REJECTED", "ABANDONED", "CONFIRMED"}
Collections == {"NONE", "UNAPPLIED", "APPLIED", "REFUNDED"}

Used(k) == state[k] # "NONE"

\* The part of TypeOK that does not speak of amounts.
Shape ==
    /\ status \in [Sales -> {"PENDING_PAYMENT", "COMPLETED", "CANCELLED"}]
    /\ state \in [Keys -> States]
    /\ declared \in [Keys -> BOOLEAN]
    /\ charged \in [Charges -> References \cup {NoReference}]
    /\ collected \in [Charges -> Collections]
    /\ claim \in [Charges -> Keys \cup {NoAttempt}]
    /\ DOMAIN attempt = Keys
    /\ attempt = [k \in Keys |-> attempt[k]]
    /\ DOMAIN paid = Sales
    /\ \A k \in Keys : Used(k) => attempt[k].sale \in Sales /\ attempt[k].plan \in Plans

\* A declared attempt is closed, and a closed attempt that was not rejected is not open.
DeclaredIsClosed == \A k \in Keys : declared[k] => state[k] \in {"REJECTED", "ABANDONED"}

\* A charge is made for a new tender of a reserved attempt, and recorded only if it was made.
ChargesPlanned ==
    \A c \in Charges :
        /\ charged[c] # NoReference => Used(c[1]) /\ c \in NewCharges(c[1])
        /\ collected[c] # "NONE" => charged[c] # NoReference /\ ~ Open(c[1])

\* The collections a plan claims exist and were originated by its sale.
ClaimsOfSale ==
    \A k \in Keys : Used(k) =>
        \A c \in attempt[k].plan.claims : Used(c[1]) /\ OriginSale(c) = attempt[k].sale

\* While an attempt is open its plan holds every unapplied collection of the sale.
NothingLeftOut ==
    \A k \in Keys : Open(k) => Unapplied(attempt[k].sale) \subseteq attempt[k].plan.claims

\* A collection is applied by the confirmed attempt of its sale that charged or claimed it.
AppliedBySettlement ==
    \A c \in Charges : collected[c] = "APPLIED" =>
        \E k \in Keys : /\ state[k] = "CONFIRMED" /\ attempt[k].sale = OriginSale(c)
                        /\ c \in NewCharges(k) \cup attempt[k].plan.claims

\* A settled sale is not being charged.
SettledIsClosed == \A k \in Keys : Open(k) => status[attempt[k].sale] # "COMPLETED"

ChargeInv ==
    /\ Shape
    /\ DeclaredIsClosed
    /\ ChargesPlanned
    /\ ClaimsOfSale
    /\ NothingLeftOut
    /\ AppliedBySettlement
    /\ SettledIsClosed
    /\ OneOpenAttempt
    /\ ClaimsHeld
    /\ PaidOnce
    /\ NoMoneyForgotten
    /\ NoDoubleCharge

-----------------------------------------------------------------------------
(* What the definitions give when the attempts stay *)

LEMMA NewChargesType ==
    ASSUME NEW k \in Keys, NEW c \in NewCharges(k)
    PROVE  c \in Charges /\ c[1] = k
BY DEF NewCharges, Charges

LEMMA ChargeParts == \A c \in Charges : c[1] \in Keys /\ c[2] \in External /\ c = <<c[1], c[2]>>
BY DEF Charges

LEMMA ClaimsType == \A p \in Plans : p.claims \subseteq Charges
BY DEF Plans

\* An attempt whose row and whose claims' rows are kept keeps its charges and its total.
LEMMA SameNewCharges ==
    ASSUME NEW k \in Keys, attempt'[k] = attempt[k]
    PROVE  NewCharges(k)' = NewCharges(k)
BY DEF NewCharges

LEMMA SameTotal ==
    ASSUME NEW k \in Keys, attempt[k].plan \in Plans, attempt'[k] = attempt[k],
           \A c \in attempt[k].plan.claims : attempt'[c[1]] = attempt[c[1]]
    PROVE  AttemptTotal(k)' = AttemptTotal(k)
<1> DEFINE p == attempt[k].plan
<1>1. \A c \in p.claims : ChargeAmount(c)' = ChargeAmount(c)
  BY DEF ChargeAmount
<1>2. FixedTenders(p)' = FixedTenders(p)
  <2>1. \A m \in FixedMethods(p) :
           p.fixed[m] > 0 \/ (CHOOSE c \in ClaimOf(p, m) : TRUE) \in p.claims
    BY DEF FixedMethods, ClaimOf
  <2> QED BY <1>1, <2>1 DEF FixedTenders
<1>3. Tenders(k)' = Tenders(k)
  BY <1>2 DEF Tenders
<1> QED BY <1>3 DEF AttemptTotal

-----------------------------------------------------------------------------
(* Initially *)

LEMMA ChargeInit == Init => ChargeInv
<1> SUFFICES ASSUME Init PROVE ChargeInv
  OBVIOUS
<1> USE ChargeParts DEF Init, Used, Open
<1>1. Shape
  BY DEF Shape, States, Collections
<1>2. DeclaredIsClosed /\ OneOpenAttempt /\ NothingLeftOut /\ SettledIsClosed
  BY DEF DeclaredIsClosed, OneOpenAttempt, NothingLeftOut, SettledIsClosed
<1>3. ChargesPlanned /\ NoMoneyForgotten
  BY DEF ChargesPlanned, NoMoneyForgotten
<1>4. ClaimsOfSale /\ AppliedBySettlement
  BY DEF ClaimsOfSale, AppliedBySettlement
<1>5. ClaimsHeld
  BY NothingAssumption DEF ClaimsHeld
<1>6. PaidOnce
  BY DEF PaidOnce
<1>7. NoDoubleCharge
  BY DEF NoDoubleCharge
<1> QED BY <1>1, <1>2, <1>3, <1>4, <1>5, <1>6, <1>7 DEF ChargeInv

-----------------------------------------------------------------------------
(* A charge is reserved *)

LEMMA SealStep ==
    ASSUME ChargeInv, NEW k \in Keys, NEW s \in Sales, NEW p \in Plans,
           ~ Used(k), Reservable(s), ClaimsAvailable(s, p), Seal(k, s, p)
    PROVE  ChargeInv'
<1> USE ChargeParts, ClaimsType DEF Used
<1>s. Shape
  BY DEF ChargeInv
<1>1. /\ attempt'[k].sale = s /\ attempt'[k].plan = p
      /\ state'[k] = "RESERVED" /\ ~ declared[k]
      /\ \A l \in Keys \ {k} : attempt'[l] = attempt[l] /\ state'[l] = state[l]
      /\ claim' = [c \in Charges |-> IF c \in p.claims THEN k ELSE claim[c]]
      /\ UNCHANGED <<saleVars, declared, charged, collected>>
  BY <1>s DEF ChargeInv, Seal, Shape, DeclaredIsClosed
<1>n. \A l \in Keys \ {k} : NewCharges(l)' = NewCharges(l)
  BY <1>1, SameNewCharges
<1>2. /\ status[s] = "PENDING_PAYMENT" /\ paid[s] = 0
      /\ \A l \in Keys : Open(l) => attempt[l].sale # s
  BY DEF Reservable, OpenAttempts
<1>3. /\ \A c \in p.claims : collected[c] = "UNAPPLIED" /\ claim[c] = NoAttempt /\ OriginSale(c) = s
      /\ \A c \in Charges : collected[c] = "UNAPPLIED" /\ OriginSale(c) = s => c \in p.claims
  BY DEF ClaimsAvailable, Unapplied
<1>4. \A c \in Charges : c[1] = k => charged[c] = NoReference /\ collected[c] = "NONE"
  BY DEF ChargeInv, ChargesPlanned
<1>5. \A c \in Charges : c[1] # k => OriginSale(c)' = OriginSale(c)
  BY <1>1 DEF OriginSale
<1>6. Shape'
  <2>1. state' \in [Keys -> States]
    BY <1>s DEF Shape, Seal, States
  <2>2. claim' \in [Charges -> Keys \cup {NoAttempt}]
    BY <1>s, <1>1 DEF Shape
  <2>3. DOMAIN attempt' = Keys /\ attempt' = [l \in Keys |-> attempt'[l]]
    BY <1>s DEF Shape, Seal
  <2>4. \A l \in Keys : Used(l)' => attempt'[l].sale \in Sales /\ attempt'[l].plan \in Plans
    BY <1>s, <1>1 DEF Shape
  <2>5. UNCHANGED <<status, paid, declared, charged, collected>>
    BY <1>1 DEF saleVars
  <2> QED
    BY <1>s, <2>1, <2>2, <2>3, <2>4, <2>5 DEF Shape
<1>7. DeclaredIsClosed'
  BY <1>1 DEF ChargeInv, DeclaredIsClosed
<1>8. ChargesPlanned'
  BY <1>1, <1>n, <1>4 DEF ChargeInv, ChargesPlanned, Open
<1>9. ClaimsOfSale'
  BY <1>1, <1>3, <1>4, <1>5, <1>s DEF ChargeInv, ChargesPlanned, ClaimsOfSale, Shape
<1>10. NothingLeftOut'
  BY <1>1, <1>2, <1>3, <1>4, <1>5 DEF ChargeInv, NothingLeftOut, Unapplied, Open
<1>11. AppliedBySettlement'
  BY <1>1, <1>n, <1>4, <1>5 DEF ChargeInv, AppliedBySettlement
<1>12. SettledIsClosed' /\ OneOpenAttempt'
  BY <1>1, <1>2 DEF ChargeInv, SettledIsClosed, OneOpenAttempt, Open, saleVars
<1>13. ClaimsHeld'
  BY <1>1, <1>2, <1>3, <1>s, NothingAssumption DEF ChargeInv, ClaimsHeld, ClaimsOfSale, Open, Shape
<1>14. PaidOnce'
  <2>1. \A l \in Keys : state[l] = "CONFIRMED" => AttemptTotal(l)' = AttemptTotal(l)
    BY <1>1, <1>s, SameTotal DEF ChargeInv, ClaimsOfSale, Shape
  <2> QED BY <1>1, <2>1 DEF ChargeInv, PaidOnce, saleVars
<1>15. NoMoneyForgotten'
  BY <1>1, <1>4 DEF ChargeInv, NoMoneyForgotten, Open
<1>16. NoDoubleCharge'
  BY <1>1, <1>n, <1>4, <1>5 DEF ChargeInv, NoDoubleCharge, saleVars
<1> QED BY <1>6, <1>7, <1>8, <1>9, <1>10, <1>11, <1>12, <1>13, <1>14, <1>15, <1>16 DEF ChargeInv

-----------------------------------------------------------------------------
(* A charge is made, and confirmed or rejected *)

LEMMA OutsideStep ==
    ASSUME ChargeInv, NEW k \in Keys, NEW c \in Charges, NEW r \in References, ChargeOutside(k, c, r)
    PROVE  ChargeInv'
<1> USE ChargeParts DEF Used
<1>s. Shape
  BY DEF ChargeInv
<1>1. /\ state[k] = "RESERVED" /\ c \in NewCharges(k) /\ charged[c] = NoReference
      /\ charged' = [charged EXCEPT ![c] = r]
      /\ UNCHANGED <<saleVars, attemptVars, collected, claim>>
  BY DEF ChargeOutside
<1>2. c[1] = k /\ collected[c] = "NONE"
  BY <1>1, NewChargesType DEF ChargeInv, ChargesPlanned
<1>n. \A l \in Keys : NewCharges(l)' = NewCharges(l)
  BY <1>1, SameNewCharges DEF attemptVars
<1>o. \A d \in Charges : OriginSale(d)' = OriginSale(d)
  BY <1>1 DEF OriginSale, attemptVars
<1>6. Shape'
  BY <1>s, <1>1 DEF Shape, saleVars, attemptVars
<1>7. DeclaredIsClosed'
  BY <1>1 DEF ChargeInv, DeclaredIsClosed, attemptVars
<1>8. ChargesPlanned'
  BY <1>1, <1>2, <1>n, <1>s DEF ChargeInv, ChargesPlanned, Open, attemptVars, Shape
<1>9. ClaimsOfSale' /\ NothingLeftOut'
  <2>1. ClaimsOfSale'
    BY <1>1, <1>o, <1>s, ClaimsType DEF ChargeInv, ClaimsOfSale, attemptVars, Shape
  <2>2. NothingLeftOut'
    BY <1>1, <1>o DEF ChargeInv, NothingLeftOut, Unapplied, Open, attemptVars
  <2> QED BY <2>1, <2>2
<1>11. AppliedBySettlement'
  BY <1>1, <1>n, <1>o DEF ChargeInv, AppliedBySettlement, attemptVars
<1>12. SettledIsClosed' /\ OneOpenAttempt'
  BY <1>1 DEF ChargeInv, SettledIsClosed, OneOpenAttempt, Open, saleVars, attemptVars
<1>13. ClaimsHeld'
  BY <1>1 DEF ChargeInv, ClaimsHeld, Open, attemptVars
<1>14. PaidOnce'
  <2>1. \A l \in Keys : state[l] = "CONFIRMED" => AttemptTotal(l)' = AttemptTotal(l)
    BY <1>1, <1>s, SameTotal DEF attemptVars, Shape
  <2> QED BY <1>1, <2>1 DEF ChargeInv, PaidOnce, saleVars, attemptVars
<1>15. NoMoneyForgotten'
  BY <1>1, <1>2, <1>s DEF ChargeInv, NoMoneyForgotten, Open, attemptVars, Shape
<1>16. NoDoubleCharge'
  <2>1. status[OriginSale(c)] # "COMPLETED"
    BY <1>1, <1>2 DEF ChargeInv, SettledIsClosed, Open, OriginSale
  <2>2. \A d \in Charges : d # c => charged'[d] = charged[d]
    BY <1>1, <1>s DEF Shape
  <2> SUFFICES ASSUME NEW d \in Charges, charged'[d] # NoReference, status[OriginSale(d)] = "COMPLETED"
               PROVE  \/ collected[d] = "REFUNDED"
                      \/ \E l \in Keys : /\ state[l] = "CONFIRMED" /\ attempt[l].sale = OriginSale(d)
                                         /\ d \in NewCharges(l) \cup attempt[l].plan.claims
                                         /\ collected[d] = "APPLIED"
    BY <1>1, <1>n, <1>o DEF NoDoubleCharge, saleVars, attemptVars
  <2>3. d # c
    BY <2>1
  <2> QED BY <2>2, <2>3 DEF ChargeInv, NoDoubleCharge
<1> QED BY <1>6, <1>7, <1>8, <1>9, <1>11, <1>12, <1>13, <1>14, <1>15, <1>16 DEF ChargeInv

LEMMA ConfirmStep ==
    ASSUME ChargeInv, NEW k \in Keys, Confirm(k)
    PROVE  ChargeInv'
<1> USE ChargeParts DEF Used
<1> DEFINE s == attempt[k].sale
           Mine == NewCharges(k) \cup attempt[k].plan.claims
<1>s. Shape
  BY DEF ChargeInv
<1>1. /\ state[k] = "RESERVED" /\ status[s] = "PENDING_PAYMENT" /\ paid[s] = 0
      /\ \A c \in NewCharges(k) : charged[c] # NoReference
      /\ state' = [state EXCEPT ![k] = "CONFIRMED"]
      /\ collected' = [c \in Charges |-> IF c \in Mine THEN "APPLIED" ELSE collected[c]]
      /\ paid' = [paid EXCEPT ![s] = AttemptTotal(k)]
      /\ status' = [status EXCEPT ![s] = "COMPLETED"]
      /\ UNCHANGED <<pricing, lines, attempt, declared, charged, claim>>
  BY DEF Confirm, Evidenced, Settleable, Payments
<1>2. s \in Sales /\ attempt[k].plan.claims \subseteq Charges /\ Open(k) /\ ~ declared[k]
  BY <1>1, <1>s, ClaimsType DEF Shape, Open, ChargeInv, DeclaredIsClosed
<1>3. \A l \in Keys : Open(l) /\ attempt[l].sale = s => l = k
  BY <1>2 DEF ChargeInv, OneOpenAttempt
<1>4. \A l \in Keys : state[l] = "CONFIRMED" => attempt[l].sale # s
  BY <1>1, <1>2 DEF ChargeInv, PaidOnce
<1>5. \A c \in Mine : c \in Charges /\ OriginSale(c) = s /\ charged[c] # NoReference
  <2>1. \A c \in NewCharges(k) : c \in Charges /\ OriginSale(c) = s
    BY NewChargesType DEF OriginSale
  <2>2. \A c \in attempt[k].plan.claims : OriginSale(c) = s /\ collected[c] = "UNAPPLIED"
    BY <1>1, <1>2 DEF ChargeInv, ClaimsOfSale, ClaimsHeld
  <2> QED BY <1>1, <1>2, <2>1, <2>2 DEF ChargeInv, ChargesPlanned
<1>n. \A l \in Keys : NewCharges(l)' = NewCharges(l)
  BY <1>1, SameNewCharges
<1>o. \A d \in Charges : OriginSale(d)' = OriginSale(d)
  BY <1>1 DEF OriginSale
<1>6. Shape'
  BY <1>s, <1>1, <1>2 DEF Shape, States, Collections
<1>7. DeclaredIsClosed'
  BY <1>1, <1>2 DEF ChargeInv, DeclaredIsClosed
<1>8. ChargesPlanned'
  <2> SUFFICES ASSUME NEW c \in Charges, collected'[c] # "NONE" \/ charged'[c] # NoReference
               PROVE  /\ charged[c] # NoReference => Used(c[1])' /\ c \in NewCharges(c[1])
                      /\ collected'[c] # "NONE" => charged[c] # NoReference /\ ~ Open(c[1])'
    BY <1>1, <1>n DEF ChargesPlanned
  <2>1. charged[c] # NoReference => Used(c[1])' /\ c \in NewCharges(c[1])
    BY <1>1, <1>s DEF ChargeInv, ChargesPlanned, Shape
  <2>2. collected'[c] # "NONE" => charged[c] # NoReference
    BY <1>1, <1>5 DEF ChargeInv, ChargesPlanned
  <2>3. collected'[c] # "NONE" => ~ Open(c[1])'
    <3>1. CASE c[1] = k
      BY <3>1, <1>1, <1>s DEF Open, Shape
    <3>2. CASE c \in attempt[k].plan.claims
      BY <3>2, <1>1, <1>2, <1>s DEF ChargeInv, ClaimsHeld, ChargesPlanned, Open, Shape
    <3>3. CASE c[1] # k /\ c \notin attempt[k].plan.claims
      <4>1. c \notin Mine
        BY <3>3, NewChargesType
      <4> QED BY <3>3, <4>1, <1>1 DEF ChargeInv, ChargesPlanned, Open
    <3> QED BY <3>1, <3>2, <3>3
  <2> QED BY <2>1, <2>2, <2>3
<1>9. ClaimsOfSale'
  BY <1>1, <1>o, <1>s, ClaimsType DEF ChargeInv, ClaimsOfSale, Shape
<1>10. NothingLeftOut'
  BY <1>1, <1>o, <1>3, <1>5 DEF ChargeInv, NothingLeftOut, Unapplied, Open
<1>11. AppliedBySettlement'
  <2> SUFFICES ASSUME NEW c \in Charges, collected'[c] = "APPLIED"
               PROVE  \E l \in Keys : /\ state'[l] = "CONFIRMED" /\ attempt[l].sale = OriginSale(c)
                                      /\ c \in NewCharges(l) \cup attempt[l].plan.claims
    BY <1>1, <1>n, <1>o DEF AppliedBySettlement
  <2>1. CASE c \in Mine
    BY <2>1, <1>1, <1>5, <1>s DEF Shape
  <2>2. CASE c \notin Mine
    BY <2>2, <1>1, <1>s DEF ChargeInv, AppliedBySettlement, Shape
  <2> QED BY <2>1, <2>2
<1>12. SettledIsClosed' /\ OneOpenAttempt'
  BY <1>1, <1>2, <1>3, <1>s DEF ChargeInv, SettledIsClosed, OneOpenAttempt, Open, Shape
<1>13. ClaimsHeld'
  <2> SUFFICES ASSUME NEW l \in Keys, NEW c \in Charges
               PROVE  /\ Open(l)' /\ c \in attempt[l].plan.claims
                           => claim[c] = l /\ collected'[c] = "UNAPPLIED"
                      /\ claim[c] = l => /\ c \in attempt[l].plan.claims
                                         /\ Open(l)' \/ state'[l] = "CONFIRMED"
    BY <1>1 DEF ClaimsHeld
  <2>1. claim[c] = l => c \in attempt[l].plan.claims /\ (Open(l)' \/ state'[l] = "CONFIRMED")
    BY <1>1, <1>s DEF ChargeInv, ClaimsHeld, Open, Shape
  <2>2. ASSUME Open(l)', c \in attempt[l].plan.claims
        PROVE  claim[c] = l /\ collected'[c] = "UNAPPLIED"
    <3>1. Open(l) /\ l # k
      BY <2>2, <1>1, <1>s DEF Open, Shape
    <3>2. claim[c] = l /\ collected[c] = "UNAPPLIED"
      BY <3>1, <2>2 DEF ChargeInv, ClaimsHeld
    <3>3. attempt[l].sale # s
      BY <3>1, <1>3
    <3>4. OriginSale(c) = attempt[l].sale
      BY <3>1, <2>2 DEF ChargeInv, ClaimsOfSale, Open
    <3>5. c \notin Mine
      BY <3>3, <3>4, <1>5
    <3> QED BY <3>2, <3>5, <1>1
  <2> QED BY <2>1, <2>2
<1>14. PaidOnce'
  <2>1. \A l \in Keys : state'[l] = "CONFIRMED" => AttemptTotal(l)' = AttemptTotal(l)
    BY <1>1, <1>s, SameTotal DEF Shape
  <2>2. \A l \in Keys : state'[l] = "CONFIRMED" <=> l = k \/ state[l] = "CONFIRMED"
    BY <1>1, <1>s DEF Shape
  <2>3. status'[s] = "COMPLETED" /\ paid'[s] = AttemptTotal(k)
    BY <1>1, <1>2, <1>s DEF Shape
  <2> SUFFICES ASSUME NEW t \in Sales
               PROVE  LET winners == {l \in Keys : state'[l] = "CONFIRMED" /\ attempt[l].sale = t}
                      IN /\ status'[t] = "COMPLETED" <=> winners # {}
                         /\ \A l, m \in winners : l = m
                         /\ IF winners = {} THEN paid'[t] = 0
                            ELSE \A l \in winners : paid'[t] = AttemptTotal(l)'
    BY <1>1 DEF PaidOnce
  <2> DEFINE winners == {l \in Keys : state'[l] = "CONFIRMED" /\ attempt[l].sale = t}
  <2>4. CASE t = s
    <3>1. winners = {k}
      BY <2>4, <2>2, <1>4
    <3>2. AttemptTotal(k)' = AttemptTotal(k)
      BY <2>1, <2>2
    <3> QED BY <2>4, <2>3, <3>1, <3>2
  <2>5. CASE t # s
    <3>1. winners = {l \in Keys : state[l] = "CONFIRMED" /\ attempt[l].sale = t}
      BY <2>5, <2>2
    <3>2. status'[t] = status[t] /\ paid'[t] = paid[t]
      BY <2>5, <1>1, <1>s DEF Shape
    <3>3. \A l \in winners : AttemptTotal(l)' = AttemptTotal(l)
      BY <2>1
    <3> QED BY <3>1, <3>2, <3>3 DEF ChargeInv, PaidOnce
  <2> QED BY <2>4, <2>5
<1>15. NoMoneyForgotten'
  BY <1>1, <1>5, <1>n, NewChargesType, <1>s DEF ChargeInv, NoMoneyForgotten, ChargesPlanned, Open, Shape
<1>16. NoDoubleCharge'
  <2> SUFFICES ASSUME NEW c \in Charges, charged[c] # NoReference,
                      status'[OriginSale(c)] = "COMPLETED"
               PROVE  \/ collected'[c] = "REFUNDED"
                      \/ \E l \in Keys : /\ state'[l] = "CONFIRMED" /\ attempt[l].sale = OriginSale(c)
                                         /\ c \in NewCharges(l) \cup attempt[l].plan.claims
                                         /\ collected'[c] = "APPLIED"
    BY <1>1, <1>n, <1>o DEF NoDoubleCharge
  <2>1. CASE c \in Mine
    BY <2>1, <1>1, <1>5, <1>s DEF Shape
  <2>2. CASE c \notin Mine /\ OriginSale(c) = s
    <3>1. collected[c] # "NONE"
      BY <2>2, <1>3 DEF ChargeInv, NoMoneyForgotten, ChargesPlanned, OriginSale
    <3>2. collected[c] # "UNAPPLIED"
      BY <2>2, <1>2 DEF ChargeInv, NothingLeftOut, Unapplied
    <3>3. collected[c] # "APPLIED"
      BY <2>2, <1>4 DEF ChargeInv, AppliedBySettlement
    <3> QED BY <2>2, <3>1, <3>2, <3>3, <1>1, <1>s DEF Shape, Collections
  <2>3. CASE c \notin Mine /\ OriginSale(c) # s
    <3>1. status[OriginSale(c)] = "COMPLETED"
      BY <2>3, <1>1, <1>2, <1>s DEF ChargeInv, ChargesPlanned, OriginSale, Shape
    <3> QED BY <3>1, <2>3, <1>1, <1>s DEF ChargeInv, NoDoubleCharge, Shape
  <2> QED BY <2>1, <2>2, <2>3
<1> QED BY <1>6, <1>7, <1>8, <1>9, <1>10, <1>11, <1>12, <1>13, <1>14, <1>15, <1>16 DEF ChargeInv

-----------------------------------------------------------------------------
(* A charge is closed, a collection refunded, and what the rest of the shop does *)

\* A step that moves no money and neither opens nor closes an attempt.
LEMMA KeepStep ==
    ASSUME ChargeInv, Shape', DeclaredIsClosed', UNCHANGED <<attempt, paid, moneyVars>>,
           \A k \in Keys : /\ Open(k)' <=> Open(k)
                           /\ Used(k)' <=> Used(k)
                           /\ state'[k] = "CONFIRMED" <=> state[k] = "CONFIRMED",
           \A s \in Sales : status'[s] = "COMPLETED" <=> status[s] = "COMPLETED"
    PROVE  ChargeInv'
<1> USE ChargeParts DEF moneyVars
<1>s. Shape
  BY DEF ChargeInv
<1>n. \A l \in Keys : NewCharges(l)' = NewCharges(l)
  BY SameNewCharges
<1>o. \A d \in Charges : OriginSale(d)' = OriginSale(d)
  BY DEF OriginSale
<1>8. ChargesPlanned'
  BY <1>n DEF ChargeInv, ChargesPlanned
<1>9. ClaimsOfSale'
  BY <1>o, <1>s, ClaimsType DEF ChargeInv, ClaimsOfSale, Shape
<1>10. NothingLeftOut'
  BY <1>o DEF ChargeInv, NothingLeftOut, Unapplied
<1>11. AppliedBySettlement'
  BY <1>n, <1>o DEF ChargeInv, AppliedBySettlement
<1>12. SettledIsClosed' /\ OneOpenAttempt'
  <2>1. \A k \in Keys : Open(k) => attempt[k].sale \in Sales
    BY <1>s DEF Shape, Open, Used
  <2> QED BY <2>1 DEF ChargeInv, SettledIsClosed, OneOpenAttempt
<1>13. ClaimsHeld'
  BY DEF ChargeInv, ClaimsHeld
<1>14. PaidOnce'
  <2>1. \A l \in Keys : state[l] = "CONFIRMED" => AttemptTotal(l)' = AttemptTotal(l)
    BY <1>s, SameTotal DEF Shape, Used
  <2> SUFFICES ASSUME NEW t \in Sales
               PROVE  LET winners == {l \in Keys : state'[l] = "CONFIRMED" /\ attempt[l].sale = t}
                      IN /\ status'[t] = "COMPLETED" <=> winners # {}
                         /\ \A l, m \in winners : l = m
                         /\ IF winners = {} THEN paid[t] = 0
                            ELSE \A l \in winners : paid[t] = AttemptTotal(l)'
    BY DEF PaidOnce
  <2>2. {l \in Keys : state'[l] = "CONFIRMED" /\ attempt[l].sale = t}
          = {l \in Keys : state[l] = "CONFIRMED" /\ attempt[l].sale = t}
    OBVIOUS
  <2> QED BY <2>1, <2>2 DEF ChargeInv, PaidOnce
<1>15. NoMoneyForgotten'
  BY DEF ChargeInv, NoMoneyForgotten
<1>16. NoDoubleCharge'
  <2>1. \A c \in Charges : charged[c] # NoReference => OriginSale(c) \in Sales
    BY <1>s DEF ChargeInv, ChargesPlanned, Shape, OriginSale
  <2> QED BY <1>n, <1>o, <2>1 DEF ChargeInv, NoDoubleCharge
<1> QED BY <1>8, <1>9, <1>10, <1>11, <1>12, <1>13, <1>14, <1>15, <1>16 DEF ChargeInv

LEMMA RejectStep ==
    ASSUME ChargeInv, NEW k \in Keys, Reject(k)
    PROVE  ChargeInv'
<1>1. /\ state[k] = "RESERVED" /\ state' = [state EXCEPT ![k] = "REJECTED"]
      /\ UNCHANGED <<saleVars, attempt, declared, moneyVars>>
  BY DEF Reject, Evidenced
<1>2. ~ declared[k]
  BY <1>1 DEF ChargeInv, DeclaredIsClosed
<1>3. \A l \in Keys : state'[l] = IF l = k THEN "REJECTED" ELSE state[l]
  BY <1>1 DEF ChargeInv, Shape
<1>4. Shape' /\ DeclaredIsClosed'
  BY <1>1, <1>2, <1>3 DEF ChargeInv, Shape, States, DeclaredIsClosed, Used, saleVars, moneyVars
<1>5. \A l \in Keys : /\ Open(l)' <=> Open(l)
                      /\ Used(l)' <=> Used(l)
                      /\ state'[l] = "CONFIRMED" <=> state[l] = "CONFIRMED"
  BY <1>1, <1>2, <1>3 DEF Open, Used
<1> QED BY <1>1, <1>4, <1>5, KeepStep DEF saleVars

LEMMA CancelStep ==
    ASSUME ChargeInv, NEW s \in Sales, CancelSale(s)
    PROVE  ChargeInv'
<1>1. /\ status[s] = "PENDING_PAYMENT" /\ status' = [status EXCEPT ![s] = "CANCELLED"]
      /\ UNCHANGED <<paid, attemptVars, moneyVars>>
  BY DEF CancelSale
<1>2. Shape' /\ DeclaredIsClosed'
  BY <1>1 DEF ChargeInv, Shape, DeclaredIsClosed, Used, attemptVars, moneyVars
<1>3. \A t \in Sales : status'[t] = "COMPLETED" <=> status[t] = "COMPLETED"
  BY <1>1 DEF ChargeInv, Shape
<1>4. \A l \in Keys : (Open(l)' <=> Open(l)) /\ (Used(l)' <=> Used(l)) /\ state'[l] = state[l]
  BY <1>1 DEF Open, Used, attemptVars
<1> QED BY <1>1, <1>2, <1>3, <1>4, KeepStep DEF attemptVars

LEMMA QuietStep ==
    ASSUME ChargeInv, UNCHANGED <<status, paid, attemptVars, moneyVars>>
    PROVE  ChargeInv'
<1>1. Shape' /\ DeclaredIsClosed'
  BY DEF ChargeInv, Shape, DeclaredIsClosed, Used, attemptVars, moneyVars
<1>2. \A l \in Keys : (Open(l)' <=> Open(l)) /\ (Used(l)' <=> Used(l)) /\ state'[l] = state[l]
  BY DEF Open, Used, attemptVars
<1> QED BY <1>1, <1>2, KeepStep DEF attemptVars

LEMMA CloseStep ==
    ASSUME ChargeInv, NEW k \in Keys, Close(k)
    PROVE  ChargeInv'
<1> USE ChargeParts DEF Used
<1>s. Shape
  BY DEF ChargeInv
<1>1. /\ Open(k)
      /\ state' = [state EXCEPT ![k] = IF @ = "RESERVED" THEN "ABANDONED" ELSE @]
      /\ declared' = [declared EXCEPT ![k] = TRUE]
      /\ collected' = [c \in Charges |-> IF c \in Taken(k) THEN "UNAPPLIED" ELSE collected[c]]
      /\ claim' = [c \in Charges |-> IF claim[c] = k THEN NoAttempt ELSE claim[c]]
      /\ UNCHANGED <<saleVars, attempt, charged>>
  BY DEF Close
<1>2. /\ state'[k] \in {"REJECTED", "ABANDONED"} /\ declared'[k]
      /\ \A l \in Keys \ {k} : state'[l] = state[l] /\ declared'[l] = declared[l]
  BY <1>1, <1>s DEF Shape, Open
<1>3. /\ ~ Open(k)' /\ \A l \in Keys \ {k} : Open(l)' <=> Open(l)
      /\ \A l \in Keys : /\ Used(l)' <=> Used(l)
                         /\ state'[l] = "CONFIRMED" <=> state[l] = "CONFIRMED"
  BY <1>1, <1>2 DEF Open
<1>4. \A c \in Taken(k) : /\ c \in Charges /\ c[1] = k /\ charged[c] # NoReference
                          /\ OriginSale(c) = attempt[k].sale /\ collected[c] = "NONE"
  BY <1>1, <1>s, NewChargesType DEF Taken, OriginSale, ChargeInv, ChargesPlanned, Shape, Collections
<1>5. attempt[k].sale \in Sales /\ status[attempt[k].sale] # "COMPLETED"
  BY <1>1, <1>s DEF ChargeInv, SettledIsClosed, Shape, Open
<1>n. \A l \in Keys : NewCharges(l)' = NewCharges(l)
  BY <1>1, SameNewCharges
<1>o. \A d \in Charges : OriginSale(d)' = OriginSale(d)
  BY <1>1 DEF OriginSale
<1>6. Shape'
  <2>1. state' \in [Keys -> States] /\ declared' \in [Keys -> BOOLEAN]
    BY <1>1, <1>s DEF Shape, States
  <2>2. collected' \in [Charges -> Collections] /\ claim' \in [Charges -> Keys \cup {NoAttempt}]
    BY <1>1, <1>s DEF Shape, Collections
  <2> QED BY <2>1, <2>2, <1>1, <1>3, <1>s DEF Shape, saleVars
<1>7. DeclaredIsClosed'
  BY <1>2 DEF ChargeInv, DeclaredIsClosed
<1>8. ChargesPlanned'
  BY <1>1, <1>3, <1>4, <1>n DEF ChargeInv, ChargesPlanned
<1>9. ClaimsOfSale'
  BY <1>1, <1>3, <1>o, <1>s, ClaimsType DEF ChargeInv, ClaimsOfSale, Shape
<1>10. NothingLeftOut'
  <2> SUFFICES ASSUME NEW l \in Keys, Open(l)', NEW c \in Charges,
                      collected'[c] = "UNAPPLIED", OriginSale(c) = attempt[l].sale
               PROVE  c \in attempt[l].plan.claims
    BY <1>1, <1>o DEF NothingLeftOut, Unapplied
  <2>1. l # k /\ Open(l)
    BY <1>3
  <2>2. attempt[l].sale # attempt[k].sale
    BY <2>1, <1>1 DEF ChargeInv, OneOpenAttempt
  <2>3. c \notin Taken(k)
    BY <2>2, <1>4
  <2> QED BY <2>1, <2>3, <1>1 DEF ChargeInv, NothingLeftOut, Unapplied
<1>11. AppliedBySettlement'
  <2>1. \A c \in Charges : collected'[c] = "APPLIED" => collected[c] = "APPLIED"
    BY <1>1
  <2> QED BY <2>1, <1>1, <1>3, <1>n, <1>o DEF ChargeInv, AppliedBySettlement
<1>12. SettledIsClosed' /\ OneOpenAttempt'
  BY <1>1, <1>3 DEF ChargeInv, SettledIsClosed, OneOpenAttempt, saleVars
<1>13. ClaimsHeld'
  <2> SUFFICES ASSUME NEW l \in Keys, NEW c \in Charges
               PROVE  /\ Open(l)' /\ c \in attempt[l].plan.claims
                           => claim'[c] = l /\ collected'[c] = "UNAPPLIED"
                      /\ claim'[c] = l => /\ c \in attempt[l].plan.claims
                                          /\ Open(l)' \/ state'[l] = "CONFIRMED"
    BY <1>1 DEF ClaimsHeld
  <2>1. claim'[c] = l => l # k /\ claim[c] = l
    BY <1>1, NothingAssumption
  <2>2. claim'[c] = l => c \in attempt[l].plan.claims /\ (Open(l)' \/ state'[l] = "CONFIRMED")
    BY <2>1, <1>3 DEF ChargeInv, ClaimsHeld
  <2>3. ASSUME Open(l)', c \in attempt[l].plan.claims
        PROVE  claim'[c] = l /\ collected'[c] = "UNAPPLIED"
    <3>1. l # k /\ claim[c] = l /\ collected[c] = "UNAPPLIED"
      BY <2>3, <1>3 DEF ChargeInv, ClaimsHeld
    <3> QED BY <3>1, <1>1
  <2> QED BY <2>2, <2>3
<1>14. PaidOnce'
  <2>1. \A l \in Keys : state[l] = "CONFIRMED" => AttemptTotal(l)' = AttemptTotal(l)
    BY <1>1, <1>s, SameTotal DEF Shape
  <2> SUFFICES ASSUME NEW t \in Sales
               PROVE  LET winners == {l \in Keys : state'[l] = "CONFIRMED" /\ attempt[l].sale = t}
                      IN /\ status[t] = "COMPLETED" <=> winners # {}
                         /\ \A l, m \in winners : l = m
                         /\ IF winners = {} THEN paid[t] = 0
                            ELSE \A l \in winners : paid[t] = AttemptTotal(l)'
    BY <1>1 DEF PaidOnce, saleVars
  <2>2. {l \in Keys : state'[l] = "CONFIRMED" /\ attempt[l].sale = t}
          = {l \in Keys : state[l] = "CONFIRMED" /\ attempt[l].sale = t}
    BY <1>3
  <2> QED BY <2>1, <2>2 DEF ChargeInv, PaidOnce
<1>15. NoMoneyForgotten'
  <2> SUFFICES ASSUME NEW c \in Charges, charged[c] # NoReference, collected'[c] = "NONE"
               PROVE  Open(c[1])'
    BY <1>1 DEF NoMoneyForgotten
  <2>1. c \notin Taken(k) /\ collected[c] = "NONE"
    BY <1>1
  <2>2. Open(c[1]) /\ c \in NewCharges(c[1])
    BY <2>1 DEF ChargeInv, NoMoneyForgotten, ChargesPlanned
  <2>3. c[1] # k
    BY <2>1, <2>2 DEF Taken
  <2> QED BY <2>2, <2>3, <1>3
<1>16. NoDoubleCharge'
  <2> SUFFICES ASSUME NEW c \in Charges, charged[c] # NoReference, status[OriginSale(c)] = "COMPLETED"
               PROVE  \/ collected'[c] = "REFUNDED"
                      \/ \E l \in Keys : /\ state'[l] = "CONFIRMED" /\ attempt[l].sale = OriginSale(c)
                                         /\ c \in NewCharges(l) \cup attempt[l].plan.claims
                                         /\ collected'[c] = "APPLIED"
    BY <1>1, <1>n, <1>o DEF NoDoubleCharge, saleVars
  <2>1. c \notin Taken(k)
    BY <1>4, <1>5
  <2> QED BY <2>1, <1>1, <1>3 DEF ChargeInv, NoDoubleCharge
<1> QED BY <1>6, <1>7, <1>8, <1>9, <1>10, <1>11, <1>12, <1>13, <1>14, <1>15, <1>16 DEF ChargeInv

LEMMA RefundStep ==
    ASSUME ChargeInv, NEW c \in Charges, Refund(c)
    PROVE  ChargeInv'
<1> USE ChargeParts DEF Used
<1>s. Shape
  BY DEF ChargeInv
<1>1. /\ collected[c] = "UNAPPLIED" /\ claim[c] = NoAttempt
      /\ UNCHANGED <<saleVars, attemptVars, charged, claim>>
  BY DEF Refund, Refundable
<1>2. \A d \in Charges : collected'[d] = IF d = c THEN "REFUNDED" ELSE collected[d]
  BY <1>s DEF Refund, Shape
<1>n. \A l \in Keys : NewCharges(l)' = NewCharges(l)
  BY <1>1, SameNewCharges DEF attemptVars
<1>o. \A d \in Charges : OriginSale(d)' = OriginSale(d)
  BY <1>1 DEF OriginSale, attemptVars
<1>p. \A l \in Keys : Open(l)' <=> Open(l)
  BY <1>1 DEF Open, attemptVars
<1>6. Shape'
  BY <1>s, <1>1 DEF Shape, Collections, Refund, saleVars, attemptVars
<1>7. DeclaredIsClosed' /\ SettledIsClosed' /\ OneOpenAttempt'
  BY <1>1, <1>p DEF ChargeInv, DeclaredIsClosed, SettledIsClosed, OneOpenAttempt, saleVars, attemptVars
<1>8. ChargesPlanned'
  BY <1>1, <1>2, <1>n, <1>p DEF ChargeInv, ChargesPlanned, attemptVars
<1>9. ClaimsOfSale'
  BY <1>1, <1>o, <1>s, ClaimsType DEF ChargeInv, ClaimsOfSale, Shape, attemptVars
<1>10. NothingLeftOut'
  BY <1>1, <1>2, <1>o, <1>p DEF ChargeInv, NothingLeftOut, Unapplied, attemptVars
<1>11. AppliedBySettlement'
  BY <1>1, <1>2, <1>n, <1>o DEF ChargeInv, AppliedBySettlement, attemptVars
<1>13. ClaimsHeld'
  BY <1>1, <1>2, <1>p, NothingAssumption DEF ChargeInv, ClaimsHeld, attemptVars
<1>14. PaidOnce'
  <2>1. \A l \in Keys : state[l] = "CONFIRMED" => AttemptTotal(l)' = AttemptTotal(l)
    BY <1>1, <1>s, SameTotal DEF Shape, attemptVars
  <2> QED BY <1>1, <2>1 DEF ChargeInv, PaidOnce, saleVars, attemptVars
<1>15. NoMoneyForgotten'
  BY <1>1, <1>2, <1>p DEF ChargeInv, NoMoneyForgotten
<1>16. NoDoubleCharge'
  BY <1>1, <1>2, <1>n, <1>o DEF ChargeInv, NoDoubleCharge, saleVars, attemptVars
<1> QED BY <1>6, <1>7, <1>8, <1>9, <1>10, <1>11, <1>13, <1>14, <1>15, <1>16 DEF ChargeInv

LEMMA ChargeStep == ChargeInv /\ [Next]_vars => ChargeInv'
<1> SUFFICES ASSUME ChargeInv, [Next]_vars PROVE ChargeInv'
  OBVIOUS
<1>1. ASSUME NEW k \in Keys, NEW s \in Sales, Reserve(k, s)
      PROVE  ChargeInv'
  BY <1>1, SealStep DEF Reserve, Used
<1>2. ASSUME NEW k \in Keys, NEW s \in Sales, Recover(k, s)
      PROVE  ChargeInv'
  BY <1>2, SealStep DEF Recover, Used
<1>3. ASSUME NEW k \in Keys, NEW m \in External, NEW r \in References, ChargeOutside(k, <<k, m>>, r)
      PROVE  ChargeInv'
  <2>1. <<k, m>> \in Charges
    BY DEF Charges
  <2> QED BY <1>3, <2>1, OutsideStep
<1>4. ASSUME NEW k \in Keys, Confirm(k) \/ Reject(k) \/ Close(k)
      PROVE  ChargeInv'
  BY <1>4, ConfirmStep, RejectStep, CloseStep
<1>5. ASSUME NEW c \in Charges, Refund(c)
      PROVE  ChargeInv'
  BY <1>5, RefundStep
<1>6. ASSUME NEW s \in Sales, CancelSale(s)
      PROVE  ChargeInv'
  BY <1>6, CancelStep
<1>7. ASSUME NEW s \in Sales, NEW l \in Lines, CorrectSale(s, l)
      PROVE  ChargeInv'
  BY <1>7, QuietStep DEF CorrectSale
<1>8. ASSUME NEW r \in Pricings, ChangePricing(r)
      PROVE  ChargeInv'
  BY <1>8, QuietStep DEF ChangePricing
<1>9. ASSUME OpenSession \/ CloseSession
      PROVE  ChargeInv'
  BY <1>9, QuietStep DEF OpenSession, CloseSession, saleVars
<1>10. ASSUME UNCHANGED vars
       PROVE  ChargeInv'
  BY <1>10, QuietStep DEF vars, saleVars
<1> QED BY <1>1, <1>2, <1>3, <1>4, <1>5, <1>6, <1>7, <1>8, <1>9, <1>10 DEF Next

\* The strengthening that is inductive, for every instance of the checkout.
LEMMA ChargeAlways == Spec => []ChargeInv
<1>1. Init => ChargeInv
  BY ChargeInit
<1>2. ChargeInv /\ [Next]_vars => ChargeInv'
  BY ChargeStep
<1> QED BY <1>1, <1>2, PTL DEF Spec

-----------------------------------------------------------------------------
(* What the checkout guarantees *)

\* No sale is ever charged by two cashiers at once, whoever reserves, retries, is rejected
\* or closes meanwhile (openAttemptError, one_open_attempt_per_sale).
THEOREM OneCashierAtATime == Spec => []OneOpenAttempt
<1>1. ChargeInv => OneOpenAttempt
  BY DEF ChargeInv
<1> QED BY <1>1, ChargeAlways, PTL

\* A completed sale has exactly one confirmed attempt and its payments are what that
\* attempt sealed; a sale with none is unpaid (confirmInTransaction under retries).
THEOREM PaidOnceAlways == Spec => []PaidOnce
<1>1. ChargeInv => PaidOnce
  BY DEF ChargeInv
<1> QED BY <1>1, ChargeAlways, PTL

\* A collection is held by the one attempt that may apply it, and that attempt finds it
\* unapplied (claimExisting in T-R, the release in T-X, the refusal of T-F).
THEOREM ClaimsAlwaysHeld == Spec => []ClaimsHeld
<1>1. ChargeInv => ClaimsHeld
  BY DEF ChargeInv
<1> QED BY <1>1, ChargeAlways, PTL

\* Money charged outside is on record, or its attempt is still open and has to declare it.
THEOREM MoneyNeverForgotten == Spec => []NoMoneyForgotten
<1>1. ChargeInv => NoMoneyForgotten
  BY DEF ChargeInv
<1> QED BY <1>1, ChargeAlways, PTL

\* The customer of a completed sale paid once: every charge ever made for the sale was
\* applied to it by its confirmed attempt or was refunded.
THEOREM NoDoubleChargeEver == Spec => []NoDoubleCharge
<1>1. ChargeInv => NoDoubleCharge
  BY DEF ChargeInv
<1> QED BY <1>1, ChargeAlways, PTL

-----------------------------------------------------------------------------
(* References are recorded once *)

\* Recording new references, each of them different, keeps the recorded ones different.
LEMMA ReferenceKept ==
    ASSUME ReferenceRecordedOnce, NEW N \in SUBSET Charges,
           \A c \in N : ~ Recorded(c[2], charged[c]),
           \A c, d \in N : c[2] = d[2] => c = d,
           \A c \in Charges : collected'[c] # "NONE" =>
               (c \in N \/ collected[c] # "NONE") /\ charged'[c] = charged[c]
    PROVE  ReferenceRecordedOnce'
BY DEF ReferenceRecordedOnce, Recorded

LEMMA ReferenceStep ==
    ChargeInv /\ ReferenceRecordedOnce /\ [Next]_vars => ReferenceRecordedOnce'
<1> SUFFICES ASSUME ChargeInv, ReferenceRecordedOnce, [Next]_vars PROVE ReferenceRecordedOnce'
  OBVIOUS
<1>a. \A k \in Keys : NewCharges(k) \in SUBSET Charges
  BY NewChargesType
<1>b. \A k \in Keys : \A c, d \in NewCharges(k) : c[2] = d[2] => c = d
  BY ChargeParts, NewChargesType
<1>1. ASSUME NEW k \in Keys, NEW s \in Sales, NEW p \in Plans, Seal(k, s, p)
      PROVE  ReferenceRecordedOnce'
  BY <1>1 DEF Seal, ReferenceRecordedOnce
<1>2. ASSUME NEW k \in Keys, NEW m \in External, NEW r \in References, ChargeOutside(k, <<k, m>>, r)
      PROVE  ReferenceRecordedOnce'
  <2>1. /\ <<k, m>> \in Charges /\ state[k] = "RESERVED" /\ charged[<<k, m>>] = NoReference
        /\ charged' = [charged EXCEPT ![<<k, m>>] = r] /\ collected' = collected
    BY <1>2 DEF ChargeOutside, Charges
  <2>2. collected[<<k, m>>] = "NONE"
    BY <2>1 DEF ChargeInv, ChargesPlanned
  <2> QED BY <2>1, <2>2 DEF ReferenceRecordedOnce, ChargeInv, Shape
<1>3. ASSUME NEW k \in Keys, Confirm(k)
      PROVE  ReferenceRecordedOnce'
  <2>1. /\ \A c \in NewCharges(k) : ~ Recorded(c[2], charged[c])
        /\ \A c \in attempt[k].plan.claims : collected[c] = "UNAPPLIED"
        /\ charged' = charged
    BY <1>3 DEF Confirm, ReferencesNew, Settleable
  <2>2. \A c \in Charges : collected'[c] # "NONE" => c \in NewCharges(k) \/ collected[c] # "NONE"
    BY <1>3, <2>1 DEF Confirm
  <2> QED BY <1>a, <1>b, <2>1, <2>2, ReferenceKept
<1>4. ASSUME NEW k \in Keys, Close(k)
      PROVE  ReferenceRecordedOnce'
  <2>1. /\ \A c \in Taken(k) : ~ Recorded(c[2], charged[c])
        /\ charged' = charged
    BY <1>4 DEF Close, ReferencesNew
  <2>2. Taken(k) \subseteq NewCharges(k)
    BY DEF Taken
  <2>3. \A c \in Charges : collected'[c] # "NONE" => c \in Taken(k) \/ collected[c] # "NONE"
    BY <1>4 DEF Close
  <2> QED BY <1>a, <1>b, <2>1, <2>2, <2>3, ReferenceKept
<1>5. ASSUME NEW c \in Charges, Refund(c)
      PROVE  ReferenceRecordedOnce'
  <2>1. collected[c] = "UNAPPLIED" /\ charged' = charged
    BY <1>5 DEF Refund, Refundable
  <2>2. \A d \in Charges : collected'[d] # "NONE" => collected[d] # "NONE"
    BY <1>5, <2>1 DEF Refund, ChargeInv, Shape
  <2> QED BY <2>1, <2>2 DEF ReferenceRecordedOnce
<1>6. ASSUME UNCHANGED <<charged, collected>>
      PROVE  ReferenceRecordedOnce'
  BY <1>6 DEF ReferenceRecordedOnce
<1>7. ASSUME \/ \E k \in Keys : Reject(k)
             \/ \E s \in Sales : CancelSale(s) \/ \E l \in Lines : CorrectSale(s, l)
             \/ \E r \in Pricings : ChangePricing(r)
             \/ OpenSession \/ CloseSession \/ UNCHANGED vars
      PROVE  UNCHANGED <<charged, collected>>
  BY <1>7 DEF Reject, CancelSale, CorrectSale, ChangePricing, OpenSession, CloseSession, vars, moneyVars
<1> QED BY <1>1, <1>2, <1>3, <1>4, <1>5, <1>6, <1>7 DEF Next, Reserve, Recover

\* A terminal reference or an operation number is recorded by one collection, however the
\* reservations, confirmations and closes of all the sales interleave.
THEOREM ReferenceOnceAlways == Spec => []ReferenceRecordedOnce
<1>1. Init => ReferenceRecordedOnce
  BY DEF Init, ReferenceRecordedOnce
<1> QED BY <1>1, ReferenceStep, ChargeAlways, PTL DEF Spec

-----------------------------------------------------------------------------
(* What was answered stays answered *)

LEMMA AnswerStep ==
    ASSUME ChargeInv, [Next]_vars
    PROVE  /\ \A k \in Keys : /\ state[k] # "NONE" => attempt'[k] = attempt[k]
                              /\ state[k] \in {"CONFIRMED", "ABANDONED"} => state'[k] = state[k]
                              /\ declared[k] => declared'[k] /\ state'[k] = state[k]
           /\ \A s \in Sales : status[s] # "PENDING_PAYMENT" =>
                 /\ status'[s] = status[s] /\ paid'[s] = paid[s] /\ lines'[s] = lines[s]
           /\ \A c \in Charges : collected[c] \in {"APPLIED", "REFUNDED"} => collected'[c] = collected[c]
<1> DEFINE AttemptsStay ==
               \A k \in Keys : /\ state[k] # "NONE" => attempt'[k] = attempt[k]
                               /\ state[k] \in {"CONFIRMED", "ABANDONED"} => state'[k] = state[k]
                               /\ declared[k] => declared'[k] /\ state'[k] = state[k]
           SalesStay ==
               \A s \in Sales : status[s] # "PENDING_PAYMENT" =>
                   /\ status'[s] = status[s] /\ paid'[s] = paid[s] /\ lines'[s] = lines[s]
           MoneyStays ==
               \A c \in Charges :
                   collected[c] \in {"APPLIED", "REFUNDED"} => collected'[c] = collected[c]
<1>s. Shape /\ DeclaredIsClosed
  BY DEF ChargeInv
<1>1. ASSUME NEW k \in Keys, NEW s \in Sales, NEW p \in Plans, state[k] = "NONE", Seal(k, s, p)
      PROVE  AttemptsStay /\ SalesStay /\ MoneyStays
  BY <1>1, <1>s DEF Seal, saleVars, Shape, DeclaredIsClosed
<1>2. ASSUME NEW k \in Keys, NEW m \in External, NEW r \in References, ChargeOutside(k, <<k, m>>, r)
      PROVE  AttemptsStay /\ SalesStay /\ MoneyStays
  BY <1>2 DEF ChargeOutside, saleVars, attemptVars
<1>3. ASSUME NEW k \in Keys, Confirm(k)
      PROVE  AttemptsStay /\ SalesStay /\ MoneyStays
  <2>1. /\ state[k] = "RESERVED" /\ attempt[k].sale \in Sales
        /\ status[attempt[k].sale] = "PENDING_PAYMENT"
        /\ \A c \in attempt[k].plan.claims : collected[c] = "UNAPPLIED"
    BY <1>3, <1>s DEF Confirm, Evidenced, Settleable, Shape, Used
  <2>2. \A c \in NewCharges(k) : collected[c] = "NONE"
    BY <2>1, NewChargesType, <1>s DEF ChargeInv, ChargesPlanned, Open, Shape, Collections
  <2>3. AttemptsStay
    BY <1>3, <2>1, <1>s DEF Confirm, Shape, DeclaredIsClosed
  <2>4. SalesStay
    BY <1>3, <2>1, <1>s DEF Confirm, Shape
  <2>5. MoneyStays
    BY <1>3, <2>1, <2>2 DEF Confirm
  <2> QED BY <2>3, <2>4, <2>5
<1>4. ASSUME NEW k \in Keys, Reject(k)
      PROVE  AttemptsStay /\ SalesStay /\ MoneyStays
  BY <1>4, <1>s DEF Reject, Evidenced, saleVars, moneyVars, Shape, DeclaredIsClosed
<1>5. ASSUME NEW k \in Keys, Close(k)
      PROVE  AttemptsStay /\ SalesStay /\ MoneyStays
  <2>1. Open(k) /\ \A c \in Taken(k) : c \in NewCharges(k) /\ charged[c] # NoReference
    BY <1>5 DEF Close, Taken
  <2>2. \A c \in Taken(k) : collected[c] = "NONE"
    BY <2>1, NewChargesType, <1>s DEF ChargeInv, ChargesPlanned, Shape, Collections
  <2>3. state[k] \in {"RESERVED", "REJECTED"} /\ ~ declared[k]
    BY <2>1, <1>s DEF Open, DeclaredIsClosed
  <2>4. AttemptsStay
    BY <1>5, <2>3, <1>s DEF Close, Shape
  <2>5. SalesStay /\ MoneyStays
    BY <1>5, <2>2 DEF Close, saleVars
  <2> QED BY <2>4, <2>5
<1>6. ASSUME NEW c \in Charges, Refund(c)
      PROVE  AttemptsStay /\ SalesStay /\ MoneyStays
  BY <1>6, <1>s DEF Refund, Refundable, saleVars, attemptVars, Shape
<1>7. ASSUME NEW s \in Sales, CancelSale(s)
      PROVE  AttemptsStay /\ SalesStay /\ MoneyStays
  BY <1>7, <1>s DEF CancelSale, attemptVars, moneyVars, Shape
<1>8. ASSUME NEW s \in Sales, NEW l \in Lines, CorrectSale(s, l)
      PROVE  AttemptsStay /\ SalesStay /\ MoneyStays
  <2>1. \A t \in Sales : status[t] # "PENDING_PAYMENT" => lines'[t] = lines[t]
    BY <1>8 DEF CorrectSale
  <2> QED BY <1>8, <2>1 DEF CorrectSale, attemptVars, moneyVars
<1>9. ASSUME \/ \E r \in Pricings : ChangePricing(r)
             \/ OpenSession \/ CloseSession \/ UNCHANGED vars
      PROVE  AttemptsStay /\ SalesStay /\ MoneyStays
  BY <1>9 DEF ChangePricing, OpenSession, CloseSession, vars, saleVars, attemptVars, moneyVars
<1> QED BY <1>1, <1>2, <1>3, <1>4, <1>5, <1>6, <1>7, <1>8, <1>9 DEF Next, Reserve, Recover

\* A stored answer may be replayed for ever: a finished or declared attempt and every
\* sealed plan, a settled or cancelled sale, and a collection applied or refunded stay.
THEOREM AnswersAlwaysFinal == Spec => AnswersFinal
<1>1. ChargeInv /\ [Next]_vars =>
          [/\ \A k \in Keys : /\ state[k] # "NONE" => attempt'[k] = attempt[k]
                              /\ state[k] \in {"CONFIRMED", "ABANDONED"} => state'[k] = state[k]
                              /\ declared[k] => declared'[k] /\ state'[k] = state[k]
           /\ \A s \in Sales : status[s] # "PENDING_PAYMENT" =>
                 /\ status'[s] = status[s] /\ paid'[s] = paid[s] /\ lines'[s] = lines[s]
           /\ \A c \in Charges : collected[c] \in {"APPLIED", "REFUNDED"} => collected'[c] = collected[c]
          ]_vars
  BY AnswerStep
<1> QED BY <1>1, ChargeAlways, PTL DEF Spec, AnswersFinal

-----------------------------------------------------------------------------
(* A completed sale was paid what its own lines cost *)

\* The balance an attempt sealed is what its sealed prices leave of the sale.
Sealed(a, fixed) ==
    LET left == Left(a.price, fixed)
    IN Quotable(left, a.due) /\ a.due = BalanceAmount(a.price[a.plan.balance], left)
SealedQuote == \A k \in Keys : Used(k) => Sealed(attempt[k], FixedTenders(attempt[k].plan))

\* The prices a confirmed attempt charged are those of the lines its sale has.
SettledPrices == \A k \in Keys : state[k] = "CONFIRMED" => PricesMatch(k)

\* A quote depends on the prices of its own methods only.
LEMMA LeftOfTenders ==
    ASSUME NEW fixed, NEW p, NEW q, \A m \in DOMAIN fixed : p[m] = q[m]
    PROVE  Left(p, fixed) = Left(q, fixed)
<1> DEFINE D == DOMAIN fixed
           Whole(r) == Product(Restrict(r, D), D)
           Part(r) == [m \in D |-> fixed[m] * (Whole(r) \div r[m])]
<1>1. Restrict(p, D) = Restrict(q, D)
  BY DEF Restrict
<1>2. Whole(p) = Whole(q)
  BY <1>1
<1>3. Part(p) = Part(q)
  BY <1>2
<1>4. \A r : Left(r, fixed) = <<Whole(r) - Total(Part(r), D), Whole(r)>>
  BY DEF Left
<1> HIDE DEF Whole, Part
<1> QED BY <1>2, <1>3, <1>4

\* An attempt that stays, with the attempts its claims were made by, keeps its tenders.
LEMMA SameTenders ==
    ASSUME NEW p \in Plans, \A c \in p.claims : attempt'[c[1]] = attempt[c[1]]
    PROVE  FixedTenders(p)' = FixedTenders(p)
<1>1. \A c \in p.claims : ChargeAmount(c)' = ChargeAmount(c)
  BY DEF ChargeAmount
<1>2. \A m \in FixedMethods(p) :
         p.fixed[m] > 0 \/ (CHOOSE c \in ClaimOf(p, m) : TRUE) \in p.claims
  BY DEF FixedMethods, ClaimOf
<1> QED BY <1>1, <1>2 DEF FixedTenders

\* No step changes what a used attempt sealed, nor the tenders it stands for.
LEMMA UsedStay ==
    ASSUME ChargeInv, [Next]_vars, NEW k \in Keys, Used(k)
    PROVE  /\ attempt'[k] = attempt[k]
           /\ FixedTenders(attempt[k].plan)' = FixedTenders(attempt[k].plan)
<1>1. \A l \in Keys : Used(l) => attempt'[l] = attempt[l]
  BY AnswerStep DEF Used
<1>2. attempt[k].plan \in Plans
  BY DEF ChargeInv, Shape
<1>3. \A c \in attempt[k].plan.claims : Used(c[1]) /\ c[1] \in Keys
  BY <1>2, ClaimsType, ChargeParts DEF ChargeInv, ClaimsOfSale
<1> QED BY <1>1, <1>2, <1>3, SameTenders

\* A step seals no attempt but the one it reserves.
LEMMA NewlyUsed ==
    ASSUME ChargeInv, [Next]_vars, NEW k \in Keys, ~ Used(k), Used(k)'
    PROVE  \E s \in Sales, p \in Plans : ClaimsAvailable(s, p) /\ Seal(k, s, p)
<1>s. Shape /\ DeclaredIsClosed
  BY DEF ChargeInv
<1>1. ASSUME NEW l \in Keys, NEW s \in Sales, NEW p \in Plans,
             ClaimsAvailable(s, p), Seal(l, s, p)
      PROVE  ClaimsAvailable(s, p) /\ Seal(k, s, p)
  BY <1>1, <1>s DEF Seal, Used, Shape
<1>2. ASSUME NEW l \in Keys, Confirm(l) \/ Reject(l) \/ Close(l)
      PROVE  FALSE
  BY <1>2, <1>s DEF Confirm, Reject, Close, Evidenced, Open, Used, Shape
<1>3. ASSUME state' = state
      PROVE  FALSE
  BY <1>3 DEF Used
<1>4. ASSUME \/ \E l \in Keys, m \in External, r \in References : ChargeOutside(l, <<l, m>>, r)
             \/ \E c \in Charges : Refund(c)
             \/ \E s \in Sales : CancelSale(s) \/ \E l \in Lines : CorrectSale(s, l)
             \/ \E r \in Pricings : ChangePricing(r)
             \/ OpenSession \/ CloseSession \/ UNCHANGED vars
      PROVE  state' = state
  BY <1>4 DEF ChargeOutside, Refund, CancelSale, CorrectSale, ChangePricing, OpenSession,
              CloseSession, vars, attemptVars
<1> QED BY <1>1, <1>2, <1>3, <1>4 DEF Next, Reserve, Recover

LEMMA SealedStep == ChargeInv /\ SealedQuote /\ [Next]_vars => SealedQuote'
<1> SUFFICES ASSUME ChargeInv, SealedQuote, [Next]_vars, NEW k \in Keys, Used(k)'
             PROVE  Sealed(attempt'[k], FixedTenders(attempt[k].plan)')
  BY DEF SealedQuote
<1>1. CASE Used(k)
  BY <1>1, UsedStay DEF SealedQuote
<1>2. CASE ~ Used(k)
  <2>1. PICK s \in Sales, p \in Plans : ClaimsAvailable(s, p) /\ Seal(k, s, p)
    BY <1>2, NewlyUsed
  <2>2. \A c \in p.claims : attempt'[c[1]] = attempt[c[1]]
    <3> SUFFICES ASSUME NEW c \in p.claims PROVE attempt'[c[1]] = attempt[c[1]]
      OBVIOUS
    <3>1. c \in Charges /\ collected[c] = "UNAPPLIED"
      BY <2>1, ClaimsType DEF ClaimsAvailable
    <3>2. c[1] \in Keys /\ c[1] # k
      BY <3>1, <1>2, ChargeParts DEF ChargeInv, ChargesPlanned
    <3> QED BY <3>2, <2>1 DEF Seal
  <2>3. FixedTenders(p)' = FixedTenders(p)
    BY <2>2, SameTenders
  <2> DEFINE price == FullPrice[pricing][lines[s]]
             left == Left(price, FixedTenders(p))
             due == BalanceAmount(price[p.balance], left)
             sealed == [sale |-> s, session |-> session, plan |-> p, pricing |-> pricing,
                        price |-> price, due |-> due]
  <2>4. Quotable(left, due) /\ attempt' = [attempt EXCEPT ![k] = sealed]
    BY <2>1 DEF Seal
  <2>5. attempt'[k] = sealed
    BY <2>4 DEF ChargeInv, Shape
  <2>6. Sealed(sealed, FixedTenders(p))
    BY <2>4 DEF Sealed
  <2>7. sealed.plan = p
    OBVIOUS
  <2> HIDE DEF sealed
  <2> QED BY <2>3, <2>5, <2>6, <2>7
<1> QED BY <1>1, <1>2

\* The lines of a settled sale stay, and a confirmation compares them with the sealed prices.
LEMMA SettledStep == ChargeInv /\ SettledPrices /\ [Next]_vars => SettledPrices'
<1> SUFFICES ASSUME ChargeInv, SettledPrices, [Next]_vars, NEW k \in Keys, state'[k] = "CONFIRMED"
             PROVE  PricesMatch(k)'
  BY DEF SettledPrices
<1>1. PricesMatch(k) /\ Used(k) /\ lines'[attempt[k].sale] = lines[attempt[k].sale]
  <2>1. CASE state[k] = "CONFIRMED"
    <3>1. PricesMatch(k) /\ Used(k)
      BY <2>1 DEF SettledPrices, Used
    <3>2. attempt[k].sale \in Sales /\ status[attempt[k].sale] = "COMPLETED"
      BY <2>1, <3>1 DEF ChargeInv, Shape, PaidOnce
    <3> QED BY <3>1, <3>2, AnswerStep
  <2>2. CASE state[k] # "CONFIRMED"
    <3>1. Confirm(k)
      <4>s. Shape
        BY DEF ChargeInv
      <4>1. ASSUME NEW l \in Keys, NEW s \in Sales, NEW p \in Plans, Seal(l, s, p)
            PROVE  FALSE
        BY <4>1, <4>s, <2>2 DEF Seal, Shape
      <4>2. ASSUME NEW l \in Keys, Confirm(l)
            PROVE  Confirm(k)
        BY <4>2, <4>s, <2>2 DEF Confirm, Shape
      <4>3. ASSUME NEW l \in Keys, Reject(l) \/ Close(l)
            PROVE  FALSE
        BY <4>3, <4>s, <2>2 DEF Reject, Close, Shape
      <4>4. ASSUME \/ \E l \in Keys, m \in External, r \in References :
                         ChargeOutside(l, <<l, m>>, r)
                   \/ \E c \in Charges : Refund(c)
                   \/ \E s \in Sales : CancelSale(s) \/ \E l \in Lines : CorrectSale(s, l)
                   \/ \E r \in Pricings : ChangePricing(r)
                   \/ OpenSession \/ CloseSession \/ UNCHANGED vars
            PROVE  FALSE
        <5>1. state' = state
          BY <4>4 DEF ChargeOutside, Refund, CancelSale, CorrectSale, ChangePricing,
                      OpenSession, CloseSession, vars, attemptVars
        <5> QED BY <5>1, <2>2
      <4> QED BY <4>1, <4>2, <4>3, <4>4 DEF Next, Reserve, Recover
    <3> QED BY <3>1 DEF Confirm, Evidenced, Used
  <2> QED BY <2>1, <2>2
<1>2. /\ attempt'[k] = attempt[k]
      /\ FixedTenders(attempt[k].plan)' = FixedTenders(attempt[k].plan)
  BY <1>1, UsedStay
<1> QED BY <1>1, <1>2 DEF PricesMatch, Tenders

\* Whatever is corrected or repriced while the customer is charged, a completed sale was
\* paid the quote of the lines it has, at the prices in force when the charge was reserved
\* (buildSettlement compares the sealed prices with the lines under the sale's lock).
THEOREM AlwaysPaysForItsLines == Spec => []PaysForItsLines
<1>1. Init => SealedQuote /\ SettledPrices
  BY DEF Init, SealedQuote, SettledPrices, Used
<1>2. ChargeInv /\ SealedQuote /\ SettledPrices => PaysForItsLines
  <2> SUFFICES ASSUME ChargeInv, SealedQuote, SettledPrices, NEW k \in Keys, state[k] = "CONFIRMED"
               PROVE  LET a == attempt[k]
                          price == FullPrice[a.pricing][lines[a.sale]]
                          fixed == FixedTenders(a.plan)
                          left == Left(price, fixed)
                          due == BalanceAmount(price[a.plan.balance], left)
                          quoted == [m \in TenderMethods(a.plan) |->
                                        IF m = a.plan.balance THEN due ELSE fixed[m]]
                      IN Quotable(left, due) /\ paid[a.sale] = Total(quoted, DOMAIN quoted)
    BY DEF PaysForItsLines
  <2> DEFINE a == attempt[k]
             price == FullPrice[a.pricing][lines[a.sale]]
             fixed == FixedTenders(a.plan)
             due == BalanceAmount(price[a.plan.balance], Left(price, fixed))
             quoted == [m \in TenderMethods(a.plan) |->
                           IF m = a.plan.balance THEN due ELSE fixed[m]]
  <2>1. \A m \in TenderMethods(a.plan) : a.price[m] = price[m]
    BY DEF SettledPrices, PricesMatch, Tenders
  <2>2. DOMAIN fixed \subseteq TenderMethods(a.plan) /\ a.plan.balance \in TenderMethods(a.plan)
    BY DEF FixedTenders, TenderMethods
  <2>3. Left(a.price, fixed) = Left(price, fixed)
    BY <2>1, <2>2, LeftOfTenders
  <2>4. Quotable(Left(price, fixed), a.due) /\ a.due = due
    BY <2>1, <2>2, <2>3 DEF SealedQuote, Sealed, Used
  <2>5. paid[a.sale] = AttemptTotal(k)
    <3> DEFINE s == attempt[k].sale
               winners == {l \in Keys : state[l] = "CONFIRMED" /\ attempt[l].sale = s}
    <3>1. s \in Sales
      BY DEF ChargeInv, Shape, Used
    <3>2. k \in winners
      OBVIOUS
    <3>3. IF winners = {} THEN paid[s] = 0 ELSE \A l \in winners : paid[s] = AttemptTotal(l)
      BY <3>1 DEF ChargeInv, PaidOnce
    <3> QED BY <3>2, <3>3
  <2>6. Tenders(k) = quoted
    BY <2>4 DEF Tenders
  <2>7. AttemptTotal(k) = Total(quoted, DOMAIN quoted)
    BY <2>6 DEF AttemptTotal
  <2> QED BY <2>4, <2>5, <2>7
<1> QED BY <1>1, <1>2, SealedStep, SettledStep, ChargeAlways, PTL DEF Spec

-----------------------------------------------------------------------------
(* A counted drawer stays counted *)

LEMMA DrawerStep ==
    ASSUME ChargeInv, [Next]_vars
    PROVE  \A n \in 1..MaxSession : income'[n] # income[n] =>
              /\ sessionOpen /\ n = session
              /\ \E k \in Keys : /\ state[k] = "RESERVED" /\ state'[k] = "CONFIRMED"
                                 /\ attempt[k].session = n
<1> SUFFICES ASSUME NEW n \in 1..MaxSession, income'[n] # income[n]
             PROVE  /\ sessionOpen /\ n = session
                    /\ \E k \in Keys : /\ state[k] = "RESERVED" /\ state'[k] = "CONFIRMED"
                                       /\ attempt[k].session = n
  OBVIOUS
<1>1. ~ UNCHANGED income
  OBVIOUS
<1>2. PICK k \in Keys : Confirm(k)
  <2>1. \A k \in Keys, s \in Sales : Reserve(k, s) \/ Recover(k, s) => UNCHANGED income
    BY DEF Reserve, Recover, Seal, cashVars
  <2>2. \A k \in Keys, m \in External, r \in References :
            ChargeOutside(k, <<k, m>>, r) => UNCHANGED income
    BY DEF ChargeOutside, cashVars
  <2>3. \A k \in Keys : Reject(k) \/ Close(k) => UNCHANGED income
    BY DEF Reject, Close, cashVars
  <2>4. \A c \in Charges : Refund(c) => UNCHANGED income
    BY DEF Refund, cashVars
  <2>5. \A s \in Sales, l \in Lines : CorrectSale(s, l) => UNCHANGED income
    BY DEF CorrectSale, cashVars
  <2>6. \A s \in Sales : CancelSale(s) => UNCHANGED income
    BY DEF CancelSale, cashVars
  <2>7. \A r \in Pricings : ChangePricing(r) => UNCHANGED income
    BY DEF ChangePricing, cashVars
  <2>8. OpenSession \/ CloseSession \/ UNCHANGED vars => UNCHANGED income
    BY DEF OpenSession, CloseSession, vars, cashVars
  <2> QED BY <1>1, <2>1, <2>2, <2>3, <2>4, <2>5, <2>6, <2>7, <2>8 DEF Next
<1>3. /\ state[k] = "RESERVED" /\ state'[k] = "CONFIRMED"
      /\ sessionOpen /\ attempt[k].session = session
  BY <1>2 DEF Confirm, Evidenced, InItsSession, ChargeInv, Shape
<1>4. n = session
  BY <1>2 DEF Confirm
<1> QED BY <1>3, <1>4

\* Cash enters the open drawer only, with a settlement reserved in that same session: the
\* expected cash of a closed session never changes.
THEOREM ClosedSessionAlwaysFrozen == Spec => ClosedSessionFrozen
<1>1. ChargeInv /\ [Next]_vars =>
          [\A n \in 1..MaxSession : income'[n] # income[n] =>
              /\ sessionOpen /\ n = session
              /\ \E k \in Keys : /\ state[k] = "RESERVED" /\ state'[k] = "CONFIRMED"
                                 /\ attempt[k].session = n]_vars
  BY DrawerStep
<1> QED BY <1>1, ChargeAlways, PTL DEF Spec, ClosedSessionFrozen

-----------------------------------------------------------------------------
(* The checkout keeps ChargePromise.  A charge is taken by ChargeOutside,  *)
(* owed after Close, kept by Confirm and returned by Refund; a reservation *)
(* only decides for whom a charge would be.                                *)

LEMMA CustodyTable ==
    ASSUME NEW x
    PROVE  /\ x = "NONE" => CustodyOf[x] = "taken"
           /\ x = "UNAPPLIED" => CustodyOf[x] = "owed"
           /\ x = "APPLIED" => CustodyOf[x] = "kept"
           /\ x = "REFUNDED" => CustodyOf[x] = "returned"
BY DEF CustodyOf

LEMMA PromiseStart == Init => Promise!PromiseInit
BY ChargeParts DEF Init, Custody, Promise!PromiseInit

\* A step that moves no charge and settles nothing.
LEMMA PromiseQuiet ==
    ASSUME \A k \in Keys : state'[k] = "NONE" <=> state[k] = "NONE",
           \A s \in Sales : status'[s] = "COMPLETED" <=> status[s] = "COMPLETED",
           UNCHANGED <<attempt, charged, collected>>
    PROVE  UNCHANGED Promise!promiseVars
<1>1. \A c \in Charges : Custody(c)' = Custody(c) /\ OriginSale(c)' = OriginSale(c)
  BY DEF Custody, OriginSale
<1> QED BY <1>1, ChargeParts DEF Promise!promiseVars

\* Not a settlement: the charges of a sale change hands and the sales stay as they are.
LEMMA PromiseSeal ==
    ASSUME ChargeInv, NEW k \in Keys, NEW s \in Sales, NEW p \in Plans, ~ Used(k), Seal(k, s, p)
    PROVE  Promise!Plan
<1>1. /\ \A l \in Keys \ {k} : attempt'[l] = attempt[l] /\ state'[l] = state[l]
      /\ UNCHANGED <<status, charged, collected>>
  BY DEF Seal, ChargeInv, Shape, saleVars
<1>2. \A c \in Charges : Custody(c)' = Custody(c)
  BY <1>1 DEF Custody
<1>3. \A c \in Charges : Custody(c) # "none" => c[1] # k
  BY DEF Custody, ChargeInv, ChargesPlanned
<1>4. \A c \in Charges : Custody(c) # "none" => state'[c[1]] = state[c[1]] /\ OriginSale(c)' = OriginSale(c)
  BY <1>1, <1>3, ChargeParts DEF OriginSale
<1> QED BY <1>1, <1>2, <1>4 DEF Promise!Plan, Promise!OwnersKept

LEMMA PromiseTake ==
    ASSUME ChargeInv, NEW k \in Keys, NEW c \in Charges, NEW r \in References, ChargeOutside(k, c, r)
    PROVE  Promise!Take(c)
<1>1. /\ state[k] = "RESERVED" /\ c \in NewCharges(k) /\ charged[c] = NoReference
      /\ charged' = [charged EXCEPT ![c] = r]
      /\ UNCHANGED <<status, attempt, state, collected>>
  BY DEF ChargeOutside, saleVars, attemptVars
<1>2. c[1] = k /\ collected[c] = "NONE" /\ attempt[k].sale \in Sales
  BY <1>1, NewChargesType DEF ChargeInv, ChargesPlanned, Shape, Used
<1>3. status[attempt[k].sale] # "COMPLETED"
  BY <1>1 DEF ChargeInv, SettledIsClosed, Open
<1>4. \A d \in Charges : Custody(d)' = IF d = c THEN "taken" ELSE Custody(d)
  BY <1>1, <1>2, NothingAssumption, CustodyTable DEF Custody, ChargeInv, Shape
<1>5. \A d \in Charges : OriginSale(d)' = OriginSale(d)
  BY <1>1 DEF OriginSale
<1> QED BY <1>1, <1>2, <1>3, <1>4, <1>5 DEF Promise!Take, Custody, OriginSale

LEMMA PromiseRecord ==
    ASSUME ChargeInv, NEW k \in Keys, Close(k)
    PROVE  \E C \in SUBSET Charges : Promise!Record(C)
<1>1. /\ Open(k) /\ UNCHANGED <<status, attempt, charged>>
      /\ state' = [state EXCEPT ![k] = IF @ = "RESERVED" THEN "ABANDONED" ELSE @]
      /\ collected' = [c \in Charges |-> IF c \in Taken(k) THEN "UNAPPLIED" ELSE collected[c]]
  BY DEF Close, saleVars
<1>2. \A c \in Taken(k) : c \in Charges /\ charged[c] # NoReference /\ collected[c] = "NONE"
  BY <1>1, NewChargesType DEF Taken, ChargeInv, ChargesPlanned, Shape, Collections
<1>3. \A l \in Keys : state'[l] = "NONE" <=> state[l] = "NONE"
  BY <1>1 DEF ChargeInv, Shape, Open
<1>4. \A c \in Charges : Custody(c)' = IF c \in Taken(k) THEN "owed" ELSE Custody(c)
  BY <1>1, <1>2, CustodyTable DEF Custody
<1>5. \A c \in Charges : OriginSale(c)' = OriginSale(c)
  BY <1>1 DEF OriginSale
<1>6. \A c \in Taken(k) : Custody(c) = "taken"
  BY <1>2, CustodyTable DEF Custody
<1>7. Taken(k) \in SUBSET Charges
  BY <1>2
<1>8. Promise!Record(Taken(k))
  BY <1>1, <1>3, <1>4, <1>5, <1>6, <1>7, ChargeParts DEF Promise!Record
<1> QED BY <1>7, <1>8

\* The settlement of a sale keeps exactly the money taken or owed for it.
LEMMA PromiseSettle ==
    ASSUME ChargeInv, NEW k \in Keys, Confirm(k), NEW s \in Sales, s = attempt[k].sale
    PROVE  Promise!Settle(s)
<1> DEFINE Mine == NewCharges(k) \cup attempt[k].plan.claims
<1>1. /\ state[k] = "RESERVED" /\ status[s] = "PENDING_PAYMENT"
      /\ \A c \in NewCharges(k) : charged[c] # NoReference
      /\ state' = [state EXCEPT ![k] = "CONFIRMED"]
      /\ collected' = [c \in Charges |-> IF c \in Mine THEN "APPLIED" ELSE collected[c]]
      /\ status' = [status EXCEPT ![s] = "COMPLETED"]
      /\ UNCHANGED <<attempt, charged>>
  BY DEF Confirm, Evidenced, Settleable
<1>2. s \in Sales /\ Open(k) /\ attempt[k].plan.claims \subseteq Charges
  BY <1>1, ClaimsType DEF ChargeInv, Shape, Open, Used
<1>3. \A l \in Keys : state'[l] = "NONE" <=> state[l] = "NONE"
  BY <1>1 DEF ChargeInv, Shape
<1>4. \A c \in Charges : OriginSale(c)' = OriginSale(c)
  BY <1>1 DEF OriginSale
<1>5. \A t \in Sales : (status'[t] = "COMPLETED") = (t = s \/ status[t] = "COMPLETED")
  BY <1>1, <1>2 DEF ChargeInv, Shape
<1>6. \A c \in NewCharges(k) : /\ c \in Charges /\ state[c[1]] # "NONE" /\ OriginSale(c) = s
                               /\ charged[c] # NoReference /\ collected[c] = "NONE"
  BY <1>1, <1>2, NewChargesType DEF OriginSale, ChargeInv, ChargesPlanned, Shape, Collections
<1>7. \A c \in attempt[k].plan.claims : /\ state[c[1]] # "NONE" /\ OriginSale(c) = s
                                        /\ charged[c] # NoReference /\ collected[c] = "UNAPPLIED"
  BY <1>1, <1>2 DEF ChargeInv, ClaimsOfSale, ClaimsHeld, ChargesPlanned, Used
<1>8. ASSUME NEW c \in Charges, charged[c] # NoReference, OriginSale(c) = s,
             collected[c] \in {"NONE", "UNAPPLIED"}
      PROVE  c \in Mine
  <2>1. CASE collected[c] = "NONE"
    <3>1. Open(c[1]) /\ c[1] \in Keys /\ c \in NewCharges(c[1])
      BY <1>8, <2>1, ChargeParts DEF ChargeInv, NoMoneyForgotten, ChargesPlanned
    <3>2. c[1] = k
      BY <3>1, <1>2, <1>8 DEF ChargeInv, OneOpenAttempt, OriginSale
    <3> QED BY <3>1, <3>2
  <2>2. CASE collected[c] = "UNAPPLIED"
    BY <1>2, <1>8, <2>2 DEF ChargeInv, NothingLeftOut, Unapplied
  <2> QED BY <1>8, <2>1, <2>2
<1>9. \A c \in Charges : c \in Mine <=>
          /\ state[c[1]] # "NONE" /\ OriginSale(c) = s
          /\ charged[c] # NoReference /\ collected[c] \in {"NONE", "UNAPPLIED"}
  BY <1>6, <1>7, <1>8
<1>10. \A c \in Charges : charged[c] # NoReference => state[c[1]] # "NONE"
  BY DEF ChargeInv, ChargesPlanned, Used
<1>11. \A c \in Charges : Custody(c) \in {"taken", "owed"} <=>
          charged[c] # NoReference /\ collected[c] \in {"NONE", "UNAPPLIED"}
  BY CustodyTable DEF Custody, ChargeInv, Shape, Collections
<1>12. \A c \in Charges : Custody(c)' = IF c \in Mine THEN "kept" ELSE Custody(c)
  BY <1>1, <1>9, CustodyTable DEF Custody
<1>13. \A c \in Charges : c \in Mine <=>
          /\ (IF state[c[1]] = "NONE" THEN NoAttempt ELSE OriginSale(c)) = s
          /\ Custody(c) \in {"taken", "owed"}
  BY <1>9, <1>10, <1>11
<1>14. \A c \in Charges :
           (IF state[c[1]] = "NONE" THEN NoAttempt ELSE OriginSale(c))'
               = IF state[c[1]] = "NONE" THEN NoAttempt ELSE OriginSale(c)
  BY <1>3, <1>4, ChargeParts
<1>15. status[s] # "COMPLETED"
  BY <1>1
<1>16. [t \in Sales |-> status[t] = "COMPLETED"]'
           = [[t \in Sales |-> status[t] = "COMPLETED"] EXCEPT ![s] = TRUE]
  BY <1>5
<1>17. [c \in Charges |-> Custody(c)]'
           = [c \in Charges |->
                 IF /\ [d \in Charges |-> IF state[d[1]] = "NONE" THEN NoAttempt ELSE OriginSale(d)][c] = s
                    /\ [d \in Charges |-> Custody(d)][c] \in {"taken", "owed"}
                 THEN "kept" ELSE [d \in Charges |-> Custody(d)][c]]
  BY <1>12, <1>13
<1> QED BY <1>14, <1>15, <1>16, <1>17 DEF Promise!Settle

LEMMA PromiseGiveBack ==
    ASSUME ChargeInv, NEW c \in Charges, Refund(c)
    PROVE  Promise!GiveBack(c)
<1>1. /\ collected[c] = "UNAPPLIED" /\ collected' = [collected EXCEPT ![c] = "REFUNDED"]
      /\ UNCHANGED <<status, attempt, state, charged>>
  BY DEF Refund, Refundable, saleVars, attemptVars
<1>2. charged[c] # NoReference
  BY <1>1 DEF ChargeInv, ChargesPlanned
<1>3. \A d \in Charges : Custody(d)' = IF d = c THEN "returned" ELSE Custody(d)
  BY <1>1, <1>2, CustodyTable DEF Custody, ChargeInv, Shape
<1>4. \A d \in Charges : OriginSale(d)' = OriginSale(d)
  BY <1>1 DEF OriginSale
<1>5. Custody(c) = "owed"
  BY <1>1, <1>2, CustodyTable DEF Custody
<1> QED BY <1>1, <1>3, <1>4, <1>5 DEF Promise!GiveBack

LEMMA PromiseStep ==
    ChargeInv /\ [Next]_vars => [Promise!PromiseNext]_(Promise!promiseVars)
<1> SUFFICES ASSUME ChargeInv, [Next]_vars
             PROVE  Promise!PromiseNext \/ UNCHANGED Promise!promiseVars
  OBVIOUS
<1>1. ASSUME NEW k \in Keys, NEW s \in Sales, Reserve(k, s) \/ Recover(k, s)
      PROVE  Promise!PromiseNext
  <2>1. PICK p \in Plans : ~ Used(k) /\ Seal(k, s, p)
    BY <1>1 DEF Reserve, Recover, Used
  <2>2. Promise!Plan
    BY <2>1, PromiseSeal
  <2> QED BY <2>2 DEF Promise!PromiseNext
<1>2. ASSUME NEW k \in Keys, NEW m \in External, NEW r \in References, ChargeOutside(k, <<k, m>>, r)
      PROVE  Promise!PromiseNext
  <2>1. <<k, m>> \in Charges
    BY DEF Charges
  <2> QED BY <1>2, <2>1, PromiseTake DEF Promise!PromiseNext
<1>3. ASSUME NEW k \in Keys, Confirm(k)
      PROVE  Promise!PromiseNext
  <2>1. PICK s \in Sales : s = attempt[k].sale
    BY <1>3 DEF Confirm, Evidenced, ChargeInv, Shape, Used
  <2>2. Promise!Settle(s)
    BY <1>3, <2>1, PromiseSettle
  <2> QED BY <2>2 DEF Promise!PromiseNext
<1>4. ASSUME NEW k \in Keys, Close(k)
      PROVE  Promise!PromiseNext
  BY <1>4, PromiseRecord DEF Promise!PromiseNext
<1>5. ASSUME NEW c \in Charges, Refund(c)
      PROVE  Promise!PromiseNext
  BY <1>5, PromiseGiveBack DEF Promise!PromiseNext
<1>6. ASSUME NEW k \in Keys, Reject(k)
      PROVE  UNCHANGED Promise!promiseVars
  <2>1. \A l \in Keys : state'[l] = "NONE" <=> state[l] = "NONE"
    BY <1>6 DEF Reject, Evidenced, ChargeInv, Shape
  <2> QED BY <1>6, <2>1, PromiseQuiet DEF Reject, saleVars, moneyVars
<1>7. ASSUME NEW s \in Sales, CancelSale(s)
      PROVE  UNCHANGED Promise!promiseVars
  <2>1. \A t \in Sales : status'[t] = "COMPLETED" <=> status[t] = "COMPLETED"
    BY <1>7 DEF CancelSale, ChargeInv, Shape
  <2> QED BY <1>7, <2>1, PromiseQuiet DEF CancelSale, attemptVars, moneyVars
<1>8. ASSUME \/ \E s \in Sales, l \in Lines : CorrectSale(s, l)
             \/ \E r \in Pricings : ChangePricing(r)
             \/ OpenSession \/ CloseSession \/ UNCHANGED vars
      PROVE  UNCHANGED Promise!promiseVars
  <2>1. UNCHANGED <<status, state, attempt, charged, collected>>
    BY <1>8 DEF CorrectSale, ChangePricing, OpenSession, CloseSession, vars, saleVars, attemptVars, moneyVars
  <2> QED BY <2>1, PromiseQuiet
<1> QED BY <1>1, <1>2, <1>3, <1>4, <1>5, <1>6, <1>7, <1>8 DEF Next

\* The checkout implements ChargePromise: every charge of a settled sale is kept for it or
\* was returned, an unsettled sale keeps nothing, and nothing is kept or returned twice.
THEOREM ChargePromiseKept == Spec => KeepsChargePromise
<1>1. Init => Promise!PromiseInit
  BY PromiseStart
<1>2. ChargeInv /\ [Next]_vars => [Promise!PromiseNext]_(Promise!promiseVars)
  BY PromiseStep
<1> QED BY <1>1, <1>2, ChargeAlways, PTL DEF Spec, KeepsChargePromise, Promise!PromiseSpec

-----------------------------------------------------------------------------
(* The checkout implements SaleCharges: what the database decides on is the sale, the      *)
(* attempts and the collections alone.                                                     *)

AtomicPhase(k) == IF declared[k] THEN "CLOSED" ELSE state[k]
AtomicSale(k) == IF Used(k) THEN attempt[k].sale ELSE NoAttempt
AtomicPlan(k) == IF Used(k) THEN attempt[k].plan.claims ELSE {}

LEMMA AtomicParts ==
    /\ \A k \in Keys : /\ [l \in Keys |-> IF declared[l] THEN "CLOSED" ELSE state[l]][k] = AtomicPhase(k)
                       /\ [l \in Keys |-> {l} \X External][k] = {k} \X External
    /\ \A k \in Keys : [l \in Keys |-> IF state[l] = "NONE" THEN NoAttempt ELSE attempt[l].sale][k]
                          = AtomicSale(k)
    /\ \A k \in Keys : [l \in Keys |-> IF state[l] = "NONE" THEN {} ELSE attempt[l].plan.claims][k]
                          = AtomicPlan(k)
BY DEF AtomicPhase, AtomicSale, AtomicPlan, Used

LEMMA AtomicView ==
    ASSUME ChargeInv
    PROVE  /\ \A k \in Keys : Atomic!Open(k) <=> Open(k)
           /\ \A s \in Sales : Atomic!Left(s) = Unapplied(s)
<1>1. \A k \in Keys : Atomic!Open(k) <=> Open(k)
  BY AtomicParts DEF Atomic!Open, AtomicPhase, Open, ChargeInv, DeclaredIsClosed
<1>2. ASSUME NEW s \in Sales, NEW c \in Charges, collected[c] = "UNAPPLIED"
      PROVE  (\E k \in Keys : c \in {k} \X External /\ AtomicSale(k) = s) <=> OriginSale(c) = s
  <2>1. Used(c[1]) /\ c[1] \in Keys /\ c = <<c[1], c[2]>> /\ c[2] \in External
    BY <1>2, ChargeParts DEF ChargeInv, ChargesPlanned
  <2>2. \A k \in Keys : c \in {k} \X External <=> k = c[1]
    BY <2>1
  <2> QED BY <2>1, <2>2 DEF AtomicSale, OriginSale
<1> QED BY <1>1, <1>2, AtomicParts DEF Atomic!Left, Unapplied

LEMMA AtomicStart == Init => Atomic!ChargesInit
BY DEF Init, Atomic!ChargesInit

\* T-R and T-RR: the plan claims exactly what is left of the sale.
LEMMA AtomicSeal ==
    ASSUME ChargeInv, NEW k \in Keys, NEW s \in Sales, NEW p \in Plans, ~ Used(k), Reservable(s),
           ClaimsAvailable(s, p), Seal(k, s, p)
    PROVE  Atomic!Reserve(k, s)
<1>1. /\ attempt'[k].sale = s /\ attempt'[k].plan = p /\ state'[k] = "RESERVED"
      /\ \A l \in Keys \ {k} : attempt'[l] = attempt[l] /\ state'[l] = state[l]
      /\ claim' = [c \in Charges |-> IF c \in p.claims THEN k ELSE claim[c]]
      /\ UNCHANGED <<status, declared, collected>>
  BY DEF Seal, ChargeInv, Shape, saleVars
<1>2. p.claims = Unapplied(s) /\ \A c \in Unapplied(s) : claim[c] = NoAttempt
  BY ClaimsType DEF ClaimsAvailable, Unapplied
<1>3. Atomic!Left(s) = p.claims
  BY <1>2, AtomicView
<1>4. AtomicPhase(k) = "NONE" /\ ~ declared[k]
  BY DEF AtomicPhase, Used, ChargeInv, DeclaredIsClosed
<1>5. \A l \in Keys : Atomic!Open(l) => AtomicSale(l) # s
  BY AtomicView DEF Reservable, OpenAttempts, AtomicSale, Open, Used
<1>6. [l \in Keys |-> IF declared[l] THEN "CLOSED" ELSE state[l]]' =
          [[l \in Keys |-> IF declared[l] THEN "CLOSED" ELSE state[l]] EXCEPT ![k] = "RESERVED"]
  BY <1>1, <1>4
<1>7. [l \in Keys |-> IF state[l] = "NONE" THEN NoAttempt ELSE attempt[l].sale]' =
          [[l \in Keys |-> IF state[l] = "NONE" THEN NoAttempt ELSE attempt[l].sale] EXCEPT ![k] = s]
  BY <1>1
<1>8. [l \in Keys |-> IF state[l] = "NONE" THEN {} ELSE attempt[l].plan.claims]' =
          [[l \in Keys |-> IF state[l] = "NONE" THEN {} ELSE attempt[l].plan.claims]
              EXCEPT ![k] = Atomic!Left(s)]
  BY <1>1, <1>3
<1>9. claim' = [c \in Charges |-> IF c \in Atomic!Left(s) THEN k ELSE claim[c]]
  BY <1>1, <1>3
<1>10. status[s] = "PENDING_PAYMENT"
  BY DEF Reservable
<1>11. \A c \in Atomic!Left(s) : claim[c] = NoAttempt
  BY <1>2, <1>3
<1> QED BY <1>1, <1>4, <1>5, <1>6, <1>7, <1>8, <1>9, <1>10, <1>11, AtomicParts DEF Atomic!Reserve

\* A step that makes no plan leaves the sales and the plans of the attempts.
LEMMA AtomicPlansStay ==
    ASSUME \A k \in Keys : state'[k] = "NONE" <=> state[k] = "NONE", UNCHANGED attempt
    PROVE  UNCHANGED <<[k \in Keys |-> IF state[k] = "NONE" THEN NoAttempt ELSE attempt[k].sale],
                       [k \in Keys |-> IF state[k] = "NONE" THEN {} ELSE attempt[k].plan.claims]>>
OBVIOUS

\* T-C: the plan is still what is left of the sale, and the new charges are not recorded yet.
LEMMA AtomicConfirm ==
    ASSUME ChargeInv, NEW k \in Keys, Confirm(k)
    PROVE  \E C \in SUBSET ({k} \X External) : Atomic!Confirm(k, C)
<1>0. PICK s \in Sales : s = attempt[k].sale
  BY DEF Confirm, Evidenced, ChargeInv, Shape, Used
<1>1. /\ state[k] = "RESERVED" /\ status[s] = "PENDING_PAYMENT"
      /\ \A c \in attempt[k].plan.claims :
            collected[c] = "UNAPPLIED" /\ claim[c] = k /\ OriginSale(c) = s
      /\ state' = [state EXCEPT ![k] = "CONFIRMED"]
      /\ collected' = [c \in Charges |-> IF c \in NewCharges(k) \cup attempt[k].plan.claims
                                         THEN "APPLIED" ELSE collected[c]]
      /\ status' = [status EXCEPT ![s] = "COMPLETED"]
      /\ UNCHANGED <<attempt, declared, claim>>
  BY <1>0 DEF Confirm, Evidenced, Settleable
<1>2. Open(k) /\ ~ declared[k] /\ Used(k) /\ attempt[k].plan.claims \subseteq Charges
  BY <1>1, ClaimsType DEF ChargeInv, Shape, DeclaredIsClosed, Open, Used
<1>3. attempt[k].plan.claims = Unapplied(s)
  BY <1>0, <1>1, <1>2 DEF Unapplied, ChargeInv, NothingLeftOut
<1>4. AtomicPhase(k) = "RESERVED" /\ AtomicSale(k) = s /\ AtomicPlan(k) = Atomic!Left(s)
  BY <1>0, <1>1, <1>2, <1>3, AtomicView DEF AtomicPhase, AtomicSale, AtomicPlan
<1>5. PICK C \in SUBSET ({k} \X External) : C = NewCharges(k)
  <2>1. NewCharges(k) \in SUBSET ({k} \X External)
    BY DEF NewCharges
  <2> QED BY <2>1
<1>6. \A c \in C : collected[c] = "NONE"
  BY <1>2, <1>5, NewChargesType DEF ChargeInv, ChargesPlanned
<1>7. [l \in Keys |-> IF declared[l] THEN "CLOSED" ELSE state[l]]' =
          [[l \in Keys |-> IF declared[l] THEN "CLOSED" ELSE state[l]] EXCEPT ![k] = "CONFIRMED"]
  BY <1>1, <1>2 DEF ChargeInv, Shape
<1>8. collected' = Atomic!Mark(AtomicPlan(k) \cup C, "APPLIED")
  BY <1>1, <1>2, <1>5 DEF Atomic!Mark, AtomicPlan
<1>9. \A l \in Keys : state'[l] = "NONE" <=> state[l] = "NONE"
  BY <1>1 DEF ChargeInv, Shape
<1>10. \A c \in AtomicPlan(k) : claim[c] = k
  BY <1>1 DEF AtomicPlan
<1>11. Atomic!Confirm(k, C)
  BY <1>1, <1>4, <1>6, <1>7, <1>8, <1>9, <1>10, AtomicParts, AtomicPlansStay DEF Atomic!Confirm
<1> QED BY <1>11

LEMMA AtomicReject ==
    ASSUME ChargeInv, NEW k \in Keys, Reject(k)
    PROVE  Atomic!Reject(k)
<1>1. /\ state[k] = "RESERVED" /\ ~ declared[k] /\ state' = [state EXCEPT ![k] = "REJECTED"]
      /\ UNCHANGED <<status, attempt, declared, collected, claim>>
  BY DEF Reject, Evidenced, saleVars, moneyVars, ChargeInv, DeclaredIsClosed
<1>2. [l \in Keys |-> IF declared[l] THEN "CLOSED" ELSE state[l]]' =
          [[l \in Keys |-> IF declared[l] THEN "CLOSED" ELSE state[l]] EXCEPT ![k] = "REJECTED"]
  BY <1>1 DEF ChargeInv, Shape
<1>3. \A l \in Keys : state'[l] = "NONE" <=> state[l] = "NONE"
  BY <1>1 DEF ChargeInv, Shape
<1> QED BY <1>1, <1>2, <1>3, AtomicPlansStay DEF Atomic!Reject

\* T-X: what was charged was not recorded yet.
LEMMA AtomicClose ==
    ASSUME ChargeInv, NEW k \in Keys, Close(k)
    PROVE  \E C \in SUBSET ({k} \X External) : Atomic!Close(k, C)
<1>1. /\ Open(k) /\ UNCHANGED <<status, attempt>>
      /\ state' = [state EXCEPT ![k] = IF @ = "RESERVED" THEN "ABANDONED" ELSE @]
      /\ declared' = [declared EXCEPT ![k] = TRUE]
      /\ collected' = [c \in Charges |-> IF c \in Taken(k) THEN "UNAPPLIED" ELSE collected[c]]
      /\ claim' = [c \in Charges |-> IF claim[c] = k THEN NoAttempt ELSE claim[c]]
  BY DEF Close, saleVars
<1>2. PICK C \in SUBSET ({k} \X External) : C = Taken(k)
  <2>1. Taken(k) \in SUBSET ({k} \X External)
    BY DEF Taken, NewCharges
  <2> QED BY <2>1
<1>3. \A c \in C : collected[c] = "NONE"
  BY <1>1, <1>2, NewChargesType DEF Taken, ChargeInv, ChargesPlanned
<1>4. [l \in Keys |-> IF declared[l] THEN "CLOSED" ELSE state[l]]' =
          [[l \in Keys |-> IF declared[l] THEN "CLOSED" ELSE state[l]] EXCEPT ![k] = "CLOSED"]
  BY <1>1 DEF ChargeInv, Shape
<1>5. \A l \in Keys : state'[l] = "NONE" <=> state[l] = "NONE"
  BY <1>1 DEF ChargeInv, Shape, Open
<1>6. collected' = Atomic!Mark(C, "UNAPPLIED")
  BY <1>1, <1>2 DEF Atomic!Mark
<1>7. Atomic!Open(k)
  BY <1>1, AtomicView
<1>8. Atomic!Close(k, C)
  BY <1>1, <1>3, <1>4, <1>5, <1>6, <1>7, AtomicPlansStay DEF Atomic!Close
<1> QED BY <1>8

LEMMA AtomicRefund ==
    ASSUME ChargeInv, NEW c \in Charges, Refund(c)
    PROVE  Atomic!Refund(c)
<1>1. /\ collected[c] = "UNAPPLIED" /\ claim[c] = NoAttempt
      /\ collected' = [collected EXCEPT ![c] = "REFUNDED"]
      /\ UNCHANGED <<status, attempt, state, declared, claim>>
  BY DEF Refund, Refundable, saleVars, attemptVars
<1>2. collected' = Atomic!Mark({c}, "REFUNDED")
  BY <1>1 DEF Atomic!Mark, ChargeInv, Shape
<1> QED BY <1>1, <1>2 DEF Atomic!Refund

\* Each operation on an attempt moves it to another phase.
LEMMA AtomicOperates ==
    ASSUME NEW k \in Keys,
           \/ \E s \in Sales : Atomic!Reserve(k, s)
           \/ \E C \in SUBSET ({k} \X External) : Atomic!Confirm(k, C) \/ Atomic!Close(k, C)
           \/ Atomic!Reject(k)
    PROVE  Atomic!ChargesNext
<1> DEFINE phase == [l \in Keys |-> IF declared[l] THEN "CLOSED" ELSE state[l]]
           new == phase'
<1>1. \/ phase[k] = "NONE" /\ new = [phase EXCEPT ![k] = "RESERVED"]
      \/ phase[k] = "RESERVED" /\ new = [phase EXCEPT ![k] = "CONFIRMED"]
      \/ phase[k] \in {"RESERVED", "REJECTED"} /\ new = [phase EXCEPT ![k] = "CLOSED"]
      \/ phase[k] = "RESERVED" /\ new = [phase EXCEPT ![k] = "REJECTED"]
  <2>1. ASSUME NEW s \in Sales, Atomic!Reserve(k, s)
        PROVE  phase[k] = "NONE" /\ new = [phase EXCEPT ![k] = "RESERVED"]
    BY <2>1 DEF Atomic!Reserve
  <2>2. ASSUME NEW C \in SUBSET ({k} \X External), Atomic!Confirm(k, C)
        PROVE  phase[k] = "RESERVED" /\ new = [phase EXCEPT ![k] = "CONFIRMED"]
    BY <2>2 DEF Atomic!Confirm
  <2>3. ASSUME NEW C \in SUBSET ({k} \X External), Atomic!Close(k, C)
        PROVE  phase[k] \in {"RESERVED", "REJECTED"} /\ new = [phase EXCEPT ![k] = "CLOSED"]
    BY <2>3 DEF Atomic!Close, Atomic!Open
  <2>4. ASSUME Atomic!Reject(k)
        PROVE  phase[k] = "RESERVED" /\ new = [phase EXCEPT ![k] = "REJECTED"]
    BY <2>4 DEF Atomic!Reject
  <2> QED BY <2>1, <2>2, <2>3, <2>4
<1>2. phase = [l \in Keys |-> phase[l]]
  OBVIOUS
<1> HIDE DEF phase, new
<1>3. new[k] # phase[k]
  BY <1>1, <1>2
<1>4. [l \in Keys |-> {l} \X External][k] = ({k} \X External)
  OBVIOUS
<1>5. Atomic!Operate(k)
  BY <1>3, <1>4 DEF phase, new, Atomic!Operate
<1> QED BY <1>5 DEF Atomic!ChargesNext

LEMMA AtomicStep ==
    ChargeInv /\ [Next]_vars => [Atomic!ChargesNext]_(Atomic!chargesVars)
<1> SUFFICES ASSUME ChargeInv, [Next]_vars
             PROVE  Atomic!ChargesNext \/ UNCHANGED Atomic!chargesVars
  OBVIOUS
<1>1. ASSUME NEW k \in Keys, NEW s \in Sales, Reserve(k, s) \/ Recover(k, s)
      PROVE  Atomic!ChargesNext
  <2>1. PICK p \in Plans : ~ Used(k) /\ Reservable(s) /\ ClaimsAvailable(s, p) /\ Seal(k, s, p)
    BY <1>1 DEF Reserve, Recover, Used
  <2>2. Atomic!Reserve(k, s)
    BY <2>1, AtomicSeal
  <2> QED BY <2>2, AtomicOperates
<1>2. ASSUME NEW k \in Keys, Confirm(k) \/ Close(k)
      PROVE  Atomic!ChargesNext
  <2>1. \E C \in SUBSET ({k} \X External) : Atomic!Confirm(k, C) \/ Atomic!Close(k, C)
    BY <1>2, AtomicConfirm, AtomicClose
  <2> QED BY <2>1, AtomicOperates
<1>3. ASSUME NEW k \in Keys, Reject(k)
      PROVE  Atomic!ChargesNext
  BY <1>3, AtomicReject, AtomicOperates
<1>4. ASSUME NEW c \in Charges, Refund(c)
      PROVE  Atomic!ChargesNext
  BY <1>4, AtomicRefund DEF Atomic!ChargesNext
<1>5. ASSUME NEW s \in Sales, CancelSale(s)
      PROVE  Atomic!ChargesNext
  <2>1. Atomic!Cancel(s)
    BY <1>5 DEF CancelSale, attemptVars, moneyVars, Atomic!Cancel
  <2> QED BY <2>1 DEF Atomic!ChargesNext
<1>6. ASSUME \/ \E k \in Keys, m \in External, r \in References : ChargeOutside(k, <<k, m>>, r)
             \/ \E s \in Sales, l \in Lines : CorrectSale(s, l)
             \/ \E r \in Pricings : ChangePricing(r)
             \/ OpenSession \/ CloseSession \/ UNCHANGED vars
      PROVE  UNCHANGED Atomic!chargesVars
  <2>1. UNCHANGED <<status, attempt, state, declared, collected, claim>>
    BY <1>6 DEF ChargeOutside, CorrectSale, ChangePricing, OpenSession, CloseSession, vars,
                saleVars, attemptVars, moneyVars
  <2> QED BY <2>1 DEF Atomic!chargesVars
<1> QED BY <1>1, <1>2, <1>3, <1>4, <1>5, <1>6 DEF Next

\* The checkout implements SaleCharges: an attempt is confirmed with exactly what is left of
\* its sale and its own new charges, whatever prices, sessions and evidence decided before
\* (T-R, T-RR, T-C, T-X and T-F).
THEOREM SaleChargesKept == Spec => KeepsSaleCharges
<1>1. Init => Atomic!ChargesInit
  BY AtomicStart
<1>2. ChargeInv /\ [Next]_vars => [Atomic!ChargesNext]_(Atomic!chargesVars)
  BY AtomicStep
<1> QED BY <1>1, <1>2, ChargeAlways, PTL DEF Spec, KeepsSaleCharges, Atomic!ChargesSpec
=============================================================================
