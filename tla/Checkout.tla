------------------------------ MODULE Checkout ------------------------------
(***************************************************************************)
(* The durable charge reservation of a PROPORTIONAL_V1 sale, from the      *)
(* moment the sale waits at the cashier:                                   *)
(* src/api/src/modules/payments/checkout-*.ts and external-collections.    *)
(*                                                                         *)
(* The cashier reserves the charge (T-R), operates the card terminal or    *)
(* accepts the transfer, and confirms (T-C) or closes (T-X) the attempt,   *)
(* declaring what was charged outside.  What was charged and not applied   *)
(* is an external collection, applied by a later attempt of the same sale  *)
(* or refunded by hand (T-F).  Each request is one transaction that locks  *)
(* the Sale row first (T-F: the collection row) and may be repeated, late  *)
(* or lost at any point; a repetition answers from the stored attempt and  *)
(* writes nothing, so the model does not tell it from no step.             *)
(*                                                                         *)
(* Abstractions: the lines of a sale are one value with a full price per   *)
(* method under each pricing configuration; amounts are whole pesos; the   *)
(* holds and the inventory, which always cover a sale that waits at the    *)
(* cashier (module SaleStock), and the permissions are left out; one       *)
(* branch and one register.  The person who declares tells the truth.      *)
(***************************************************************************)
EXTENDS Integers, FiniteSets, Functions

CONSTANTS
    Sales,          \* the sales waiting at the cashier
    Keys,           \* the reserve keys the cashiers generate
    External,       \* the methods charged outside the system
    Cash,           \* the method that is not
    Lines,          \* the contents a sale may have
    Pricings,       \* the pricing configurations
    FullPrice,      \* the full price per configuration, content and method
    FixedAmounts,   \* the amounts a cashier may fix for a new tender
    References,     \* what terminals and banks print on a charge
    MaxSession,     \* the cash sessions the register will open
    NoAttempt,      \* a key nothing was reserved with
    NoReference     \* a charge that was not made

Methods == External \cup {Cash}

ASSUME CashAssumption == Cash \notin External
ASSUME PriceAssumption ==
    /\ FullPrice \in [Pricings -> [Lines -> [Methods -> Nat \ {0}]]]
    /\ FixedAmounts \subseteq Nat \ {0}
    /\ MaxSession \in Nat
ASSUME NothingAssumption == NoAttempt \notin Keys /\ NoReference \notin References

VARIABLES
    pricing,        \* the pricing configuration in force
    status,         \* Sale.status
    lines,          \* the SaleItem rows of each sale
    paid,           \* the sum of the SalePayment rows of each sale
    attempt,        \* the CheckoutAttempt of each key, with its sealed plan
    state,          \* CheckoutAttempt.status
    declared,       \* whether CheckoutAttempt.declaredAt is set
    charged,        \* outside: the reference of each charge really made
    collected,      \* ExternalCollection.status of each charge
    claim,          \* ExternalCollection.claimAttemptId
    session,        \* the latest cash session
    sessionOpen,    \* whether it is OPEN
    income          \* the SALE_INCOME movements of each session

saleVars == <<pricing, status, lines, paid>>
attemptVars == <<attempt, state, declared>>
moneyVars == <<charged, collected, claim>>
cashVars == <<session, sessionOpen, income>>
vars == <<saleVars, attemptVars, moneyVars, cashVars>>

-----------------------------------------------------------------------------
(* Plans and quotes *)

\* A charge is made outside for one method of one attempt.
Charges == Keys \X External

OriginSale(c) == attempt[c[1]].sale
ChargeAmount(c) ==
    LET a == attempt[c[1]]
    IN IF c[2] = a.plan.balance THEN a.due ELSE a.plan.fixed[c[2]]

ClaimOf(p, m) == {c \in p.claims : c[2] = m}
FixedMethods(p) == {m \in Methods : p.fixed[m] > 0 \/ ClaimOf(p, m) # {}}
TenderMethods(p) == FixedMethods(p) \cup {p.balance}

\* One tender per method, the balance, a new amount or a collection; three at most.
WellFormed(p) ==
    /\ p.fixed[p.balance] = 0
    /\ \A c \in p.claims : c[2] # p.balance /\ p.fixed[c[2]] = 0
    /\ \A c, d \in p.claims : c[2] = d[2] => c = d
    /\ Cardinality(TenderMethods(p)) <= 3

\* A plan: the method of the balance, the fixed amounts of new tenders (0 for none), and
\* the collections that pay for other methods with the amount they were made for.
Plans ==
    {p \in [balance : Methods, fixed : [Methods -> FixedAmounts \cup {0}],
            claims : SUBSET Charges] : WellFormed(p)}

\* What each method other than the balance pays.
FixedTenders(p) ==
    [m \in FixedMethods(p) |->
        IF p.fixed[m] > 0 THEN p.fixed[m] ELSE ChargeAmount(CHOOSE c \in ClaimOf(p, m) : TRUE)]

Product(f, S) == FoldFunctionOnSet(LAMBDA x, y : x * y, 1, f, S)
Total(f, S) == FoldFunctionOnSet(LAMBDA x, y : x + y, 0, f, S)

\* What the fixed amounts leave of the sale: a fraction of it, as <<numerator, denominator>>
\* over the product of their full prices.
Left(price, fixed) ==
    LET whole == Product(Restrict(price, DOMAIN fixed), DOMAIN fixed)
        covered == Total([m \in DOMAIN fixed |-> fixed[m] * (whole \div price[m])], DOMAIN fixed)
    IN <<whole - covered, whole>>

\* The rest of the sale at the full price of the balance method, rounded half up.
BalanceAmount(fullPrice, left) ==
    (2 * fullPrice * left[1] + left[2]) \div (2 * left[2])

Quotable(left, due) == left[1] > 0 /\ due >= 1

\* What an attempt collects for its sale, per method and in all.
Tenders(k) ==
    LET a == attempt[k]
        fixed == FixedTenders(a.plan)
    IN [m \in TenderMethods(a.plan) |-> IF m = a.plan.balance THEN a.due ELSE fixed[m]]
AttemptTotal(k) == Total(Tenders(k), DOMAIN Tenders(k))
CashTender(k) == IF Cash \in DOMAIN Tenders(k) THEN Tenders(k)[Cash] ELSE 0

\* The charges an attempt makes outside: its new tenders that are not cash.
NewCharges(k) ==
    {<<k, m>> : m \in {n \in External : /\ n \in TenderMethods(attempt[k].plan)
                                        /\ ClaimOf(attempt[k].plan, n) = {}}}

\* An attempt that is not finished: RESERVED, or REJECTED and not declared.
Open(k) == state[k] = "RESERVED" \/ (state[k] = "REJECTED" /\ ~ declared[k])
OpenAttempts(s) == {k \in Keys : Open(k) /\ attempt[k].sale = s}

\* The collections the sale originated that are neither applied nor refunded.
Unapplied(s) == {c \in Charges : collected[c] = "UNAPPLIED" /\ OriginSale(c) = s}

\* Not the code: a reference is free again once its collection is applied or refunded.
RecordedWhileUnapplied(m, r) ==
    \E c \in Charges : collected[c] = "UNAPPLIED" /\ c[2] = m /\ charged[c] = r

Recorded(m, r) == \E c \in Charges : collected[c] # "NONE" /\ c[2] = m /\ charged[c] = r
ReferencesNew(C) == \A c \in C : ~ Recorded(c[2], charged[c])

Init ==
    /\ pricing \in Pricings
    /\ status = [s \in Sales |-> "PENDING_PAYMENT"]
    /\ lines \in [Sales -> Lines]
    /\ paid = [s \in Sales |-> 0]
    /\ attempt = [k \in Keys |-> NoAttempt]
    /\ state = [k \in Keys |-> "NONE"]
    /\ declared = [k \in Keys |-> FALSE]
    /\ charged = [c \in Charges |-> NoReference]
    /\ collected = [c \in Charges |-> "NONE"]
    /\ claim = [c \in Charges |-> NoAttempt]
    /\ session = 0
    /\ sessionOpen = FALSE
    /\ income = [n \in 1..MaxSession |-> 0]

-----------------------------------------------------------------------------
(* The cashier reserves the charge: T-R and T-RR *)

\* The sale may be charged and nobody else is charging it.
Reservable(s) == status[s] = "PENDING_PAYMENT" /\ paid[s] = 0 /\ OpenAttempts(s) = {}

\* Not the code: the cashier chooses which collections of the sale to use.
ClaimsAvailableInPart(s, p) ==
    \A c \in p.claims : collected[c] = "UNAPPLIED" /\ claim[c] = NoAttempt /\ OriginSale(c) = s

\* The claims are collections of this sale, free and unapplied; none is forgotten.
ClaimsAvailable(s, p) ==
    /\ \A c \in p.claims : collected[c] = "UNAPPLIED" /\ claim[c] = NoAttempt /\ OriginSale(c) = s
    /\ Unapplied(s) \subseteq p.claims

\* Sealing a plan: the attempt keeps the session, the full prices and the balance quoted.
Seal(k, s, p) ==
    LET price == FullPrice[pricing][lines[s]]
        left == Left(price, FixedTenders(p))
        due == BalanceAmount(price[p.balance], left)
    IN /\ sessionOpen
       /\ Quotable(left, due)
       /\ attempt' = [attempt EXCEPT ![k] =
              [sale |-> s, session |-> session, plan |-> p, pricing |-> pricing, price |-> price,
               due |-> due]]
       /\ state' = [state EXCEPT ![k] = "RESERVED"]
       /\ claim' = [c \in Charges |-> IF c \in p.claims THEN k ELSE claim[c]]
       /\ UNCHANGED <<saleVars, declared, charged, collected, cashVars>>

\* T-R: the cashier reserves.
Reserve(k, s) ==
    /\ state[k] = "NONE" /\ Reservable(s)
    /\ \E p \in Plans : ClaimsAvailable(s, p) /\ Seal(k, s, p)

\* T-RR: a supervisor reserves only what was already collected, and cash.
Recover(k, s) ==
    /\ state[k] = "NONE" /\ Reservable(s)
    /\ \E p \in Plans :
          /\ p.balance = Cash /\ \A m \in External : p.fixed[m] = 0
          /\ p.claims # {} /\ ClaimsAvailable(s, p)
          /\ Seal(k, s, p)

\* Outside: the terminal charges the card, or the transfer arrives.
ChargeOutside(k, c, r) ==
    /\ state[k] = "RESERVED"
    /\ c \in NewCharges(k) /\ charged[c] = NoReference
    /\ charged' = [charged EXCEPT ![c] = r]
    /\ UNCHANGED <<saleVars, attemptVars, collected, claim, cashVars>>

-----------------------------------------------------------------------------
(* The cashier confirms: T-C *)

\* Not the code: the evidence is enough, whatever became of the attempt.
EvidencedInAnyState(k) == state[k] # "NONE" /\ \A c \in NewCharges(k) : charged[c] # NoReference

\* Every new tender has its evidence: the reference of a charge that was made.
Evidenced(k) == state[k] = "RESERVED" /\ \A c \in NewCharges(k) : charged[c] # NoReference

\* The sale and the collections the attempt holds can still be settled.
Settleable(k) ==
    LET s == attempt[k].sale
    IN /\ status[s] = "PENDING_PAYMENT" /\ paid[s] = 0
       /\ \A c \in attempt[k].plan.claims :
             collected[c] = "UNAPPLIED" /\ claim[c] = k /\ OriginSale(c) = s

InItsSession(k) == sessionOpen /\ attempt[k].session = session

\* Not the code: the sealed prices are compared with the prices in force.
PricesMatchToday(k) ==
    \A m \in DOMAIN Tenders(k) :
        attempt[k].price[m] = FullPrice[pricing][lines[attempt[k].sale]][m]

\* The sealed prices of the methods used are those of the lines the sale has now.
PricesMatch(k) ==
    LET a == attempt[k]
    IN \A m \in DOMAIN Tenders(k) : a.price[m] = FullPrice[a.pricing][lines[a.sale]][m]

\* Not the code: only the new tenders leave a payment.
PaymentsOfNewTenders(k) ==
    Total(Tenders(k), {m \in DOMAIN Tenders(k) : ClaimOf(attempt[k].plan, m) = {}})

\* One SalePayment for each tender of the plan.
Payments(k) == AttemptTotal(k)

\* The attempt is confirmed, its collections applied, the payments and the cash income
\* written and the sale completed, in one transaction.
Confirm(k) ==
    /\ Evidenced(k) /\ Settleable(k)
    /\ ReferencesNew(NewCharges(k)) /\ InItsSession(k) /\ PricesMatch(k)
    /\ state' = [state EXCEPT ![k] = "CONFIRMED"]
    /\ collected' = [c \in Charges |-> IF c \in NewCharges(k) \cup attempt[k].plan.claims
                                       THEN "APPLIED" ELSE collected[c]]
    /\ paid' = [paid EXCEPT ![attempt[k].sale] = Payments(k)]
    /\ status' = [status EXCEPT ![attempt[k].sale] = "COMPLETED"]
    /\ income' = [income EXCEPT ![session] = @ + CashTender(k)]
    /\ UNCHANGED <<pricing, lines, attempt, declared, charged, claim, session, sessionOpen>>

\* A sale or a collection that cannot be settled, or a session that is over, rejects the
\* attempt; a reference recorded before refuses the request without a trace.
Reject(k) ==
    /\ Evidenced(k)
    /\ ~ (Settleable(k) /\ (ReferencesNew(NewCharges(k)) => InItsSession(k)))
    /\ state' = [state EXCEPT ![k] = "REJECTED"]
    /\ UNCHANGED <<saleVars, attempt, declared, moneyVars, cashVars>>

-----------------------------------------------------------------------------
(* Closing without charging, refunding, and the rest of the shop *)

\* Not the code: a rejected attempt is closed without its charges.
TakenUnlessRejected(k) ==
    {c \in NewCharges(k) : charged[c] # NoReference /\ state[k] = "RESERVED"}

\* What is declared CHARGED when the attempt is closed.
Taken(k) == {c \in NewCharges(k) : charged[c] # NoReference}

\* T-X: the attempt is closed and what was charged for it becomes a collection to apply or
\* refund; the collections it held are free again.
Close(k) ==
    /\ Open(k)
    /\ ReferencesNew(Taken(k))
    /\ state' = [state EXCEPT ![k] = IF @ = "RESERVED" THEN "ABANDONED" ELSE @]
    /\ declared' = [declared EXCEPT ![k] = TRUE]
    /\ collected' = [c \in Charges |-> IF c \in Taken(k) THEN "UNAPPLIED" ELSE collected[c]]
    /\ claim' = [c \in Charges |-> IF claim[c] = k THEN NoAttempt ELSE claim[c]]
    /\ UNCHANGED <<saleVars, attempt, charged, cashVars>>

Refundable(c) == collected[c] = "UNAPPLIED" /\ claim[c] = NoAttempt

\* T-F: a collection nobody holds is returned to the customer.
Refund(c) ==
    /\ Refundable(c)
    /\ collected' = [collected EXCEPT ![c] = "REFUNDED"]
    /\ UNCHANGED <<saleVars, attemptVars, charged, claim, cashVars>>

\* The salon cancels or corrects a sale that waits, also while it is being charged.
CancelSale(s) ==
    /\ status[s] = "PENDING_PAYMENT" /\ paid[s] = 0
    /\ status' = [status EXCEPT ![s] = "CANCELLED"]
    /\ UNCHANGED <<pricing, lines, paid, attemptVars, moneyVars, cashVars>>

CorrectSale(s, l) ==
    /\ status[s] = "PENDING_PAYMENT" /\ paid[s] = 0
    /\ lines' = [lines EXCEPT ![s] = l]
    /\ UNCHANGED <<pricing, status, paid, attemptVars, moneyVars, cashVars>>

ChangePricing(r) ==
    /\ pricing' = r
    /\ UNCHANGED <<status, lines, paid, attemptVars, moneyVars, cashVars>>

OpenSession ==
    /\ ~ sessionOpen /\ session < MaxSession
    /\ session' = session + 1
    /\ sessionOpen' = TRUE
    /\ UNCHANGED <<saleVars, attemptVars, moneyVars, income>>

CloseSession ==
    /\ sessionOpen
    /\ sessionOpen' = FALSE
    /\ UNCHANGED <<saleVars, attemptVars, moneyVars, session, income>>

Next ==
    \/ \E k \in Keys : \/ \E s \in Sales : Reserve(k, s) \/ Recover(k, s)
                       \/ \E m \in External, r \in References : ChargeOutside(k, <<k, m>>, r)
                       \/ Confirm(k) \/ Reject(k) \/ Close(k)
    \/ \E c \in Charges : Refund(c)
    \/ \E s \in Sales : CancelSale(s) \/ \E l \in Lines : CorrectSale(s, l)
    \/ \E r \in Pricings : ChangePricing(r)
    \/ OpenSession \/ CloseSession

Spec == Init /\ [][Next]_vars

-----------------------------------------------------------------------------
(* Properties *)

Attempts == [sale : Sales, session : 1..MaxSession, plan : Plans, pricing : Pricings,
             price : [Methods -> Nat \ {0}], due : Nat \ {0}]

\* The shape of the rows: an attempt that was reserved has its plan, an attempt that was
\* not has none; the database columns and the outside world hold no other value.
TypeOK ==
    /\ pricing \in Pricings
    /\ status \in [Sales -> {"PENDING_PAYMENT", "COMPLETED", "CANCELLED"}]
    /\ lines \in [Sales -> Lines]
    /\ paid \in [Sales -> Nat]
    /\ state \in [Keys -> {"NONE", "RESERVED", "REJECTED", "ABANDONED", "CONFIRMED"}]
    /\ attempt \in [Keys -> Attempts \cup {NoAttempt}]
    /\ \A k \in Keys : state[k] = "NONE" <=> attempt[k] = NoAttempt
    /\ declared \in [Keys -> BOOLEAN]
    /\ charged \in [Charges -> References \cup {NoReference}]
    /\ collected \in [Charges -> {"NONE", "UNAPPLIED", "APPLIED", "REFUNDED"}]
    /\ claim \in [Charges -> Keys \cup {NoAttempt}]
    /\ session \in 0..MaxSession
    /\ sessionOpen \in BOOLEAN
    /\ (sessionOpen => session > 0)
    /\ income \in [1..MaxSession -> Nat]

\* No sale is being charged by two cashiers at once (checkout-reservation.service.ts
\* openAttemptError and the partial index one_open_attempt_per_sale).
OneOpenAttempt ==
    \A k, l \in Keys : Open(k) /\ Open(l) /\ attempt[k].sale = attempt[l].sale => k = l

\* A sale is completed by exactly one confirmed attempt, and what was paid for it is what
\* that attempt collected, collections and cash included (T-C under retries, T-R after it).
PaidOnce ==
    \A s \in Sales :
        LET winners == {k \in Keys : state[k] = "CONFIRMED" /\ attempt[k].sale = s}
        IN /\ status[s] = "COMPLETED" <=> winners # {}
           /\ \A k, l \in winners : k = l
           /\ IF winners = {} THEN paid[s] = 0
              ELSE \A k \in winners : paid[s] = AttemptTotal(k)

\* Whatever the salon corrects and the office reprices while the customer is charged, what
\* a completed sale was paid is the quote of the lines it was completed with, at the prices
\* in force when the charge was reserved (buildSettlement against the sealed plan).
PaysForItsLines ==
    \A k \in Keys : state[k] = "CONFIRMED" =>
        LET a == attempt[k]
            price == FullPrice[a.pricing][lines[a.sale]]
            fixed == FixedTenders(a.plan)
            left == Left(price, fixed)
            due == BalanceAmount(price[a.plan.balance], left)
            quoted == [m \in TenderMethods(a.plan) |->
                          IF m = a.plan.balance THEN due ELSE fixed[m]]
        IN Quotable(left, due) /\ paid[a.sale] = Total(quoted, DOMAIN quoted)

\* The customer of a completed sale paid once: no other charge made for that sale, by any
\* of its attempts, is left with the shop (T-R's rule that no unapplied collection of the
\* sale may be left out of the plan, T-X before another T-R).
NoDoubleCharge ==
    \A c \in Charges :
        charged[c] # NoReference /\ status[OriginSale(c)] = "COMPLETED" =>
            \/ collected[c] = "REFUNDED"
            \/ \E k \in Keys : /\ state[k] = "CONFIRMED" /\ attempt[k].sale = OriginSale(c)
                               /\ c \in NewCharges(k) \cup attempt[k].plan.claims
                               /\ collected[c] = "APPLIED"

\* Money charged outside is never forgotten: it is on record as a collection, or its
\* attempt is still open and cannot be left without declaring it (T-X phase 8b).
NoMoneyForgotten ==
    \A c \in Charges : charged[c] # NoReference /\ collected[c] = "NONE" => Open(c[1])

\* Every attempt that can still apply a collection holds it unapplied, and a collection is
\* held by nobody else: claims are taken by T-R, kept by T-C and released by T-X only.
ClaimsHeld ==
    \A k \in Keys, c \in Charges :
        /\ Open(k) /\ c \in attempt[k].plan.claims => claim[c] = k /\ collected[c] = "UNAPPLIED"
        /\ claim[c] = k => /\ c \in attempt[k].plan.claims
                           /\ Open(k) \/ state[k] = "CONFIRMED"

\* No two collections of a method carry the same reference (the partial unique indexes of
\* ExternalCollection, checked before every write that creates one).
ReferenceRecordedOnce ==
    \A c, d \in Charges :
        /\ collected[c] # "NONE" /\ collected[d] # "NONE"
        /\ c[2] = d[2] /\ charged[c] = charged[d]
        => c = d

\* What was answered stays answered: a confirmed, abandoned or declared attempt and its
\* plan never change, nor does a settled or cancelled sale, and a collection applied
\* or refunded stays so (the replays of T-C, T-X and T-F read exactly these rows).
AnswersFinal ==
    [][/\ \A k \in Keys : /\ state[k] # "NONE" => attempt'[k] = attempt[k]
                          /\ state[k] \in {"CONFIRMED", "ABANDONED"} => state'[k] = state[k]
                          /\ declared[k] => declared'[k] /\ state'[k] = state[k]
       /\ \A s \in Sales : status[s] # "PENDING_PAYMENT" =>
             /\ status'[s] = status[s] /\ paid'[s] = paid[s] /\ lines'[s] = lines[s]
       /\ \A c \in Charges : collected[c] \in {"APPLIED", "REFUNDED"} => collected'[c] = collected[c]
      ]_vars

\* Cash enters a drawer only while it is open, and only from a sale settled in that step:
\* a late confirmation never changes a session that was counted and closed (T-C step 6).
ClosedSessionFrozen ==
    [][\A n \in 1..MaxSession : income'[n] # income[n] =>
          /\ sessionOpen /\ n = session
          /\ \E k \in Keys : /\ state[k] = "RESERVED" /\ state'[k] = "CONFIRMED"
                             /\ attempt[k].session = n]_vars

\* The checkout keeps the promise of ChargePromise: whatever the order of reservations,
\* charges, confirmations, closes and refunds, each charge of a settled sale is kept for it
\* or was returned, and nothing is kept or returned twice.
CustodyOf == [NONE |-> "taken", UNAPPLIED |-> "owed", APPLIED |-> "kept", REFUNDED |-> "returned"]
Custody(c) == IF charged[c] = NoReference THEN "none" ELSE CustodyOf[collected[c]]

Promise == INSTANCE ChargePromise WITH
    owner <- [c \in Charges |-> IF state[c[1]] = "NONE" THEN NoAttempt ELSE OriginSale(c)],
    custody <- [c \in Charges |-> Custody(c)],
    settled <- [s \in Sales |-> status[s] = "COMPLETED"]

KeepsChargePromise == Promise!PromiseSpec

\* Prices, sessions, evidence and references decide whether an operation on a charge happens,
\* never what it does: each is one of SaleCharges, which the transactions that overlap in
\* ReservationRace also implement.
Atomic == INSTANCE SaleCharges WITH
    Attempts <- Keys, Collections <- Charges, ChargesOf <- [k \in Keys |-> {k} \X External],
    Nobody <- NoAttempt,
    sale <- [k \in Keys |-> IF state[k] = "NONE" THEN NoAttempt ELSE attempt[k].sale],
    phase <- [k \in Keys |-> IF declared[k] THEN "CLOSED" ELSE state[k]],
    plan <- [k \in Keys |-> IF state[k] = "NONE" THEN {} ELSE attempt[k].plan.claims]

KeepsSaleCharges == Atomic!ChargesSpec
=============================================================================
