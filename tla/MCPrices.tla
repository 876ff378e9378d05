------------------------------- MODULE MCPrices -------------------------------
(***************************************************************************)
(* What is charged, in small instances: the prices of a sale's lines       *)
(* (SalePricing), the engine of the proportional checkout                  *)
(* (ProportionalQuote), and a proportional sale whose lines and prices     *)
(* change while it is charged (Checkout).  They share nothing here: every  *)
(* behaviour picks its subject at the start, and the others stay as they   *)
(* began.                                                                  *)
(***************************************************************************)
EXTENDS SalePricing, ProportionalQuote, TLC

CONSTANTS v1, v2, c1, seller, cashier, Debit, Credit

MCVariants == {v1, v2}
MCClients == {c1}
MCCashiers == {seller, cashier}

\* The last is refused.
MCPriceLists ==
    {[cash |-> 5, wholesale |-> 4], [cash |-> 5, wholesale |-> NoPrice],
     [cash |-> NoPrice, wholesale |-> 3], [cash |-> 3, wholesale |-> 4]}
MCAdjustments == {50}
MCQuantities == {1}
MCPartPayments == {1}

\* The lines of a sale, their skus in the order in which they come or the other way round:
\* up to two lines of one or two units, or three of one.
LinesOf(n, quantities) ==
    {[i \in 1..n |-> [item |-> i, sku |-> IF up THEN i ELSE n - i, quantity |-> q[i],
                      base |-> p[i]]] :
        q \in [1..n -> quantities], p \in [1..n -> {4, 14, 33}], up \in BOOLEAN}

MCMethods == {Cash, Debit, Credit}
MCLineSets == LinesOf(1, {1, 2}) \cup LinesOf(2, {1, 2}) \cup LinesOf(3, {1})
MCAdjustmentsBps == {None, 25}
MCAmounts == {10, 23, 45, 160}

CONSTANTS s1, k1, k2, card, transfer, shirt, dress, NoAttempt, NoReference

\* A shirt and a dress cost the same in cash and differ on the card and by transfer.
MCFullPrice ==
    [r \in {1, 2} |->
        [l \in {shirt, dress} |->
            [m \in {card, transfer, Cash} |->
                3 + (IF m = Cash THEN 0 ELSE IF l = dress THEN r + 1 ELSE r)]]]

VARIABLES
    subject,
    pricing, status, lines, paid, attempt, state, declared, charged, collected, claim, session,
    sessionOpen, income                                                     \* Checkout

chargeVars ==
    <<pricing, status, lines, paid, attempt, state, declared, charged, collected, claim, session,
      sessionOpen, income>>

\* One sale, up to two attempts with up to three methods, one session.
Charge ==
    INSTANCE Checkout WITH
        Sales <- {s1}, Keys <- {k1, k2}, External <- {card, transfer}, Lines <- {shirt, dress},
        Pricings <- {1, 2}, FullPrice <- MCFullPrice, FixedAmounts <- {2}, References <- {1},
        MaxSession <- 1

\* A sale that is not priced, a quote that is not asked for, and a sale that is not charged.
IdleSale == sale.model = "FIXED_TOTAL" /\ catalog = [v \in Variants |-> [cash |-> 5, wholesale |-> 4]]
IdleQuote ==
    /\ input = [lines |-> <<>>, bps |-> [m \in PaymentMethods |-> 0],
                tenders |-> <<>>, balance |-> Cash]
    /\ quote = [outcome |-> "unasked"]
IdleCharge == pricing = 1 /\ lines[s1] = shirt

PricesInit ==
    /\ subject \in {"sale", "quote", "charge"}
    /\ Init /\ Charge!Init
    /\ (IF subject = "quote" THEN QuoteInit ELSE IdleQuote)
    /\ subject # "sale" => IdleSale
    /\ subject # "charge" => IdleCharge

PricesNext ==
    /\ \/ subject = "sale" /\ Next /\ UNCHANGED <<quoteVars, chargeVars>>
       \/ subject = "quote" /\ QuoteNext /\ UNCHANGED <<vars, chargeVars>>
       \/ subject = "charge" /\ Charge!Next /\ UNCHANGED <<vars, quoteVars>>
    /\ UNCHANGED subject

PricesSpec == PricesInit /\ [][PricesNext]_<<subject, vars, quoteVars, chargeVars>>

Symmetric == Permutations(MCVariants) \cup Permutations({k1, k2})

-------------------------------------------------------------------------------
(* What Checkout keeps while lines and prices change. *)

\* Whatever is corrected and repriced while the customer is charged, what a completed sale was
\* paid is the quote of the lines it was completed with, at the prices in force when the charge
\* was reserved (buildSettlement against the sealed plan).
PaysForItsLines == Charge!PaysForItsLines
===============================================================================
