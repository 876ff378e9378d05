------------------------- MODULE ProportionalQuote -------------------------
(***************************************************************************)
(* The engine of the proportional checkout (proportional-checkout.ts): the *)
(* full price of a sale for each method, the balance that is left by the   *)
(* amounts fixed for the others, and the share of each line in what each   *)
(* method pays.  A whole number of pesos is shared out in pesos, any other *)
(* amount in centavos.                                                     *)
(*                                                                         *)
(* The engine is a function; a behaviour asks it one quote.  Money is in   *)
(* centavos.  Types that only a caller outside TypeScript could get wrong  *)
(* are left out, and so are the lines, the pricing and the tenders that    *)
(* the services in front of the engine refuse.  A name (sku, item) is a    *)
(* number, ordered as the code orders the strings.                         *)
(***************************************************************************)
EXTENDS Integers, FiniteSets, Sequences, Functions

CONSTANTS
    PESO,           \* centavos of a peso
    WHOLE_BPS,      \* BASIS_POINTS: the basis points that make a whole
    MAX_INT8,       \* what a column holds
    Cash,
    PaymentMethods, \* Cash among them
    LineSets,       \* the sales: each a sequence of lines
    AdjustmentsBps, \* basis points that a method adds, or None
    Amounts,        \* the amounts fixed
    MaxTenders,     \* how many tenders may be fixed
    None

Lines == [item: Nat, sku: Nat, quantity: Nat \ {0}, base: Nat \ {0}]

ASSUME QuoteAssumption ==
    /\ PESO \in Nat \ {0} /\ PESO % 2 = 0
    /\ WHOLE_BPS \in Nat \ {0}
    /\ MAX_INT8 \in Nat
    /\ Cash \in PaymentMethods
    /\ AdjustmentsBps \subseteq Nat \cup {None}
    /\ Amounts \subseteq Nat \ {0}
    /\ MaxTenders \in Nat
    /\ \A lines \in LineSets :
          /\ lines \in Seq(Lines)
          /\ \A i, j \in DOMAIN lines : lines[i].item = lines[j].item => i = j

VARIABLES
    input,          \* lines, the basis points of each method, the tenders fixed, the balance method
    quote           \* what the engine returns, "unasked" before

quoteVars == <<input, quote>>

Tenders == [method: PaymentMethods, amount: Amounts]

Inputs ==
    [lines: LineSets, bps: {[b EXCEPT ![Cash] = 0] : b \in [PaymentMethods -> AdjustmentsBps]},
     tenders: UNION {[1..n -> Tenders] : n \in 0..MaxTenders}, balance: PaymentMethods]

QuoteInit == input \in Inputs /\ quote = [outcome |-> "unasked"]

-----------------------------------------------------------------------------
(* Full prices *)

\* Half a peso goes up.
RoundPeso(numerator, denominator) ==
    ((numerator + (PESO \div 2) * denominator) \div (PESO * denominator)) * PESO

UnitPrice(line, bps) == RoundPeso(line.base * (WHOLE_BPS + bps), WHOLE_BPS)

\* One rounding per unit.
LineFullPrices(lines, bps) ==
    [i \in DOMAIN lines |-> lines[i].quantity * UnitPrice(lines[i], bps)]

Priced(in) == {m \in PaymentMethods : in.bps[m] # None}
FullPrices(in, m) == SumFunction(LineFullPrices(in.lines, in.bps[m]))

Overflows(in) ==
    \E m \in Priced(in) :
        \/ FullPrices(in, m) > MAX_INT8
        \/ \E i \in DOMAIN in.lines :
              \/ UnitPrice(in.lines[i], in.bps[m]) > MAX_INT8
              \/ LineFullPrices(in.lines, in.bps[m])[i] > MAX_INT8

-----------------------------------------------------------------------------
(* What is left to pay *)

Fixed(in) == {in.tenders[i].method : i \in DOMAIN in.tenders}
FixedAmount(in, m) == in.tenders[CHOOSE i \in DOMAIN in.tenders : in.tenders[i].method = m].amount

Repeated(in, i) == \E j \in 1 .. i - 1 : in.tenders[j].method = in.tenders[i].method

Product(f) == FoldFunction(LAMBDA a, b : a * b, 1, f)

\* The fixed amounts cover Covered / Denominator of the sale, each its part of its own full price.
Denominator(in) == Product([m \in Fixed(in) |-> FullPrices(in, m)])

Covered(in) ==
    SumFunction([m \in Fixed(in) |-> FixedAmount(in, m) *
        Product([n \in Fixed(in) \ {m} |-> FullPrices(in, n)])])

Balance(in) ==
    RoundPeso(FullPrices(in, in.balance) * (Denominator(in) - Covered(in)), Denominator(in))

Amount(in, m) == IF m = in.balance THEN Balance(in) ELSE FixedAmount(in, m)
Charged(in) == Fixed(in) \cup {in.balance}
Total(in) == SumFunction([m \in Charged(in) |-> Amount(in, m)])

-----------------------------------------------------------------------------
(* The share of each line *)

Unit(amount) == IF amount % PESO = 0 THEN PESO ELSE 1

Quotient(units, weight, full) == (units * weight) \div full
Remainder(units, weight, full) == (units * weight) % full

\* The order in which the residue is given out: remainder, weight, sku, item.
Before(lines, weights, units, full, i, j) ==
    LET r(k) == Remainder(units, weights[k], full)
        sameRemainder == r(i) = r(j)
        sameWeight == sameRemainder /\ weights[i] = weights[j]
        sameSku == sameWeight /\ lines[i].sku = lines[j].sku
    IN \/ r(i) > r(j)
       \/ sameRemainder /\ weights[i] > weights[j]
       \/ sameWeight /\ lines[i].sku < lines[j].sku
       \/ sameSku /\ lines[i].item < lines[j].item

\* Not the code: the line that comes first takes the whole residue.
ToTheFirst(residue, rank) == IF rank = 0 THEN residue ELSE 0

Extra(residue, rank) == IF rank < residue THEN 1 ELSE 0

Allocate(lines, weights, amount, full) ==
    LET units == amount \div Unit(amount)
        quotient == [i \in DOMAIN lines |-> Quotient(units, weights[i], full)]
        residue == units - SumFunction(quotient)
        rank(i) == Cardinality({j \in DOMAIN lines : Before(lines, weights, units, full, j, i)})
    IN [i \in DOMAIN lines |-> (quotient[i] + Extra(residue, rank(i))) * Unit(amount)]

Shares(in, m) ==
    Allocate(in.lines, LineFullPrices(in.lines, in.bps[m]), Amount(in, m), FullPrices(in, m))

-----------------------------------------------------------------------------
(* The quote *)

Refused(code) == [outcome |-> code]

ComputeProportionalQuote(in) ==
    IF \E i \in DOMAIN in.tenders :
          in.tenders[i].amount > MAX_INT8 /\ \A j \in 1 .. i : ~Repeated(in, j)
    THEN Refused("AMOUNT_OVERFLOW")
    ELSE IF \E i \in DOMAIN in.tenders : Repeated(in, i) THEN Refused("DUPLICATE_TENDER_METHOD")
    ELSE IF in.balance \in Fixed(in) THEN Refused("BALANCE_METHOD_ALSO_FIXED")
    ELSE IF \E m \in Charged(in) : in.bps[m] = None THEN Refused("PRICING_CONFIG_MISSING")
    ELSE IF Overflows(in) THEN Refused("AMOUNT_OVERFLOW")
    ELSE IF Covered(in) >= Denominator(in) THEN Refused("FIXED_TENDERS_COVER_SALE")
    ELSE IF Balance(in) > MAX_INT8 THEN Refused("AMOUNT_OVERFLOW")
    ELSE IF Balance(in) < PESO THEN Refused("BALANCE_TOO_SMALL")
    ELSE IF Total(in) > MAX_INT8 THEN Refused("AMOUNT_OVERFLOW")
    ELSE [outcome |-> "quoted", total |-> Total(in), balance |-> Balance(in),
          shares |-> [m \in Charged(in) |-> Shares(in, m)]]

FinalAmount(q, i) == SumFunction([m \in DOMAIN q.shares |-> q.shares[m][i]])

Ask ==
    /\ quote.outcome = "unasked"
    /\ quote' = ComputeProportionalQuote(input)
    /\ UNCHANGED input

QuoteNext == Ask

QuoteSpec == QuoteInit /\ [][QuoteNext]_quoteVars

-----------------------------------------------------------------------------
(* Properties *)

Quoted == quote.outcome = "quoted"

\* The three conditions on which the engine answers CHECKOUT_STATE_INCONSISTENT never arise: the
\* shares of a method add up to what it pays, the lines add up to the total, and no line is
\* charged more than its full price for the method.
NeverInconsistent == Quoted =>
    /\ \A m \in DOMAIN quote.shares :
          /\ FullPrices(input, m) > 0
          /\ SumFunction(quote.shares[m]) = Amount(input, m)
          /\ \A i \in DOMAIN input.lines :
                quote.shares[m][i] \in 0 .. LineFullPrices(input.lines, input.bps[m])[i]
    /\ SumFunction([i \in DOMAIN input.lines |-> FinalAmount(quote, i)]) = quote.total

\* A line pays its part of what a method pays, to less than a peso (to less than a centavo when
\* the amount is not of whole pesos).
FairShare == Quoted => \A m \in DOMAIN quote.shares, i \in DOMAIN input.lines :
    LET exact == Amount(input, m) * LineFullPrices(input.lines, input.bps[m])[i]
        paid == quote.shares[m][i] * FullPrices(input, m)
        tolerance == Unit(Amount(input, m)) * FullPrices(input, m)
    IN paid - exact < tolerance /\ exact - paid < tolerance

\* The order in which the lines of the sale are read decides nothing: a settlement rebuilt from
\* the sealed plan is the quote that was shown.
OrderFree == Quoted =>
    LET n == Len(input.lines)
        reversed == [input EXCEPT !.lines = [i \in 1 .. n |-> input.lines[n + 1 - i]]]
        q == ComputeProportionalQuote(reversed)
    IN /\ q.outcome = "quoted" /\ q.total = quote.total
       /\ \A m \in DOMAIN quote.shares, i \in 1 .. n : q.shares[m][n + 1 - i] = quote.shares[m][i]

\* Paying with several methods costs no more than the dearest of them and no less than the
\* cheapest, up to half a peso.
BetweenMethods == Quoted =>
    LET full == {FullPrices(input, m) : m \in DOMAIN quote.shares} IN
    /\ \E p \in full : 2 * quote.total <= 2 * p + PESO
    /\ \E p \in full : 2 * quote.total >= 2 * p - PESO

\* Paying with one method alone, each line costs its units at their price, whatever the others.
OneMethodPrice == Quoted /\ Cardinality(DOMAIN quote.shares) = 1 =>
    \A i \in DOMAIN input.lines :
        LET alone == [input.lines[i] EXCEPT !.quantity = 1]
        IN FinalAmount(quote, i) = input.lines[i].quantity *
              LineFullPrices(<<alone>>, input.bps[input.balance])[1]

\* What a quote must be.
QuoteRight == NeverInconsistent /\ FairShare /\ OrderFree /\ BetweenMethods /\ OneMethodPrice
=============================================================================
