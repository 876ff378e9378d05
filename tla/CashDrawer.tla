----------------------------- MODULE CashDrawer -----------------------------
(***************************************************************************)
(* The cash drawer of one register: sessions, movements and the            *)
(* reconciliation of a session when it is counted and closed               *)
(* (src/api/src/modules/cash/cash.service.ts), with the two operations     *)
(* that bring cash in (a payment, a confirmed checkout) and the void that  *)
(* gives it back (payments/, sales/sale-void.service.ts).                  *)
(*                                                                         *)
(* Every operation is one Serializable transaction that locks the session  *)
(* row.  A repeated request finds the row of its key and writes nothing,   *)
(* so a repetition is no step.                                             *)
(*                                                                         *)
(* Abstractions: a movement is its columns, since the unique indexes leave *)
(* no two equal ones; only the cash of a sale is kept, and a completed     *)
(* sale is PAID here; reasons, permissions and audit rows are left out.    *)
(***************************************************************************)
EXTENDS Integers, FiniteSets

CONSTANTS
    Sessions,       \* the cash sessions the register may open
    Sales,          \* the sales of its branch
    Proportional,   \* those charged by a durable checkout
    Price,          \* what each sale costs
    PayKeys,        \* the request keys of payments
    Keys,           \* the request keys of movements
    MaxCash,        \* the width of a BIGINT column
    Nothing         \* a NULL column

ASSUME CashAssumption ==
    /\ Proportional \subseteq Sales
    /\ MaxCash \in Nat
    /\ Price \in [Sales -> 1..MaxCash]
    /\ Nothing \notin Keys

VARIABLES
    status,         \* CashSession.status, NEW before it is opened
    starting,       \* CashSession.startingCash
    books,          \* what a closed session was reconciled to
    movements,      \* the CashMovement rows
    payments,       \* the SalePayment rows in cash
    saleStatus      \* Sale.status

vars == <<status, starting, books, movements, payments, saleStatus>>

-----------------------------------------------------------------------------
(* Rows *)

Exits == {"WITHDRAWAL", "EXPENSE"}
Reversals == {"WITHDRAWAL_REVERSAL", "EXPENSE_REVERSAL"}
Types == Exits \cup Reversals \cup {"OPENING", "CLOSING", "SALE_INCOME", "SALE_REFUND"}

\* The type a reversal compensates.
Reversed(type) == IF type = "WITHDRAWAL_REVERSAL" THEN "WITHDRAWAL" ELSE "EXPENSE"
ReversalOf(type) == IF type = "WITHDRAWAL" THEN "WITHDRAWAL_REVERSAL" ELSE "EXPENSE_REVERSAL"

Amounts == 0..MaxCash
PaymentIds == Sales \X PayKeys
Payments == [id : PaymentIds, amount : Amounts, session : Sessions]

\* A row of CashMovement; link is the payment it takes in or returns, or the key of the
\* movement it reverses.
Movements == [session : Sessions, type : Types, amount : Amounts, key : Keys \cup {Nothing},
              link : PaymentIds \cup Keys \cup {Nothing}]

Row(n, t, a, k, l) == [session |-> n, type |-> t, amount |-> a, key |-> k, link |-> l]

\* The amounts of some rows, added up: one pair for each peso.
Cash(R) == Cardinality({x \in R \X (1..MaxCash) : x[2] <= x[1].amount})

Of(n) == {m \in movements : m.session = n}
Typed(n, T) == {m \in Of(n) : m.type \in T}

PaymentsOf(s) == {p \in payments : p.id[1] = s}
TakenIn(n) == {p \in payments : p.session = n}

-----------------------------------------------------------------------------
(* The reconciliation of a session *)

Expected(n) ==
    starting[n] + Cash(Typed(n, {"SALE_INCOME"})) - Cash(Typed(n, Exits))
                + Cash(Typed(n, Reversals)) - Cash(Typed(n, {"SALE_REFUND"}))

\* One OPENING row, of the amount the session started with.
OpeningMatches(n) == \E m \in Typed(n, {"OPENING"}) :
    Typed(n, {"OPENING"}) = {m} /\ m.amount = starting[n]

\* Every reversal compensates one exit of the session for its amount, and no exit twice.
ReversalsMatch(n) ==
    /\ \A r \in Typed(n, Reversals) :
          /\ r.amount > 0
          /\ \E m \in Typed(n, {Reversed(r.type)}) : m.key = r.link /\ m.amount = r.amount
    /\ \A r, q \in Typed(n, Reversals) : r.link = q.link => r = q

\* Refunds name their payment, each payment once; exits and refunds are positive amounts.
RefundsMatch(n) ==
    /\ \A m \in Typed(n, Exits \cup {"SALE_REFUND"}) : m.amount > 0
    /\ \A m, q \in Typed(n, {"SALE_REFUND"}) : m.link = q.link => m = q

\* No sum leaves the signed BIGINT range.
Fits(n) ==
    /\ \A T \in {{"SALE_INCOME"}, Exits, Reversals, {"SALE_REFUND"}} : Cash(Typed(n, T)) <= MaxCash
    /\ Expected(n) \in -(MaxCash + 1)..MaxCash

\* projectExpectedCash succeeds.
Projects(n) == OpeningMatches(n) /\ ReversalsMatch(n) /\ RefundsMatch(n) /\ Fits(n)

\* The cash payments bound to the session are its income, one to one and net of change.
IncomeMatchesPayments(n) ==
    /\ \A m, q \in Typed(n, {"SALE_INCOME"}) : m.link = q.link => m = q
    /\ {<<m.link, m.amount>> : m \in Typed(n, {"SALE_INCOME"})} = {<<p.id, p.amount>> : p \in TakenIn(n)}

\* reconcileCashSession succeeds.
Reconciles(n) == Projects(n) /\ IncomeMatchesPayments(n)

NotClosed == [expected |-> Nothing, difference |-> Nothing]

Init ==
    /\ status = [n \in Sessions |-> "NEW"]
    /\ starting = [n \in Sessions |-> 0]
    /\ books = [n \in Sessions |-> NotClosed]
    /\ movements = {}
    /\ payments = {}
    /\ saleStatus = [s \in Sales |-> "PENDING_PAYMENT"]

-----------------------------------------------------------------------------
(* The session *)

OpenSession(n, a) ==
    /\ status[n] = "NEW" /\ \A i \in Sessions : status[i] # "OPEN"
    /\ status' = [status EXCEPT ![n] = "OPEN"]
    /\ starting' = [starting EXCEPT ![n] = a]
    /\ movements' = movements \cup {Row(n, "OPENING", a, Nothing, Nothing)}
    /\ UNCHANGED <<books, payments, saleStatus>>

CloseSession(n, c) ==
    /\ status[n] = "OPEN" /\ Reconciles(n) /\ c - Expected(n) <= MaxCash
    /\ status' = [status EXCEPT ![n] = "CLOSED"]
    /\ books' = [books EXCEPT ![n] = [expected |-> Expected(n), difference |-> c - Expected(n)]]
    /\ movements' = movements \cup {Row(n, "CLOSING", c, Nothing, Nothing)}
    /\ UNCHANGED <<starting, payments, saleStatus>>

-----------------------------------------------------------------------------
(* Cash taken out, and put back *)

\* Not the code: a key is only looked up among the movements of its own type.
FreshAmongExits(n, k) == \A m \in Typed(n, Exits) : m.key # k

Fresh(n, k) == \A m \in Of(n) : m.key # k

\* The session is open and the drawer holds the amount.
Allows(n, a) == status[n] = "OPEN" /\ Projects(n) /\ a <= Expected(n)

RegisterMovement(n, kind, a, k) ==
    /\ Fresh(n, k)
    /\ Allows(n, a)
    /\ movements' = movements \cup {Row(n, kind, a, k, Nothing)}
    /\ UNCHANGED <<status, starting, books, payments, saleStatus>>

\* Not the code: a mistake may be corrected after the session was closed.
ReversibleLate(n, m) ==
    /\ m \in Typed(n, Exits)
    /\ \A r \in Typed(n, Reversals) : r.link # m.key

Reversible(n, m) ==
    /\ status[n] = "OPEN"
    /\ m \in Typed(n, Exits)
    /\ \A r \in Typed(n, Reversals) : r.link # m.key

\* The reversal is a new row of the same session for the amount of the original.
Compensation(n, m, k) == Row(n, ReversalOf(m.type), m.amount, k, m.key)

ReverseMovement(n, m, k) ==
    /\ Fresh(n, k)
    /\ Reversible(n, m)
    /\ Projects(n) /\ Expected(n) + m.amount <= MaxCash
    /\ movements' = movements \cup {Compensation(n, m, k)}
    /\ UNCHANGED <<status, starting, books, payments, saleStatus>>

-----------------------------------------------------------------------------
(* Sales *)

\* Not the code: the payment is bound to the session and leaves no movement.
TakePaymentOnly(id, n, a) ==
    /\ payments' = payments \cup {[id |-> id, amount |-> a, session |-> n]}
    /\ UNCHANGED movements

\* The payment and its income are written together, into an open session.
TakePayment(id, n, a) ==
    /\ payments' = payments \cup {[id |-> id, amount |-> a, session |-> n]}
    /\ movements' = movements \cup {Row(n, "SALE_INCOME", a, Nothing, id)}

\* A payment in cash of a sale with a fixed total: all of it or a part.
RegisterPayment(s, k, n, a) ==
    /\ s \notin Proportional
    /\ saleStatus[s] = "PENDING_PAYMENT"
    /\ \A p \in payments : p.id # <<s, k>>
    /\ a + Cash(PaymentsOf(s)) <= Price[s]
    /\ status[n] = "OPEN"
    /\ TakePayment(<<s, k>>, n, a)
    /\ saleStatus' = [saleStatus EXCEPT ![s] =
                         IF a + Cash(PaymentsOf(s)) = Price[s] THEN "PAID" ELSE @]
    /\ UNCHANGED <<status, starting, books>>

\* The cash tender of a confirmed checkout, in the session the charge was reserved in.
ConfirmCheckout(s, k, n, a) ==
    /\ s \in Proportional
    /\ saleStatus[s] = "PENDING_PAYMENT" /\ PaymentsOf(s) = {}
    /\ a <= Price[s]
    /\ status[n] = "OPEN"
    /\ TakePayment(<<s, k>>, n, a)
    /\ saleStatus' = [saleStatus EXCEPT ![s] = "PAID"]
    /\ UNCHANGED <<status, starting, books>>

\* Not the code: a void returns the payments that session took in.
RefundedHere(s, n) == {p \in PaymentsOf(s) : p.session = n}

\* Every cash payment of the sale, whichever session took it in.
RefundedBy(s, n) == PaymentsOf(s)

\* The void of a paid sale gives its cash back out of an open session that has it.
VoidSale(s, n) ==
    /\ saleStatus[s] = "PAID" /\ PaymentsOf(s) # {}
    /\ \A m \in movements : m.type = "SALE_REFUND" => m.link[1] # s
    /\ Allows(n, Cash(PaymentsOf(s)))
    /\ movements' = movements \cup {Row(n, "SALE_REFUND", p.amount, Nothing, p.id) : p \in RefundedBy(s, n)}
    /\ saleStatus' = [saleStatus EXCEPT ![s] = "CANCELLED"]
    /\ UNCHANGED <<status, starting, books, payments>>

Next ==
    \/ \E n \in Sessions, a \in Amounts : OpenSession(n, a) \/ CloseSession(n, a)
    \/ \E n \in Sessions, k \in Keys :
          \/ \E kind \in Exits, a \in Amounts \ {0} : RegisterMovement(n, kind, a, k)
          \/ \E m \in movements : ReverseMovement(n, m, k)
    \/ \E s \in Sales, n \in Sessions :
          \/ \E k \in PayKeys, a \in Amounts \ {0} :
                RegisterPayment(s, k, n, a) \/ ConfirmCheckout(s, k, n, a)
          \/ VoidSale(s, n)

Spec == Init /\ [][Next]_vars

-----------------------------------------------------------------------------
(* Properties *)

\* The shape of the rows.
TypeOK ==
    /\ status \in [Sessions -> {"NEW", "OPEN", "CLOSED"}]
    /\ starting \in [Sessions -> Amounts]
    /\ books \in [Sessions -> [expected : Int, difference : Int] \cup {NotClosed}]
    /\ movements \subseteq Movements
    /\ payments \subseteq Payments
    /\ saleStatus \in [Sales -> {"PENDING_PAYMENT", "PAID", "CANCELLED"}]

\* Whatever was paid, withdrawn, reversed and refunded, and however often it was retried, an
\* open session whose sums fit their columns can be counted and closed (closeSession refuses
\* a session that reconcileCashSession does not accept, and nothing could repair it).
OpenSessionReconciles ==
    \A n \in Sessions : status[n] = "OPEN" /\ Fits(n) => Reconciles(n)

\* The drawer never owes cash: no exit or refund takes out more than was there, also when
\* a refund pays back what an earlier session took in (projectExpectedCash before each).
DrawerHoldsCash == \A n \in Sessions : Expected(n) >= 0

\* What a closed session was reconciled to is still what its movements say (no payment,
\* reversal or refund enters a session that was counted).
BooksStayRight ==
    \A n \in Sessions :
        IF status[n] = "CLOSED"
        THEN /\ Reconciles(n)
             /\ books[n].expected = Expected(n)
             /\ \E m \in Typed(n, {"CLOSING"}) : m.amount - Expected(n) = books[n].difference
        ELSE books[n] = NotClosed /\ Typed(n, {"CLOSING"}) = {}

\* A voided sale had each of its cash payments returned once and in full, wherever it was
\* taken in, and no other sale had any returned (voidSale and its replay).
RefundsFollowVoids ==
    /\ {<<m.link, m.amount>> : m \in {r \in movements : r.type = "SALE_REFUND"}}
         = {<<p.id, p.amount>> : p \in {q \in payments : saleStatus[q.id[1]] = "CANCELLED"}}
    /\ \A m, r \in movements : m.type = "SALE_REFUND" /\ r.type = "SALE_REFUND" /\ m.link = r.link => m = r

\* A request key leaves at most one movement in a session, be it an exit or a reversal (the
\* replays of registerMovement and reverseMovement look one key up for both).
OneMovementPerKey ==
    \A m, r \in movements :
        m.session = r.session /\ m.key = r.key /\ m.key # Nothing => m = r

\* Once a session is closed its rows and its books never change, and it is not opened again.
ClosedSessionStays ==
    [][\A n \in Sessions : status[n] = "CLOSED" =>
          /\ status'[n] = "CLOSED" /\ books'[n] = books[n] /\ starting'[n] = starting[n]
          /\ {m \in movements' : m.session = n} = Of(n)]_vars
=============================================================================
