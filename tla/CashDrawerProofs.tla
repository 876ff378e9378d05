-------------------------- MODULE CashDrawerProofs --------------------------
(***************************************************************************)
(* Theorems about CashDrawer.                                              *)
(***************************************************************************)
EXTENDS CashDrawer, FiniteSetTheorems, TLAPS

-----------------------------------------------------------------------------
(***************************************************************************)
(* Adding up amounts.                                                      *)
(***************************************************************************)

\* The pesos that Cash counts.
Pesos(R) == {x \in R \X (1..MaxCash) : x[2] <= x[1].amount}

LEMMA PesosFinite ==
  ASSUME NEW R, IsFiniteSet(R)
  PROVE  IsFiniteSet(Pesos(R)) /\ Cash(R) = Cardinality(Pesos(R)) /\ Cash(R) \in Nat
<1>1. MaxCash \in Int
  BY CashAssumption
<1>2. IsFiniteSet(1..MaxCash)
  BY <1>1, FS_Interval
<1>3. IsFiniteSet(R \X (1..MaxCash))
  BY <1>2, FS_Product
<1>4. Pesos(R) \in SUBSET (R \X (1..MaxCash))
  BY DEF Pesos
<1>5. IsFiniteSet(Pesos(R))
  BY <1>3, <1>4, FS_Subset
<1>6. Cash(R) = Cardinality(Pesos(R))
  BY DEF Cash, Pesos
<1> QED
  BY <1>5, <1>6, FS_CardinalityType

LEMMA CashOfNone == Cash({}) = 0
<1>1. {x \in {} \X (1..MaxCash) : x[2] <= x[1].amount} = {}
  OBVIOUS
<1> QED
  BY <1>1, FS_EmptySet DEF Cash

LEMMA CashOfOne ==
  ASSUME NEW m, m.amount \in Amounts
  PROVE  Cash({m}) = m.amount
<1>1. m.amount \in Nat /\ m.amount <= MaxCash
  BY CashAssumption DEF Amounts
<1>2. Pesos({m}) = {m} \X (1..m.amount)
  <2>1. ASSUME NEW x PROVE x \in Pesos({m}) <=> x \in {m} \X (1..m.amount)
    BY <1>1, CashAssumption DEF Pesos
  <2> QED
    BY <2>1
<1>3. IsFiniteSet({m}) /\ Cardinality({m}) = 1
  BY FS_Singleton
<1>4. IsFiniteSet(1..m.amount) /\ Cardinality(1..m.amount) = m.amount
  <2> DEFINE a == m.amount
  <2>1. a \in Nat
    BY <1>1
  <2> HIDE DEF a
  <2>2. IsFiniteSet(1..a) /\ Cardinality(1..a) = IF 1 > a THEN 0 ELSE a - 1 + 1
    BY <2>1, FS_Interval
  <2>3. Cardinality(1..a) = a
    BY <2>1, <2>2
  <2> QED
    BY <2>2, <2>3 DEF a
<1>5. Cardinality({m} \X (1..m.amount)) = Cardinality({m}) * Cardinality(1..m.amount)
  BY <1>3, <1>4, FS_Product
<1>6. Cash({m}) = Cardinality(Pesos({m}))
  BY DEF Cash, Pesos
<1> QED
  <2>1. Cardinality(Pesos({m})) = 1 * m.amount
    BY <1>2, <1>3, <1>4, <1>5
  <2>2. 1 * m.amount = m.amount
    BY <1>1
  <2> QED
    BY <2>1, <2>2, <1>6

\* Rows that are not there yet add their amounts; any rows add at most theirs.
LEMMA CashOfUnion ==
  ASSUME NEW R, IsFiniteSet(R), NEW N, IsFiniteSet(N)
  PROVE  /\ IsFiniteSet(R \cup N)
         /\ Cash(R \cup N) >= Cash(R)
         /\ Cash(R \cup N) <= Cash(R) + Cash(N)
         /\ R \cap N = {} => Cash(R \cup N) = Cash(R) + Cash(N)
<1>1. IsFiniteSet(R \cup N)
  BY FS_Union
<1>2. /\ Pesos(R \cup N) = Pesos(R) \cup Pesos(N)
      /\ Pesos(R) \cap Pesos(N) \subseteq Pesos(R)
      /\ R \cap N = {} => Pesos(R) \cap Pesos(N) = {}
  BY DEF Pesos
<1>3. /\ IsFiniteSet(Pesos(R)) /\ Cash(R) = Cardinality(Pesos(R)) /\ Cash(R) \in Nat
      /\ IsFiniteSet(Pesos(N)) /\ Cash(N) = Cardinality(Pesos(N)) /\ Cash(N) \in Nat
      /\ Cash(R \cup N) = Cardinality(Pesos(R \cup N)) /\ Cash(R \cup N) \in Nat
  BY <1>1, PesosFinite
<1>4. Cash(R \cup N) = Cash(R) + Cash(N) - Cardinality(Pesos(R) \cap Pesos(N))
  BY <1>2, <1>3, FS_Union
<1>5. Cardinality(Pesos(R) \cap Pesos(N)) \in Nat
  <2>1. IsFiniteSet(Pesos(R) \cap Pesos(N))
    BY <1>3, FS_Subset
  <2> QED
    BY <2>1, FS_CardinalityType
<1>6. Cash(R) <= Cash(R \cup N)
  <2>1. Pesos(R) \in SUBSET Pesos(R \cup N) /\ IsFiniteSet(Pesos(R \cup N))
    BY <1>2, <1>1, PesosFinite
  <2> QED
    BY <2>1, <1>3, FS_Subset
<1>7. R \cap N = {} => Cardinality(Pesos(R) \cap Pesos(N)) = 0
  BY <1>2, FS_EmptySet
<1> QED
  BY <1>1, <1>3, <1>4, <1>5, <1>6, <1>7

\* The rows made from some payments, one from each, amount to no more than they do.
LEMMA CashOfRefunds ==
  ASSUME NEW n, NEW P, IsFiniteSet(P)
  PROVE  LET N == {Row(n, "SALE_REFUND", p.amount, Nothing, p.id) : p \in P}
         IN  IsFiniteSet(N) /\ Cash(N) <= Cash(P)
<1> DEFINE R(p) == Row(n, "SALE_REFUND", p.amount, Nothing, p.id)
           N == {R(p) : p \in P}
           f == [p \in P |-> R(p)]
           g == [x \in Pesos(P) |-> <<R(x[1]), x[2]>>]
<1>1. f \in Surjection(P, N)
  BY DEF Surjection
<1>2. IsFiniteSet(N)
  BY <1>1, FS_Surjection
<1>3. \A p \in P : R(p).amount = p.amount
  BY DEF Row
<1>4. \A x \in Pesos(P) : g[x] \in Pesos(N)
  BY <1>3 DEF Pesos
<1>5. ASSUME NEW y \in Pesos(N) PROVE \E x \in Pesos(P) : g[x] = y
  <2>1. PICK p \in P : y[1] = R(p)
    BY DEF Pesos
  <2>2. y = <<R(p), y[2]>> /\ y[2] \in 1..MaxCash /\ y[2] <= p.amount
    BY <2>1, <1>3 DEF Pesos
  <2>3. <<p, y[2]>> \in Pesos(P)
    BY <2>2 DEF Pesos
  <2>4. g[<<p, y[2]>>] = y
    BY <2>2, <2>3
  <2> QED
    BY <2>3, <2>4
<1>6. g \in Surjection(Pesos(P), Pesos(N))
  BY <1>4, <1>5 DEF Surjection
<1>7. Cardinality(Pesos(N)) <= Cardinality(Pesos(P))
  BY <1>6, PesosFinite, FS_Surjection
<1>8. Cash(N) <= Cash(P)
  BY <1>2, <1>7, PesosFinite
<1> QED
  BY <1>2, <1>8

-----------------------------------------------------------------------------
(***************************************************************************)
(* The rows of one session.                                                *)
(***************************************************************************)

LEMMA TypedFinite ==
  ASSUME IsFiniteSet(movements), NEW n, NEW T
  PROVE  IsFiniteSet(Typed(n, T)) /\ Cash(Typed(n, T)) \in Nat
<1>1. Typed(n, T) \in SUBSET movements
  BY DEF Typed, Of
<1>2. IsFiniteSet(Typed(n, T))
  BY <1>1, FS_Subset
<1> QED
  BY <1>2, PesosFinite

LEMMA ExpectedType ==
  ASSUME IsFiniteSet(movements), NEW n, starting[n] \in Nat
  PROVE  Expected(n) \in Int
  BY TypedFinite DEF Expected

LEMMA ExpectedTypeAfter ==
  ASSUME IsFiniteSet(movements'), NEW n, starting'[n] \in Nat
  PROVE  Expected(n)' \in Int
<1>1. (IsFiniteSet(movements) /\ starting[n] \in Nat => Expected(n) \in Int)'
  BY ExpectedType, PTL
<1> QED
  BY <1>1

\* What a step that writes rows of one type into one session does to the others and to it.
LEMMA RowsAdded ==
  ASSUME NEW n, NEW t, NEW N, movements' = movements \cup N,
         \A m \in N : m.session = n /\ m.type = t
  PROVE  /\ \A i : i # n => Of(i)' = Of(i)
         /\ Of(n)' = Of(n) \cup N
         /\ \A T : t \in T => Typed(n, T)' = Typed(n, T) \cup N
         /\ \A T : t \notin T => Typed(n, T)' = Typed(n, T)
<1>1. \A i : i # n => Of(i)' = Of(i)
  BY DEF Of
<1>2. Of(n)' = Of(n) \cup N
  BY DEF Of
<1>3. \A T : t \in T => Typed(n, T)' = Typed(n, T) \cup N
  BY <1>2 DEF Typed
<1>4. \A T : t \notin T => Typed(n, T)' = Typed(n, T)
  BY <1>2 DEF Typed
<1> QED
  BY <1>1, <1>2, <1>3, <1>4

\* The balance after new rows: what comes in does not lower it, what goes out lowers it by no
\* more than the rows say.
LEMMA ExpectedAfter ==
  ASSUME IsFiniteSet(movements), NEW n, starting[n] \in Nat, starting'[n] = starting[n],
         NEW t, NEW N, IsFiniteSet(N), movements' = movements \cup N,
         \A m \in N : m.session = n /\ m.type = t
  PROVE  /\ t \in Reversals \cup {"SALE_INCOME"} => Expected(n)' >= Expected(n)
         /\ t \in Exits \cup {"SALE_REFUND"} => Expected(n)' >= Expected(n) - Cash(N)
<1>0. /\ \A T : t \in T => Typed(n, T)' = Typed(n, T) \cup N
      /\ \A T : t \notin T => Typed(n, T)' = Typed(n, T)
  BY RowsAdded DEF Typed, Of
<1>1. \A T : /\ t \notin T => Cash(Typed(n, T))' = Cash(Typed(n, T))
             /\ t \in T => /\ Cash(Typed(n, T))' >= Cash(Typed(n, T))
                           /\ Cash(Typed(n, T))' <= Cash(Typed(n, T)) + Cash(N)
  <2> SUFFICES ASSUME NEW T
               PROVE  /\ t \notin T => Cash(Typed(n, T))' = Cash(Typed(n, T))
                      /\ t \in T => /\ Cash(Typed(n, T))' >= Cash(Typed(n, T))
                                    /\ Cash(Typed(n, T))' <= Cash(Typed(n, T)) + Cash(N)
    OBVIOUS
  <2>1. /\ t \in T => Typed(n, T)' = Typed(n, T) \cup N
        /\ t \notin T => Typed(n, T)' = Typed(n, T)
    BY <1>0
  <2>2. IsFiniteSet(Typed(n, T))
    BY TypedFinite
  <2>3. /\ Cash(Typed(n, T) \cup N) >= Cash(Typed(n, T))
        /\ Cash(Typed(n, T) \cup N) <= Cash(Typed(n, T)) + Cash(N)
    BY <2>2, CashOfUnion
  <2>4. Cash(Typed(n, T))' = Cash(Typed(n, T)')
    BY DEF Cash
  <2> QED
    BY <2>1, <2>3, <2>4
<1>2. \A T : Cash(Typed(n, T)) \in Nat
  BY TypedFinite
<1>3. \A T : Cash(Typed(n, T))' \in Nat
  <2>1. IsFiniteSet(movements')
    BY FS_Union
  <2> SUFFICES ASSUME NEW T PROVE Cash(Typed(n, T))' \in Nat
    OBVIOUS
  <2>2. Typed(n, T)' \in SUBSET movements'
    BY DEF Typed, Of
  <2>3. IsFiniteSet(Typed(n, T)')
    BY <2>1, <2>2, FS_Subset
  <2>4. Cash(Typed(n, T)') \in Nat
    BY <2>3, PesosFinite
  <2>5. Cash(Typed(n, T))' = Cash(Typed(n, T)')
    BY DEF Cash
  <2> QED
    BY <2>4, <2>5
<1>4. Cash(N) \in Nat
  BY PesosFinite
<1> DEFINE I == Cash(Typed(n, {"SALE_INCOME"}))
           O == Cash(Typed(n, Exits))
           B == Cash(Typed(n, Reversals))
           F == Cash(Typed(n, {"SALE_REFUND"}))
<1>5. /\ Expected(n) = starting[n] + I - O + B - F
      /\ Expected(n)' = starting[n] + I' - O' + B' - F'
  BY DEF Expected
<1>6. /\ I \in Nat /\ O \in Nat /\ B \in Nat /\ F \in Nat
      /\ I' \in Nat /\ O' \in Nat /\ B' \in Nat /\ F' \in Nat
  BY <1>2, <1>3
<1>7. t \in Reversals \cup {"SALE_INCOME"} => I' >= I /\ O' = O /\ B' >= B /\ F' = F
  BY <1>1, <1>6 DEF Reversals, Exits
<1>8. t \in Exits \cup {"SALE_REFUND"} =>
        /\ I' = I /\ B' = B
        /\ \/ O' = O /\ F' <= F + Cash(N)
           \/ O' <= O + Cash(N) /\ F' = F
  BY <1>1, <1>6 DEF Reversals, Exits
<1> HIDE DEF I, O, B, F
<1> QED
  BY <1>4, <1>5, <1>6, <1>7, <1>8

-----------------------------------------------------------------------------
(***************************************************************************)
(* The inductive invariant.                                                *)
(***************************************************************************)

\* All that reconcileCashSession asks of the rows, whatever their sums.
Sound(n) ==
    OpeningMatches(n) /\ ReversalsMatch(n) /\ RefundsMatch(n) /\ IncomeMatchesPayments(n)

\* What BooksStayRight says of one session.
BooksRight(n) ==
    IF status[n] = "CLOSED"
    THEN /\ Reconciles(n)
         /\ books[n].expected = Expected(n)
         /\ \E m \in Typed(n, {"CLOSING"}) : m.amount - Expected(n) = books[n].difference
    ELSE books[n] = NotClosed /\ Typed(n, {"CLOSING"}) = {}

SessionInv(n) ==
    /\ status[n] = "NEW" => Of(n) = {} /\ TakenIn(n) = {}
    /\ status[n] # "NEW" => Sound(n)
    /\ Expected(n) >= 0
    /\ BooksRight(n)

PaymentsOnce ==
    /\ \A p \in payments : p.amount > 0
    /\ \A p, q \in payments : p.id = q.id => p = q

\* The invariant that is proved by induction.
DrawerInv ==
    /\ TypeOK
    /\ IsFiniteSet(movements) /\ IsFiniteSet(payments)
    /\ PaymentsOnce
    /\ RefundsFollowVoids
    /\ OneMovementPerKey
    /\ \A n \in Sessions : SessionInv(n)

\* The rows of a session but the one its close leaves.
BeforeClose(n) == {m \in Of(n) : m.type # "CLOSING"}

\* The figures of a session depend on nothing else.
LEMMA FiguresKept ==
  ASSUME NEW n, BeforeClose(n)' = BeforeClose(n), starting'[n] = starting[n],
         TakenIn(n)' = TakenIn(n)
  PROVE  /\ Expected(n)' = Expected(n)
         /\ Sound(n)' <=> Sound(n)
         /\ Reconciles(n)' <=> Reconciles(n)
<1>1. ASSUME NEW T, "CLOSING" \notin T PROVE Typed(n, T)' = Typed(n, T)
  <2>1. Typed(n, T) = {m \in BeforeClose(n) : m.type \in T}
    BY <1>1 DEF Typed, BeforeClose
  <2>2. Typed(n, T)' = {m \in BeforeClose(n)' : m.type \in T}
    BY <1>1 DEF Typed, BeforeClose
  <2> QED
    BY <2>1, <2>2
<1>2. /\ Typed(n, {"OPENING"})' = Typed(n, {"OPENING"})
      /\ Typed(n, {"SALE_INCOME"})' = Typed(n, {"SALE_INCOME"})
      /\ Typed(n, Exits)' = Typed(n, Exits)
      /\ Typed(n, Reversals)' = Typed(n, Reversals)
      /\ Typed(n, {"SALE_REFUND"})' = Typed(n, {"SALE_REFUND"})
      /\ Typed(n, Exits \cup {"SALE_REFUND"})' = Typed(n, Exits \cup {"SALE_REFUND"})
  BY <1>1 DEF Exits, Reversals
<1>3. \A type : Typed(n, {Reversed(type)})' = Typed(n, {Reversed(type)})
  BY <1>1 DEF Reversed
<1>4. Expected(n)' = Expected(n)
  BY <1>2 DEF Expected, Cash
<1>5. OpeningMatches(n)' <=> OpeningMatches(n)
  BY <1>2 DEF OpeningMatches
<1>6. ReversalsMatch(n)' <=> ReversalsMatch(n)
  BY <1>2, <1>3 DEF ReversalsMatch
<1>7. RefundsMatch(n)' <=> RefundsMatch(n)
  BY <1>2 DEF RefundsMatch
<1>8. IncomeMatchesPayments(n)' <=> IncomeMatchesPayments(n)
  BY <1>2 DEF IncomeMatchesPayments
<1>9. Fits(n)' <=> Fits(n)
  BY <1>2, <1>4 DEF Fits, Cash
<1> QED
  BY <1>4, <1>5, <1>6, <1>7, <1>8, <1>9 DEF Sound, Reconciles, Projects

\* A step that leaves the session, its rows and its payments alone.
Kept(n) ==
    /\ status'[n] = status[n] /\ starting'[n] = starting[n] /\ books'[n] = books[n]
    /\ Of(n)' = Of(n) /\ TakenIn(n)' = TakenIn(n)

LEMMA SessionKept ==
  ASSUME NEW n \in Sessions, SessionInv(n), Kept(n)
  PROVE  SessionInv(n)'
<1>1. BeforeClose(n)' = BeforeClose(n)
  BY DEF BeforeClose, Kept
<1>2. /\ Expected(n)' = Expected(n)
      /\ Sound(n)' <=> Sound(n)
      /\ Reconciles(n)' <=> Reconciles(n)
  BY <1>1, FiguresKept DEF Kept
<1>3. Typed(n, {"CLOSING"})' = Typed(n, {"CLOSING"})
  BY DEF Typed, Kept
<1>4. BooksRight(n)' <=> BooksRight(n)
  BY <1>2, <1>3 DEF BooksRight, Kept, NotClosed
<1> QED
  BY <1>2, <1>4 DEF SessionInv, Kept

\* Sessions that a step does not name keep their part of the invariant.
LEMMA OthersKept ==
  ASSUME NEW n \in Sessions, \A i \in Sessions : SessionInv(i),
         \A i \in Sessions \ {n} : Kept(i), SessionInv(n)'
  PROVE  (\A i \in Sessions : SessionInv(i))'
<1>1. ASSUME NEW i \in Sessions, i # n PROVE SessionInv(i)'
  BY <1>1, SessionKept
<1>2. \A i \in Sessions : SessionInv(i)'
  BY <1>1
<1> QED
  BY <1>2

\* Rows that are no refunds, and sales that are not voided, leave the refunds as they were.
LEMMA RefundsKept ==
  ASSUME RefundsFollowVoids, movements \subseteq movements',
         \A m \in movements' \ movements : m.type # "SALE_REFUND",
         payments' = payments, saleStatus' = saleStatus
  PROVE  RefundsFollowVoids'
<1>1. {m \in movements' : m.type = "SALE_REFUND"} = {m \in movements : m.type = "SALE_REFUND"}
  OBVIOUS
<1> QED
  BY <1>1 DEF RefundsFollowVoids

\* Rows without a request key leave the others as they were.
LEMMA KeysKept ==
  ASSUME OneMovementPerKey, movements \subseteq movements',
         \A m \in movements' \ movements : m.key = Nothing
  PROVE  OneMovementPerKey'
  BY DEF OneMovementPerKey

-----------------------------------------------------------------------------
(***************************************************************************)
(* One lemma per operation.                                                *)
(***************************************************************************)

LEMMA InitHolds == Init => DrawerInv
<1> SUFFICES ASSUME Init PROVE DrawerInv
  OBVIOUS
<1>1. TypeOK
  BY CashAssumption DEF Init, TypeOK, Amounts
<1>2. IsFiniteSet(movements) /\ IsFiniteSet(payments)
  BY FS_EmptySet DEF Init
<1>3. PaymentsOnce /\ RefundsFollowVoids /\ OneMovementPerKey
  BY DEF Init, PaymentsOnce, RefundsFollowVoids, OneMovementPerKey
<1>4. ASSUME NEW n \in Sessions PROVE SessionInv(n)
  <2>1. \A T : Typed(n, T) = {}
    BY DEF Init, Typed, Of
  <2>2. Expected(n) = 0
    BY <2>1, CashOfNone DEF Expected, Init
  <2>3. Of(n) = {} /\ TakenIn(n) = {}
    BY DEF Init, Of, TakenIn
  <2>4. BooksRight(n)
    BY <2>1 DEF BooksRight, Init
  <2> QED
    BY <2>2, <2>3, <2>4 DEF SessionInv, Init
<1> QED
  BY <1>1, <1>2, <1>3, <1>4 DEF DrawerInv

LEMMA OpenStep ==
  ASSUME DrawerInv, NEW n \in Sessions, NEW a \in Amounts, OpenSession(n, a)
  PROVE  DrawerInv'
<1> DEFINE row == Row(n, "OPENING", a, Nothing, Nothing)
<1>1. /\ status[n] = "NEW"
      /\ status' = [status EXCEPT ![n] = "OPEN"]
      /\ starting' = [starting EXCEPT ![n] = a]
      /\ movements' = movements \cup {row}
      /\ UNCHANGED <<books, payments, saleStatus>>
  BY DEF OpenSession
<1>2. /\ row.session = n /\ row.type = "OPENING" /\ row.amount = a
      /\ row.key = Nothing /\ row \in Movements
  BY DEF Row, Movements, Types
<1> HIDE DEF row
<1>3. TypeOK'
  BY <1>1, <1>2 DEF DrawerInv, TypeOK
<1>4. IsFiniteSet(movements') /\ IsFiniteSet(payments')
  BY <1>1, FS_AddElement DEF DrawerInv
<1>5. PaymentsOnce'
  BY <1>1 DEF DrawerInv, PaymentsOnce
<1>6. RefundsFollowVoids'
  BY <1>1, <1>2, RefundsKept DEF DrawerInv
<1>7. OneMovementPerKey'
  BY <1>1, <1>2, KeysKept DEF DrawerInv
<1>8. \A i \in Sessions \ {n} : Kept(i)
  BY <1>1, <1>2 DEF Kept, Of, TakenIn, DrawerInv, TypeOK
<1>9. SessionInv(n)'
  <2>1. /\ status'[n] = "OPEN" /\ starting'[n] = a /\ books'[n] = NotClosed
    BY <1>1 DEF DrawerInv, TypeOK, SessionInv, BooksRight
  <2>2. Of(n) = {} /\ TakenIn(n) = {}
    BY <1>1 DEF DrawerInv, SessionInv
  <2>3. Of(n)' = {row} /\ TakenIn(n)' = {}
    BY <1>1, <1>2, <2>2 DEF Of, TakenIn
  <2>4. ASSUME NEW T PROVE Typed(n, T)' = IF "OPENING" \in T THEN {row} ELSE {}
    BY <1>2, <2>3 DEF Typed
  <2>5. /\ Typed(n, {"OPENING"})' = {row}
        /\ Typed(n, {"CLOSING"})' = {}
        /\ Typed(n, {"SALE_INCOME"})' = {}
        /\ Typed(n, Exits)' = {}
        /\ Typed(n, Reversals)' = {}
        /\ Typed(n, {"SALE_REFUND"})' = {}
        /\ Typed(n, Exits \cup {"SALE_REFUND"})' = {}
    BY <2>4 DEF Exits, Reversals
  <2>6. Expected(n)' = a
    <3>1. Expected(n)' = a + Cash({}) - Cash({}) + Cash({}) - Cash({})
      BY <2>1, <2>5 DEF Expected, Cash
    <3>2. a \in Int
      BY DEF Amounts
    <3> QED
      BY <3>1, <3>2, CashOfNone
  <2>7. Sound(n)'
    BY <1>2, <2>1, <2>3, <2>5
    DEF Sound, OpeningMatches, ReversalsMatch, RefundsMatch, IncomeMatchesPayments
  <2>8. BooksRight(n)'
    BY <2>1, <2>5 DEF BooksRight, NotClosed
  <2>9. a >= 0
    BY DEF Amounts
  <2> QED
    BY <2>1, <2>6, <2>7, <2>8, <2>9 DEF SessionInv
<1>10. (\A i \in Sessions : SessionInv(i))'
  BY <1>8, <1>9, OthersKept DEF DrawerInv
<1> QED
  BY <1>3, <1>4, <1>5, <1>6, <1>7, <1>10 DEF DrawerInv

LEMMA CloseStep ==
  ASSUME DrawerInv, NEW n \in Sessions, NEW c \in Amounts, CloseSession(n, c)
  PROVE  DrawerInv'
<1> DEFINE row == Row(n, "CLOSING", c, Nothing, Nothing)
<1>1. /\ status[n] = "OPEN" /\ Reconciles(n)
      /\ status' = [status EXCEPT ![n] = "CLOSED"]
      /\ books' = [books EXCEPT ![n] = [expected |-> Expected(n), difference |-> c - Expected(n)]]
      /\ movements' = movements \cup {row}
      /\ UNCHANGED <<starting, payments, saleStatus>>
  BY DEF CloseSession
<1>2. /\ row.session = n /\ row.type = "CLOSING" /\ row.amount = c
      /\ row.key = Nothing /\ row \in Movements
  BY DEF Row, Movements, Types
<1> HIDE DEF row
<1>3. TypeOK'
  <2>1. Expected(n) \in Int
    BY ExpectedType DEF DrawerInv, TypeOK, Amounts
  <2>2. c - Expected(n) \in Int
    BY <2>1 DEF Amounts
  <2> QED
    BY <1>1, <1>2, <2>1, <2>2 DEF DrawerInv, TypeOK
<1>4. IsFiniteSet(movements') /\ IsFiniteSet(payments')
  BY <1>1, FS_AddElement DEF DrawerInv
<1>5. PaymentsOnce'
  BY <1>1 DEF DrawerInv, PaymentsOnce
<1>6. RefundsFollowVoids'
  BY <1>1, <1>2, RefundsKept DEF DrawerInv
<1>7. OneMovementPerKey'
  BY <1>1, <1>2, KeysKept DEF DrawerInv
<1>8. \A i \in Sessions \ {n} : Kept(i)
  BY <1>1, <1>2 DEF Kept, Of, TakenIn, DrawerInv, TypeOK
<1>9. SessionInv(n)'
  <2>1. BeforeClose(n)' = BeforeClose(n)
    BY <1>1, <1>2 DEF BeforeClose, Of
  <2>2. starting'[n] = starting[n] /\ TakenIn(n)' = TakenIn(n)
    BY <1>1 DEF TakenIn
  <2>3. /\ Expected(n)' = Expected(n)
        /\ Sound(n)' <=> Sound(n)
        /\ Reconciles(n)' <=> Reconciles(n)
    BY <2>1, <2>2, FiguresKept
  <2>4. Sound(n) /\ Expected(n) >= 0
    BY <1>1 DEF DrawerInv, SessionInv
  <2>5. /\ status'[n] = "CLOSED"
        /\ books'[n] = [expected |-> Expected(n), difference |-> c - Expected(n)]
    BY <1>1 DEF DrawerInv, TypeOK
  <2>6. row \in Typed(n, {"CLOSING"})'
    BY <1>1, <1>2 DEF Typed, Of
  <2>7. BooksRight(n)'
    <3>1. books'[n].expected = Expected(n)'
      BY <2>3, <2>5
    <3>2. row.amount - Expected(n)' = books'[n].difference
      BY <1>2, <2>3, <2>5
    <3> QED
      BY <1>1, <2>3, <2>5, <2>6, <3>1, <3>2 DEF BooksRight
  <2> QED
    BY <2>3, <2>4, <2>5, <2>7 DEF SessionInv
<1>10. (\A i \in Sessions : SessionInv(i))'
  BY <1>8, <1>9, OthersKept DEF DrawerInv
<1> QED
  BY <1>3, <1>4, <1>5, <1>6, <1>7, <1>10 DEF DrawerInv

\* An open session keeps open books when no step counts it.
LEMMA OpenBooks ==
  ASSUME NEW n \in Sessions, SessionInv(n), status[n] = "OPEN",
         status' = status, books' = books,
         \A m \in movements' \ movements : m.type # "CLOSING",
         movements \subseteq movements'
  PROVE  BooksRight(n)'
<1>1. books[n] = NotClosed /\ Typed(n, {"CLOSING"}) = {}
  BY DEF SessionInv, BooksRight
<1>2. Typed(n, {"CLOSING"})' = {}
  BY <1>1 DEF Typed, Of
<1> QED
  BY <1>1, <1>2 DEF BooksRight, NotClosed

LEMMA RegisterStep ==
  ASSUME DrawerInv, NEW n \in Sessions, NEW kind \in Exits, NEW a \in Amounts \ {0}, NEW k \in Keys,
         RegisterMovement(n, kind, a, k)
  PROVE  DrawerInv'
<1> DEFINE row == Row(n, kind, a, k, Nothing)
<1>1. /\ Fresh(n, k)
      /\ status[n] = "OPEN" /\ a <= Expected(n)
      /\ movements' = movements \cup {row}
      /\ UNCHANGED <<status, starting, books, payments, saleStatus>>
  BY DEF RegisterMovement, Allows
<1>2. /\ row.session = n /\ row.type = kind /\ row.amount = a
      /\ row.key = k /\ row \in Movements
  BY DEF Row, Movements, Types
<1>a. a \in Amounts /\ a \in Int /\ a > 0
  BY DEF Amounts
<1> HIDE DEF row
<1>3. TypeOK'
  BY <1>1, <1>2 DEF DrawerInv, TypeOK
<1>4. IsFiniteSet(movements') /\ IsFiniteSet(payments')
  BY <1>1, FS_AddElement DEF DrawerInv
<1>5. PaymentsOnce'
  BY <1>1 DEF DrawerInv, PaymentsOnce
<1>6. RefundsFollowVoids'
  BY <1>1, <1>2, RefundsKept DEF DrawerInv, Exits
<1>7. OneMovementPerKey'
  BY <1>1, <1>2 DEF DrawerInv, OneMovementPerKey, Fresh, Of
<1>8. \A i \in Sessions \ {n} : Kept(i)
  BY <1>1, <1>2 DEF Kept, Of, TakenIn
<1>9. SessionInv(n)'
  <2>1. SessionInv(n) /\ Sound(n)
    BY <1>1 DEF DrawerInv, SessionInv
  <2>2. \A T : Typed(n, T)' = IF kind \in T THEN Typed(n, T) \cup {row} ELSE Typed(n, T)
    BY <1>1, <1>2 DEF Typed, Of
  <2>3. /\ Typed(n, {"OPENING"})' = Typed(n, {"OPENING"})
        /\ Typed(n, {"SALE_INCOME"})' = Typed(n, {"SALE_INCOME"})
        /\ Typed(n, Reversals)' = Typed(n, Reversals)
        /\ Typed(n, {"SALE_REFUND"})' = Typed(n, {"SALE_REFUND"})
        /\ Typed(n, Exits \cup {"SALE_REFUND"})' = Typed(n, Exits \cup {"SALE_REFUND"}) \cup {row}
        /\ \A T : Typed(n, T) \subseteq Typed(n, T)'
    BY <2>2 DEF Exits, Reversals
  <2>4. OpeningMatches(n)'
    BY <1>1, <2>1, <2>3 DEF Sound, OpeningMatches
  <2>5. ReversalsMatch(n)'
    BY <2>1, <2>3 DEF Sound, ReversalsMatch
  <2>6. RefundsMatch(n)'
    <3>1. /\ \A m \in Typed(n, Exits \cup {"SALE_REFUND"}) : m.amount > 0
          /\ \A m, q \in Typed(n, {"SALE_REFUND"}) : m.link = q.link => m = q
      BY <2>1 DEF Sound, RefundsMatch
    <3>2. row.amount > 0
      BY <1>2, <1>a
    <3>3. \A m \in Typed(n, Exits \cup {"SALE_REFUND"})' : m.amount > 0
      BY <2>3, <3>1, <3>2, Zenon
    <3> QED
      BY <2>3, <3>1, <3>3 DEF RefundsMatch
  <2>7. IncomeMatchesPayments(n)'
    BY <1>1, <2>1, <2>3 DEF Sound, IncomeMatchesPayments, TakenIn
  <2>8. Expected(n)' >= 0
    <3>1. IsFiniteSet({row}) /\ Cash({row}) = a
      BY <1>2, <1>a, CashOfOne, FS_Singleton
    <3>2. /\ starting[n] \in Nat /\ starting'[n] = starting[n]
          /\ \A m \in {row} : m.session = n /\ m.type = kind
      BY <1>1, <1>2 DEF DrawerInv, TypeOK, Amounts
    <3>3. Expected(n)' >= Expected(n) - Cash({row})
      BY <1>1, <3>1, <3>2, ExpectedAfter DEF DrawerInv
    <3>4. Expected(n) \in Int /\ Expected(n)' \in Int
      <4>1. Expected(n) \in Int
        BY <3>2, ExpectedType DEF DrawerInv
      <4>2. Expected(n)' \in Int
        BY <1>4, <3>2, ExpectedTypeAfter
      <4> QED
        BY <4>1, <4>2
    <3> QED
      BY <1>1, <1>a, <3>1, <3>3, <3>4
  <2>9. BooksRight(n)'
    BY <1>1, <1>2, <2>1, OpenBooks DEF Exits
  <2> QED
    BY <1>1, <2>4, <2>5, <2>6, <2>7, <2>8, <2>9 DEF SessionInv, Sound
<1>10. (\A i \in Sessions : SessionInv(i))'
  BY <1>8, <1>9, OthersKept DEF DrawerInv
<1> QED
  BY <1>3, <1>4, <1>5, <1>6, <1>7, <1>10 DEF DrawerInv

\* One more row of cash that comes in keeps the balance from falling below zero.
LEMMA BalanceAfterIncome ==
  ASSUME DrawerInv, NEW n \in Sessions, starting' = starting, NEW row, NEW t,
         t \in Reversals \cup {"SALE_INCOME"}, row.session = n, row.type = t,
         movements' = movements \cup {row}
  PROVE  Expected(n)' >= 0
<1>1. /\ starting[n] \in Nat /\ starting'[n] \in Nat /\ starting'[n] = starting[n]
      /\ IsFiniteSet(movements) /\ IsFiniteSet(movements')
  BY FS_AddElement DEF DrawerInv, TypeOK, Amounts
<1>2. IsFiniteSet({row}) /\ \A m \in {row} : m.session = n /\ m.type = t
  BY FS_Singleton
<1>3. Expected(n)' >= Expected(n)
  BY <1>1, <1>2, ExpectedAfter
<1>4. Expected(n) \in Int
  BY <1>1, ExpectedType
<1>5. Expected(n)' \in Int
  BY <1>1, ExpectedTypeAfter
<1>6. Expected(n) >= 0
  BY DEF DrawerInv, SessionInv
<1> QED
  BY <1>3, <1>4, <1>5, <1>6

LEMMA ReverseStep ==
  ASSUME DrawerInv, NEW n \in Sessions, NEW k \in Keys, NEW m \in movements,
         ReverseMovement(n, m, k)
  PROVE  DrawerInv'
<1> DEFINE row == Compensation(n, m, k)
           t == ReversalOf(m.type)
<1>1. /\ Fresh(n, k)
      /\ status[n] = "OPEN" /\ m \in Typed(n, Exits)
      /\ \A r \in Typed(n, Reversals) : r.link # m.key
      /\ movements' = movements \cup {row}
      /\ UNCHANGED <<status, starting, books, payments, saleStatus>>
  BY DEF ReverseMovement, Reversible
<1>m. /\ m \in Movements /\ m.session = n /\ m.type \in Exits /\ m.amount \in Amounts
      /\ m.key \in Keys \cup {Nothing} /\ m.amount > 0
  <2>1. m \in Movements /\ m.session = n /\ m.type \in Exits
    BY <1>1 DEF DrawerInv, TypeOK, Typed, Of
  <2>2. m \in Typed(n, Exits \cup {"SALE_REFUND"})
    BY <1>1 DEF Typed
  <2>3. m.amount > 0
    BY <1>1, <2>2 DEF DrawerInv, SessionInv, Sound, RefundsMatch
  <2> QED
    BY <2>1, <2>3 DEF Movements
<1>t. t \in Reversals /\ Reversed(t) = m.type
  BY <1>m DEF ReversalOf, Reversed, Exits, Reversals
<1>2. /\ row.session = n /\ row.type = t /\ row.amount = m.amount
      /\ row.key = k /\ row.link = m.key /\ row \in Movements
  BY <1>m, <1>t DEF Compensation, Row, Movements, Types
<1> HIDE DEF row, t
<1>3. TypeOK'
  BY <1>1, <1>2 DEF DrawerInv, TypeOK
<1>4. IsFiniteSet(movements') /\ IsFiniteSet(payments')
  BY <1>1, FS_AddElement DEF DrawerInv
<1>5. PaymentsOnce'
  BY <1>1 DEF DrawerInv, PaymentsOnce
<1>6. RefundsFollowVoids'
  BY <1>1, <1>2, <1>t, RefundsKept DEF DrawerInv, Reversals
<1>7. OneMovementPerKey'
  BY <1>1, <1>2 DEF DrawerInv, OneMovementPerKey, Fresh, Of
<1>8. \A i \in Sessions \ {n} : Kept(i)
  BY <1>1, <1>2 DEF Kept, Of, TakenIn
<1>9. SessionInv(n)'
  <2>1. SessionInv(n) /\ Sound(n)
    BY <1>1 DEF DrawerInv, SessionInv
  <2>2. \A T : Typed(n, T)' = IF t \in T THEN Typed(n, T) \cup {row} ELSE Typed(n, T)
    BY <1>1, <1>2 DEF Typed, Of
  <2>3. /\ Typed(n, {"OPENING"})' = Typed(n, {"OPENING"})
        /\ Typed(n, {"SALE_INCOME"})' = Typed(n, {"SALE_INCOME"})
        /\ Typed(n, Reversals)' = Typed(n, Reversals) \cup {row}
        /\ Typed(n, {"SALE_REFUND"})' = Typed(n, {"SALE_REFUND"})
        /\ Typed(n, Exits \cup {"SALE_REFUND"})' = Typed(n, Exits \cup {"SALE_REFUND"})
        /\ \A T : Typed(n, T) \subseteq Typed(n, T)'
    BY <1>t, <2>2 DEF Exits, Reversals
  <2>4. OpeningMatches(n)'
    BY <1>1, <2>1, <2>3 DEF Sound, OpeningMatches
  <2>5. ReversalsMatch(n)'
    <3>1. \A r \in Typed(n, Reversals) :
             /\ r.amount > 0
             /\ \E q \in Typed(n, {Reversed(r.type)})' : q.key = r.link /\ q.amount = r.amount
      BY <2>1, <2>3 DEF Sound, ReversalsMatch
    <3>2. m \in Typed(n, {Reversed(row.type)})'
      BY <1>1, <1>2, <1>m, <1>t DEF Typed, Of
    <3>3. row.amount > 0 /\ m.key = row.link /\ m.amount = row.amount
      BY <1>2, <1>m
    <3>4. \A r, q \in Typed(n, Reversals) : r.link = q.link => r = q
      BY <2>1 DEF Sound, ReversalsMatch
    <3>5. \A r \in Typed(n, Reversals)' :
             /\ r.amount > 0
             /\ \E q \in Typed(n, {Reversed(r.type)})' : q.key = r.link /\ q.amount = r.amount
      <4>1. SUFFICES ASSUME NEW r \in Typed(n, Reversals) \cup {row}
                     PROVE  /\ r.amount > 0
                            /\ \E q \in Typed(n, {Reversed(r.type)})' :
                                  q.key = r.link /\ q.amount = r.amount
        BY <2>3
      <4>2. CASE r \in Typed(n, Reversals)
        BY <3>1, <4>2
      <4>3. CASE r = row
        BY <3>2, <3>3, <4>3
      <4> QED
        BY <4>2, <4>3
    <3>6. \A r, q \in Typed(n, Reversals)' : r.link = q.link => r = q
      BY <1>1, <1>2, <2>3, <3>4
    <3> QED
      BY <3>5, <3>6 DEF ReversalsMatch
  <2>6. RefundsMatch(n)'
    BY <2>1, <2>3 DEF Sound, RefundsMatch
  <2>7. IncomeMatchesPayments(n)'
    BY <1>1, <2>1, <2>3 DEF Sound, IncomeMatchesPayments, TakenIn
  <2>8. Expected(n)' >= 0
    BY <1>1, <1>2, <1>4, <1>t, <2>1, FS_Singleton, BalanceAfterIncome DEF DrawerInv, SessionInv
  <2>9. BooksRight(n)'
    BY <1>1, <1>2, <1>t, <2>1, OpenBooks DEF Reversals
  <2> QED
    BY <1>1, <2>4, <2>5, <2>6, <2>7, <2>8, <2>9 DEF SessionInv, Sound
<1>10. (\A i \in Sessions : SessionInv(i))'
  BY <1>8, <1>9, OthersKept DEF DrawerInv
<1> QED
  BY <1>3, <1>4, <1>5, <1>6, <1>7, <1>10 DEF DrawerInv

\* A payment, of a sale with a fixed total or of a confirmed checkout, enters an open session
\* under a key of its own.
LEMMA PaymentStep ==
  ASSUME DrawerInv, NEW s \in Sales, NEW k \in PayKeys, NEW n \in Sessions,
         NEW a \in Amounts \ {0},
         status[n] = "OPEN", saleStatus[s] = "PENDING_PAYMENT",
         \A p \in payments : p.id # <<s, k>>,
         TakePayment(<<s, k>>, n, a),
         saleStatus' \in {saleStatus, [saleStatus EXCEPT ![s] = "PAID"]},
         UNCHANGED <<status, starting, books>>
  PROVE  DrawerInv'
<1> DEFINE id == <<s, k>>
           row == Row(n, "SALE_INCOME", a, Nothing, id)
           paid == [id |-> id, amount |-> a, session |-> n]
<1>1. /\ movements' = movements \cup {row}
      /\ payments' = payments \cup {paid}
  BY DEF TakePayment
<1>2. /\ row.session = n /\ row.type = "SALE_INCOME" /\ row.amount = a
      /\ row.key = Nothing /\ row.link = id /\ row \in Movements
  BY DEF Row, Movements, Types, PaymentIds
<1>p. paid.id = id /\ paid.amount = a /\ paid.session = n /\ paid \in Payments
  BY DEF Payments, PaymentIds
<1>a. a \in Amounts /\ a > 0
  BY DEF Amounts
<1>i. id[1] = s /\ \A p \in payments : p.id # id
  OBVIOUS
<1> HIDE DEF row, paid, id
<1>3. TypeOK'
  BY <1>1, <1>2, <1>p DEF DrawerInv, TypeOK
<1>4. IsFiniteSet(movements') /\ IsFiniteSet(payments')
  BY <1>1, FS_AddElement DEF DrawerInv
<1>5. PaymentsOnce'
  BY <1>1, <1>p, <1>a, <1>i DEF DrawerInv, PaymentsOnce
<1>6. RefundsFollowVoids'
  <2>1. {r \in movements' : r.type = "SALE_REFUND"} = {r \in movements : r.type = "SALE_REFUND"}
    BY <1>1, <1>2
  <2>2. \A i \in Sales : saleStatus'[i] = "CANCELLED" <=> saleStatus[i] = "CANCELLED"
    BY DEF DrawerInv, TypeOK
  <2>3. \A p \in payments : p.id[1] \in Sales
    BY DEF DrawerInv, TypeOK, Payments, PaymentIds
  <2>4. {q \in payments' : saleStatus'[q.id[1]] = "CANCELLED"} = {q \in payments : saleStatus[q.id[1]] = "CANCELLED"}
    BY <1>1, <1>p, <1>i, <2>2, <2>3
  <2> QED
    BY <2>1, <2>4 DEF DrawerInv, RefundsFollowVoids
<1>7. OneMovementPerKey'
  BY <1>1, <1>2, KeysKept DEF DrawerInv
<1>8. \A i \in Sessions \ {n} : Kept(i)
  BY <1>1, <1>2, <1>p DEF Kept, Of, TakenIn
<1>9. SessionInv(n)'
  <2>1. SessionInv(n) /\ Sound(n)
    BY DEF DrawerInv, SessionInv
  <2>2. \A T : Typed(n, T)' = IF "SALE_INCOME" \in T THEN Typed(n, T) \cup {row} ELSE Typed(n, T)
    BY <1>1, <1>2 DEF Typed, Of
  <2>3. /\ Typed(n, {"OPENING"})' = Typed(n, {"OPENING"})
        /\ Typed(n, {"SALE_INCOME"})' = Typed(n, {"SALE_INCOME"}) \cup {row}
        /\ Typed(n, Reversals)' = Typed(n, Reversals)
        /\ Typed(n, {"SALE_REFUND"})' = Typed(n, {"SALE_REFUND"})
        /\ Typed(n, Exits \cup {"SALE_REFUND"})' = Typed(n, Exits \cup {"SALE_REFUND"})
        /\ \A T : Typed(n, T) \subseteq Typed(n, T)'
    BY <2>2 DEF Exits, Reversals
  <2>4. OpeningMatches(n)'
    BY <2>1, <2>3 DEF Sound, OpeningMatches
  <2>5. ReversalsMatch(n)'
    BY <2>1, <2>3 DEF Sound, ReversalsMatch
  <2>6. RefundsMatch(n)'
    BY <2>1, <2>3 DEF Sound, RefundsMatch
  <2>7. IncomeMatchesPayments(n)'
    <3>1. TakenIn(n)' = TakenIn(n) \cup {paid}
      BY <1>1, <1>p DEF TakenIn
    <3>2. /\ \A m, q \in Typed(n, {"SALE_INCOME"}) : m.link = q.link => m = q
          /\ {<<m.link, m.amount>> : m \in Typed(n, {"SALE_INCOME"})} = {<<p.id, p.amount>> : p \in TakenIn(n)}
      BY <2>1 DEF Sound, IncomeMatchesPayments
    <3>3. ASSUME NEW m \in Typed(n, {"SALE_INCOME"}) PROVE m.link # id
      <4>1. <<m.link, m.amount>> \in {<<q.link, q.amount>> : q \in Typed(n, {"SALE_INCOME"})}
        OBVIOUS
      <4>2. <<m.link, m.amount>> \in {<<p.id, p.amount>> : p \in TakenIn(n)}
        BY <3>2, <4>1
      <4>3. PICK p \in TakenIn(n) : <<m.link, m.amount>> = <<p.id, p.amount>>
        BY <4>2
      <4> QED
        BY <4>3, <1>i DEF TakenIn
    <3>4. \A m, q \in Typed(n, {"SALE_INCOME"})' : m.link = q.link => m = q
      BY <1>2, <2>3, <3>2, <3>3
    <3>5. {<<m.link, m.amount>> : m \in Typed(n, {"SALE_INCOME"}) \cup {row}}
            = {<<p.id, p.amount>> : p \in TakenIn(n) \cup {paid}}
      <4>1. <<row.link, row.amount>> = <<paid.id, paid.amount>>
        BY <1>2, <1>p
      <4> QED
        BY <3>2, <4>1
    <3> QED
      BY <2>3, <3>1, <3>4, <3>5 DEF IncomeMatchesPayments
  <2>8. Expected(n)' >= 0
    BY <1>1, <1>2, <1>4, <2>1, FS_Singleton, BalanceAfterIncome DEF DrawerInv, SessionInv
  <2>9. BooksRight(n)'
    BY <1>1, <1>2, <2>1, OpenBooks
  <2> QED
    BY <2>4, <2>5, <2>6, <2>7, <2>8, <2>9 DEF SessionInv, Sound
<1>10. (\A i \in Sessions : SessionInv(i))'
  BY <1>8, <1>9, OthersKept DEF DrawerInv
<1> QED
  BY <1>3, <1>4, <1>5, <1>6, <1>7, <1>10 DEF DrawerInv

LEMMA VoidStep ==
  ASSUME DrawerInv, NEW s \in Sales, NEW n \in Sessions, VoidSale(s, n)
  PROVE  DrawerInv'
<1> DEFINE P == PaymentsOf(s)
           R(p) == Row(n, "SALE_REFUND", p.amount, Nothing, p.id)
           N == {R(p) : p \in P}
<1>1. /\ saleStatus[s] = "PAID"
      /\ \A m \in movements : m.type = "SALE_REFUND" => m.link[1] # s
      /\ status[n] = "OPEN" /\ Cash(P) <= Expected(n)
      /\ movements' = movements \cup N
      /\ saleStatus' = [saleStatus EXCEPT ![s] = "CANCELLED"]
      /\ UNCHANGED <<status, starting, books, payments>>
  BY DEF VoidSale, Allows, RefundedBy
<1>p. /\ P \subseteq payments /\ P \subseteq Payments /\ IsFiniteSet(P)
      /\ \A p \in payments : p \in P <=> p.id[1] = s
      /\ \A p \in P : p.amount > 0 /\ p.id[1] = s
      /\ \A p, q \in P : p.id = q.id => p = q
  <2>1. P \subseteq payments /\ \A p \in payments : p \in P <=> p.id[1] = s
    BY DEF PaymentsOf
  <2>2. IsFiniteSet(P)
    BY <2>1, FS_Subset DEF DrawerInv
  <2> QED
    BY <2>1, <2>2 DEF DrawerInv, TypeOK, PaymentsOnce
<1>2. \A p \in P : /\ R(p).session = n /\ R(p).type = "SALE_REFUND" /\ R(p).amount = p.amount
                   /\ R(p).key = Nothing /\ R(p).link = p.id /\ R(p) \in Movements
  BY <1>p DEF Row, Movements, Types, Payments
<1>f. IsFiniteSet(N) /\ Cash(N) <= Cash(P)
  BY <1>p, CashOfRefunds
<1> HIDE DEF R, P
<1>n. \A m \in N : m.session = n /\ m.type = "SALE_REFUND" /\ m.key = Nothing /\ m \in Movements
  BY <1>2
<1>l. /\ \A m \in N : m.link[1] = s /\ m.amount > 0
      /\ \A m, q \in N : m.link = q.link => m = q
  BY <1>2, <1>p
<1>3. TypeOK'
  BY <1>1, <1>n DEF DrawerInv, TypeOK
<1>4. IsFiniteSet(movements') /\ IsFiniteSet(payments')
  BY <1>1, <1>f, FS_Union DEF DrawerInv
<1>5. PaymentsOnce'
  BY <1>1 DEF DrawerInv, PaymentsOnce
<1>6. RefundsFollowVoids'
  <2> DEFINE Refunds == {m \in movements : m.type = "SALE_REFUND"}
             Voided == {p \in payments : saleStatus[p.id[1]] = "CANCELLED"}
  <2>1. {m \in movements' : m.type = "SALE_REFUND"} = Refunds \cup N
    BY <1>1, <1>n
  <2>2. {p \in payments' : saleStatus'[p.id[1]] = "CANCELLED"} = Voided \cup P
    <3>1. \A i \in Sales : saleStatus'[i] = IF i = s THEN "CANCELLED" ELSE saleStatus[i]
      BY <1>1 DEF DrawerInv, TypeOK
    <3>2. \A p \in payments : p.id[1] \in Sales
      BY DEF DrawerInv, TypeOK, Payments, PaymentIds
    <3> QED
      BY <1>1, <1>p, <3>1, <3>2
  <2>3. {<<m.link, m.amount>> : m \in Refunds} = {<<p.id, p.amount>> : p \in Voided}
    BY DEF DrawerInv, RefundsFollowVoids
  <2>4. {<<m.link, m.amount>> : m \in N} = {<<p.id, p.amount>> : p \in P}
    BY <1>2
  <2>5. {<<m.link, m.amount>> : m \in Refunds \cup N} = {<<p.id, p.amount>> : p \in Voided \cup P}
    BY <2>3, <2>4
  <2>6. \A m, r \in Refunds : m.link = r.link => m = r
    BY DEF DrawerInv, RefundsFollowVoids
  <2>7. \A m, r \in Refunds \cup N : m.link = r.link => m = r
    BY <1>1, <1>l, <2>6
  <2>8. {<<m.link, m.amount>> : m \in {r \in movements' : r.type = "SALE_REFUND"}}
          = {<<p.id, p.amount>> : p \in {q \in payments' : saleStatus'[q.id[1]] = "CANCELLED"}}
    BY <2>1, <2>2, <2>5
  <2>9. \A m, r \in movements' : m.type = "SALE_REFUND" /\ r.type = "SALE_REFUND" /\ m.link = r.link => m = r
    BY <2>1, <2>7
  <2> QED
    BY <2>8, <2>9 DEF RefundsFollowVoids
<1>7. OneMovementPerKey'
  BY <1>1, <1>n, KeysKept DEF DrawerInv
<1>8. \A i \in Sessions \ {n} : Kept(i)
  BY <1>1, <1>n DEF Kept, Of, TakenIn
<1>9. SessionInv(n)'
  <2>1. SessionInv(n) /\ Sound(n)
    BY <1>1 DEF DrawerInv, SessionInv
  <2>2. \A T : Typed(n, T)' = IF "SALE_REFUND" \in T THEN Typed(n, T) \cup N ELSE Typed(n, T)
    BY <1>1, <1>n DEF Typed, Of
  <2>3. /\ Typed(n, {"OPENING"})' = Typed(n, {"OPENING"})
        /\ Typed(n, {"SALE_INCOME"})' = Typed(n, {"SALE_INCOME"})
        /\ Typed(n, Reversals)' = Typed(n, Reversals)
        /\ Typed(n, {"SALE_REFUND"})' = Typed(n, {"SALE_REFUND"}) \cup N
        /\ Typed(n, Exits \cup {"SALE_REFUND"})' = Typed(n, Exits \cup {"SALE_REFUND"}) \cup N
        /\ \A T : Typed(n, T) \subseteq Typed(n, T)'
    BY <2>2 DEF Exits, Reversals
  <2>4. OpeningMatches(n)'
    BY <1>1, <2>1, <2>3 DEF Sound, OpeningMatches
  <2>5. ReversalsMatch(n)'
    BY <2>1, <2>3 DEF Sound, ReversalsMatch
  <2>6. RefundsMatch(n)'
    <3>1. /\ \A m \in Typed(n, Exits \cup {"SALE_REFUND"}) : m.amount > 0
          /\ \A m, q \in Typed(n, {"SALE_REFUND"}) : m.link = q.link => m = q
      BY <2>1 DEF Sound, RefundsMatch
    <3>2. \A m \in Typed(n, {"SALE_REFUND"}) : m.link[1] # s
      BY <1>1 DEF Typed, Of
    <3>3. \A m \in Typed(n, Exits \cup {"SALE_REFUND"})' : m.amount > 0
      BY <1>l, <2>3, <3>1
    <3>4. \A m, q \in Typed(n, {"SALE_REFUND"})' : m.link = q.link => m = q
      BY <1>l, <2>3, <3>1, <3>2
    <3> QED
      BY <3>3, <3>4 DEF RefundsMatch
  <2>7. IncomeMatchesPayments(n)'
    BY <1>1, <2>1, <2>3 DEF Sound, IncomeMatchesPayments, TakenIn
  <2>8. Expected(n)' >= 0
    <3>1. starting[n] \in Nat /\ starting'[n] = starting[n] /\ starting'[n] \in Nat
      BY <1>1 DEF DrawerInv, TypeOK, Amounts
    <3>2. Expected(n)' >= Expected(n) - Cash(N)
      BY <1>1, <1>f, <1>n, <3>1, ExpectedAfter DEF DrawerInv
    <3>3. Expected(n) \in Int
      BY <3>1, ExpectedType DEF DrawerInv
    <3>4. Expected(n)' \in Int
      BY <1>4, <3>1, ExpectedTypeAfter
    <3>5. Cash(N) \in Nat /\ Cash(P) \in Nat
      BY <1>f, <1>p, PesosFinite
    <3> HIDE DEF N
    <3> QED
      BY <1>1, <1>f, <3>2, <3>3, <3>4, <3>5
  <2>9. BooksRight(n)'
    BY <1>1, <1>n, <2>1, OpenBooks
  <2> QED
    BY <1>1, <2>4, <2>5, <2>6, <2>7, <2>8, <2>9 DEF SessionInv, Sound
<1>10. (\A i \in Sessions : SessionInv(i))'
  BY <1>8, <1>9, OthersKept DEF DrawerInv
<1> QED
  BY <1>3, <1>4, <1>5, <1>6, <1>7, <1>10 DEF DrawerInv

LEMMA StutterStep ==
  ASSUME DrawerInv, UNCHANGED vars
  PROVE  DrawerInv'
<1>1. TypeOK' /\ IsFiniteSet(movements') /\ IsFiniteSet(payments')
  BY DEF DrawerInv, TypeOK, vars
<1>2. PaymentsOnce' /\ RefundsFollowVoids' /\ OneMovementPerKey'
  BY DEF DrawerInv, PaymentsOnce, RefundsFollowVoids, OneMovementPerKey, vars
<1>3. \A n \in Sessions : Kept(n)
  BY DEF Kept, Of, TakenIn, vars
<1>4. ASSUME NEW n \in Sessions PROVE SessionInv(n)'
  BY <1>3, SessionKept DEF DrawerInv
<1>5. (\A n \in Sessions : SessionInv(n))'
  BY <1>4
<1> QED
  BY <1>1, <1>2, <1>5 DEF DrawerInv

LEMMA Inductive == DrawerInv /\ [Next]_vars => DrawerInv'
<1> SUFFICES ASSUME DrawerInv, [Next]_vars PROVE DrawerInv'
  OBVIOUS
<1>1. ASSUME NEW n \in Sessions, NEW a \in Amounts, OpenSession(n, a) PROVE DrawerInv'
  BY <1>1, OpenStep
<1>2. ASSUME NEW n \in Sessions, NEW c \in Amounts, CloseSession(n, c) PROVE DrawerInv'
  BY <1>2, CloseStep
<1>3. ASSUME NEW n \in Sessions, NEW k \in Keys, NEW kind \in Exits, NEW a \in Amounts \ {0},
             RegisterMovement(n, kind, a, k)
      PROVE  DrawerInv'
  BY <1>3, RegisterStep
<1>4. ASSUME NEW n \in Sessions, NEW k \in Keys, NEW m \in movements, ReverseMovement(n, m, k)
      PROVE  DrawerInv'
  BY <1>4, ReverseStep
<1>5. ASSUME NEW s \in Sales, NEW n \in Sessions, NEW k \in PayKeys, NEW a \in Amounts \ {0},
             RegisterPayment(s, k, n, a)
      PROVE  DrawerInv'
  <2>1. saleStatus' \in {saleStatus, [saleStatus EXCEPT ![s] = "PAID"]}
    BY <1>5 DEF RegisterPayment, DrawerInv, TypeOK
  <2> QED
    BY <1>5, <2>1, PaymentStep DEF RegisterPayment
<1>6. ASSUME NEW s \in Sales, NEW n \in Sessions, NEW k \in PayKeys, NEW a \in Amounts \ {0},
             ConfirmCheckout(s, k, n, a)
      PROVE  DrawerInv'
  <2>1. \A p \in payments : p.id # <<s, k>>
    BY <1>6 DEF ConfirmCheckout, PaymentsOf
  <2> QED
    BY <1>6, <2>1, PaymentStep DEF ConfirmCheckout
<1>7. ASSUME NEW s \in Sales, NEW n \in Sessions, VoidSale(s, n) PROVE DrawerInv'
  BY <1>7, VoidStep
<1>8. CASE UNCHANGED vars
  BY <1>8, StutterStep
<1> QED
  BY <1>1, <1>2, <1>3, <1>4, <1>5, <1>6, <1>7, <1>8 DEF Next

-----------------------------------------------------------------------------
(***************************************************************************)
(* The theorems.                                                           *)
(***************************************************************************)

LEMMA Invariant == Spec => []DrawerInv
  BY InitHolds, Inductive, PTL DEF Spec

\* The rows keep their shape (the columns of CashSession, CashMovement and SalePayment).
THEOREM TypeCorrect == Spec => []TypeOK
<1>1. DrawerInv => TypeOK
  BY DEF DrawerInv
<1> QED
  BY <1>1, Invariant, PTL

\* A request key leaves at most one movement (the replays of registerMovement and
\* reverseMovement).
THEOREM OneMovementPerKeyAlways == Spec => []OneMovementPerKey
<1>1. DrawerInv => OneMovementPerKey
  BY DEF DrawerInv
<1> QED
  BY <1>1, Invariant, PTL

\* Every cash payment of a voided sale, and no other, was returned once and in full (voidSale).
THEOREM RefundsAlwaysFollowVoids == Spec => []RefundsFollowVoids
<1>1. DrawerInv => RefundsFollowVoids
  BY DEF DrawerInv
<1> QED
  BY <1>1, Invariant, PTL

\* No drawer ever owes cash (projectExpectedCash before each exit and refund).
THEOREM DrawerAlwaysHoldsCash == Spec => []DrawerHoldsCash
<1>1. DrawerInv => DrawerHoldsCash
  BY DEF DrawerInv, DrawerHoldsCash, SessionInv
<1> QED
  BY <1>1, Invariant, PTL

\* An open session whose sums fit their columns can always be counted and closed
\* (reconcileCashSession in closeSession).
THEOREM OpenSessionAlwaysReconciles == Spec => []OpenSessionReconciles
<1>1. DrawerInv => OpenSessionReconciles
  BY DEF DrawerInv, OpenSessionReconciles, SessionInv, Sound, Reconciles, Projects
<1> QED
  BY <1>1, Invariant, PTL

\* What a session was counted to stays what its movements say (closeSession, and the status
\* guards of all that writes movements).
THEOREM BooksAlwaysRight == Spec => []BooksStayRight
<1>1. DrawerInv => BooksStayRight
  <2> SUFFICES ASSUME DrawerInv, NEW n \in Sessions
               PROVE  IF status[n] = "CLOSED"
                      THEN /\ Reconciles(n)
                           /\ books[n].expected = Expected(n)
                           /\ \E m \in Typed(n, {"CLOSING"}) :
                                 m.amount - Expected(n) = books[n].difference
                      ELSE books[n] = NotClosed /\ Typed(n, {"CLOSING"}) = {}
    BY DEF BooksStayRight
  <2> QED
    BY DEF DrawerInv, SessionInv, BooksRight
<1> QED
  BY <1>1, Invariant, PTL

\* What ClosedSessionStays says of one step.
ClosedStays ==
    \A n \in Sessions : status[n] = "CLOSED" =>
        /\ status'[n] = "CLOSED" /\ books'[n] = books[n] /\ starting'[n] = starting[n]
        /\ {m \in movements' : m.session = n} = Of(n)

\* The rows and the books of a closed session never change (the status guards under the lock
\* of the session row).
THEOREM ClosedSessionAlwaysStays == Spec => ClosedSessionStays
<1>1. DrawerInv /\ [Next]_vars => ClosedStays
  <2> SUFFICES ASSUME DrawerInv, [Next]_vars PROVE ClosedStays
    OBVIOUS
  <2>t. TypeOK
    BY DEF DrawerInv
  <2>1. ASSUME NEW n \in Sessions, NEW a \in Amounts, OpenSession(n, a) PROVE ClosedStays
    BY <2>1, <2>t DEF OpenSession, ClosedStays, TypeOK, Of, Row
  <2>2. ASSUME NEW n \in Sessions, NEW c \in Amounts, CloseSession(n, c) PROVE ClosedStays
    BY <2>2, <2>t DEF CloseSession, ClosedStays, TypeOK, Of, Row
  <2>3. ASSUME NEW n \in Sessions, NEW k \in Keys, NEW kind \in Exits, NEW a \in Amounts \ {0},
               RegisterMovement(n, kind, a, k)
        PROVE  ClosedStays
    BY <2>3 DEF RegisterMovement, Allows, ClosedStays, Of, Row
  <2>4. ASSUME NEW n \in Sessions, NEW k \in Keys, NEW m \in movements, ReverseMovement(n, m, k)
        PROVE  ClosedStays
    BY <2>4 DEF ReverseMovement, Reversible, Compensation, ClosedStays, Of, Row
  <2>5. ASSUME NEW s \in Sales, NEW n \in Sessions, NEW k \in PayKeys, NEW a \in Amounts \ {0},
               RegisterPayment(s, k, n, a) \/ ConfirmCheckout(s, k, n, a)
        PROVE  ClosedStays
    BY <2>5 DEF RegisterPayment, ConfirmCheckout, TakePayment, ClosedStays, Of, Row
  <2>6. ASSUME NEW s \in Sales, NEW n \in Sessions, VoidSale(s, n) PROVE ClosedStays
    BY <2>6 DEF VoidSale, Allows, RefundedBy, ClosedStays, Of, Row
  <2>7. CASE UNCHANGED vars
    BY <2>7 DEF ClosedStays, Of, vars
  <2> QED
    BY <2>1, <2>2, <2>3, <2>4, <2>5, <2>6, <2>7 DEF Next
<1>2. ClosedSessionStays <=> [][ClosedStays]_vars
  BY PTL DEF ClosedSessionStays, ClosedStays
<1> QED
  BY <1>1, <1>2, Invariant, PTL DEF Spec

-----------------------------------------------------------------------------
(***************************************************************************)
(* Each session implements DrawerBooks, whatever the others do.            *)
(***************************************************************************)

CONSTANT session    \* any of them

\* The exit with a request key, if nobody put it back.
Outstanding(k) ==
    {m \in Typed(session, Exits) : m.key = k /\ \A r \in Typed(session, Reversals) : r.link # k}

Ledger == INSTANCE DrawerBooks WITH
    Exits <- Keys, NotCounted <- Nothing,
    phase <- IF status[session] = "CLOSED" THEN "COUNTED" ELSE status[session],
    cash <- Expected(session),
    taken <- [k \in Keys |-> Cash(Outstanding(k))],
    expected <- books[session].expected

KeepsBooks == Ledger!BooksSpec

\* The reversal of an exit names it by its key.
ExitsKeyed == \A m \in movements : m.type \in Exits => m.key \in Keys

LEMMA ExitsKeyedInit == Init => ExitsKeyed
  BY DEF Init, ExitsKeyed

LEMMA ExitsKeyedStep == ExitsKeyed /\ [Next]_vars => ExitsKeyed'
<1> SUFFICES ASSUME ExitsKeyed, [Next]_vars PROVE ExitsKeyed'
  OBVIOUS
<1>1. ASSUME NEW n \in Sessions, NEW a \in Amounts, OpenSession(n, a) \/ CloseSession(n, a)
      PROVE  ExitsKeyed'
  BY <1>1 DEF OpenSession, CloseSession, ExitsKeyed, Row, Exits
<1>2. ASSUME NEW n \in Sessions, NEW k \in Keys, NEW kind \in Exits, NEW a \in Amounts \ {0},
             RegisterMovement(n, kind, a, k)
      PROVE  ExitsKeyed'
  BY <1>2 DEF RegisterMovement, ExitsKeyed, Row
<1>3. ASSUME NEW n \in Sessions, NEW k \in Keys, NEW m \in movements, ReverseMovement(n, m, k)
      PROVE  ExitsKeyed'
  BY <1>3 DEF ReverseMovement, Compensation, ExitsKeyed, Row
<1>4. ASSUME NEW s \in Sales, NEW n \in Sessions, NEW k \in PayKeys, NEW a \in Amounts \ {0},
             RegisterPayment(s, k, n, a) \/ ConfirmCheckout(s, k, n, a)
      PROVE  ExitsKeyed'
  BY <1>4 DEF RegisterPayment, ConfirmCheckout, TakePayment, ExitsKeyed, Row, Exits
<1>5. ASSUME NEW s \in Sales, NEW n \in Sessions, VoidSale(s, n)
      PROVE  ExitsKeyed'
  BY <1>5 DEF VoidSale, ExitsKeyed, Row, Exits
<1>6. CASE UNCHANGED vars
  BY <1>6 DEF vars, ExitsKeyed
<1> QED
  BY <1>1, <1>2, <1>3, <1>4, <1>5, <1>6 DEF Next

\* Rows that are not there yet move the balance by their amounts, no less.
LEMMA ExactlyAfter ==
  ASSUME IsFiniteSet(movements), NEW n, starting[n] \in Nat, starting'[n] = starting[n],
         NEW t, NEW N, IsFiniteSet(N), movements' = movements \cup N, N \cap movements = {},
         \A m \in N : m.session = n /\ m.type = t
  PROVE  /\ t \in Reversals \cup {"SALE_INCOME"} => Expected(n)' = Expected(n) + Cash(N)
         /\ t \in Exits \cup {"SALE_REFUND"} => Expected(n)' = Expected(n) - Cash(N)
<1>0. /\ \A T : t \in T => Typed(n, T)' = Typed(n, T) \cup N
      /\ \A T : t \notin T => Typed(n, T)' = Typed(n, T)
  BY RowsAdded DEF Typed, Of
<1>1. \A T : /\ t \notin T => Cash(Typed(n, T))' = Cash(Typed(n, T))
             /\ t \in T => Cash(Typed(n, T))' = Cash(Typed(n, T)) + Cash(N)
  <2> SUFFICES ASSUME NEW T
               PROVE  /\ t \notin T => Cash(Typed(n, T))' = Cash(Typed(n, T))
                      /\ t \in T => Cash(Typed(n, T))' = Cash(Typed(n, T)) + Cash(N)
    OBVIOUS
  <2>1. /\ t \in T => Typed(n, T)' = Typed(n, T) \cup N
        /\ t \notin T => Typed(n, T)' = Typed(n, T)
    BY <1>0
  <2>2. IsFiniteSet(Typed(n, T)) /\ Typed(n, T) \cap N = {}
    BY TypedFinite DEF Typed, Of
  <2>3. Cash(Typed(n, T) \cup N) = Cash(Typed(n, T)) + Cash(N)
    BY <2>2, CashOfUnion
  <2>4. Cash(Typed(n, T))' = Cash(Typed(n, T)')
    BY DEF Cash
  <2> QED
    BY <2>1, <2>3, <2>4
<1>2. \A T : Cash(Typed(n, T)) \in Nat
  BY TypedFinite
<1>3. Cash(N) \in Nat
  BY PesosFinite
<1> DEFINE I == Cash(Typed(n, {"SALE_INCOME"}))
           O == Cash(Typed(n, Exits))
           B == Cash(Typed(n, Reversals))
           F == Cash(Typed(n, {"SALE_REFUND"}))
<1>4. /\ Expected(n) = starting[n] + I - O + B - F
      /\ Expected(n)' = starting[n] + I' - O' + B' - F'
  BY DEF Expected
<1>5. I \in Nat /\ O \in Nat /\ B \in Nat /\ F \in Nat
  BY <1>2
<1>6. /\ t \in Reversals => I' = I /\ O' = O /\ B' = B + Cash(N) /\ F' = F
      /\ t = "SALE_INCOME" => I' = I + Cash(N) /\ O' = O /\ B' = B /\ F' = F
      /\ t \in Exits => I' = I /\ O' = O + Cash(N) /\ B' = B /\ F' = F
      /\ t = "SALE_REFUND" => I' = I /\ O' = O /\ B' = B /\ F' = F + Cash(N)
  BY <1>1 DEF Reversals, Exits
<1> HIDE DEF I, O, B, F
<1> QED
  BY <1>3, <1>4, <1>5, <1>6

LEMMA LedgerInit ==
  ASSUME session \in Sessions, Init
  PROVE  Ledger!BooksInit
<1>1. \A T : Typed(session, T) = {}
  BY DEF Init, Typed, Of
<1>2. Expected(session) = 0
  <2>1. Expected(session) = 0 + Cash({}) - Cash({}) + Cash({}) - Cash({})
    BY <1>1 DEF Expected, Init
  <2> QED
    BY <2>1, CashOfNone
<1>3. [k \in Keys |-> Cash(Outstanding(k))] = [k \in Keys |-> 0]
  BY <1>1, CashOfNone DEF Outstanding
<1>4. status[session] = "NEW" /\ books[session].expected = Nothing
  BY DEF Init, NotClosed
<1> QED
  BY <1>2, <1>3, <1>4 DEF Ledger!BooksInit

\* What the session is to DrawerBooks rests on its own rows and columns.
LEMMA LedgerKept ==
  ASSUME Of(session)' = Of(session), status'[session] = status[session],
         starting'[session] = starting[session], books'[session] = books[session]
  PROVE  UNCHANGED Ledger!booksVars
<1>1. \A T : Typed(session, T)' = Typed(session, T)
  BY DEF Typed
<1>2. Expected(session)' = Expected(session)
  <2>1. /\ Typed(session, {"SALE_INCOME"})' = Typed(session, {"SALE_INCOME"})
        /\ Typed(session, Exits)' = Typed(session, Exits)
        /\ Typed(session, Reversals)' = Typed(session, Reversals)
        /\ Typed(session, {"SALE_REFUND"})' = Typed(session, {"SALE_REFUND"})
    BY <1>1 DEF Exits, Reversals
  <2> QED
    BY <2>1 DEF Expected, Cash
<1>3. \A k : Outstanding(k)' = Outstanding(k)
  BY <1>1 DEF Outstanding
<1>4. [k \in Keys |-> Cash(Outstanding(k))]' = [k \in Keys |-> Cash(Outstanding(k))]
  BY <1>3 DEF Cash
<1> QED
  BY <1>2, <1>4 DEF Ledger!booksVars

\* Rows of other types leave the exits as they were.
LEMMA LedgerExits ==
  ASSUME Typed(session, Exits)' = Typed(session, Exits),
         Typed(session, Reversals)' = Typed(session, Reversals)
  PROVE  [k \in Keys |-> Cash(Outstanding(k))]' = [k \in Keys |-> Cash(Outstanding(k))]
<1>1. \A k : Outstanding(k)' = Outstanding(k)
  BY DEF Outstanding
<1> QED
  BY <1>1 DEF Cash

\* The balance of a session is never below zero, and a number.
LEMMA LedgerCash ==
  ASSUME DrawerInv, DrawerInv', session \in Sessions
  PROVE  /\ Expected(session) \in Nat /\ Expected(session)' \in Nat
         /\ starting[session] \in Nat
<1>1. starting[session] \in Nat /\ starting'[session] \in Nat
  BY DEF DrawerInv, TypeOK, Amounts
<1>2. Expected(session) \in Int
  BY <1>1, ExpectedType DEF DrawerInv
<1>3. Expected(session)' \in Int
  BY <1>1, ExpectedTypeAfter DEF DrawerInv
<1>4. Expected(session) >= 0 /\ Expected(session)' >= 0
  BY DEF DrawerInv, SessionInv
<1> QED
  BY <1>1, <1>2, <1>3, <1>4

LEMMA LedgerOpen ==
  ASSUME DrawerInv, DrawerInv', session \in Sessions, NEW a \in Amounts, OpenSession(session, a)
  PROVE  Ledger!Open
<1> DEFINE row == Row(session, "OPENING", a, Nothing, Nothing)
<1>1. /\ status[session] = "NEW" /\ status'[session] = "OPEN" /\ books' = books
      /\ movements' = movements \cup {row}
  BY DEF OpenSession, DrawerInv, TypeOK
<1>2. row.session = session /\ row.type = "OPENING"
  BY DEF Row
<1> HIDE DEF row
<1>3. /\ Typed(session, Exits)' = Typed(session, Exits)
      /\ Typed(session, Reversals)' = Typed(session, Reversals)
  BY <1>1, <1>2 DEF Typed, Of, Exits, Reversals
<1>4. [k \in Keys |-> Cash(Outstanding(k))]' = [k \in Keys |-> Cash(Outstanding(k))]
  BY <1>3, LedgerExits
<1>5. Expected(session)' \in Nat
  BY LedgerCash
<1> QED
  BY <1>1, <1>4, <1>5 DEF Ledger!Open

LEMMA LedgerCount ==
  ASSUME DrawerInv, session \in Sessions, NEW c \in Amounts, CloseSession(session, c)
  PROVE  Ledger!Count
<1> DEFINE row == Row(session, "CLOSING", c, Nothing, Nothing)
<1>1. /\ status[session] = "OPEN" /\ status'[session] = "CLOSED"
      /\ books'[session] = [expected |-> Expected(session), difference |-> c - Expected(session)]
      /\ movements' = movements \cup {row} /\ UNCHANGED <<starting, payments>>
  BY DEF CloseSession, DrawerInv, TypeOK
<1>2. row.session = session /\ row.type = "CLOSING"
  BY DEF Row
<1> HIDE DEF row
<1>3. /\ Typed(session, Exits)' = Typed(session, Exits)
      /\ Typed(session, Reversals)' = Typed(session, Reversals)
  BY <1>1, <1>2 DEF Typed, Of, Exits, Reversals
<1>4. [k \in Keys |-> Cash(Outstanding(k))]' = [k \in Keys |-> Cash(Outstanding(k))]
  BY <1>3, LedgerExits
<1>5. Expected(session)' = Expected(session)
  <2>1. BeforeClose(session)' = BeforeClose(session) /\ TakenIn(session)' = TakenIn(session)
    BY <1>1, <1>2 DEF BeforeClose, Of, TakenIn
  <2> QED
    BY <1>1, <2>1, FiguresKept
<1>6. books'[session].expected = Expected(session)
  BY <1>1
<1> QED
  BY <1>1, <1>4, <1>5, <1>6 DEF Ledger!Count

LEMMA LedgerTakeOut ==
  ASSUME DrawerInv, DrawerInv', session \in Sessions,
         NEW kind \in Exits, NEW a \in Amounts \ {0}, NEW k \in Keys,
         RegisterMovement(session, kind, a, k)
  PROVE  Ledger!BooksNext
<1> DEFINE row == Row(session, kind, a, k, Nothing)
           has == Expected(session)
           left == Expected(session)'
<1>1. /\ Fresh(session, k) /\ status[session] = "OPEN"
      /\ movements' = movements \cup {row}
      /\ UNCHANGED <<status, starting, books>>
  BY DEF RegisterMovement, Allows
<1>2. /\ row.session = session /\ row.type = kind /\ row.amount = a /\ row.key = k
  BY DEF Row
<1>3. a \in Amounts /\ a \in Nat /\ a > 0
  BY DEF Amounts
<1> HIDE DEF row
<1>4. row \notin movements
  BY <1>1, <1>2 DEF Fresh, Of
<1>5. IsFiniteSet({row}) /\ Cash({row}) = a
  BY <1>2, <1>3, CashOfOne, FS_Singleton
<1>6. left = has - a
  <2>1. \A m \in {row} : m.session = session /\ m.type = kind
    BY <1>2
  <2> QED
    BY <1>1, <1>4, <1>5, <2>1, LedgerCash, ExactlyAfter DEF DrawerInv
<1>7. has \in Nat /\ left \in Nat
  BY LedgerCash
<1>8. \A r \in Typed(session, Reversals) : r.link # k
  <2>1. \A r \in Typed(session, Reversals) : \E m \in Of(session) : m.key = r.link
    BY <1>1 DEF DrawerInv, SessionInv, Sound, ReversalsMatch, Typed
  <2> QED
    BY <1>1, <2>1 DEF Fresh
<1>9. Outstanding(k) = {} /\ Outstanding(k)' = {row}
      /\ \A j : j # k => Outstanding(j)' = Outstanding(j)
  <2>1. /\ Typed(session, Exits)' = Typed(session, Exits) \cup {row}
        /\ Typed(session, Reversals)' = Typed(session, Reversals)
    BY <1>1, <1>2 DEF Typed, Of, Exits, Reversals
  <2>2. \A m \in Typed(session, Exits) : m.key # k
    BY <1>1 DEF Fresh, Typed
  <2> QED
    BY <1>2, <1>8, <2>1, <2>2 DEF Outstanding
<1> HIDE DEF has, left
<1>10. has - left = a /\ left < has /\ left # has
  BY <1>3, <1>6, <1>7
<1>11. [j \in Keys |-> Cash(Outstanding(j))][k] = 0
  BY <1>9, CashOfNone
<1>12. [j \in Keys |-> Cash(Outstanding(j))]'
           = [[j \in Keys |-> Cash(Outstanding(j))] EXCEPT ![k] = has - left]
  <2>1. \A j \in Keys : Cash(Outstanding(j))' = IF j = k THEN a ELSE Cash(Outstanding(j))
    BY <1>5, <1>9 DEF Cash
  <2> QED
    BY <1>10, <2>1
<1>13. Ledger!TakeOut(k)
  BY <1>7, <1>10, <1>11, <1>12 DEF Ledger!TakeOut, has, left
<1>14. Ledger!Move
  BY <1>1, <1>10, <1>13 DEF Ledger!Move, has, left
<1> QED
  BY <1>14 DEF Ledger!BooksNext

LEMMA LedgerPutBack ==
  ASSUME DrawerInv, DrawerInv', ExitsKeyed, session \in Sessions,
         NEW k \in Keys, NEW m \in movements, ReverseMovement(session, m, k)
  PROVE  Ledger!BooksNext
<1> DEFINE row == Compensation(session, m, k)
           t == ReversalOf(m.type)
           has == Expected(session)
           left == Expected(session)'
           e == m.key
           a == m.amount
<1>1. /\ Fresh(session, k) /\ status[session] = "OPEN" /\ m \in Typed(session, Exits)
      /\ \A r \in Typed(session, Reversals) : r.link # e
      /\ movements' = movements \cup {row}
      /\ UNCHANGED <<status, starting, books>>
  BY DEF ReverseMovement, Reversible
<1>2. /\ row.session = session /\ row.type = t /\ row.amount = a /\ row.key = k /\ row.link = e
      /\ t \in Reversals
  BY DEF Compensation, Row, ReversalOf, Reversals
<1>3. a \in Amounts /\ a \in Nat /\ a > 0 /\ e \in Keys
  <2>1. m \in Typed(session, Exits \cup {"SALE_REFUND"}) /\ m.type \in Exits
    BY <1>1 DEF Typed
  <2>2. m.amount > 0
    BY <1>1, <2>1 DEF DrawerInv, SessionInv, Sound, RefundsMatch
  <2>3. m \in Movements
    BY DEF DrawerInv, TypeOK
  <2> QED
    BY <2>1, <2>2, <2>3 DEF ExitsKeyed, Movements, Amounts
<1> HIDE DEF row, t, e, a
<1>4. row \notin movements
  BY <1>1, <1>2 DEF Fresh, Of
<1>5. IsFiniteSet({row}) /\ Cash({row}) = a
  BY <1>2, <1>3, CashOfOne, FS_Singleton
<1>6. left = has + a
  <2>1. \A x \in {row} : x.session = session /\ x.type = t
    BY <1>2
  <2> QED
    BY <1>1, <1>2, <1>4, <1>5, <2>1, LedgerCash, ExactlyAfter DEF DrawerInv
<1>7. has \in Nat /\ left \in Nat
  BY LedgerCash
<1>8. Outstanding(e) = {m} /\ Outstanding(e)' = {}
      /\ \A j : j # e => Outstanding(j)' = Outstanding(j)
  <2>1. /\ Typed(session, Exits)' = Typed(session, Exits)
        /\ Typed(session, Reversals)' = Typed(session, Reversals) \cup {row}
    BY <1>1, <1>2 DEF Typed, Of, Exits, Reversals
  <2>2. \A x \in Typed(session, Exits) : x.key = e => x = m
    <3>1. e # Nothing
      BY <1>3, CashAssumption
    <3> QED
      BY <1>1, <3>1 DEF DrawerInv, OneMovementPerKey, Typed, Of, e
  <2>3. Outstanding(e) = {m}
    BY <1>1, <2>2 DEF Outstanding, e
  <2>4. Outstanding(e)' = {}
    BY <1>2, <2>1 DEF Outstanding
  <2>5. ASSUME NEW j, j # e
        PROVE  Outstanding(j)' = Outstanding(j)
    BY <1>2, <2>1, <2>5 DEF Outstanding
  <2> QED
    BY <2>3, <2>4, <2>5
<1>9. Cash(Outstanding(e)) = a
  BY <1>3, <1>8, CashOfOne DEF a
<1> HIDE DEF has, left
<1>10. left # has
  BY <1>3, <1>6, <1>7
<1>11. [j \in Keys |-> Cash(Outstanding(j))][e] = a
  BY <1>3, <1>9
<1>12. [j \in Keys |-> Cash(Outstanding(j))]'
           = [[j \in Keys |-> Cash(Outstanding(j))] EXCEPT ![e] = 0]
  <2>1. \A j \in Keys : Cash(Outstanding(j))' = IF j = e THEN 0 ELSE Cash(Outstanding(j))
    BY <1>8, CashOfNone DEF Cash
  <2> QED
    BY <2>1
<1>13. Ledger!PutBack(e)
  BY <1>3, <1>6, <1>11, <1>12 DEF Ledger!PutBack, has, left
<1>14. Ledger!Move
  BY <1>1, <1>3, <1>10, <1>13 DEF Ledger!Move, has, left
<1> QED
  BY <1>14 DEF Ledger!BooksNext

\* A payment or a confirmed checkout brings in what it says.
LEMMA LedgerTakeIn ==
  ASSUME DrawerInv, DrawerInv', session \in Sessions, NEW s \in Sales, NEW k \in PayKeys,
         NEW a \in Amounts \ {0}, status[session] = "OPEN",
         \A p \in payments : p.id # <<s, k>>,
         TakePayment(<<s, k>>, session, a), UNCHANGED <<status, starting, books>>
  PROVE  Ledger!BooksNext
<1> DEFINE id == <<s, k>>
           row == Row(session, "SALE_INCOME", a, Nothing, id)
           has == Expected(session)
           left == Expected(session)'
<1>1. movements' = movements \cup {row}
  BY DEF TakePayment
<1>2. row.session = session /\ row.type = "SALE_INCOME" /\ row.amount = a /\ row.link = id
  BY DEF Row
<1>3. a \in Amounts /\ a \in Nat /\ a > 0
  BY DEF Amounts
<1> HIDE DEF row, id
<1>4. row \notin movements
  <2>1. SUFFICES ASSUME row \in movements PROVE FALSE
    OBVIOUS
  <2>2. row \in Typed(session, {"SALE_INCOME"})
    BY <1>2, <2>1 DEF Typed, Of
  <2>3. <<row.link, row.amount>> \in {<<m.link, m.amount>> : m \in Typed(session, {"SALE_INCOME"})}
    BY <2>2
  <2>4. <<row.link, row.amount>> \in {<<p.id, p.amount>> : p \in TakenIn(session)}
    BY <2>3 DEF DrawerInv, SessionInv, Sound, IncomeMatchesPayments
  <2>5. PICK p \in TakenIn(session) : <<row.link, row.amount>> = <<p.id, p.amount>>
    BY <2>4
  <2> QED
    BY <1>2, <2>5 DEF TakenIn, id
<1>5. IsFiniteSet({row}) /\ Cash({row}) = a
  BY <1>2, <1>3, CashOfOne, FS_Singleton
<1>6. left = has + a
  <2>1. \A x \in {row} : x.session = session /\ x.type = "SALE_INCOME"
    BY <1>2
  <2> QED
    BY <1>1, <1>4, <1>5, <2>1, LedgerCash, ExactlyAfter DEF DrawerInv
<1>7. has \in Nat /\ left \in Nat
  BY LedgerCash
<1>8. /\ Typed(session, Exits)' = Typed(session, Exits)
      /\ Typed(session, Reversals)' = Typed(session, Reversals)
  BY <1>1, <1>2 DEF Typed, Of, Exits, Reversals
<1>9. [j \in Keys |-> Cash(Outstanding(j))]' = [j \in Keys |-> Cash(Outstanding(j))]
  BY <1>8, LedgerExits
<1> HIDE DEF has, left
<1>10. left > has /\ left # has
  BY <1>3, <1>6, <1>7
<1>11. Ledger!TakeIn
  BY <1>9, <1>10 DEF Ledger!TakeIn, has, left
<1>12. Ledger!Move
  BY <1>10, <1>11 DEF Ledger!Move, has, left
<1> QED
  BY <1>12 DEF Ledger!BooksNext

LEMMA LedgerRefund ==
  ASSUME DrawerInv, DrawerInv', session \in Sessions, NEW s \in Sales, VoidSale(s, session)
  PROVE  Ledger!BooksNext
<1> DEFINE P == PaymentsOf(s)
           R(p) == Row(session, "SALE_REFUND", p.amount, Nothing, p.id)
           N == {R(p) : p \in P}
           has == Expected(session)
           left == Expected(session)'
<1>1. /\ \A m \in movements : m.type = "SALE_REFUND" => m.link[1] # s
      /\ status[session] = "OPEN" /\ P # {}
      /\ movements' = movements \cup N /\ UNCHANGED <<status, starting, books>>
  BY DEF VoidSale, Allows, RefundedBy
<1>2. /\ IsFiniteSet(P)
      /\ \A p \in P : p.amount > 0 /\ p.amount \in Amounts /\ p.id[1] = s
  <2>1. P \subseteq payments /\ \A p \in P : p.id[1] = s
    BY DEF PaymentsOf
  <2>2. IsFiniteSet(P)
    BY <2>1, FS_Subset DEF DrawerInv
  <2> QED
    BY <2>1, <2>2 DEF DrawerInv, TypeOK, PaymentsOnce, Payments
<1>3. \A p \in P : /\ R(p).session = session /\ R(p).type = "SALE_REFUND"
                   /\ R(p).amount = p.amount /\ R(p).link = p.id
  BY DEF Row
<1>4. IsFiniteSet(N)
  BY <1>2, CashOfRefunds
<1> HIDE DEF R, P
<1>5. \A m \in N : m.session = session /\ m.type = "SALE_REFUND" /\ m.link[1] = s
  BY <1>2, <1>3
<1>6. N \cap movements = {}
  BY <1>1, <1>5
<1>7. Cash(N) \in Nat /\ Cash(N) > 0
  <2>1. PICK p \in P : TRUE
    BY <1>1
  <2>2. R(p) \in N /\ R(p).amount \in Amounts /\ R(p).amount > 0
    BY <1>2, <1>3
  <2>3. IsFiniteSet({R(p)}) /\ Cash({R(p)}) = R(p).amount /\ N \cup {R(p)} = N
    BY <2>2, CashOfOne, FS_Singleton
  <2>4. N \cup {R(p)} = {R(p)} \cup N
    OBVIOUS
  <2> HIDE DEF N
  <2>5. Cash({R(p)} \cup N) >= Cash({R(p)})
    BY <1>4, <2>3, CashOfUnion
  <2>6. Cash(N) \in Nat
    BY <1>4, PesosFinite
  <2>7. Cash(N) >= R(p).amount /\ R(p).amount \in Nat
    BY <2>2, <2>3, <2>4, <2>5 DEF Amounts
  <2> QED
    BY <2>2, <2>6, <2>7
<1> HIDE DEF N
<1>8. left = has - Cash(N)
  BY <1>1, <1>4, <1>5, <1>6, LedgerCash, ExactlyAfter DEF DrawerInv
<1>9. has \in Nat /\ left \in Nat
  BY LedgerCash
<1>10. /\ Typed(session, Exits)' = Typed(session, Exits)
       /\ Typed(session, Reversals)' = Typed(session, Reversals)
  BY <1>1, <1>5 DEF Typed, Of, Exits, Reversals
<1>11. [j \in Keys |-> Cash(Outstanding(j))]' = [j \in Keys |-> Cash(Outstanding(j))]
  BY <1>10, LedgerExits
<1> HIDE DEF has, left
<1>12. left < has /\ left # has
  BY <1>7, <1>8, <1>9
<1>13. Ledger!Refund
  BY <1>9, <1>11, <1>12 DEF Ledger!Refund, has, left
<1>14. Ledger!Move
  BY <1>1, <1>12, <1>13 DEF Ledger!Move, has, left
<1> QED
  BY <1>14 DEF Ledger!BooksNext

LEMMA LedgerStep ==
  ASSUME DrawerInv, DrawerInv', ExitsKeyed, session \in Sessions, [Next]_vars
  PROVE  [Ledger!BooksNext]_(Ledger!booksVars)
<1>1. ASSUME NEW n \in Sessions \ {session},
             \/ \E a \in Amounts : OpenSession(n, a) \/ CloseSession(n, a)
             \/ \E k \in Keys : \/ \E kind \in Exits, a \in Amounts \ {0} : RegisterMovement(n, kind, a, k)
                                \/ \E m \in movements : ReverseMovement(n, m, k)
             \/ \E s \in Sales : \/ \E k \in PayKeys, a \in Amounts \ {0} :
                                       RegisterPayment(s, k, n, a) \/ ConfirmCheckout(s, k, n, a)
                                 \/ VoidSale(s, n)
      PROVE  UNCHANGED Ledger!booksVars
  <2>1. /\ status'[session] = status[session] /\ starting'[session] = starting[session]
        /\ books'[session] = books[session]
    BY <1>1 DEF OpenSession, CloseSession, RegisterMovement, ReverseMovement, RegisterPayment,
                ConfirmCheckout, VoidSale, DrawerInv, TypeOK
  <2>2. CASE \E a \in Amounts : OpenSession(n, a) \/ CloseSession(n, a)
    BY <2>1, <2>2, LedgerKept DEF OpenSession, CloseSession, Of, Row
  <2>3. CASE \E k \in Keys, kind \in Exits, a \in Amounts \ {0} : RegisterMovement(n, kind, a, k)
    BY <2>1, <2>3, LedgerKept DEF RegisterMovement, Of, Row
  <2>4. CASE \E k \in Keys, m \in movements : ReverseMovement(n, m, k)
    BY <2>1, <2>4, LedgerKept DEF ReverseMovement, Compensation, Of, Row
  <2>5. CASE \E s \in Sales, k \in PayKeys, a \in Amounts \ {0} :
               RegisterPayment(s, k, n, a) \/ ConfirmCheckout(s, k, n, a)
    BY <2>1, <2>5, LedgerKept DEF RegisterPayment, ConfirmCheckout, TakePayment, Of, Row
  <2>6. CASE \E s \in Sales : VoidSale(s, n)
    BY <2>1, <2>6, LedgerKept DEF VoidSale, Of, Row
  <2> QED
    BY <1>1, <2>2, <2>3, <2>4, <2>5, <2>6
<1>2. ASSUME NEW a \in Amounts, OpenSession(session, a) \/ CloseSession(session, a)
      PROVE  Ledger!BooksNext
  BY <1>2, LedgerOpen, LedgerCount DEF Ledger!BooksNext
<1>3. ASSUME NEW k \in Keys, NEW kind \in Exits, NEW a \in Amounts \ {0},
             RegisterMovement(session, kind, a, k)
      PROVE  Ledger!BooksNext
  BY <1>3, LedgerTakeOut
<1>4. ASSUME NEW k \in Keys, NEW m \in movements, ReverseMovement(session, m, k)
      PROVE  Ledger!BooksNext
  BY <1>4, LedgerPutBack
<1>5. ASSUME NEW s \in Sales, NEW k \in PayKeys, NEW a \in Amounts \ {0},
             RegisterPayment(s, k, session, a) \/ ConfirmCheckout(s, k, session, a)
      PROVE  Ledger!BooksNext
  <2>1. /\ status[session] = "OPEN" /\ TakePayment(<<s, k>>, session, a)
        /\ UNCHANGED <<status, starting, books>>
        /\ \A p \in payments : p.id # <<s, k>>
    BY <1>5 DEF RegisterPayment, ConfirmCheckout, PaymentsOf
  <2> QED
    BY <2>1, LedgerTakeIn
<1>6. ASSUME NEW s \in Sales, VoidSale(s, session)
      PROVE  Ledger!BooksNext
  BY <1>6, LedgerRefund
<1>7. CASE UNCHANGED vars
  BY <1>7, LedgerKept DEF vars, Of
<1> QED
  BY <1>1, <1>2, <1>3, <1>4, <1>5, <1>6, <1>7 DEF Next

\* The cash of each session is that of DrawerBooks: cash comes in, an exit or a refund takes no
\* more than there is, an exit is put back once and for its amount, and the session is counted
\* once, on all of it (cash.service.ts, with the payments and voids of its sales).
THEOREM SessionKeepsBooks ==
  ASSUME session \in Sessions
  PROVE  Spec => KeepsBooks
<1>1. Init => Ledger!BooksInit
  BY LedgerInit
<1>2. DrawerInv /\ DrawerInv' /\ ExitsKeyed /\ [Next]_vars => [Ledger!BooksNext]_(Ledger!booksVars)
  BY LedgerStep
<1> QED
  BY <1>1, <1>2, ExitsKeyedInit, ExitsKeyedStep, Invariant, PTL
  DEF Spec, KeepsBooks, Ledger!BooksSpec
=============================================================================
