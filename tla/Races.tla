-------------------------------- MODULE Races --------------------------------
(***************************************************************************)
(* The transactions that race for a void or an exchange (PostSaleGuard),   *)
(* for the charges of a sale (ReservationRace) and for the books of a      *)
(* drawer (DrawerRace), side by side: they share no state.                 *)
(***************************************************************************)
EXTENDS PostSaleGuard

CONSTANTS Txs, StartingCash, MaxAmount

VARIABLES
    db, tx,                     \* ReservationRace
    drawerTx, order, counted    \* DrawerRace

Charges == INSTANCE ReservationRace
Drawers == INSTANCE DrawerRace WITH tx <- drawerTx

\* The one sale ReservationRace is about, as operations that do not overlap.
Atomic == INSTANCE SaleCharges WITH
    Sales <- {None}, Attempts <- Txs, Collections <- Txs, ChargesOf <- [t \in Txs |-> {t}],
    Nobody <- None,
    status <- [s \in {None} |-> db.status],
    sale <- [t \in Txs |-> None],
    phase <- [t \in Txs |-> IF db.attempt[t].declared THEN "CLOSED" ELSE db.attempt[t].state],
    plan <- [t \in Txs |-> db.attempt[t].plan],
    collected <- [t \in Txs |-> db.collection[t].status],
    claim <- [t \in Txs |-> db.collection[t].claim]

\* The one session DrawerRace is about, as movements and a count that do not overlap.
PutBack(t) == \E u \in Drawers!Committed : drawerTx[u].undoes = t

Ledger == INSTANCE DrawerBooks WITH
    Exits <- Txs, NotCounted <- None,
    phase <- IF counted = None THEN "OPEN" ELSE "COUNTED",
    cash <- Drawers!ExpectedOver(Drawers!Committed),
    taken <- [t \in Txs |->
        IF t \in Drawers!Committed /\ drawerTx[t].kind = "exit" /\ ~PutBack(t)
        THEN drawerTx[t].amount ELSE 0],
    expected <- IF counted = None THEN None ELSE drawerTx[counted].expected

chargeVars == <<db, tx>>
drawerVars == <<drawerTx, order, counted>>

-------------------------------------------------------------------------------
(* What the races may never come to *)

\* The transactions on a charge, however they overlap, are operations one after the other: what
\* each decided on is what there is when it commits.
ChargesAreAtomic == Atomic!ChargesSpec

\* A settled sale leaves no charge unapplied and nothing open (T-C).
SettledLeavesNothing == Charges!SettledLeavesNothing

\* The transactions on a drawer, however they overlap, are movements and a count one after the
\* other, each on the cash that is then there.
DrawerIsAtomic == Ledger!BooksSpec

\* The books of a closed session are what all its movements add up to, also those that
\* committed while the count was waiting (the claim of the comment in closeSession).
CountMissesNothing == Drawers!CountMissesNothing
===============================================================================
