----------------------------- MODULE DrawerBooks -----------------------------
(***************************************************************************)
(* What the services promise about the cash of one session: it is opened   *)
(* with some cash, takes in and gives out what it has, puts back an exit   *)
(* once and for its amount, and is counted once, on what is then in it.    *)
(*                                                                         *)
(* CashDrawer implements this for each of its sessions, and DrawerRace     *)
(* with transactions that overlap on one.                                  *)
(***************************************************************************)
EXTENDS Integers

CONSTANTS
    Exits,          \* what may take cash out and be put back
    NotCounted      \* no count

VARIABLES
    phase,          \* of the session
    cash,           \* in the drawer
    taken,          \* pesos that each exit took and nobody put back
    expected        \* what the count was compared with

booksVars == <<phase, cash, taken, expected>>

BooksInit ==
    /\ phase \in {"NEW", "OPEN"} /\ cash \in Nat
    /\ taken = [e \in Exits |-> 0]
    /\ expected = NotCounted

Open ==
    /\ phase = "NEW" /\ phase' = "OPEN"
    /\ cash' \in Nat
    /\ UNCHANGED <<taken, expected>>

\* A payment or a confirmed checkout.
TakeIn == cash' > cash /\ UNCHANGED taken

\* A withdrawal or an expense, never more than there is.
TakeOut(e) ==
    /\ taken[e] = 0
    /\ cash' \in Nat /\ cash' < cash
    /\ taken' = [taken EXCEPT ![e] = cash - cash']

\* The refund of a void, never more than there is.
Refund == cash' \in Nat /\ cash' < cash /\ UNCHANGED taken

\* An exit is put back once, for what it took.
PutBack(e) ==
    /\ taken[e] > 0
    /\ cash' = cash + taken[e]
    /\ taken' = [taken EXCEPT ![e] = 0]

\* Nothing moves in a session that was counted.
Move ==
    /\ phase = "OPEN" /\ cash' # cash
    /\ UNCHANGED <<phase, expected>>
    /\ TakeIn \/ Refund \/ \E e \in Exits : TakeOut(e) \/ PutBack(e)

Count ==
    /\ phase = "OPEN" /\ phase' = "COUNTED"
    /\ expected' = cash
    /\ UNCHANGED <<cash, taken>>

BooksNext == Open \/ Move \/ Count

BooksSpec == BooksInit /\ [][BooksNext]_booksVars
=============================================================================
