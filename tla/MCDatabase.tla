------------------------------ MODULE MCDatabase ------------------------------
(***************************************************************************)
(* What the database of a branch keeps, in small instances: the drawer     *)
(* (CashDrawer, in two scenarios), and the transactions that race for a    *)
(* void or an exchange, for a charge and for the drawer (Races).  Every    *)
(* behaviour picks its subject at the start, and the others stay as they   *)
(* began.                                                                  *)
(***************************************************************************)
EXTENDS CashDrawer, Races, Sequences, TLC

CONSTANTS shirt, suit, t1, t2, t3, t4, t5, p1, p2, n1, n2

\* A suit costs all a drawer can hold; a shirt costs less.
MCPrice == [s \in Sales |-> IF s = suit THEN MaxCash ELSE 2]

VARIABLE subject

-------------------------------------------------------------------------------
(* Identities are interchangeable: they are used in one order, each after those before it, *)
(* which leaves out no behaviour but the renamed ones.                                     *)

UsedInOrder(S, ids) == \A i \in 2..Len(ids) : ids[i] \in S => ids[i - 1] \in S

UsedKeys == {m.key : m \in movements} \ {Nothing}
OpenedSessions == {n \in Sessions : status[n] # "NEW"}

IdsInOrder ==
    /\ UsedInOrder(UsedKeys, <<t1, t2, t3>>)
    /\ UsedInOrder({p.id[2] : p \in payments}, <<p1, p2>>)
    /\ UsedInOrder(OpenedSessions, <<n1, n2>>)

WritersInOrder == UsedInOrder({w \in Writers : writer[w].stage # "none"}, <<t1, t2, t3>>)

TxsInOrder(txs, ids) ==
    \A i \in 2..Len(ids) : txs[ids[i]].stage # "none" => txs[ids[i - 1]].stage # "none"

\* Four transactions of the drawer, and five of a charge, three of them at a time.
AtMostThreeRun(txs) == Cardinality({t \in DOMAIN txs : txs[t].stage \notin {"none", "gone"}}) <= 3

\* One session: exits, reversals, payments and a refund, up to the width of a column.
Shift == OpenedSessions \subseteq {n1}

\* Two sessions, a sale paid in parts and voided later.
TwoSessions ==
    /\ saleStatus[suit] = "PENDING_PAYMENT"
    /\ Cardinality(UsedKeys) <= 2
    /\ \A m \in movements : m.amount <= IF m.type = "OPENING" THEN 1 ELSE 2

-------------------------------------------------------------------------------
DatabaseInit ==
    /\ Init /\ GuardInit /\ Drawers!Init /\ Charges!Init
    /\ subject \in {"one shift", "two sessions", "guards", "drawer", "charge"}

DrawerStep ==
    /\ subject \in {"one shift", "two sessions"}
    /\ Next
    /\ IdsInOrder' /\ (subject = "one shift" => Shift') /\ (subject = "two sessions" => TwoSessions')
    /\ UNCHANGED <<guardVars, drawerVars, chargeVars>>

GuardStep ==
    /\ subject = "guards"
    /\ GuardNext /\ WritersInOrder'
    /\ UNCHANGED <<vars, drawerVars, chargeVars>>

DrawerRaceStep ==
    /\ subject = "drawer"
    /\ Drawers!Next /\ TxsInOrder(drawerTx', <<t1, t2, t3, t4, t5>>)
    /\ drawerTx'[t5].stage = "none"
    /\ UNCHANGED <<vars, guardVars, chargeVars>>

ChargeRaceStep ==
    /\ subject = "charge"
    /\ Charges!Next /\ TxsInOrder(tx', <<t1, t2, t3, t4, t5>>)
    /\ AtMostThreeRun(tx')
    /\ UNCHANGED <<vars, guardVars, drawerVars>>

DatabaseNext ==
    /\ DrawerStep \/ GuardStep \/ DrawerRaceStep \/ ChargeRaceStep
    /\ UNCHANGED subject

DatabaseSpec ==
    DatabaseInit /\ [][DatabaseNext]_<<subject, vars, guardVars, drawerVars, chargeVars>>

===============================================================================
