----------------------------- MODULE StockPromise -----------------------------
(***************************************************************************)
(* What the stock of a branch promises its sales.  A unit is in one place: *)
(* free on the shelf, held for one sale, or with one sale's customer.  It  *)
(* is held only if it was free, delivered only if it was held for that     *)
(* sale, and comes back to the shelf only from the sale it was with; a     *)
(* sale is delivered at most once and keeps nothing once it is closed.     *)
(***************************************************************************)
EXTENDS Integers

CONSTANTS Sales, Variants

VARIABLES
    free,   \* units of each variant that nobody was promised
    held,   \* units held for each sale
    with,   \* units with the customer of each sale
    phase   \* whether the sale is open, delivered or closed

promiseVars == <<free, held, with, phase>>

NoUnits == [v \in Variants |-> 0]

PromiseInit ==
    /\ free = NoUnits
    /\ held = [s \in Sales |-> NoUnits]
    /\ with = [s \in Sales |-> NoUnits]
    /\ phase = [s \in Sales |-> "open"]

\* The warehouse brings units, or writes off units that are free.
Supply ==
    /\ \E v \in Variants : free' = [free EXCEPT ![v] = free'[v]]
    /\ \A v \in Variants : free'[v] >= 0
    /\ UNCHANGED <<held, with, phase>>

\* Another row is held for an open sale; the difference is taken from, or given to, the
\* shelf.
Hold(s) ==
    /\ phase[s] = "open"
    /\ held' = [held EXCEPT ![s] = held'[s]]
    /\ free' = [v \in Variants |-> (free[v] + held[s][v]) - held'[s][v]]
    /\ \A v \in Variants : held'[s][v] >= 0 /\ free'[v] >= 0
    /\ UNCHANGED <<with, phase>>

\* All that is held for an open sale leaves with its customer.
Deliver(s) ==
    /\ phase[s] = "open"
    /\ held[s] # NoUnits
    /\ with' = [with EXCEPT ![s] = held[s]]
    /\ held' = [held EXCEPT ![s] = NoUnits]
    /\ phase' = [phase EXCEPT ![s] = "delivered"]
    /\ UNCHANGED free

\* The customer of a delivered sale swaps units with the shelf.
Trade(s) ==
    /\ phase[s] = "delivered"
    /\ with' = [with EXCEPT ![s] = with'[s]]
    /\ free' = [v \in Variants |-> (free[v] + with[s][v]) - with'[s][v]]
    /\ \A v \in Variants : with'[s][v] >= 0 /\ free'[v] >= 0
    /\ UNCHANGED <<held, phase>>

\* Whatever the sale held and whatever its customer had is free again.
Close(s) ==
    /\ phase[s] # "closed"
    /\ free' = [v \in Variants |-> (free[v] + held[s][v]) + with[s][v]]
    /\ held' = [held EXCEPT ![s] = NoUnits]
    /\ with' = [with EXCEPT ![s] = NoUnits]
    /\ phase' = [phase EXCEPT ![s] = "closed"]

PromiseNext ==
    \/ Supply
    \/ \E s \in Sales : Hold(s) \/ Deliver(s) \/ Trade(s) \/ Close(s)

PromiseSpec == PromiseInit /\ [][PromiseNext]_promiseVars
===============================================================================
