----------------------------- MODULE MCCheckout -----------------------------
(***************************************************************************)
(* Checkout on small instances, one per scenario: every behaviour          *)
(* picks its scenario at the start and stays within the scenario's bounds. *)
(***************************************************************************)
EXTENDS Checkout, TLC

CONSTANTS k1, k2, k3, card, cash, shirt, coat, s1, s2

\* A shirt and a coat: the coat costs more.
MCFullPrice ==
    [r \in Pricings |->
        [l \in Lines |-> [m \in Methods |-> (IF l = shirt THEN 3 ELSE 5) + (IF m = cash THEN 0 ELSE r)]]]

Symmetric == Permutations(Keys) \cup Permutations(Sales)

-----------------------------------------------------------------------------
CONSTANT Scenarios
VARIABLE scenario

UsedKeys == {k \in Keys : attempt[k] # NoAttempt}
TouchedSales ==
    {s \in Sales : status[s] # "PENDING_PAYMENT" \/ lines[s] # shirt
                    \/ \E k \in UsedKeys : attempt[k].sale = s}

\* One sale that takes up to three attempts and two sessions to settle.
Retries == Cardinality(TouchedSales) <= 1

\* Two sales of the same lines, two sessions and references that may collide.
TwoSales == Cardinality(UsedKeys) <= 2 /\ \A s \in Sales : lines[s] = shirt

Within ==
    \/ scenario = "retries" /\ Retries
    \/ scenario = "two sales" /\ TwoSales

ScenarioInit == Init /\ scenario \in Scenarios /\ Within
ScenarioNext == Next /\ UNCHANGED scenario /\ Within'
ScenarioSpec == ScenarioInit /\ [][ScenarioNext]_<<vars, scenario>>
=============================================================================
