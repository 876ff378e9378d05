------------------------------ MODULE MCSaleStock ------------------------------
(***************************************************************************)
(* SaleStock on three small instances, one per scenario: every behaviour   *)
(* picks its scenario at the start and stays within the scenario's bounds. *)
(***************************************************************************)
EXTENDS SaleStock, TLC

CONSTANTS s1, s2, v1, v2, v3, c1, c2, k1, k2

\* Of three variants one is dearer, so that some exchanges are refused.
MixedPrices == [v \in Variants |-> IF v = v3 THEN 2 ELSE 1]

\* The clients, the keys and the two variants of the same price are interchangeable.
Symmetric == Permutations(Clients) \cup Permutations(Keys) \cup Permutations({v1, v2})

-------------------------------------------------------------------------------
VARIABLE scenario

OpenSales == {s \in Sales : status[s] # "NONE"}
StockedVariants == {v \in Variants : loaded[v] # 0}
EditsInFlight == {c \in Clients : request[c] # NoRequest}
LinesUpTo(n) == \A s \in Sales, v \in Variants : items[s][v] <= n

\* Two sales, one of each pricing model, for the stock of two variants.
Compete ==
    /\ StockedVariants \subseteq {v1, v2}
    /\ LinesUpTo(1)
    /\ \A s \in Sales : Cardinality(exchanges[s]) <= 1
    /\ Cardinality(EditsInFlight) <= 1

\* Two draft edits in flight while one sale is sent, corrected, paid in parts or cancelled.
Edits == OpenSales \subseteq {s1} /\ StockedVariants \subseteq {v1, v2} /\ exchanges[s1] = {}

\* One sale of three variants through up to two exchanges, or a void.
Exchanges == OpenSales \subseteq {s1} /\ Cardinality(EditsInFlight) <= 1

Within ==
    \/ scenario = "compete" /\ Compete
    \/ scenario = "edits" /\ Edits
    \/ scenario = "exchanges" /\ Exchanges

ScenarioInit == Init /\ scenario \in {"compete", "edits", "exchanges"}
ScenarioNext == Next /\ UNCHANGED scenario /\ Within'
ScenarioSpec == ScenarioInit /\ [][ScenarioNext]_<<vars, scenario>>
===============================================================================
