----------------------------- MODULE MCAccounts -----------------------------
(* Small instances of Accounts for TLC, one for each scenario: which accounts *)
(* take part, what is asked of them, and how often.                           *)
EXTENDS Accounts, FiniteSetsExt, TLC

CONSTANTS ana, bea, eva, luz, c1, c2, k1, k2, s1, Scenarios

VARIABLE scenario

\* The operations each scenario asks for.
Asks == [owners      |-> {"DEACTIVATE", "ASSIGN", "REVOKE"},
         credentials |-> {"CHANGE", "RESET", "DEACTIVATE", "REACTIVATE"},
         repeats     |-> {"CREATE", "DEACTIVATE", "REACTIVATE"},
         sockets     |-> {"CHANGE", "REVOKE", "ASSIGN", "RESET"}]

ASSUME Scenarios \subseteq DOMAIN Asks

Waiting == {c \in Clients : task[c].stage # "idle"}

\* The accounts that logged in, are asked about, or were changed.
Involved == ({Actor(c) : c \in Clients} \cup {Target(c) : c \in Waiting}
                \cup {u \in Users : changes[u] > 0}) \ {None}

KeysUsed == ({task[c].key : c \in Clients} \cup {o.key : o \in ops}) \ {None}

\* No more changes than this, counting those that wait.
AtMost(n) ==
    MapThenSumSet(LAMBDA u : changes[u], Users)
        + Cardinality({c \in Waiting : task[c].stage # "committed"}) <= n

\* The clock stands still.
OneInstant == \A u \in Users : account[u].epoch <= changes[u]

Within ==
    /\ \A c \in Waiting : task[c].op \in Asks[scenario]
    /\ scenario # "sockets" => \A s \in Sockets : socket[s] = NoSocket
    /\ \/ scenario = "owners" /\ Involved \subseteq Owners \cup Admins
          /\ Cardinality(KeysUsed) <= 1 /\ AtMost(3) /\ OneInstant
       \/ scenario = "credentials" /\ Involved \subseteq Owners /\ AtMost(4)
       \/ scenario = "repeats" /\ Involved \cap Admins = {} /\ AtMost(4) /\ OneInstant
       \/ scenario = "sockets" /\ Cardinality(Involved \cap Owners) <= 1
          /\ Involved \subseteq Owners \cup Admins
          /\ Cardinality(KeysUsed) <= 1 /\ AtMost(3) /\ OneInstant

ScenarioInit == scenario \in Scenarios /\ Init
ScenarioNext == Next /\ UNCHANGED scenario /\ Within'
ScenarioSpec == ScenarioInit /\ [][ScenarioNext]_<<vars, scenario>>

Same == Permutations(Clients) \cup Permutations(Keys) \cup Permutations(Owners)
=============================================================================
