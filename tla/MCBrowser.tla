------------------------------ MODULE MCBrowser ------------------------------
(***************************************************************************)
(* What the cashier's browser keeps, in small instances: the panel that    *)
(* charges a proportional sale (ChargePanel), the register                 *)
(* (RegisterScreen) and the tabs that exchange a sale (ExchangeDraft), in  *)
(* some scenarios each.  They share nothing here: every behaviour picks    *)
(* its scenario at the start, and the rest stays as it began.              *)
(***************************************************************************)
EXTENDS CashierScreens, ExchangeTabs, FiniteSets, TLC

CONSTANTS s1, c1, c2, d1, d2, p1, p2, b1, b2, t1, t2, shirt, dress, Scenarios

VARIABLE scenario

exchangeVars ==
    <<exchanged, elsewhere, committed, permitted, late, record, mark, broken, minted, refused,
      draft, owned, flight, reading>>

-------------------------------------------------------------------------------
(* The panel *)

\* Requests and answers are lost, and served after the browser gave them up.
Faulty ==
    INSTANCE ChargePanel WITH
        Sessions <- {c1}, MaxKeys <- MaxChargeKeys, Faults <- {"lost", "late"},
        keys <- chargeKeys

\* Two cash sessions, one composition.
TwoSessions ==
    INSTANCE ChargePanel WITH
        Sessions <- CashSessions, Drafts <- {d1}, MaxKeys <- MaxChargeKeys, Faults <- {"lost"},
        keys <- chargeKeys

\* The page is reloaded, and its workspace left for another mode, while requests are lost.
Leaving ==
    INSTANCE ChargePanel WITH
        Sessions <- {c1}, Drafts <- {d1}, MaxKeys <- MaxChargeKeys,
        Faults <- {"lost", "reload", "switch"}, keys <- chargeKeys

\* The workspace is left for another mode, and nothing else goes wrong.
Switched ==
    INSTANCE ChargePanel WITH
        Sessions <- {c1}, Drafts <- {d1}, MaxKeys <- 1, Faults <- {"switch"}, keys <- chargeKeys

-------------------------------------------------------------------------------
(* The register *)

\* Two branches, two calls at once, other devices, lost answers.
Branched == INSTANCE RegisterScreen WITH MaxCalls <- 2, MaxKeys <- 1, Modes <- FALSE

\* One branch, whose workspace is left for another mode with calls under way.
Moded == INSTANCE RegisterScreen WITH Branches <- {b1}, MaxKeys <- 0

-------------------------------------------------------------------------------
(* The exchange *)

\* Two tabs, one sending at a time, and requests that commit after the tab that sent them is
\* gone.
Late ==
    INSTANCE ExchangeDraft WITH
        Items <- {shirt}, MaxElsewhere <- 0, MaxKeys <- MaxExchangeKeys, Faults <- {"late"}

\* Two items: an exchange of one says nothing of the other.
TwoItems ==
    INSTANCE ExchangeDraft WITH
        Sold <- 1, MaxElsewhere <- 0, MaxKeys <- MaxExchangeKeys, Faults <- {}

\* Another device exchanges the same sale.
Shared ==
    INSTANCE ExchangeDraft WITH
        Items <- {shirt}, MaxKeys <- MaxExchangeKeys, Faults <- {}

\* One tab that is reloaded under every fault, up to the last unit.
Broken ==
    INSTANCE ExchangeDraft WITH
        Items <- {shirt}, MaxKeys <- MaxExchangeKeys, Faults <- ExchangeFaults

\* One tab of a user whose permission comes and goes.
Forbidden ==
    INSTANCE ExchangeDraft WITH
        Items <- {shirt}, MaxElsewhere <- 0, MaxKeys <- MaxExchangeKeys,
        Faults <- {"permission"}

Used == {t \in Tabs : draft[t].open \/ owned[t] # {} \/ reading[t].stage # "idle"}
Reading == {t \in Tabs : reading[t].stage # "idle"}
Sending == {t \in Tabs : flight[t].stage # "idle"}
OneTab == Cardinality(Used') <= 1
OneReads == Cardinality(Reading') <= 1
OneSends == Cardinality(Sending') <= 1

-------------------------------------------------------------------------------
\* The branch shown first and the first price are as good as the others.
BrowserInit ==
    /\ scenario \in Scenarios
    /\ CASE scenario = "sessions" -> TwoSessions!Init
         [] scenario = "leaving" -> Leaving!Init
         [] scenario = "switched" -> Switched!Init
         [] OTHER -> Faulty!Init
    /\ IF scenario = "moded" THEN Moded!Init ELSE Branched!Init
    /\ IF scenario = "items" THEN TwoItems!Init ELSE Late!Init
    /\ screen.branch = b1 /\ server.price[s1] = p1

BrowserNext ==
    /\ \/ /\ \/ scenario = "faulty" /\ Faulty!Next
             \/ scenario = "sessions" /\ TwoSessions!Next
             \/ scenario = "leaving" /\ Leaving!Next
             \/ scenario = "switched" /\ Switched!Next
          /\ UNCHANGED <<registerVars, exchangeVars>>
       \/ /\ \/ scenario = "branched" /\ Branched!Next
             \/ scenario = "moded" /\ Moded!Next
          /\ UNCHANGED <<panelVars, exchangeVars>>
       \/ /\ \/ scenario = "late" /\ Late!Next /\ OneReads /\ OneSends
             \/ scenario = "items" /\ TwoItems!Next /\ OneReads /\ OneSends
             \/ scenario = "shared" /\ Shared!Next /\ OneReads
             \/ scenario = "broken" /\ Broken!Next /\ OneTab
             \/ scenario = "forbidden" /\ Forbidden!Next /\ OneTab
          /\ UNCHANGED <<panelVars, registerVars>>
    /\ UNCHANGED scenario

BrowserSpec == BrowserInit /\ [][BrowserNext]_<<scenario, panelVars, registerVars, exchangeVars>>

\* The tabs are interchangeable.
Symmetric == Permutations({t1, t2})

-------------------------------------------------------------------------------
\* What page.tsx says of an attempt: pending, uncertain or confirmed, it is never discarded
\* by itself, short of a full reload of the page (checkoutAttempts).
NothingForgotten == Switched!NothingForgotten

\* What ProportionalChargePanel.tsx says of a reservation refused because the quote changed: it is
\* final, and left nothing under its key (sendReservation).
DiscardLeavesNothing == Faulty!DiscardLeavesNothing

\* What exchange-draft-store.ts says first: no new key is generated for a sale while an earlier
\* attempt may have been confirmed, unless the new one is based on a read that shows it.
NeverKeyWhileMaybeConfirmed ==
    [][minted' # minted =>
        \A k \in 1 .. minted : k \in DOMAIN committed =>
            Exchanges!Show(Exchanges!Baseline(record'.lines), k)]_minted
===============================================================================
