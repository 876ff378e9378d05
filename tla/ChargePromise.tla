---------------------------- MODULE ChargePromise ----------------------------
(***************************************************************************)
(* What a checkout promises the customer about the money taken outside the *)
(* system, on a card terminal or by transfer.  A charge is taken for one   *)
(* sale; it is kept only when that sale is settled, and the settlement     *)
(* leaves no other money of the sale behind; a charge that was not kept is *)
(* owed to the customer until it is kept or returned.  Nothing is kept or  *)
(* returned twice.                                                         *)
(***************************************************************************)
CONSTANTS Sales, Charges

VARIABLES
    owner,      \* the sale each charge was taken for
    custody,    \* where the money of each charge is
    settled     \* whether the sale was paid and delivered

promiseVars == <<owner, custody, settled>>

Custodies == {"none", "taken", "owed", "kept", "returned"}

PromiseInit ==
    /\ custody = [c \in Charges |-> "none"]
    /\ settled = [s \in Sales |-> FALSE]

\* Who a charge would be for may still change; who it was taken for never does.
OwnersKept == \A c \in Charges : custody[c] # "none" => owner'[c] = owner[c]

Plan == OwnersKept /\ UNCHANGED <<custody, settled>>

Take(c) ==
    /\ custody[c] = "none"
    /\ owner[c] \in Sales /\ ~ settled[owner[c]]
    /\ custody' = [custody EXCEPT ![c] = "taken"]
    /\ UNCHANGED <<owner, settled>>

\* The sale was not settled: what was taken for it is recorded as owed.
Record(C) ==
    /\ \A c \in C : custody[c] = "taken"
    /\ custody' = [c \in Charges |-> IF c \in C THEN "owed" ELSE custody[c]]
    /\ UNCHANGED <<owner, settled>>

\* The sale is settled with all the money that was taken for it and not returned.
Settle(s) ==
    /\ ~ settled[s]
    /\ settled' = [settled EXCEPT ![s] = TRUE]
    /\ custody' = [c \in Charges |->
                      IF owner[c] = s /\ custody[c] \in {"taken", "owed"} THEN "kept"
                      ELSE custody[c]]
    /\ UNCHANGED owner

GiveBack(c) ==
    /\ custody[c] = "owed"
    /\ custody' = [custody EXCEPT ![c] = "returned"]
    /\ UNCHANGED <<owner, settled>>

PromiseNext ==
    \/ Plan
    \/ \E c \in Charges : Take(c) \/ GiveBack(c)
    \/ \E C \in SUBSET Charges : Record(C)
    \/ \E s \in Sales : Settle(s)

PromiseSpec == PromiseInit /\ [][PromiseNext]_promiseVars
=============================================================================
