----------------------------- MODULE SaleCharges -----------------------------
(***************************************************************************)
(* What the services promise about the charges of a sale: the operations   *)
(* on attempts and on what was collected, one after the other.  An attempt *)
(* is reserved for all that the sale has collected and not used, and is    *)
(* confirmed with exactly that and its own new charges; closing it leaves  *)
(* what was charged as collections that anybody may use or refund.         *)
(*                                                                         *)
(* Checkout implements this with all its prices, sessions and evidence,    *)
(* and ReservationRace with transactions that overlap.                     *)
(***************************************************************************)
CONSTANTS
    Sales, Attempts,
    Collections,    \* what may be charged, and collected
    ChargesOf,      \* the charges each attempt may make
    Nobody          \* no attempt

VARIABLES
    status,         \* of each sale
    sale,           \* the sale of each attempt that was reserved
    phase,          \* of each attempt
    plan,           \* what each attempt reserved of earlier charges
    collected,      \* of each charge
    claim           \* the attempt that holds each collection

chargesVars == <<status, sale, phase, plan, collected, claim>>

ChargesInit ==
    /\ status = [s \in Sales |-> "PENDING_PAYMENT"]
    /\ phase = [a \in Attempts |-> "NONE"]
    /\ plan = [a \in Attempts |-> {}]
    /\ collected = [c \in Collections |-> "NONE"]
    /\ claim = [c \in Collections |-> Nobody]

Open(a) == phase[a] \in {"RESERVED", "REJECTED"}

\* What a sale has collected and neither applied nor returned.
Left(s) ==
    {c \in Collections : /\ collected[c] = "UNAPPLIED"
                     /\ \E a \in Attempts : c \in ChargesOf[a] /\ sale[a] = s}

Mark(C, as) == [c \in Collections |-> IF c \in C THEN as ELSE collected[c]]

\* T-R and T-RR: one attempt at a time, for everything that is left of the sale.
Reserve(a, s) ==
    /\ phase[a] = "NONE" /\ status[s] = "PENDING_PAYMENT"
    /\ \A b \in Attempts : Open(b) => sale[b] # s
    /\ \A c \in Left(s) : claim[c] = Nobody
    /\ phase' = [phase EXCEPT ![a] = "RESERVED"]
    /\ sale' = [sale EXCEPT ![a] = s]
    /\ plan' = [plan EXCEPT ![a] = Left(s)]
    /\ claim' = [c \in Collections |-> IF c \in Left(s) THEN a ELSE claim[c]]
    /\ UNCHANGED <<status, collected>>

\* T-C: the plan is still what is left of the sale, and is applied with the new charges.
Confirm(a, new) ==
    /\ phase[a] = "RESERVED" /\ status[sale[a]] = "PENDING_PAYMENT"
    /\ plan[a] = Left(sale[a]) /\ \A c \in plan[a] : claim[c] = a
    /\ \A c \in new : collected[c] = "NONE"
    /\ phase' = [phase EXCEPT ![a] = "CONFIRMED"]
    /\ status' = [status EXCEPT ![sale[a]] = "COMPLETED"]
    /\ collected' = Mark(plan[a] \cup new, "APPLIED")
    /\ UNCHANGED <<sale, plan, claim>>

\* T-C, refused: the attempt stays open until it is closed.
Reject(a) ==
    /\ phase[a] = "RESERVED"
    /\ phase' = [phase EXCEPT ![a] = "REJECTED"]
    /\ UNCHANGED <<status, sale, plan, collected, claim>>

\* T-X: what was charged is recorded and nothing is held any more.
Close(a, taken) ==
    /\ Open(a) /\ \A c \in taken : collected[c] = "NONE"
    /\ phase' = [phase EXCEPT ![a] = "CLOSED"]
    /\ collected' = Mark(taken, "UNAPPLIED")
    /\ claim' = [c \in Collections |-> IF claim[c] = a THEN Nobody ELSE claim[c]]
    /\ UNCHANGED <<status, sale, plan>>

\* T-F: what nobody holds is returned.
Refund(c) ==
    /\ collected[c] = "UNAPPLIED" /\ claim[c] = Nobody
    /\ collected' = Mark({c}, "REFUNDED")
    /\ UNCHANGED <<status, sale, phase, plan, claim>>

Cancel(s) ==
    /\ status[s] = "PENDING_PAYMENT"
    /\ status' = [status EXCEPT ![s] = "CANCELLED"]
    /\ UNCHANGED <<sale, phase, plan, collected, claim>>

\* Every operation on an attempt moves it to another phase.
Operate(a) ==
    /\ phase'[a] # phase[a]
    /\ \/ \E s \in Sales : Reserve(a, s)
       \/ \E C \in SUBSET ChargesOf[a] : Confirm(a, C) \/ Close(a, C)
       \/ Reject(a)

ChargesNext ==
    \/ \E a \in Attempts : Operate(a)
    \/ \E c \in Collections : Refund(c)
    \/ \E s \in Sales : Cancel(s)

ChargesSpec == ChargesInit /\ [][ChargesNext]_chargesVars
=============================================================================
