---------------------------- MODULE CashierScreens ----------------------------
(***************************************************************************)
(* What the cashier's browser keeps outside a draft: the register on the   *)
(* screen (RegisterScreen) and the panel that charges proportional sales   *)
(* (ChargePanel), with names of its own where the register has the same.   *)
(* They share no state.                                                    *)
(***************************************************************************)
EXTENDS RegisterScreen

CONSTANTS Sales, CashSessions, Drafts, Prices, MaxChargeKeys, Faults, None
VARIABLES shown, panel, attempts, inFlight, chargeKeys, net, server

Panel ==
    INSTANCE ChargePanel WITH
        Sessions <- CashSessions, MaxKeys <- MaxChargeKeys, keys <- chargeKeys

registerVars == <<db, screen, closing, calls, keys>>
panelVars == <<shown, panel, attempts, inFlight, chargeKeys, net, server>>

-------------------------------------------------------------------------------
(* What the panel may never come to; the register's properties are RegisterScreen's. *)

\* The total on the screen is of the composition on the screen, however late the answers to
\* earlier compositions come (the quote effect).
QuoteOfDraft == Panel!QuoteOfDraft

\* What was charged for a sale, or may still be by a late request, is under the key that the page
\* shows for the sale, at its confirmation (sendReservation, sendConfirmation, retry).
ChargeIsKnown == Panel!ChargeIsKnown
===============================================================================
