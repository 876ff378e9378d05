----------------------------- MODULE ExchangeTabs -----------------------------
(***************************************************************************)
(* The exchange of a sale in the tabs of a browser (ExchangeDraft), with   *)
(* the names that a module which knows other screens of the browser gives  *)
(* to its constants.                                                       *)
(***************************************************************************)
CONSTANTS Tabs, Items, Sold, Returns, MaxElsewhere, MaxExchangeKeys, ExchangeFaults
VARIABLES exchanged, elsewhere, committed, permitted, late, record, mark, broken, minted,
          refused, draft, owned, flight, reading

Exchanges ==
    INSTANCE ExchangeDraft WITH MaxKeys <- MaxExchangeKeys, Faults <- ExchangeFaults

-------------------------------------------------------------------------------
(* What an exchange may never come to, whatever the tabs do *)

\* Nothing a browser knows of an exchange is lost before it is safe to forget: every key is
\* still in the record, or was definitively refused, or was confirmed and the mark shows it
\* (raiseMark, settle).
EvidenceKept == Exchanges!EvidenceKept

\* Requests of one key carry one body, whichever tab sends them, and so does the record that
\* would repeat them (prepare).
OneBodyPerKey == Exchanges!OneBodyPerKey

\* An answer finds the draft it belongs to, whatever the tab does while its request is out
\* (handleStorageEvent).
AnswerFindsItsDraft == Exchanges!AnswerFindsItsDraft

\* A key is generated only when every earlier one is settled: refused, or confirmed and shown
\* by the baseline of the new exchange, however stale the tab that sends it is (prepare).
NewKeyKnowsTheOld == Exchanges!NewKeyKnowsTheOld
===============================================================================
