-------------------------- MODULE ReservationRace --------------------------
(***************************************************************************)
(* Why an operation on a charge may be taken as one action.  Checkout does *)
(* so for every writer of CheckoutAttempt and ExternalCollection; here     *)
(* each is a transaction at the isolation level its service asks for, that *)
(* takes its snapshot, waits for the row of the sale and for those of its  *)
(* collections, and commits: T-R (reserve), T-RR (recover), T-X (close),   *)
(* T-C (confirm) and T-F (refund) of one sale.                             *)
(*                                                                         *)
(* What an operation inserts does not change the row others wait for; the  *)
(* visibility rule of the services updates it for that purpose.  The       *)
(* unique index on open attempts, the version of an attempt's own row and  *)
(* the conflict detection of PostgreSQL are left out, so that nothing      *)
(* below rests on them.                                                    *)
(***************************************************************************)
EXTENDS Naturals

CONSTANTS
    Txs,            \* transactions: a retry after an abort is a new one
    None            \* no transaction

Kinds == {"reserve", "recover", "close", "confirm", "refund"}

VARIABLES
    db,             \* the committed rows: sale, attempt[t] inserted by t, collection[t] made
                    \* from the charge of attempt t; updates count the versions of a row
    tx              \* the transactions

vars == <<db, tx>>

NoAttempt == [state |-> "NONE", plan |-> {}, fresh |-> FALSE, declared |-> FALSE]
NoCollection == [status |-> "NONE", claim |-> None, updates |-> 0]

EmptyDb == [status |-> "PENDING_PAYMENT", updates |-> 0, attempt |-> [t \in Txs |-> NoAttempt],
            collection |-> [t \in Txs |-> NoCollection]]

Unborn == [stage |-> "none", kind |-> "reserve", target |-> None, flag |-> FALSE,
           held |-> {}, old |-> EmptyDb]

Init == db = EmptyDb /\ tx = [t \in Txs |-> Unborn]

-----------------------------------------------------------------------------
(* What a transaction sees and waits for *)

Serializable(t) == tx[t].kind \in {"recover", "confirm"}

\* A Serializable transaction reads the snapshot of its first statement, the others what is
\* committed when the statement runs.
View(t) == IF Serializable(t) THEN tx[t].old ELSE db

Open(view, a) == view.attempt[a].state \in {"RESERVED", "REJECTED"} /\ ~view.attempt[a].declared
NoneOpen(view) == \A a \in Txs : ~Open(view, a)
\* An attempt claims its collections while it is open, and for good once it is confirmed.
Claims(view, a) == Open(view, a) \/ view.attempt[a].state = "CONFIRMED"
Unapplied(view) == {c \in Txs : view.collection[c].status = "UNAPPLIED"}

\* Not the code: a close that updates only the attempt.
TouchesUnlessClose(t) == tx[t].kind \in {"reserve", "recover", "confirm"}
\* The visibility rule: whoever changes what others decide on updates the row they wait for.
TouchesSale(t) == tx[t].kind # "refund"

SaleChanged(t) == Serializable(t) /\ tx[t].old.updates # db.updates
CollectionChanged(t, c) ==
    Serializable(t) /\ tx[t].old.collection[c].updates # db.collection[c].updates

HoldsSale(t) == tx[t].kind # "refund" /\ tx[t].stage \in {"sale", "decided"}
SaleFree == \A t \in Txs : ~HoldsSale(t)

Selected(t) ==
    CASE tx[t].kind \in {"reserve", "recover"} -> Unapplied(View(t))
      [] tx[t].kind \in {"close", "confirm"} -> View(t).attempt[tx[t].target].plan
      [] OTHER -> {tx[t].target}

-----------------------------------------------------------------------------
(* What each decides on the rows it has locked *)

MayReserve(t) ==
    /\ View(t).status = "PENDING_PAYMENT" /\ NoneOpen(View(t))
    /\ \A c \in Selected(t) : View(t).collection[c].claim = None

MayRecover(t) == MayReserve(t) /\ Selected(t) # {}

MayClose(t) == Open(View(t), tx[t].target)

MayConfirm(t) == View(t).attempt[tx[t].target].state = "RESERVED"

MayRefund(t) ==
    /\ db.collection[tx[t].target].status = "UNAPPLIED"
    /\ db.collection[tx[t].target].claim = None

May(t) ==
    CASE tx[t].kind = "reserve" -> MayReserve(t)
      [] tx[t].kind = "recover" -> MayRecover(t)
      [] tx[t].kind = "close" -> MayClose(t)
      [] tx[t].kind = "confirm" -> MayConfirm(t)
      [] OTHER -> MayRefund(t)

-----------------------------------------------------------------------------
(* What each writes *)

Write(t, status, attempt, collection) ==
    [status |-> status, attempt |-> attempt, collection |-> collection,
     updates |-> IF TouchesSale(t) THEN db.updates + 1 ELSE db.updates]

Row(c, status, claim) ==
    [status |-> status, claim |-> claim, updates |-> db.collection[c].updates + 1]

UpdateHeld(t, row(_)) == [c \in Txs |-> IF c \in tx[t].held THEN row(c) ELSE db.collection[c]]

\* T-R may charge something new on a terminal, T-RR only cash.
Reserved(t) ==
    Write(t, db.status,
          [db.attempt EXCEPT ![t] = [state |-> "RESERVED", plan |-> tx[t].held,
              fresh |-> tx[t].flag /\ tx[t].kind = "reserve", declared |-> FALSE]],
          UpdateHeld(t, LAMBDA c : Row(c, db.collection[c].status, t)))

\* The charge that was made (flag) becomes a collection; the claims are released.
Closed(t) ==
    LET a == tx[t].target
        released == UpdateHeld(t, LAMBDA c : Row(c, db.collection[c].status, None))
    IN Write(t, db.status,
             [db.attempt EXCEPT ![a] = [plan |-> @.plan, fresh |-> @.fresh, declared |-> TRUE,
                 state |-> IF @.state = "RESERVED" THEN "ABANDONED" ELSE @.state]],
             IF db.attempt[a].fresh /\ tx[t].flag
             THEN [released EXCEPT ![a].status = "UNAPPLIED"] ELSE released)

\* The drawer may be closed (flag), or a collection not be the attempt's: a rejection commits.
Applies(t) ==
    /\ db.status = "PENDING_PAYMENT" /\ tx[t].flag
    /\ \A c \in tx[t].held :
          db.collection[c].status = "UNAPPLIED" /\ db.collection[c].claim = tx[t].target

Judged(a, state) == [db.attempt EXCEPT ![a].state = state]

\* The collections of the plan are applied and stay claimed; the new charge is recorded applied.
Confirmed(t) ==
    LET a == tx[t].target
        applied == UpdateHeld(t, LAMBDA c : Row(c, "APPLIED", a))
    IN IF Applies(t)
       THEN Write(t, "COMPLETED", Judged(a, "CONFIRMED"),
                  IF db.attempt[a].fresh THEN [applied EXCEPT ![a].status = "APPLIED"] ELSE applied)
       ELSE Write(t, db.status, Judged(a, "REJECTED"), db.collection)

Refunded(t) ==
    Write(t, db.status, db.attempt,
          UpdateHeld(t, LAMBDA c : Row(c, "REFUNDED", db.collection[c].claim)))

Written(t) ==
    CASE tx[t].kind \in {"reserve", "recover"} -> Reserved(t)
      [] tx[t].kind = "close" -> Closed(t)
      [] tx[t].kind = "confirm" -> Confirmed(t)
      [] OTHER -> Refunded(t)

-----------------------------------------------------------------------------
(* Transactions *)

Begin(t, kind, target, flag) ==
    /\ tx[t].stage = "none"
    /\ CASE kind \in {"reserve", "recover"} -> target = None
         [] kind = "refund" -> target # None /\ db.collection[target].status # "NONE"
         [] OTHER -> target # None /\ db.attempt[target].state # "NONE"
    /\ tx' = [tx EXCEPT ![t] = [stage |-> IF kind = "refund" THEN "sale" ELSE "begun",
          kind |-> kind, target |-> target, flag |-> flag, held |-> {}, old |-> db]]
    /\ UNCHANGED db

LockSale(t) ==
    /\ tx[t].stage = "begun" /\ SaleFree /\ ~SaleChanged(t)
    /\ tx' = [tx EXCEPT ![t].stage = "sale"]
    /\ UNCHANGED db

LockCollections(t) ==
    /\ tx[t].stage = "sale" /\ May(t)
    /\ \A c \in Selected(t) :
          /\ ~CollectionChanged(t, c)
          /\ \A u \in Txs \ {t} : tx[u].stage = "decided" => c \notin tx[u].held
    /\ tx' = [tx EXCEPT ![t].stage = "decided", ![t].held = Selected(t)]
    /\ UNCHANGED db

Commit(t) ==
    /\ tx[t].stage = "decided"
    /\ db' = Written(t)
    /\ tx' = [tx EXCEPT ![t] = [Unborn EXCEPT !.stage = "gone"]]

\* A refusal, a row that changed, a timeout or a crash: nothing is left.
Rollback(t) ==
    /\ tx[t].stage \in {"begun", "sale", "decided"}
    /\ tx' = [tx EXCEPT ![t] = [Unborn EXCEPT !.stage = "gone"]]
    /\ UNCHANGED db

Next == \E t \in Txs :
    \/ \E kind \in Kinds, target \in Txs \cup {None}, flag \in BOOLEAN :
          Begin(t, kind, target, flag)
    \/ LockSale(t) \/ LockCollections(t) \/ Commit(t) \/ Rollback(t)

Spec == Init /\ [][Next]_vars

-----------------------------------------------------------------------------
(* Properties *)

Attempts == [state: {"NONE", "RESERVED", "REJECTED", "ABANDONED", "CONFIRMED"},
             plan: SUBSET Txs, fresh: BOOLEAN, declared: BOOLEAN]
Collections == [status: {"NONE", "UNAPPLIED", "APPLIED", "REFUNDED"},
                claim: Txs \cup {None}, updates: Nat]
Rows == [status: {"PENDING_PAYMENT", "COMPLETED"}, updates: Nat,
         attempt: [Txs -> Attempts], collection: [Txs -> Collections]]

\* The rows and the transactions have their shape, and the row of the sale is locked by one at
\* a time.
TypeOK ==
    /\ db \in Rows
    /\ tx \in [Txs -> [stage: {"none", "begun", "sale", "decided", "gone"}, kind: Kinds,
                       target: Txs \cup {None}, flag: BOOLEAN, held: SUBSET Txs, old: Rows]]
    /\ \A t, u \in Txs : HoldsSale(t) /\ HoldsSale(u) => t = u

\* A sale has one open attempt, also if a recovery began before a reservation committed.
OneOpenAttempt == \A a, b \in Txs : Open(db, a) /\ Open(db, b) => a = b

\* The open attempt charges what the customer has not paid yet: every unapplied collection of
\* the sale is in its plan and claimed by it, though a close may insert one, or a refund take
\* one away, while the reservation waits; once confirmed it keeps what it claimed.
PlanHoldsCollections ==
    /\ \A a \in Txs : Open(db, a) => db.attempt[a].plan = Unapplied(db)
    /\ \A a, c \in Txs : db.collection[c].claim = a <=> Claims(db, a) /\ c \in db.attempt[a].plan

\* A settled sale leaves no charge unapplied and nothing open.
SettledLeavesNothing ==
    db.status = "COMPLETED" => Unapplied(db) = {} /\ NoneOpen(db)

\* Money that was applied or returned stays so, and a sale is settled once.
ResolvedForGood ==
    [][/\ \A c \in Txs : db.collection[c].status \in {"APPLIED", "REFUNDED"}
             => db'.collection[c].status = db.collection[c].status
       /\ db.status = "COMPLETED" => \A a \in Txs :
             db'.attempt[a].state = "CONFIRMED" <=> db.attempt[a].state = "CONFIRMED"]_db
=============================================================================
