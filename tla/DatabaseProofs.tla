--------------------------- MODULE DatabaseProofs ---------------------------
(***************************************************************************)
(* What the database of a branch keeps, for any number of transactions:    *)
(* the guards of SaleVoid and SaleExchange (PostSaleGuard), the charges of *)
(* a sale (ReservationRace) and the books of a drawer (DrawerRace).        *)
(***************************************************************************)
EXTENDS Races, Integers, FiniteSets, Sequences, FiniteSetTheorems, TLAPS

-----------------------------------------------------------------------------
(***************************************************************************)
(* NeverBoth and ClaimTellsRows for any number of writers.  What a writer  *)
(* that has claimed found in the claim stays as long as it holds the sale, *)
(* and a writer that has written without a claim holds the migration up.   *)
(***************************************************************************)

\* The writers between their row and its commit.
HoldersSound ==
    \A w \in Writers :
        /\ writer[w].stage = "written" => ~migrated
        /\ writer[w].stage = "claimed" => migrated /\ guard \in {None, Mode(w)}

GuardInv == GuardTypeOK /\ ClaimTellsRows /\ HoldersSound

LEMMA InitInv == GuardInit => GuardInv
<1> SUFFICES ASSUME GuardInit PROVE GuardInv
    OBVIOUS
<1>1. /\ rows \in [Modes -> SUBSET Writers] /\ guard = None /\ claims = 0
      /\ saleState = "COMPLETED" /\ migrated = FALSE
    BY DEF GuardInit
<1>2. Unborn \in Transactions
    BY DEF Unborn, Transactions, Modes, Levels
<1>3. writer \in [Writers -> Transactions] /\ \A w \in Writers : writer[w].stage = "none"
    BY <1>2 DEF GuardInit, Unborn
<1> QED BY <1>1, <1>3 DEF GuardInv, GuardTypeOK, ClaimTellsRows, HoldersSound

\* Steps that only move one writer to a stage without the lock.
LEMMA MoveStep ==
    ASSUME GuardInv, UNCHANGED <<rows, guard, claims, saleState, migrated>>,
           NEW w \in Writers, NEW t \in Transactions, writer' = [writer EXCEPT ![w] = t],
           t.stage \in {"none", "begun", "aborted"}
    PROVE  GuardInv'
<1>1. writer' \in [Writers -> Transactions] /\ writer'[w] = t
      /\ \A v \in Writers \ {w} : writer'[v] = writer[v]
    BY DEF GuardInv, GuardTypeOK
<1>2. GuardTypeOK'
    BY <1>1 DEF GuardInv, GuardTypeOK
<1>3. HoldersSound'
    BY <1>1 DEF GuardInv, HoldersSound, Mode
<1> QED BY <1>2, <1>3 DEF GuardInv, ClaimTellsRows

LEMMA LockStep ==
    ASSUME GuardInv, NEW w \in Writers, LockSale(w)
    PROVE  GuardInv'
<1>0. writer \in [Writers -> Transactions] /\ writer[w] \in Transactions
    BY DEF GuardInv, GuardTypeOK
<1>1. CASE SaleChanged(w)
  <2> DEFINE t == [writer[w] EXCEPT !.stage = "aborted"]
  <2>1. writer' = [writer EXCEPT ![w] = t] /\ t \in Transactions /\ t.stage = "aborted"
      BY <1>0, <1>1 DEF LockSale, Transactions
  <2>2. UNCHANGED <<rows, guard, claims, saleState, migrated>>
      BY DEF LockSale
  <2> HIDE DEF t
  <2> QED BY <2>1, <2>2, MoveStep
<1>2. CASE ~SaleChanged(w)
  <2>1. /\ writer' \in [Writers -> Transactions] /\ writer'[w].stage = "locked"
        /\ \A v \in Writers \ {w} : writer'[v] = writer[v]
        /\ UNCHANGED <<rows, guard, claims, saleState, migrated>>
      BY <1>0, <1>2 DEF LockSale, Transactions
  <2>2. \A v \in Writers : writer[v].stage \notin {"locked", "written", "claimed"}
      BY DEF LockSale, Holds
  <2>3. GuardTypeOK'
      BY <2>1, <2>2 DEF GuardInv, GuardTypeOK
  <2>4. HoldersSound'
      BY <2>1, <2>2 DEF HoldersSound
  <2> QED BY <2>1, <2>3, <2>4 DEF GuardInv, ClaimTellsRows
<1> QED BY <1>1, <1>2

LEMMA WriteStep ==
    ASSUME GuardInv, NEW w \in Writers, Write(w)
    PROVE  GuardInv'
<1>0. writer \in [Writers -> Transactions] /\ writer[w] \in Transactions
    BY DEF GuardInv, GuardTypeOK
<1>1. CASE Refused(w)
  <2> DEFINE t == [writer[w] EXCEPT !.stage = "aborted"]
  <2>1. writer' = [writer EXCEPT ![w] = t] /\ t \in Transactions /\ t.stage = "aborted"
      BY <1>0, <1>1 DEF Write, Transactions
  <2>2. UNCHANGED <<rows, guard, claims, saleState, migrated>>
      BY DEF Write
  <2> HIDE DEF t
  <2> QED BY <2>1, <2>2, MoveStep
<1>2. CASE ~Refused(w)
  <2>1. /\ writer' \in [Writers -> Transactions]
        /\ writer'[w].stage = (IF migrated THEN "claimed" ELSE "written")
        /\ writer'[w].mode = writer[w].mode
        /\ \A v \in Writers \ {w} : writer'[v] = writer[v]
        /\ UNCHANGED <<rows, guard, claims, saleState, migrated>>
      BY <1>0, <1>2 DEF Write, Transactions
  <2>2. writer[w].stage = "locked"
      BY DEF Write
  <2>3. migrated => guard \in {None, Mode(w)}
      BY <1>2 DEF Refused, ClaimFails
  <2>4. GuardTypeOK'
    <3>1. \A v \in Writers : writer'[v].stage \in {"locked", "written", "claimed"}
                             => writer[v].stage \in {"locked", "written", "claimed"}
        BY <2>1, <2>2
    <3> QED BY <2>1, <3>1 DEF GuardInv, GuardTypeOK
  <2>5. HoldersSound'
      BY <2>1, <2>3 DEF GuardInv, HoldersSound, Mode, GuardTypeOK
  <2> QED BY <2>1, <2>4, <2>5 DEF GuardInv, ClaimTellsRows
<1> QED BY <1>1, <1>2

LEMMA CommitStep ==
    ASSUME GuardInv, NEW w \in Writers, Commit(w)
    PROVE  GuardInv'
<1>0. /\ writer \in [Writers -> Transactions] /\ writer[w] \in Transactions
      /\ rows \in [Modes -> SUBSET Writers] /\ Mode(w) \in Modes
    BY DEF GuardInv, GuardTypeOK, Transactions, Mode
<1>1. /\ writer' \in [Writers -> Transactions] /\ writer'[w].stage = "committed"
      /\ \A v \in Writers \ {w} : writer'[v] = writer[v]
      /\ rows' \in [Modes -> SUBSET Writers] /\ migrated' = migrated
      /\ w \in rows'[Mode(w)] /\ \A m \in Modes \ {Mode(w)} : rows'[m] = rows[m]
      /\ writer[w].stage \in {"written", "claimed"}
    BY <1>0 DEF Commit, Transactions
\* Nobody else is between its row and its commit.
<1>2. \A v \in Writers \ {w} : writer[v].stage \notin {"locked", "written", "claimed"}
    BY <1>1 DEF GuardInv, GuardTypeOK
<1>3. GuardTypeOK'
  <2>1. guard' \in Modes \cup {None} /\ claims' \in Nat /\ saleState' \in {"COMPLETED", "CANCELLED"}
      BY <1>0 DEF Commit, GuardInv, GuardTypeOK
  <2>2. \A v \in Writers : writer'[v].stage \notin {"locked", "written", "claimed"}
      BY <1>1, <1>2
  <2>3. migrated' \in BOOLEAN
      BY <1>1 DEF GuardInv, GuardTypeOK
  <2> QED BY <1>1, <2>1, <2>2, <2>3 DEF GuardTypeOK
<1>4. HoldersSound'
    BY <1>1, <1>2 DEF HoldersSound
<1>5. ASSUME migrated
      PROVE  \A m \in Modes : guard' = m <=> rows'[m] # {}
  <2>1. writer[w].stage = "claimed" /\ guard \in {None, Mode(w)}
      BY <1>1, <1>5 DEF GuardInv, HoldersSound
  <2>2. guard' = Mode(w)
      BY <2>1 DEF Commit
  <2>3. ASSUME NEW m \in Modes \ {Mode(w)} PROVE rows'[m] = {}
    <3>1. guard # m
        BY <2>1, <2>3, GuardAssumption
    <3> QED BY <1>1, <1>5, <2>3, <3>1 DEF GuardInv, ClaimTellsRows
  <2> QED BY <1>1, <2>2, <2>3
<1> QED BY <1>1, <1>3, <1>4, <1>5 DEF GuardInv, ClaimTellsRows

LEMMA MigrateStep ==
    ASSUME GuardInv, Migrate
    PROVE  GuardInv'
<1>1. GuardTypeOK'
    BY DEF Migrate, GuardInv, GuardTypeOK, Modes
<1>2. HoldersSound'
    BY DEF Migrate, TablesFree, HoldersSound
<1>3. ClaimTellsRows'
    BY GuardAssumption DEF Migrate, Conflicting, ClaimTellsRows, Modes
<1> QED BY <1>1, <1>2, <1>3 DEF GuardInv

LEMMA NextStep ==
    ASSUME GuardInv, [GuardNext]_guardVars
    PROVE  GuardInv'
<1>0. writer \in [Writers -> Transactions]
    BY DEF GuardInv, GuardTypeOK
<1>1. CASE \E w \in Writers, mode \in Modes, level \in Levels, service \in BOOLEAN :
              Begin(w, mode, level, service)
  <2> PICK w \in Writers, mode \in Modes, level \in Levels, service \in BOOLEAN :
           Begin(w, mode, level, service)
      BY <1>1
  <2> DEFINE t == [stage |-> "begun", mode |-> mode, level |-> level, service |-> service,
                   rows |-> rows, claims |-> claims, saleState |-> saleState]
  <2>1. t \in Transactions /\ t.stage = "begun"
      BY DEF Transactions, GuardInv, GuardTypeOK
  <2>2. writer' = [writer EXCEPT ![w] = t] /\ UNCHANGED <<rows, guard, claims, saleState, migrated>>
      BY DEF Begin
  <2> HIDE DEF t
  <2> QED BY <2>1, <2>2, MoveStep
<1>2. CASE \E w \in Writers : Rollback(w)
  <2> PICK w \in Writers : Rollback(w)
      BY <1>2
  <2> DEFINE t == [writer[w] EXCEPT !.stage = "aborted"]
  <2>1. t \in Transactions /\ t.stage = "aborted"
      BY <1>0 DEF Transactions
  <2>2. writer' = [writer EXCEPT ![w] = t] /\ UNCHANGED <<rows, guard, claims, saleState, migrated>>
      BY <1>0 DEF Rollback
  <2> HIDE DEF t
  <2> QED BY <2>1, <2>2, MoveStep
<1>3. CASE UNCHANGED guardVars
    BY <1>3 DEF guardVars, GuardInv, GuardTypeOK, ClaimTellsRows, HoldersSound, Mode
<1> QED BY <1>1, <1>2, <1>3, LockStep, WriteStep, CommitStep, MigrateStep DEF GuardNext

LEMMA Invariant == GuardSpec => []GuardInv
BY InitInv, NextStep, PTL DEF GuardSpec

\* The writers and the claim have their types, and the lock of the sale excludes.
THEOREM TypeCorrect == GuardSpec => []GuardTypeOK
<1>1. GuardInv => GuardTypeOK
    BY DEF GuardInv
<1> QED BY <1>1, Invariant, PTL

\* No sale has both a void and an exchange once the claim exists, for any number of writers
\* at any isolation level (fn_sale_post_sale_claim).
THEOREM NeverBothAlways == GuardSpec => []NeverBoth
<1>1. GuardInv => NeverBoth
    BY GuardAssumption DEF GuardInv, GuardTypeOK, ClaimTellsRows, NeverBoth, Modes
<1> QED BY <1>1, Invariant, PTL

\* The claim of a sale is what its rows say, from the backfill on.
THEOREM ClaimAlwaysTellsRows == GuardSpec => []ClaimTellsRows
<1>1. GuardInv => ClaimTellsRows
    BY DEF GuardInv
<1> QED BY <1>1, Invariant, PTL
-----------------------------------------------------------------------------
(***************************************************************************)
(* The charges of a sale, for any number of transactions.  While an        *)
(* attempt is open its plan holds every unapplied collection, so whoever   *)
(* decides on the sale holds the rows a refund would need, and what a      *)
(* transaction decided on is still so when it commits.                     *)
(***************************************************************************)

Running == {"begun", "sale", "decided"}

\* Attempts and collections are made by the transaction they are named for, or after it.
SlotFresh(t) ==
    tx[t].stage # "gone" =>
        db.attempt[t] = Charges!NoAttempt /\ db.collection[t].status = "NONE"

\* What a transaction saw of the sale and its collections is what is there, but for refunds, as
\* long as the row of the sale has not been updated.
SnapshotSound(t) ==
    LET old == tx[t].old IN
    tx[t].stage \in Running =>
        /\ old.updates <= db.updates
        /\ Charges!HoldsSale(t) /\ Charges!Serializable(t) => old.updates = db.updates
        /\ old.updates = db.updates =>
              /\ old.status = db.status /\ old.attempt = db.attempt
              /\ \A c \in Txs :
                    \/ old.collection[c] = db.collection[c]
                    \/ /\ old.collection[c].updates < db.collection[c].updates
                       /\ db.collection[c].status = "REFUNDED"

TargetSound(t) ==
    tx[t].stage \in Running /\ tx[t].kind \notin {"reserve", "recover"} => tx[t].target \in Txs

DecidedReserve(t) ==
    /\ db.status = "PENDING_PAYMENT" /\ Charges!NoneOpen(db)
    /\ tx[t].held = Charges!Unapplied(db)

DecidedClose(t) ==
    Charges!Open(db, tx[t].target) /\ tx[t].held = db.attempt[tx[t].target].plan

DecidedConfirm(t) ==
    /\ db.attempt[tx[t].target].state = "RESERVED"
    /\ tx[t].held = db.attempt[tx[t].target].plan

DecidedRefund(t) ==
    /\ tx[t].held = {tx[t].target}
    /\ db.collection[tx[t].target].status = "UNAPPLIED"
    /\ db.collection[tx[t].target].claim = None

\* What a transaction decided on the rows it holds is still so.
DecisionSound(t) ==
    tx[t].stage = "decided" =>
        /\ tx[t].kind \in {"reserve", "recover"} => DecidedReserve(t)
        /\ tx[t].kind = "close" => DecidedClose(t)
        /\ tx[t].kind = "confirm" => DecidedConfirm(t)
        /\ tx[t].kind = "refund" => DecidedRefund(t)

ChargeSound(t) == SlotFresh(t) /\ SnapshotSound(t) /\ TargetSound(t) /\ DecisionSound(t)

\* The row of the sale is locked by one at a time, and so are those of its collections.
Apart(t, u) ==
    /\ Charges!HoldsSale(t) /\ Charges!HoldsSale(u) => t = u
    /\ tx[t].stage = "decided" /\ tx[u].stage = "decided" /\ t # u =>
          tx[t].held \cap tx[u].held = {}

\* What is open is not declared yet, and its charge is not recorded yet; what is confirmed has
\* settled the sale.
OpenSound(a) ==
    /\ db.attempt[a].state = "CONFIRMED" => db.status = "COMPLETED"
    /\ db.attempt[a].state = "RESERVED" => ~db.attempt[a].declared
    /\ Charges!Open(db, a) => db.collection[a].status = "NONE"

ChargesInv ==
    /\ db \in Charges!Rows
    /\ Charges!OneOpenAttempt /\ Charges!PlanHoldsCollections /\ Charges!SettledLeavesNothing
    /\ \A a \in Txs : OpenSound(a)

ChargeRecords ==
    [stage: {"none", "begun", "sale", "decided", "gone"}, kind: Charges!Kinds,
     target: Txs \cup {None}, flag: BOOLEAN, held: SUBSET Txs, old: Charges!Rows]

ChargeRaceInv ==
    /\ ChargesInv
    /\ tx \in [Txs -> ChargeRecords]
    /\ \A t \in Txs : ChargeSound(t)
    /\ \A t, u \in Txs : Apart(t, u)

LEMMA ChargeInitInv ==
    ASSUME None \notin Txs, Charges!Init
    PROVE  ChargeRaceInv
<1>1. Charges!NoAttempt \in Charges!Attempts /\ Charges!NoCollection \in Charges!Collections
    BY DEF Charges!NoAttempt, Charges!NoCollection, Charges!Attempts, Charges!Collections
<1>2. Charges!EmptyDb \in Charges!Rows
    BY <1>1 DEF Charges!EmptyDb, Charges!Rows
<1>3. /\ db = Charges!EmptyDb /\ db \in Charges!Rows
      /\ \A t \in Txs : tx[t].stage = "none"
      /\ tx \in [Txs -> ChargeRecords]
    BY <1>2 DEF Charges!Init, Charges!Unborn, Charges!Kinds, ChargeRecords
<1>4. /\ db.status = "PENDING_PAYMENT"
      /\ \A t \in Txs : db.attempt[t] = Charges!NoAttempt /\ db.collection[t] = Charges!NoCollection
    BY <1>3 DEF Charges!EmptyDb
<1>5. \A t \in Txs : /\ ~Charges!Open(db, t) /\ db.attempt[t].state = "NONE"
                     /\ db.collection[t].status = "NONE" /\ db.collection[t].claim = None
    BY <1>4 DEF Charges!Open, Charges!NoAttempt, Charges!NoCollection
<1>6. Charges!OneOpenAttempt /\ Charges!PlanHoldsCollections /\ Charges!SettledLeavesNothing
    BY <1>4, <1>5
       DEF Charges!OneOpenAttempt, Charges!PlanHoldsCollections, Charges!SettledLeavesNothing,
           Charges!Claims
<1>7. ChargesInv
    BY <1>3, <1>5, <1>6 DEF ChargesInv, OpenSound
<1>8. \A t \in Txs : ChargeSound(t)
    BY <1>3, <1>4, <1>5
       DEF ChargeSound, SlotFresh, SnapshotSound, TargetSound, DecisionSound, Running
<1>9. \A t, u \in Txs : Apart(t, u)
    BY <1>3 DEF Apart, Charges!HoldsSale
<1> QED BY <1>3, <1>7, <1>8, <1>9 DEF ChargeRaceInv

-----------------------------------------------------------------------------
(* A step of one transaction that writes nothing leaves the others as they were. *)

LEMMA QuietStep ==
    ASSUME ChargeRaceInv, UNCHANGED db,
           NEW t \in Txs, NEW r \in ChargeRecords, tx' = [tx EXCEPT ![t] = r],
           ChargeSound(t)',
           \A u \in Txs \ {t} : Apart(t, u)' /\ Apart(u, t)'
    PROVE  ChargeRaceInv'
<1>1. tx' \in [Txs -> ChargeRecords] /\ \A u \in Txs \ {t} : tx'[u] = tx[u]
    BY DEF ChargeRaceInv
<1>2. ChargesInv'
    BY DEF ChargeRaceInv, ChargesInv, OpenSound, Charges!OneOpenAttempt,
           Charges!PlanHoldsCollections, Charges!SettledLeavesNothing, Charges!Open,
           Charges!Claims, Charges!Unapplied, Charges!NoneOpen
<1>3. ASSUME NEW u \in Txs \ {t}
      PROVE  ChargeSound(u)'
  <2>1. ChargeSound(u) /\ tx'[u] = tx[u]
      BY <1>1, <1>3 DEF ChargeRaceInv
  <2>2. SlotFresh(u)' /\ TargetSound(u)'
      BY <2>1 DEF ChargeSound, SlotFresh, TargetSound
  <2>3. SnapshotSound(u)'
      BY <2>1 DEF ChargeSound, SnapshotSound, Charges!HoldsSale, Charges!Serializable
  <2>4. DecisionSound(u)'
      BY <2>1 DEF ChargeSound, DecisionSound, DecidedReserve, DecidedClose, DecidedConfirm,
                  DecidedRefund, Charges!Open, Charges!NoneOpen, Charges!Unapplied
  <2> QED BY <2>2, <2>3, <2>4 DEF ChargeSound
<1>4. ASSUME NEW u \in Txs, NEW v \in Txs
      PROVE  Apart(u, v)'
  <2>1. CASE u # t /\ v # t
      BY <1>1, <1>4, <2>1 DEF ChargeRaceInv, Apart, Charges!HoldsSale
  <2>2. CASE u = t /\ v = t
      BY <2>2 DEF Apart
  <2> QED BY <2>1, <2>2
<1> QED BY <1>1, <1>2, <1>3, <1>4 DEF ChargeRaceInv

LEMMA BeginKeeps ==
    ASSUME None \notin Txs, ChargeRaceInv, NEW t \in Txs, NEW kind \in Charges!Kinds,
           NEW target \in Txs \cup {None}, NEW flag \in BOOLEAN,
           Charges!Begin(t, kind, target, flag)
    PROVE  ChargeRaceInv'
<1> DEFINE r == [stage |-> IF kind = "refund" THEN "sale" ELSE "begun", kind |-> kind,
                 target |-> target, flag |-> flag, held |-> {}, old |-> db]
<1>1. r \in ChargeRecords
    BY DEF ChargeRaceInv, ChargesInv, ChargeRecords
<1>2. tx' = [tx EXCEPT ![t] = r] /\ UNCHANGED db
    BY DEF Charges!Begin
<1>3. tx'[t] = r /\ \A u \in Txs \ {t} : tx'[u] = tx[u]
    BY <1>2 DEF ChargeRaceInv
<1>4. tx[t].stage = "none" /\ (kind \notin {"reserve", "recover"} => target \in Txs)
    BY DEF Charges!Begin, Charges!Kinds
<1>5. tx'[t].stage # "decided" /\ ~Charges!HoldsSale(t)' /\ tx'[t].stage # "gone"
    BY <1>3 DEF Charges!HoldsSale
<1>6. ChargeSound(t)'
  <2>1. SlotFresh(t)'
      BY <1>2, <1>4 DEF SlotFresh, ChargeRaceInv, ChargeSound
  <2>2. SnapshotSound(t)'
    <3>1. tx'[t].old = db' /\ db'.updates \in Nat
        BY <1>2, <1>3 DEF ChargeRaceInv, ChargesInv, Charges!Rows
    <3> QED BY <1>5, <3>1 DEF SnapshotSound
  <2>3. TargetSound(t)'
      BY <1>3, <1>4 DEF TargetSound
  <2> QED BY <1>5, <2>1, <2>2, <2>3 DEF ChargeSound, DecisionSound
<1>7. \A u \in Txs \ {t} : Apart(t, u)' /\ Apart(u, t)'
    BY <1>5 DEF Apart
<1> HIDE DEF r
<1> QED BY <1>1, <1>2, <1>6, <1>7, QuietStep

LEMMA LockSaleKeeps ==
    ASSUME ChargeRaceInv, NEW t \in Txs, Charges!LockSale(t)
    PROVE  ChargeRaceInv'
<1> DEFINE r == [tx[t] EXCEPT !.stage = "sale"]
<1>1. r \in ChargeRecords
    BY DEF ChargeRaceInv, ChargeRecords
<1>2. tx' = [tx EXCEPT ![t] = r] /\ UNCHANGED db
    BY DEF Charges!LockSale
<1>3. tx'[t] = r /\ \A u \in Txs \ {t} : tx'[u] = tx[u]
    BY <1>2 DEF ChargeRaceInv
<1>4. tx[t].stage = "begun" /\ ~Charges!SaleChanged(t) /\ \A u \in Txs : ~Charges!HoldsSale(u)
    BY DEF Charges!LockSale, Charges!SaleFree
<1>5. /\ tx'[t].stage = "sale" /\ tx'[t].kind = tx[t].kind /\ tx'[t].target = tx[t].target
      /\ tx'[t].old = tx[t].old
    BY <1>1, <1>3 DEF ChargeRaceInv, ChargeRecords
<1>6. ChargeSound(t)'
    BY <1>2, <1>4, <1>5
       DEF ChargeRaceInv, ChargeSound, SlotFresh, SnapshotSound, TargetSound, DecisionSound,
           Charges!SaleChanged, Charges!Serializable, Running
<1>7. \A u \in Txs \ {t} : Apart(t, u)' /\ Apart(u, t)'
    BY <1>3, <1>4, <1>5 DEF Apart, Charges!HoldsSale
<1> HIDE DEF r
<1> QED BY <1>1, <1>2, <1>6, <1>7, QuietStep

LEMMA RollbackKeeps ==
    ASSUME ChargeRaceInv, NEW t \in Txs, Charges!Rollback(t)
    PROVE  ChargeRaceInv'
<1> DEFINE r == [Charges!Unborn EXCEPT !.stage = "gone"]
<1>1. r \in ChargeRecords
  <2>1. Charges!NoAttempt \in Charges!Attempts /\ Charges!NoCollection \in Charges!Collections
      BY DEF Charges!NoAttempt, Charges!NoCollection, Charges!Attempts, Charges!Collections
  <2>2. Charges!EmptyDb \in Charges!Rows
      BY <2>1 DEF Charges!EmptyDb, Charges!Rows
  <2> QED BY <2>2 DEF Charges!Unborn, Charges!Kinds, ChargeRecords
<1>2. tx' = [tx EXCEPT ![t] = r] /\ UNCHANGED db
    BY DEF Charges!Rollback
<1>3. tx'[t].stage = "gone"
    BY <1>2 DEF ChargeRaceInv, Charges!Unborn
<1>4. ChargeSound(t)'
    BY <1>3 DEF ChargeSound, SlotFresh, SnapshotSound, TargetSound, DecisionSound, Running
<1>5. \A u \in Txs \ {t} : Apart(t, u)' /\ Apart(u, t)'
    BY <1>3 DEF Apart, Charges!HoldsSale
<1> HIDE DEF r
<1> QED BY <1>1, <1>2, <1>4, <1>5, QuietStep

\* A snapshot that has not been overtaken shows the same attempts, and the same collections on
\* the rows that were locked without a conflict.
LEMMA CurrentView ==
    ASSUME ChargeRaceInv, NEW t \in Txs, tx[t].stage = "sale", Charges!Serializable(t)
    PROVE  /\ tx[t].old.status = db.status /\ tx[t].old.attempt = db.attempt
           /\ \A c \in Txs : db.collection[c].status # "REFUNDED" =>
                 tx[t].old.collection[c] = db.collection[c]
           /\ \A c \in Txs : ~Charges!CollectionChanged(t, c) =>
                 tx[t].old.collection[c] = db.collection[c]
<1>1. ChargeSound(t) /\ Charges!HoldsSale(t)
    BY DEF ChargeRaceInv, Charges!HoldsSale, Charges!Serializable
<1>2. tx[t].old.updates = db.updates
    BY <1>1 DEF ChargeSound, SnapshotSound, Running
<1>3. /\ tx[t].old.status = db.status /\ tx[t].old.attempt = db.attempt
      /\ \A c \in Txs :
            \/ tx[t].old.collection[c] = db.collection[c]
            \/ /\ tx[t].old.collection[c].updates < db.collection[c].updates
               /\ db.collection[c].status = "REFUNDED"
    BY <1>1, <1>2 DEF ChargeSound, SnapshotSound, Running
<1>4. \A c \in Txs : db.collection[c].updates \in Nat /\ tx[t].old.collection[c].updates \in Nat
    BY DEF ChargeRaceInv, ChargesInv, ChargeRecords, Charges!Rows, Charges!Collections
<1> QED BY <1>3, <1>4 DEF Charges!CollectionChanged

LEMMA DecisionHolds ==
    ASSUME ChargeRaceInv, NEW t \in Txs, Charges!LockCollections(t),
           tx'[t] = [tx[t] EXCEPT !.stage = "decided", !.held = Charges!Selected(t)]
    PROVE  DecisionSound(t)'
<1>1. /\ tx[t].stage = "sale" /\ Charges!May(t) /\ UNCHANGED db
      /\ \A c \in Charges!Selected(t) : ~Charges!CollectionChanged(t, c)
      /\ tx'[t].kind = tx[t].kind /\ tx'[t].target = tx[t].target
      /\ tx'[t].held = Charges!Selected(t)
    BY DEF Charges!LockCollections, ChargeRaceInv, ChargeRecords
<1>2. CASE tx[t].kind = "reserve"
  <2>1. Charges!View(t) = db
      BY <1>2 DEF Charges!View, Charges!Serializable
  <2>2. DecidedReserve(t)'
      BY <1>1, <1>2, <2>1
         DEF Charges!May, Charges!MayReserve, Charges!Selected, DecidedReserve,
             Charges!NoneOpen, Charges!Open, Charges!Unapplied
  <2> QED BY <1>1, <1>2, <2>2 DEF DecisionSound
<1>3. CASE tx[t].kind = "recover"
  <2>1. Charges!View(t) = tx[t].old /\ Charges!Serializable(t)
      BY <1>3 DEF Charges!View, Charges!Serializable
  <2>2. tx'[t].held = Charges!Unapplied(tx[t].old)
      BY <1>1, <1>3, <2>1 DEF Charges!Selected
  <2>3. Charges!Unapplied(tx[t].old) = Charges!Unapplied(db)
    <3>1. \A c \in Txs : tx[t].old.collection[c].status = "UNAPPLIED" =>
              tx[t].old.collection[c] = db.collection[c]
        BY <1>1, <2>1, <2>2, CurrentView DEF Charges!Unapplied
    <3>2. \A c \in Txs : db.collection[c].status = "UNAPPLIED" =>
              tx[t].old.collection[c] = db.collection[c]
        BY <1>1, <2>1, CurrentView
    <3> QED BY <3>1, <3>2 DEF Charges!Unapplied
  <2>4. tx[t].old.status = "PENDING_PAYMENT" /\ Charges!NoneOpen(tx[t].old)
      BY <1>1, <1>3, <2>1 DEF Charges!May, Charges!MayRecover, Charges!MayReserve
  <2>5. DecidedReserve(t)'
      BY <1>1, <2>1, <2>2, <2>3, <2>4, CurrentView
         DEF DecidedReserve, Charges!NoneOpen, Charges!Open, Charges!Unapplied
  <2> QED BY <1>1, <1>3, <2>5 DEF DecisionSound
<1>4. CASE tx[t].kind = "close"
  <2>1. Charges!View(t) = db
      BY <1>4 DEF Charges!View, Charges!Serializable
  <2>2. DecidedClose(t)'
      BY <1>1, <1>4, <2>1
         DEF Charges!May, Charges!MayClose, Charges!Selected, DecidedClose, Charges!Open
  <2> QED BY <1>1, <1>4, <2>2 DEF DecisionSound
<1>5. CASE tx[t].kind = "confirm"
  <2>1. Charges!View(t) = tx[t].old /\ Charges!Serializable(t)
      BY <1>5 DEF Charges!View, Charges!Serializable
  <2>2. tx[t].old.attempt = db.attempt
      BY <1>1, <2>1, CurrentView
  <2>3. DecidedConfirm(t)'
      BY <1>1, <1>5, <2>1, <2>2
         DEF Charges!May, Charges!MayConfirm, Charges!Selected, DecidedConfirm
  <2> QED BY <1>1, <1>5, <2>3 DEF DecisionSound
<1>6. CASE tx[t].kind = "refund"
  <2>1. DecidedRefund(t)'
      BY <1>1, <1>6 DEF Charges!May, Charges!MayRefund, Charges!Selected, DecidedRefund
  <2> QED BY <1>1, <1>6, <2>1 DEF DecisionSound
<1>7. tx[t].kind \in Charges!Kinds
    BY DEF ChargeRaceInv, ChargeRecords
<1> QED BY <1>2, <1>3, <1>4, <1>5, <1>6, <1>7 DEF Charges!Kinds

LEMMA LockCollectionsKeeps ==
    ASSUME ChargeRaceInv, NEW t \in Txs, Charges!LockCollections(t)
    PROVE  ChargeRaceInv'
<1> DEFINE r == [tx[t] EXCEPT !.stage = "decided", !.held = Charges!Selected(t)]
<1>1. Charges!Selected(t) \subseteq Txs
  <2>1. tx[t].kind \in Charges!Kinds /\ tx[t].stage = "sale"
        /\ tx[t].old \in Charges!Rows /\ db \in Charges!Rows /\ TargetSound(t)
      BY DEF ChargeRaceInv, ChargesInv, ChargeRecords, ChargeSound, Charges!LockCollections
  <2>2. Charges!View(t) \in Charges!Rows
      BY <2>1 DEF Charges!View
  <2>3. CASE tx[t].kind \in {"reserve", "recover"}
      BY <2>3 DEF Charges!Selected, Charges!Unapplied
  <2>4. CASE tx[t].kind \in {"close", "confirm"}
    <3>1. tx[t].target \in Txs
        BY <2>1, <2>4 DEF TargetSound, Running
    <3>2. Charges!View(t).attempt[tx[t].target] \in Charges!Attempts
        BY <2>2, <3>1 DEF Charges!Rows
    <3> QED BY <2>4, <3>2 DEF Charges!Selected, Charges!Attempts
  <2>5. CASE tx[t].kind = "refund"
      BY <2>1, <2>5 DEF Charges!Selected, TargetSound, Running
  <2> QED BY <2>1, <2>3, <2>4, <2>5 DEF Charges!Kinds
<1>2. r \in ChargeRecords
  <2>1. tx[t] \in ChargeRecords /\ Charges!Selected(t) \in SUBSET Txs
      BY <1>1 DEF ChargeRaceInv
  <2> QED BY <2>1 DEF ChargeRecords
<1>3. tx' = [tx EXCEPT ![t] = r] /\ UNCHANGED db
    BY DEF Charges!LockCollections, ChargeRaceInv
<1>4. tx'[t] = r /\ \A u \in Txs \ {t} : tx'[u] = tx[u]
    BY <1>3 DEF ChargeRaceInv
<1>5. tx[t].stage = "sale"
    BY DEF Charges!LockCollections
<1>6. /\ tx'[t].stage = "decided" /\ tx'[t].kind = tx[t].kind /\ tx'[t].target = tx[t].target
      /\ tx'[t].old = tx[t].old /\ tx'[t].held = Charges!Selected(t)
    BY <1>4 DEF ChargeRaceInv, ChargeRecords
<1>7. ChargeSound(t)'
  <2>1. DecisionSound(t)'
      BY <1>4, DecisionHolds
  <2>2. SlotFresh(t)' /\ SnapshotSound(t)' /\ TargetSound(t)'
      BY <1>3, <1>5, <1>6
         DEF ChargeRaceInv, ChargeSound, SlotFresh, SnapshotSound, TargetSound,
             Charges!HoldsSale, Charges!Serializable, Running
  <2> QED BY <2>1, <2>2 DEF ChargeSound
<1>8. ASSUME NEW u \in Txs \ {t}
      PROVE  Apart(t, u)' /\ Apart(u, t)'
  <2>1. tx[u].stage = "decided" => Charges!Selected(t) \cap tx[u].held = {}
      BY <1>8 DEF Charges!LockCollections
  <2>2. Charges!HoldsSale(t)' => Charges!HoldsSale(t)
      BY <1>5, <1>6 DEF Charges!HoldsSale
  <2>3. Charges!HoldsSale(u)' <=> Charges!HoldsSale(u)
      BY <1>4, <1>8 DEF Charges!HoldsSale
  <2>4. tx'[u] = tx[u]
      BY <1>4, <1>8
  <2> QED BY <1>6, <1>8, <2>1, <2>2, <2>3, <2>4 DEF ChargeRaceInv, Apart
<1> HIDE DEF r
<1> QED BY <1>2, <1>3, <1>7, <1>8, QuietStep

-----------------------------------------------------------------------------
(* Commits *)

\* A collection nobody claims: no attempt is open.
LEMMA UnclaimedMeansNoneOpen ==
    ASSUME None \notin Txs, ChargeRaceInv, NEW c \in Txs,
           db.collection[c].status = "UNAPPLIED", db.collection[c].claim = None
    PROVE  Charges!NoneOpen(db)
<1>1. ASSUME NEW a \in Txs, Charges!Open(db, a)
      PROVE  FALSE
  <2>1. c \in db.attempt[a].plan
      BY <1>1 DEF ChargeRaceInv, ChargesInv, Charges!PlanHoldsCollections, Charges!Unapplied
  <2>2. db.collection[c].claim = a
      BY <1>1, <2>1
         DEF ChargeRaceInv, ChargesInv, Charges!PlanHoldsCollections, Charges!Claims
  <2> QED BY <2>2
<1> QED BY <1>1 DEF Charges!NoneOpen

\* Whoever decided on the sale holds every unapplied collection.
LEMMA HoldsUnapplied ==
    ASSUME ChargeRaceInv, NEW t \in Txs, tx[t].stage = "decided", tx[t].kind # "refund"
    PROVE  /\ tx[t].held = Charges!Unapplied(db)
           /\ tx[t].kind \in {"close", "confirm"} => Charges!Open(db, tx[t].target)
<1>1. DecisionSound(t) /\ TargetSound(t) /\ tx[t].kind \in Charges!Kinds
    BY DEF ChargeRaceInv, ChargeSound, ChargeRecords
<1>2. CASE tx[t].kind \in {"reserve", "recover"}
    BY <1>1, <1>2 DEF DecisionSound, DecidedReserve
<1>3. CASE tx[t].kind \in {"close", "confirm"}
  <2>1. tx[t].target \in Txs
      BY <1>1, <1>3 DEF TargetSound, Running
  <2>2. Charges!Open(db, tx[t].target) /\ tx[t].held = db.attempt[tx[t].target].plan
      BY <1>1, <1>3, <2>1
         DEF DecisionSound, DecidedClose, DecidedConfirm, ChargeRaceInv, ChargesInv, OpenSound,
             Charges!Open
  <2> QED BY <1>3, <2>1, <2>2 DEF ChargeRaceInv, ChargesInv, Charges!PlanHoldsCollections
<1> QED BY <1>1, <1>2, <1>3 DEF Charges!Kinds

\* So nobody else has decided anything.
LEMMA AloneDecided ==
    ASSUME None \notin Txs, ChargeRaceInv, NEW t \in Txs, NEW u \in Txs \ {t},
           tx[t].stage = "decided", tx[u].stage = "decided"
    PROVE  tx[t].kind = "refund" /\ tx[u].kind = "refund"
<1>1. ASSUME NEW v \in Txs, NEW w \in Txs \ {v}, tx[v].stage = "decided", tx[w].stage = "decided",
             tx[v].kind # "refund", tx[w].kind = "refund"
      PROVE  FALSE
  <2>1. DecidedRefund(w) /\ tx[w].target \in Txs
      BY <1>1 DEF ChargeRaceInv, ChargeSound, DecisionSound, TargetSound, Running
  <2>2. tx[w].target \in Charges!Unapplied(db) /\ tx[w].target \in tx[w].held
      BY <2>1 DEF DecidedRefund, Charges!Unapplied
  <2>3. tx[w].target \in tx[v].held
      BY <1>1, <2>2, HoldsUnapplied
  <2> QED BY <1>1, <2>2, <2>3 DEF ChargeRaceInv, Apart
<1>2. tx[t].kind = "refund" \/ tx[u].kind = "refund"
    BY DEF ChargeRaceInv, Apart, Charges!HoldsSale
<1> QED BY <1>1, <1>2

\* A commit on the sale overtakes every snapshot, and nobody else has locked the sale.
LEMMA ChargeCommitStep ==
    ASSUME None \notin Txs, ChargeRaceInv, NEW t \in Txs, tx[t].stage = "decided",
           tx[t].kind # "refund", Charges!Commit(t), ChargesInv', db'.updates = db.updates + 1,
           \A u \in Txs \ {t} : tx[u].stage # "gone" =>
               /\ db'.attempt[u] = db.attempt[u]
               /\ db'.collection[u].status = db.collection[u].status
    PROVE  ChargeRaceInv'
<1>1. [Charges!Unborn EXCEPT !.stage = "gone"] \in ChargeRecords
  <2>1. Charges!NoAttempt \in Charges!Attempts /\ Charges!NoCollection \in Charges!Collections
      BY DEF Charges!NoAttempt, Charges!NoCollection, Charges!Attempts, Charges!Collections
  <2>2. Charges!EmptyDb \in Charges!Rows
      BY <2>1 DEF Charges!EmptyDb, Charges!Rows
  <2> QED BY <2>2 DEF Charges!Unborn, Charges!Kinds, ChargeRecords
<1>2. /\ tx' \in [Txs -> ChargeRecords] /\ tx'[t].stage = "gone"
      /\ \A u \in Txs \ {t} : tx'[u] = tx[u]
    BY <1>1 DEF Charges!Commit, ChargeRaceInv, Charges!Unborn
<1>3. ASSUME NEW u \in Txs \ {t}
      PROVE  ChargeSound(u)'
  <2>1. ChargeSound(u) /\ tx[u] \in ChargeRecords /\ tx'[u] = tx[u]
      BY <1>2, <1>3 DEF ChargeRaceInv
  <2>2. ~Charges!HoldsSale(u) /\ tx[u].stage # "decided"
      BY <1>3, AloneDecided DEF ChargeRaceInv, Apart, Charges!HoldsSale
  <2>3. SlotFresh(u)'
      BY <1>3, <2>1 DEF ChargeSound, SlotFresh
  <2>4. tx[u].stage \in Running => tx[u].old.updates < db'.updates
    <3>1. tx[u].old.updates \in Nat /\ db.updates \in Nat
        BY <2>1 DEF ChargeRaceInv, ChargesInv, ChargeRecords, Charges!Rows
    <3> QED BY <2>1, <3>1 DEF ChargeSound, SnapshotSound
  <2>5. SnapshotSound(u)'
    <3>1. tx[u].old.updates \in Nat /\ db'.updates \in Nat
        BY <2>1 DEF ChargesInv, ChargeRecords, Charges!Rows
    <3> QED BY <2>1, <2>2, <2>4, <3>1 DEF SnapshotSound, Charges!HoldsSale
  <2> QED BY <2>1, <2>2, <2>3, <2>5 DEF ChargeSound, TargetSound, DecisionSound
<1>4. ChargeSound(t)'
    BY <1>2 DEF ChargeSound, SlotFresh, SnapshotSound, TargetSound, DecisionSound, Running
<1>5. ASSUME NEW u \in Txs, NEW v \in Txs
      PROVE  Apart(u, v)'
    BY <1>2, <1>5 DEF ChargeRaceInv, Apart, Charges!HoldsSale
<1> QED BY <1>2, <1>3, <1>4, <1>5 DEF ChargeRaceInv

\* A row that is written keeps its shape.
LEMMA HeldRows ==
    ASSUME ChargeRaceInv, NEW c \in Txs,
           NEW status \in {"NONE", "UNAPPLIED", "APPLIED", "REFUNDED"}, NEW claim \in Txs \cup {None}
    PROVE  /\ Charges!Row(c, status, claim) \in Charges!Collections
           /\ Charges!Row(c, status, claim).status = status
           /\ Charges!Row(c, status, claim).claim = claim
           /\ Charges!Row(c, status, claim).updates = db.collection[c].updates + 1
<1>1. db.collection[c].updates + 1 \in Nat
    BY DEF ChargeRaceInv, ChargesInv, Charges!Rows, Charges!Collections
<1> QED BY <1>1 DEF Charges!Row, Charges!Collections

LEMMA Written ==
    ASSUME ChargeRaceInv, NEW t \in Txs, tx[t].kind # "refund",
           NEW status \in {"PENDING_PAYMENT", "COMPLETED"}, NEW attempt \in [Txs -> Charges!Attempts],
           NEW collection \in [Txs -> Charges!Collections],
           db' = Charges!Write(t, status, attempt, collection)
    PROVE  /\ db' \in Charges!Rows
           /\ db'.status = status /\ db'.attempt = attempt /\ db'.collection = collection
           /\ db'.updates = db.updates + 1
<1>1. db.updates + 1 \in Nat
    BY DEF ChargeRaceInv, ChargesInv, Charges!Rows
<1>2. Charges!TouchesSale(t)
    BY DEF Charges!TouchesSale
<1> QED BY <1>1, <1>2 DEF Charges!Write, Charges!Rows

LEMMA RowsTyped ==
    ASSUME ChargeRaceInv
    PROVE  /\ db \in Charges!Rows /\ db.status \in {"PENDING_PAYMENT", "COMPLETED"}
           /\ db.attempt \in [Txs -> Charges!Attempts]
           /\ db.collection \in [Txs -> Charges!Collections]
           /\ \A c \in Txs : /\ db.attempt[c] \in Charges!Attempts
                             /\ db.collection[c] \in Charges!Collections
                             /\ db.collection[c].status \in {"NONE", "UNAPPLIED", "APPLIED", "REFUNDED"}
                             /\ db.collection[c].claim \in Txs \cup {None}
BY DEF ChargeRaceInv, ChargesInv, Charges!Rows, Charges!Collections

\* No collection is claimed while no attempt is open and the sale is not settled.
LEMMA NothingClaimed ==
    ASSUME ChargeRaceInv, Charges!NoneOpen(db), db.status # "COMPLETED", NEW c \in Txs
    PROVE  db.collection[c].claim = None
BY RowsTyped
   DEF ChargeRaceInv, ChargesInv, OpenSound, Charges!PlanHoldsCollections, Charges!NoneOpen,
       Charges!Claims

\* Money that was applied or returned stays so, and a settled sale gets no other confirmation.
Resolved ==
    /\ \A c \in Txs : db.collection[c].status \in {"APPLIED", "REFUNDED"} =>
          db'.collection[c].status = db.collection[c].status
    /\ db.status = "COMPLETED" => \A a \in Txs :
          db'.attempt[a].state = "CONFIRMED" <=> db.attempt[a].state = "CONFIRMED"

\* What T-R and T-RR write, and on what they decided.
LEMMA ReserveWrites ==
    ASSUME None \notin Txs, ChargeRaceInv, NEW t \in Txs, Charges!Commit(t),
           tx[t].kind \in {"reserve", "recover"}
    PROVE  /\ db.status = "PENDING_PAYMENT" /\ Charges!NoneOpen(db)
           /\ tx[t].stage = "decided" /\ tx[t].held = Charges!Unapplied(db)
           /\ db.attempt[t] = Charges!NoAttempt /\ db.collection[t].status = "NONE"
           /\ db' \in Charges!Rows /\ db'.status = db.status /\ db'.updates = db.updates + 1
           /\ db'.attempt[t].state = "RESERVED" /\ db'.attempt[t].plan = tx[t].held
           /\ ~db'.attempt[t].declared
           /\ \A a \in Txs \ {t} : db'.attempt[a] = db.attempt[a]
           /\ \A c \in Txs :
                 /\ db'.collection[c].status = db.collection[c].status
                 /\ db'.collection[c].claim = IF c \in tx[t].held THEN t ELSE db.collection[c].claim
<1> DEFINE new == [state |-> "RESERVED", plan |-> tx[t].held,
                   fresh |-> tx[t].flag /\ tx[t].kind = "reserve", declared |-> FALSE]
           attempt == [db.attempt EXCEPT ![t] = new]
           collection == [c \in Txs |-> IF c \in tx[t].held
                              THEN Charges!Row(c, db.collection[c].status, t)
                              ELSE db.collection[c]]
<1>1. /\ tx[t] \in ChargeRecords /\ tx[t].stage = "decided" /\ ChargeSound(t)
      /\ db' = Charges!Write(t, db.status, attempt, collection)
    BY DEF ChargeRaceInv, Charges!Commit, Charges!Written, Charges!Reserved, Charges!UpdateHeld
<1>2. db.status = "PENDING_PAYMENT" /\ Charges!NoneOpen(db) /\ tx[t].held = Charges!Unapplied(db)
    BY <1>1 DEF ChargeSound, DecisionSound, DecidedReserve
<1>3. db.attempt[t] = Charges!NoAttempt /\ db.collection[t].status = "NONE"
    BY <1>1 DEF ChargeSound, SlotFresh
<1>4. new \in Charges!Attempts /\ new.state = "RESERVED" /\ new.plan = tx[t].held /\ ~new.declared
  <2>1. (tx[t].flag /\ tx[t].kind = "reserve") \in BOOLEAN
      OBVIOUS
  <2> QED BY <1>1, <2>1 DEF Charges!Attempts, ChargeRecords
<1> HIDE DEF new
<1>5. attempt \in [Txs -> Charges!Attempts] /\ attempt[t] = new
      /\ \A a \in Txs \ {t} : attempt[a] = db.attempt[a]
    BY <1>4, RowsTyped
<1>6. ASSUME NEW c \in Txs
      PROVE  /\ collection[c] \in Charges!Collections
             /\ collection[c].status = db.collection[c].status
             /\ collection[c].claim = IF c \in tx[t].held THEN t ELSE db.collection[c].claim
  <2>1. CASE c \in tx[t].held
    <3> DEFINE row == Charges!Row(c, db.collection[c].status, t)
    <3>1. db.collection[c].status \in {"NONE", "UNAPPLIED", "APPLIED", "REFUNDED"}
        BY RowsTyped
    <3>2. row \in Charges!Collections /\ row.status = db.collection[c].status /\ row.claim = t
        BY <3>1, HeldRows
    <3>3. collection[c] = row
        BY <2>1
    <3> HIDE DEF collection, row
    <3> QED BY <2>1, <3>2, <3>3
  <2>2. CASE c \notin tx[t].held
      BY <2>2, RowsTyped
  <2> QED BY <2>1, <2>2
<1>7. collection \in [Txs -> Charges!Collections]
    BY <1>6
<1> HIDE DEF attempt, collection
<1>8. /\ db' \in Charges!Rows /\ db'.status = db.status
      /\ db'.attempt = attempt /\ db'.collection = collection /\ db'.updates = db.updates + 1
    BY <1>1, <1>5, <1>7, RowsTyped, Written
<1> QED BY <1>1, <1>2, <1>3, <1>4, <1>5, <1>6, <1>8

LEMMA ReserveKeeps ==
    ASSUME None \notin Txs, ChargeRaceInv, NEW t \in Txs, Charges!Commit(t),
           tx[t].kind \in {"reserve", "recover"}
    PROVE  ChargeRaceInv' /\ Resolved
<1>1. /\ db.status = "PENDING_PAYMENT" /\ Charges!NoneOpen(db)
      /\ tx[t].stage = "decided" /\ tx[t].held = Charges!Unapplied(db)
      /\ db.attempt[t] = Charges!NoAttempt /\ db.collection[t].status = "NONE"
    BY ReserveWrites
<1>2. /\ db' \in Charges!Rows /\ db'.status = db.status /\ db'.updates = db.updates + 1
      /\ db'.attempt[t].state = "RESERVED" /\ db'.attempt[t].plan = tx[t].held
      /\ ~db'.attempt[t].declared
      /\ \A a \in Txs \ {t} : db'.attempt[a] = db.attempt[a]
    BY ReserveWrites
<1>3. \A c \in Txs :
         /\ db'.collection[c].status = db.collection[c].status
         /\ db'.collection[c].claim = IF c \in tx[t].held THEN t ELSE db.collection[c].claim
    BY ReserveWrites
<1>4. \A a \in Txs : Charges!Open(db, a)' <=> a = t
    BY <1>1, <1>2 DEF Charges!Open, Charges!NoneOpen
<1>5. Charges!Unapplied(db)' = tx[t].held
    BY <1>1, <1>3 DEF Charges!Unapplied
<1>6. ChargesInv'
  <2>1. Charges!OneOpenAttempt'
      BY <1>4 DEF Charges!OneOpenAttempt
  <2>2. Charges!PlanHoldsCollections'
    <3>1. \A a \in Txs : Charges!Open(db, a)' => db'.attempt[a].plan = Charges!Unapplied(db)'
        BY <1>2, <1>4, <1>5
    <3>2. \A c \in Txs : db'.collection[c].claim = IF c \in tx[t].held THEN t ELSE None
        BY <1>1, <1>3, NothingClaimed
    <3>3. \A a \in Txs : Charges!Claims(db, a)' <=> a = t
      <4>1. \A a \in Txs \ {t} : db'.attempt[a].state # "CONFIRMED"
          BY <1>1, <1>2 DEF ChargeRaceInv, ChargesInv, OpenSound
      <4> QED BY <1>4, <4>1 DEF Charges!Claims
    <3> QED BY <1>2, <3>1, <3>2, <3>3 DEF Charges!PlanHoldsCollections
  <2>3. Charges!SettledLeavesNothing'
      BY <1>1, <1>2 DEF Charges!SettledLeavesNothing
  <2>4. \A a \in Txs : OpenSound(a)'
      BY <1>1, <1>2, <1>3, <1>4 DEF OpenSound, ChargeRaceInv, ChargesInv
  <2> QED BY <1>2, <2>1, <2>2, <2>3, <2>4 DEF ChargesInv
<1>7. Resolved
    BY <1>1, <1>2, <1>3 DEF Resolved
<1>8. tx[t].kind # "refund"
    OBVIOUS
<1> QED BY <1>1, <1>2, <1>3, <1>6, <1>7, <1>8, ChargeCommitStep

\* What T-X writes, and on what it decided.
LEMMA CloseWrites ==
    ASSUME None \notin Txs, ChargeRaceInv, NEW t \in Txs, Charges!Commit(t), tx[t].kind = "close"
    PROVE  LET a == tx[t].target IN
           /\ a \in Txs /\ Charges!Open(db, a) /\ \A b \in Txs \ {a} : ~Charges!Open(db, b)
           /\ db.status = "PENDING_PAYMENT" /\ db.collection[a].status = "NONE"
           /\ tx[t].stage = "decided"
           /\ db' \in Charges!Rows /\ db'.status = db.status /\ db'.updates = db.updates + 1
           /\ db'.attempt[a].state \in {"ABANDONED", "REJECTED"} /\ db'.attempt[a].declared
           /\ db'.attempt[a].plan = db.attempt[a].plan
           /\ \A b \in Txs \ {a} : db'.attempt[b] = db.attempt[b]
           /\ \A c \in Txs \ {a} : db'.collection[c].status = db.collection[c].status
           /\ db'.collection[a].status \in {"NONE", "UNAPPLIED"}
           /\ \A c \in Txs : db.collection[c].claim \in {a, None} /\ db'.collection[c].claim = None
<1> DEFINE a == tx[t].target
           old == db.attempt[a]
           new == [plan |-> old.plan, fresh |-> old.fresh, declared |-> TRUE,
                   state |-> IF old.state = "RESERVED" THEN "ABANDONED" ELSE old.state]
           attempt == [db.attempt EXCEPT ![a] = new]
           released == [c \in Txs |-> IF c \in tx[t].held
                            THEN Charges!Row(c, db.collection[c].status, None)
                            ELSE db.collection[c]]
           collection == IF db.attempt[a].fresh /\ tx[t].flag
                         THEN [released EXCEPT ![a].status = "UNAPPLIED"] ELSE released
<1>1. /\ tx[t].stage = "decided" /\ ChargeSound(t)
      /\ db' = Charges!Write(t, db.status, attempt, collection)
  <2>1. db' = Charges!Closed(t)
      BY DEF Charges!Commit, Charges!Written
  <2>2. Charges!Closed(t) = Charges!Write(t, db.status, attempt, collection)
      BY Zenon DEF Charges!Closed, Charges!UpdateHeld
  <2> QED BY <2>1, <2>2 DEF ChargeRaceInv, Charges!Commit
<1>2. a \in Txs /\ Charges!Open(db, a) /\ tx[t].held = Charges!Unapplied(db)
    BY <1>1, HoldsUnapplied DEF ChargeSound, TargetSound, Running
<1>3. /\ db.collection[a].status = "NONE" /\ db.status = "PENDING_PAYMENT"
      /\ db.attempt[a].state \in {"RESERVED", "REJECTED"}
      /\ \A b \in Txs \ {a} : ~Charges!Open(db, b)
    BY <1>2, RowsTyped
       DEF ChargeRaceInv, ChargesInv, OpenSound, Charges!OneOpenAttempt,
           Charges!SettledLeavesNothing, Charges!NoneOpen, Charges!Open
<1>4. /\ new \in Charges!Attempts /\ new.declared /\ new.state \in {"ABANDONED", "REJECTED"}
      /\ new.plan = old.plan
  <2>1. old.plan \in SUBSET Txs /\ old.fresh \in BOOLEAN
      BY <1>2, RowsTyped DEF Charges!Attempts
  <2>2. (IF old.state = "RESERVED" THEN "ABANDONED" ELSE old.state) \in {"ABANDONED", "REJECTED"}
      BY <1>3
  <2> HIDE DEF old
  <2> QED BY <2>1, <2>2 DEF Charges!Attempts
<1>5. \A c \in Txs : db.collection[c].claim \in {a, None}
                     /\ (db.collection[c].claim = a => c \in tx[t].held)
    BY <1>2, <1>3, RowsTyped
       DEF ChargeRaceInv, ChargesInv, OpenSound, Charges!PlanHoldsCollections, Charges!Claims
<1> HIDE DEF new
<1>6. attempt \in [Txs -> Charges!Attempts] /\ attempt[a] = new
      /\ \A b \in Txs \ {a} : attempt[b] = db.attempt[b]
    BY <1>2, <1>4, RowsTyped
<1>7. ASSUME NEW c \in Txs
      PROVE  /\ released[c] \in Charges!Collections
             /\ released[c].status = db.collection[c].status
             /\ released[c].claim = None
  <2>1. CASE c \in tx[t].held
    <3> DEFINE row == Charges!Row(c, db.collection[c].status, None)
    <3>1. db.collection[c].status \in {"NONE", "UNAPPLIED", "APPLIED", "REFUNDED"}
        BY RowsTyped
    <3>2. row \in Charges!Collections /\ row.status = db.collection[c].status /\ row.claim = None
        BY <3>1, HeldRows
    <3>3. released[c] = row
        BY <2>1
    <3> HIDE DEF released, row
    <3> QED BY <3>2, <3>3
  <2>2. CASE c \notin tx[t].held
      BY <1>5, <2>2, RowsTyped
  <2> QED BY <2>1, <2>2
<1>8. released \in [Txs -> Charges!Collections]
    BY <1>7
<1> HIDE DEF released
<1>9. /\ collection \in [Txs -> Charges!Collections]
      /\ \A c \in Txs : collection[c].claim = None
      /\ \A c \in Txs \ {a} : collection[c].status = db.collection[c].status
      /\ collection[a].status \in {"NONE", "UNAPPLIED"}
  <2>1. released[a] \in Charges!Collections
      BY <1>2, <1>7
  <2>2. [released[a] EXCEPT !.status = "UNAPPLIED"] \in Charges!Collections
        /\ [released[a] EXCEPT !.status = "UNAPPLIED"].status = "UNAPPLIED"
        /\ [released[a] EXCEPT !.status = "UNAPPLIED"].claim = released[a].claim
      BY <2>1 DEF Charges!Collections
  <2>3. CASE db.attempt[a].fresh /\ tx[t].flag
    <3>1. collection = [released EXCEPT ![a] = [released[a] EXCEPT !.status = "UNAPPLIED"]]
        BY <2>3
    <3> HIDE DEF collection
    <3> QED BY <1>2, <1>7, <1>8, <2>2, <3>1
  <2>4. CASE ~(db.attempt[a].fresh /\ tx[t].flag)
      BY <1>2, <1>3, <1>7, <1>8, <2>4
  <2> QED BY <2>3, <2>4
<1> HIDE DEF attempt, collection
<1>10. /\ db' \in Charges!Rows /\ db'.status = db.status
       /\ db'.attempt = attempt /\ db'.collection = collection /\ db'.updates = db.updates + 1
    BY <1>1, <1>6, <1>9, RowsTyped, Written
<1> QED BY <1>1, <1>2, <1>3, <1>4, <1>5, <1>6, <1>9, <1>10

LEMMA CloseKeeps ==
    ASSUME None \notin Txs, ChargeRaceInv, NEW t \in Txs, Charges!Commit(t), tx[t].kind = "close"
    PROVE  ChargeRaceInv' /\ Resolved
<1> DEFINE a == tx[t].target
<1>1. /\ a \in Txs /\ Charges!Open(db, a) /\ \A b \in Txs \ {a} : ~Charges!Open(db, b)
      /\ db.status = "PENDING_PAYMENT" /\ db.collection[a].status = "NONE"
      /\ tx[t].stage = "decided"
    BY CloseWrites
<1>2. /\ db' \in Charges!Rows /\ db'.status = db.status /\ db'.updates = db.updates + 1
      /\ db'.attempt[a].state \in {"ABANDONED", "REJECTED"} /\ db'.attempt[a].declared
      /\ \A b \in Txs \ {a} : db'.attempt[b] = db.attempt[b]
    BY CloseWrites
<1>3. /\ \A c \in Txs \ {a} : db'.collection[c].status = db.collection[c].status
      /\ db'.collection[a].status \in {"NONE", "UNAPPLIED"}
      /\ \A c \in Txs : db'.collection[c].claim = None
    BY CloseWrites
<1> HIDE DEF a
<1>4. \A b \in Txs : ~Charges!Open(db, b)' /\ ~Charges!Claims(db, b)'
    BY <1>1, <1>2 DEF Charges!Open, Charges!Claims, ChargeRaceInv, ChargesInv, OpenSound
<1>5. ChargesInv'
  <2>1. Charges!OneOpenAttempt' /\ Charges!SettledLeavesNothing'
      BY <1>1, <1>2, <1>4 DEF Charges!OneOpenAttempt, Charges!SettledLeavesNothing
  <2>2. Charges!PlanHoldsCollections'
      BY <1>3, <1>4 DEF Charges!PlanHoldsCollections
  <2>3. \A b \in Txs : OpenSound(b)'
      BY <1>1, <1>2, <1>4 DEF OpenSound, ChargeRaceInv, ChargesInv
  <2> QED BY <1>2, <2>1, <2>2, <2>3 DEF ChargesInv
<1>6. ASSUME NEW u \in Txs \ {t}, tx[u].stage # "gone"
      PROVE  /\ db'.attempt[u] = db.attempt[u]
             /\ db'.collection[u].status = db.collection[u].status
  <2>1. u # a
      BY <1>1, <1>6 DEF ChargeRaceInv, ChargeSound, SlotFresh, Charges!NoAttempt, Charges!Open
  <2> QED BY <1>2, <1>3, <1>6, <2>1
<1>7. Resolved
    BY <1>1, <1>2, <1>3 DEF Resolved
<1> QED BY <1>1, <1>2, <1>5, <1>6, <1>7, ChargeCommitStep

\* A new state leaves the rest of an attempt.
LEMMA StateWritten ==
    ASSUME ChargeRaceInv, NEW a \in Txs, NEW state \in {"CONFIRMED", "REJECTED"}
    PROVE  /\ Charges!Judged(a, state) \in [Txs -> Charges!Attempts]
           /\ \A b \in Txs \ {a} : Charges!Judged(a, state)[b] = db.attempt[b]
           /\ Charges!Judged(a, state)[a].state = state
           /\ Charges!Judged(a, state)[a].plan = db.attempt[a].plan
           /\ Charges!Judged(a, state)[a].declared = db.attempt[a].declared
<1> DEFINE attempt == Charges!Judged(a, state)
<1> DEFINE new == [db.attempt[a] EXCEPT !.state = state]
<1>1. db.attempt[a] \in Charges!Attempts
    BY RowsTyped
<1>2. new \in Charges!Attempts
    BY <1>1 DEF Charges!Attempts
<1>3. new.state = state /\ new.plan = db.attempt[a].plan /\ new.declared = db.attempt[a].declared
    BY <1>1 DEF Charges!Attempts
<1>4. attempt = [db.attempt EXCEPT ![a] = new]
    BY DEF Charges!Judged
<1> HIDE DEF attempt, new
<1>5. attempt \in [Txs -> Charges!Attempts] /\ attempt[a] = new
      /\ \A b \in Txs \ {a} : attempt[b] = db.attempt[b]
    BY <1>2, <1>4, RowsTyped
<1> QED BY <1>3, <1>5 DEF attempt

\* What T-F writes, and on what it decided.
LEMMA RefundWrites ==
    ASSUME None \notin Txs, ChargeRaceInv, NEW t \in Txs, Charges!Commit(t), tx[t].kind = "refund"
    PROVE  LET c == tx[t].target IN
           /\ c \in Txs /\ tx[t].stage = "decided" /\ tx[t].held = {c} /\ Charges!NoneOpen(db)
           /\ db.collection[c].status = "UNAPPLIED" /\ db.collection[c].claim = None
           /\ db' \in Charges!Rows /\ db'.status = db.status /\ db'.attempt = db.attempt
           /\ db'.updates = db.updates
           /\ \A b \in Txs : /\ db'.collection[b].claim = db.collection[b].claim
                             /\ b # c => db'.collection[b] = db.collection[b]
           /\ db'.collection[c].status = "REFUNDED"
           /\ db'.collection[c].updates = db.collection[c].updates + 1
<1> DEFINE c == tx[t].target
           collection == [b \in Txs |-> IF b \in tx[t].held
                              THEN Charges!Row(b, "REFUNDED", db.collection[b].claim)
                              ELSE db.collection[b]]
<1>1. tx[t].stage = "decided" /\ ChargeSound(t) /\ db' = Charges!Refunded(t)
    BY DEF ChargeRaceInv, Charges!Commit, Charges!Written
<1>2. /\ c \in Txs /\ tx[t].held = {c}
      /\ db.collection[c].status = "UNAPPLIED" /\ db.collection[c].claim = None
    BY <1>1 DEF ChargeSound, DecisionSound, DecidedRefund, TargetSound, Running
<1>3. Charges!NoneOpen(db)
    BY <1>2, UnclaimedMeansNoneOpen
<1>4. db' = [status |-> db.status, attempt |-> db.attempt, collection |-> collection,
             updates |-> db.updates]
    BY <1>1
       DEF Charges!Refunded, Charges!Write, Charges!UpdateHeld, Charges!TouchesSale
<1>5. ASSUME NEW b \in Txs
      PROVE  /\ collection[b] \in Charges!Collections
             /\ collection[b].claim = db.collection[b].claim
             /\ b # c => collection[b] = db.collection[b]
             /\ b = c => /\ collection[b].status = "REFUNDED"
                         /\ collection[b].updates = db.collection[b].updates + 1
  <2>1. CASE b = c
    <3> DEFINE row == Charges!Row(b, "REFUNDED", db.collection[b].claim)
    <3>1. db.collection[b].claim \in Txs \cup {None}
        BY RowsTyped
    <3>2. /\ row \in Charges!Collections /\ row.status = "REFUNDED"
          /\ row.claim = db.collection[b].claim /\ row.updates = db.collection[b].updates + 1
        BY <3>1, HeldRows
    <3>3. collection[b] = row
        BY <1>2, <2>1
    <3> HIDE DEF collection, row
    <3> QED BY <2>1, <3>2, <3>3
  <2>2. CASE b # c
      BY <1>2, <2>2, RowsTyped
  <2> QED BY <2>1, <2>2
<1>6. collection \in [Txs -> Charges!Collections]
    BY <1>5
<1> HIDE DEF collection
<1>7. /\ db' \in Charges!Rows /\ db'.status = db.status /\ db'.attempt = db.attempt
      /\ db'.collection = collection /\ db'.updates = db.updates
    BY <1>4, <1>6 DEF ChargeRaceInv, ChargesInv, Charges!Rows
<1> QED BY <1>1, <1>2, <1>3, <1>5, <1>7

LEMMA RefundKeeps ==
    ASSUME None \notin Txs, ChargeRaceInv, NEW t \in Txs, Charges!Commit(t), tx[t].kind = "refund"
    PROVE  ChargeRaceInv' /\ Resolved
<1> DEFINE c == tx[t].target
<1>1. /\ c \in Txs /\ tx[t].stage = "decided" /\ tx[t].held = {c} /\ Charges!NoneOpen(db)
      /\ db.collection[c].status = "UNAPPLIED" /\ db.collection[c].claim = None
    BY RefundWrites
<1>2. /\ db' \in Charges!Rows /\ db'.status = db.status /\ db'.attempt = db.attempt
      /\ db'.updates = db.updates
    BY RefundWrites
<1>3. /\ \A b \in Txs : /\ db'.collection[b].claim = db.collection[b].claim
                        /\ b # c => db'.collection[b] = db.collection[b]
      /\ db'.collection[c].status = "REFUNDED"
      /\ db'.collection[c].updates = db.collection[c].updates + 1
    BY RefundWrites
<1> HIDE DEF c
<1>4. \A b \in Txs : ~Charges!Open(db, b)'
    BY <1>1, <1>2 DEF Charges!Open, Charges!NoneOpen
<1>5. ChargesInv'
  <2>1. Charges!OneOpenAttempt'
      BY <1>4 DEF Charges!OneOpenAttempt
  <2>2. Charges!SettledLeavesNothing'
      BY <1>1, <1>2
         DEF ChargeRaceInv, ChargesInv, Charges!SettledLeavesNothing, Charges!Unapplied
  <2>3. Charges!PlanHoldsCollections'
    <3>1. \A b \in Txs : Charges!Claims(db, b)' <=> Charges!Claims(db, b)
        BY <1>2 DEF Charges!Claims, Charges!Open
    <3>2. \A b, d \in Txs : /\ db'.collection[d].claim = db.collection[d].claim
                             /\ db'.attempt[b].plan = db.attempt[b].plan
        BY <1>2, <1>3
    <3> QED BY <1>4, <3>1, <3>2 DEF Charges!PlanHoldsCollections, ChargeRaceInv, ChargesInv
  <2>4. \A b \in Txs : OpenSound(b)'
      BY <1>2, <1>4 DEF OpenSound, ChargeRaceInv, ChargesInv
  <2> QED BY <1>2, <2>1, <2>2, <2>3, <2>4 DEF ChargesInv
<1>6. [Charges!Unborn EXCEPT !.stage = "gone"] \in ChargeRecords
  <2>1. Charges!NoAttempt \in Charges!Attempts /\ Charges!NoCollection \in Charges!Collections
      BY DEF Charges!NoAttempt, Charges!NoCollection, Charges!Attempts, Charges!Collections
  <2>2. Charges!EmptyDb \in Charges!Rows
      BY <2>1 DEF Charges!EmptyDb, Charges!Rows
  <2> QED BY <2>2 DEF Charges!Unborn, Charges!Kinds, ChargeRecords
<1>7. /\ tx' \in [Txs -> ChargeRecords] /\ tx'[t].stage = "gone"
      /\ \A u \in Txs \ {t} : tx'[u] = tx[u]
    BY <1>6 DEF Charges!Commit, ChargeRaceInv, Charges!Unborn
<1>8. ASSUME NEW u \in Txs \ {t}
      PROVE  ChargeSound(u)'
  <2>1. ChargeSound(u) /\ tx[u] \in ChargeRecords /\ tx'[u] = tx[u]
      BY <1>7, <1>8 DEF ChargeRaceInv
  <2>2. SlotFresh(u)'
      BY <1>1, <1>2, <1>3, <1>8, <2>1 DEF ChargeSound, SlotFresh
  <2>3. TargetSound(u)'
      BY <2>1 DEF ChargeSound, TargetSound
  <2>4. SnapshotSound(u)'
    <3>1. \A b \in Txs : tx[u].old.collection[b].updates \in Nat
                         /\ db.collection[b].updates \in Nat
        BY <2>1, RowsTyped DEF ChargeRecords, Charges!Rows, Charges!Collections
    <3>2. ASSUME NEW b \in Txs, \/ tx[u].old.collection[b] = db.collection[b]
                                \/ /\ tx[u].old.collection[b].updates < db.collection[b].updates
                                   /\ db.collection[b].status = "REFUNDED"
          PROVE  \/ tx[u].old.collection[b] = db'.collection[b]
                 \/ /\ tx[u].old.collection[b].updates < db'.collection[b].updates
                    /\ db'.collection[b].status = "REFUNDED"
        BY <1>3, <3>1, <3>2
    <3> QED BY <1>2, <2>1, <3>2
            DEF ChargeSound, SnapshotSound, Charges!HoldsSale, Charges!Serializable
  <2>5. DecisionSound(u)'
    <3>1. SUFFICES ASSUME tx[u].stage = "decided"
                   PROVE  DecisionSound(u)'
        BY <2>1 DEF DecisionSound
    <3>2. tx[u].kind = "refund" /\ DecidedRefund(u) /\ tx[u].target \in Txs
        BY <1>1, <1>8, <2>1, <3>1, AloneDecided
           DEF ChargeSound, DecisionSound, TargetSound, Running
    <3>3. tx[t].held \cap tx[u].held = {}
        BY <1>1, <1>8, <3>1 DEF ChargeRaceInv, Apart
    <3>4. tx[u].target # c
        BY <1>1, <3>2, <3>3 DEF DecidedRefund
    <3> QED BY <1>3, <2>1, <3>2, <3>4 DEF DecisionSound, DecidedRefund
  <2> QED BY <2>2, <2>3, <2>4, <2>5 DEF ChargeSound
<1>9. ChargeSound(t)'
    BY <1>7 DEF ChargeSound, SlotFresh, SnapshotSound, TargetSound, DecisionSound, Running
<1>10. ASSUME NEW u \in Txs, NEW v \in Txs
       PROVE  Apart(u, v)'
    BY <1>7, <1>10 DEF ChargeRaceInv, Apart, Charges!HoldsSale
<1>11. Resolved
    BY <1>1, <1>2, <1>3 DEF Resolved
<1> QED BY <1>5, <1>7, <1>8, <1>9, <1>10, <1>11 DEF ChargeRaceInv

\* What T-C decided on, and what it writes: the sale settled, or the attempt rejected.
LEMMA ConfirmWrites ==
    ASSUME None \notin Txs, ChargeRaceInv, NEW t \in Txs, Charges!Commit(t), tx[t].kind = "confirm"
    PROVE  LET a == tx[t].target IN
           /\ a \in Txs /\ tx[t].stage = "decided" /\ tx[t].held = Charges!Unapplied(db)
           /\ db.attempt[a].state = "RESERVED" /\ ~db.attempt[a].declared
           /\ db.attempt[a].plan = Charges!Unapplied(db)
           /\ \A b \in Txs \ {a} : ~Charges!Claims(db, b)
           /\ db.collection[a].status = "NONE" /\ db.status = "PENDING_PAYMENT"
           /\ \A c \in Txs : db.collection[c].claim = IF c \in tx[t].held THEN a ELSE None
           /\ db' \in Charges!Rows /\ db'.updates = db.updates + 1
           /\ \A b \in Txs \ {a} : db'.attempt[b] = db.attempt[b]
           /\ db'.attempt[a].plan = db.attempt[a].plan /\ ~db'.attempt[a].declared
           /\ \A c \in Txs : db'.collection[c].claim = db.collection[c].claim
           /\ Charges!Applies(t) =>
                 /\ db'.status = "COMPLETED" /\ db'.attempt[a].state = "CONFIRMED"
                 /\ \A c \in Txs \ {a} : db'.collection[c].status =
                       IF c \in tx[t].held THEN "APPLIED" ELSE db.collection[c].status
                 /\ db'.collection[a].status \in {"NONE", "APPLIED"}
           /\ ~Charges!Applies(t) =>
                 /\ db'.status = db.status /\ db'.attempt[a].state = "REJECTED"
                 /\ db'.collection = db.collection
<1> DEFINE a == tx[t].target
<1>1. tx[t].stage = "decided" /\ ChargeSound(t) /\ db' = Charges!Confirmed(t)
    BY DEF ChargeRaceInv, Charges!Commit, Charges!Written
<1>2. a \in Txs /\ Charges!Open(db, a) /\ tx[t].held = Charges!Unapplied(db)
      /\ db.attempt[a].state = "RESERVED"
    BY <1>1, HoldsUnapplied DEF ChargeSound, TargetSound, DecisionSound, DecidedConfirm, Running
<1>3. /\ db.collection[a].status = "NONE" /\ db.status = "PENDING_PAYMENT"
      /\ \A b \in Txs \ {a} : ~Charges!Open(db, b)
      /\ \A b \in Txs \ {a} : ~Charges!Claims(db, b)
      /\ db.attempt[a] # Charges!NoAttempt /\ ~db.attempt[a].declared
      /\ db.attempt[a].plan = Charges!Unapplied(db) /\ db.attempt[a].state # "CONFIRMED"
    BY <1>2, RowsTyped
       DEF ChargeRaceInv, ChargesInv, OpenSound, Charges!OneOpenAttempt, Charges!NoAttempt,
           Charges!SettledLeavesNothing, Charges!NoneOpen, Charges!Open,
           Charges!PlanHoldsCollections, Charges!Claims
<1>4. \A c \in Txs : db.collection[c].claim \in {a, None}
                     /\ (db.collection[c].claim = a <=> c \in tx[t].held)
    BY <1>2, <1>3, RowsTyped
       DEF ChargeRaceInv, ChargesInv, Charges!PlanHoldsCollections, Charges!Claims
<1>5. CASE Charges!Applies(t)
  <2> DEFINE attempt == Charges!Judged(a, "CONFIRMED")
             applied == [c \in Txs |-> IF c \in tx[t].held
                             THEN Charges!Row(c, "APPLIED", a) ELSE db.collection[c]]
             collection == IF db.attempt[a].fresh
                           THEN [applied EXCEPT ![a].status = "APPLIED"] ELSE applied
  <2>1. db' = Charges!Write(t, "COMPLETED", attempt, collection)
    <3>1. db' = IF Charges!Applies(t) THEN Charges!Write(t, "COMPLETED", attempt, collection)
                ELSE Charges!Write(t, db.status, Charges!Judged(a, "REJECTED"), db.collection)
        BY <1>1, Zenon DEF Charges!Confirmed, Charges!UpdateHeld
    <3> HIDE DEF attempt, collection
    <3> QED BY <1>5, <3>1
  <2>2. /\ attempt \in [Txs -> Charges!Attempts]
        /\ \A b \in Txs \ {a} : attempt[b] = db.attempt[b]
        /\ attempt[a].state = "CONFIRMED" /\ attempt[a].plan = db.attempt[a].plan
        /\ attempt[a].declared = db.attempt[a].declared
      BY <1>2, StateWritten
  <2>3. ASSUME NEW c \in Txs
        PROVE  /\ applied[c] \in Charges!Collections
               /\ applied[c].claim = IF c \in tx[t].held THEN a ELSE None
               /\ applied[c].status =
                     IF c \in tx[t].held THEN "APPLIED" ELSE db.collection[c].status
    <3>1. CASE c \in tx[t].held
      <4> DEFINE row == Charges!Row(c, "APPLIED", a)
      <4>1. row \in Charges!Collections /\ row.status = "APPLIED" /\ row.claim = a
          BY <1>2, HeldRows
      <4>2. applied[c] = row
          BY <3>1
      <4> HIDE DEF applied, row
      <4> QED BY <3>1, <4>1, <4>2
    <3>2. CASE c \notin tx[t].held
        BY <1>4, <3>2, RowsTyped
    <3> QED BY <3>1, <3>2
  <2>4. applied \in [Txs -> Charges!Collections]
      BY <2>3
  <2> HIDE DEF applied
  <2>11. /\ collection \in [Txs -> Charges!Collections]
         /\ \A c \in Txs : collection[c].claim = IF c \in tx[t].held THEN a ELSE None
         /\ \A c \in Txs \ {a} : collection[c].status =
               IF c \in tx[t].held THEN "APPLIED" ELSE db.collection[c].status
         /\ collection[a].status \in {"NONE", "APPLIED"} /\ a \notin tx[t].held
    <3>1. a \notin tx[t].held /\ applied[a] \in Charges!Collections
        BY <1>2, <1>3, <2>3 DEF Charges!Unapplied
    <3>2. [applied[a] EXCEPT !.status = "APPLIED"] \in Charges!Collections
          /\ [applied[a] EXCEPT !.status = "APPLIED"].status = "APPLIED"
          /\ [applied[a] EXCEPT !.status = "APPLIED"].claim = applied[a].claim
        BY <3>1 DEF Charges!Collections
    <3>3. CASE db.attempt[a].fresh
      <4>1. collection = [applied EXCEPT ![a] = [applied[a] EXCEPT !.status = "APPLIED"]]
          BY <3>3
      <4> HIDE DEF collection
      <4> QED BY <1>2, <2>3, <2>4, <3>1, <3>2, <4>1
    <3>4. CASE ~db.attempt[a].fresh
        BY <1>2, <1>3, <2>3, <2>4, <3>1, <3>4
    <3> QED BY <3>3, <3>4
  <2> HIDE DEF attempt, collection
  <2>5. /\ db' \in Charges!Rows /\ db'.status = "COMPLETED"
        /\ db'.attempt = attempt /\ db'.collection = collection /\ db'.updates = db.updates + 1
      BY <2>1, <2>2, <2>11, Written
  <2> QED BY <1>1, <1>2, <1>3, <1>4, <1>5, <2>2, <2>5, <2>11
<1>6. CASE ~Charges!Applies(t)
  <2> DEFINE attempt == Charges!Judged(a, "REJECTED")
  <2>1. db' = Charges!Write(t, db.status, attempt, db.collection)
      BY <1>1, <1>6 DEF Charges!Confirmed
  <2>2. /\ attempt \in [Txs -> Charges!Attempts]
        /\ \A b \in Txs \ {a} : attempt[b] = db.attempt[b]
        /\ attempt[a].state = "REJECTED" /\ attempt[a].plan = db.attempt[a].plan
        /\ attempt[a].declared = db.attempt[a].declared
      BY <1>2, StateWritten
  <2> HIDE DEF attempt
  <2>3. /\ db' \in Charges!Rows /\ db'.status = db.status
        /\ db'.attempt = attempt /\ db'.collection = db.collection /\ db'.updates = db.updates + 1
      BY <2>1, <2>2, RowsTyped, Written
  <2> QED BY <1>1, <1>2, <1>3, <1>4, <1>6, <2>2, <2>3
<1> QED BY <1>5, <1>6

LEMMA ConfirmKeeps ==
    ASSUME None \notin Txs, ChargeRaceInv, NEW t \in Txs, Charges!Commit(t), tx[t].kind = "confirm"
    PROVE  ChargeRaceInv' /\ Resolved
<1> DEFINE a == tx[t].target
<1>1. /\ a \in Txs /\ tx[t].stage = "decided" /\ tx[t].held = Charges!Unapplied(db)
      /\ db.attempt[a].state = "RESERVED" /\ db.attempt[a].plan = Charges!Unapplied(db)
      /\ \A b \in Txs \ {a} : ~Charges!Claims(db, b)
      /\ db.collection[a].status = "NONE" /\ db.status = "PENDING_PAYMENT"
    BY ConfirmWrites
<1>2. /\ \A c \in Txs : db.collection[c].claim = IF c \in tx[t].held THEN a ELSE None
      /\ \A c \in Txs : db'.collection[c].claim = db.collection[c].claim
    BY ConfirmWrites
<1>3. /\ db' \in Charges!Rows /\ db'.updates = db.updates + 1
      /\ \A b \in Txs \ {a} : db'.attempt[b] = db.attempt[b]
      /\ db'.attempt[a].plan = db.attempt[a].plan /\ ~db'.attempt[a].declared
    BY ConfirmWrites
<1>4. Charges!Applies(t) =>
         /\ db'.status = "COMPLETED" /\ db'.attempt[a].state = "CONFIRMED"
         /\ \A c \in Txs \ {a} : db'.collection[c].status =
               IF c \in tx[t].held THEN "APPLIED" ELSE db.collection[c].status
         /\ db'.collection[a].status \in {"NONE", "APPLIED"}
    BY ConfirmWrites
<1>5. ~Charges!Applies(t) =>
         /\ db'.status = db.status /\ db'.attempt[a].state = "REJECTED"
         /\ db'.collection = db.collection
    BY ConfirmWrites
<1>6. a \notin tx[t].held /\ db.attempt[a] # Charges!NoAttempt
    BY <1>1 DEF Charges!Unapplied, Charges!NoAttempt
<1>7. db'.attempt[a].state \in {"CONFIRMED", "REJECTED"}
    BY <1>4, <1>5
<1> HIDE DEF a
<1>8. \A b \in Txs : Charges!Claims(db, b)' <=> b = a
    BY <1>1, <1>3, <1>7 DEF Charges!Claims, Charges!Open
<1>9. ChargesInv'
  <2>1. Charges!OneOpenAttempt'
      BY <1>8 DEF Charges!OneOpenAttempt, Charges!Claims
  <2>2. Charges!PlanHoldsCollections'
    <3>1. \A b \in Txs : Charges!Open(db, b)' =>
              db'.attempt[b].plan = Charges!Unapplied(db) /\ db'.collection = db.collection
        BY <1>1, <1>3, <1>4, <1>5, <1>8 DEF Charges!Open, Charges!Claims
    <3>2. \A b \in Txs : Charges!Open(db, b)' => db'.attempt[b].plan = Charges!Unapplied(db)'
        BY <3>1 DEF Charges!Unapplied
    <3>3. \A b, c \in Txs : db'.collection[c].claim = b <=> b = a /\ c \in db'.attempt[a].plan
        BY <1>1, <1>2, <1>3
    <3> QED BY <1>8, <3>2, <3>3 DEF Charges!PlanHoldsCollections
  <2>3. Charges!SettledLeavesNothing'
    <3>1. CASE Charges!Applies(t)
      <4>1. Charges!Unapplied(db)' = {}
          BY <1>1, <1>4, <3>1 DEF Charges!Unapplied
      <4>2. Charges!NoneOpen(db)'
          BY <1>4, <1>8, <3>1 DEF Charges!NoneOpen, Charges!Claims, Charges!Open
      <4> QED BY <4>1, <4>2 DEF Charges!SettledLeavesNothing
    <3>2. CASE ~Charges!Applies(t)
        BY <1>1, <1>5, <3>2 DEF Charges!SettledLeavesNothing
    <3> QED BY <3>1, <3>2
  <2>4. ASSUME NEW b \in Txs
        PROVE  OpenSound(b)'
    <3>1. CASE b = a
        BY <1>1, <1>3, <1>4, <1>5, <1>7, <3>1 DEF OpenSound, Charges!Open
    <3>2. CASE b # a
        BY <1>1, <1>3, <1>8, <2>4, <3>2
           DEF OpenSound, Charges!Claims, ChargeRaceInv, ChargesInv
    <3> QED BY <3>1, <3>2
  <2> QED BY <1>3, <2>1, <2>2, <2>3, <2>4 DEF ChargesInv
<1>10. ASSUME NEW u \in Txs \ {t}, tx[u].stage # "gone"
       PROVE  /\ db'.attempt[u] = db.attempt[u]
              /\ db'.collection[u].status = db.collection[u].status
  <2>1. db.attempt[u] = Charges!NoAttempt /\ db.collection[u].status = "NONE"
      BY <1>10 DEF ChargeRaceInv, ChargeSound, SlotFresh
  <2>2. u # a /\ u \notin tx[t].held
      BY <1>1, <1>6, <2>1 DEF Charges!Unapplied
  <2> QED BY <1>3, <1>4, <1>5, <1>10, <2>2
<1>11. Resolved
    BY <1>1, <1>4, <1>5 DEF Resolved, Charges!Unapplied
<1> QED BY <1>1, <1>3, <1>9, <1>10, <1>11, ChargeCommitStep

LEMMA ChargeStep ==
    ASSUME None \notin Txs, ChargeRaceInv, [Charges!Next]_(Charges!vars)
    PROVE  ChargeRaceInv' /\ (Resolved \/ UNCHANGED db)
<1>1. ASSUME NEW t \in Txs, NEW kind \in Charges!Kinds, NEW target \in Txs \cup {None},
             NEW flag \in BOOLEAN, Charges!Begin(t, kind, target, flag)
      PROVE  ChargeRaceInv' /\ UNCHANGED db
    BY <1>1, BeginKeeps DEF Charges!Begin
<1>2. ASSUME NEW t \in Txs, Charges!LockSale(t)
      PROVE  ChargeRaceInv' /\ UNCHANGED db
    BY <1>2, LockSaleKeeps DEF Charges!LockSale
<1>3. ASSUME NEW t \in Txs, Charges!LockCollections(t)
      PROVE  ChargeRaceInv' /\ UNCHANGED db
    BY <1>3, LockCollectionsKeeps DEF Charges!LockCollections
<1>4. ASSUME NEW t \in Txs, Charges!Commit(t)
      PROVE  ChargeRaceInv' /\ Resolved
  <2>1. tx[t].kind \in Charges!Kinds
      BY <1>4 DEF ChargeRaceInv, ChargeRecords
  <2> QED BY <1>4, <2>1, ReserveKeeps, CloseKeeps, ConfirmKeeps, RefundKeeps DEF Charges!Kinds
<1>5. ASSUME NEW t \in Txs, Charges!Rollback(t)
      PROVE  ChargeRaceInv' /\ UNCHANGED db
    BY <1>5, RollbackKeeps DEF Charges!Rollback
<1>6. CASE UNCHANGED Charges!vars
  <2>1. UNCHANGED <<db, tx>>
      BY <1>6 DEF Charges!vars
  <2>2. ChargesInv'
      BY <2>1
         DEF ChargeRaceInv, ChargesInv, OpenSound, Charges!OneOpenAttempt,
             Charges!PlanHoldsCollections, Charges!SettledLeavesNothing, Charges!Open,
             Charges!Claims, Charges!Unapplied, Charges!NoneOpen
  <2>3. \A t \in Txs : ChargeSound(t)'
      BY <2>1
         DEF ChargeRaceInv, ChargeSound, SlotFresh, SnapshotSound, TargetSound, DecisionSound,
             DecidedReserve, DecidedClose, DecidedConfirm, DecidedRefund, Charges!HoldsSale,
             Charges!Serializable, Charges!Open, Charges!NoneOpen, Charges!Unapplied
  <2>4. \A t, u \in Txs : Apart(t, u)'
      BY <2>1 DEF ChargeRaceInv, Apart, Charges!HoldsSale
  <2> QED BY <2>1, <2>2, <2>3, <2>4 DEF ChargeRaceInv
<1> QED BY <1>1, <1>2, <1>3, <1>4, <1>5, <1>6 DEF Charges!Next, Charges!vars

LEMMA ChargesAlwaysSound ==
    ASSUME None \notin Txs
    PROVE  Charges!Spec => []ChargeRaceInv
<1>1. Charges!Init => ChargeRaceInv
    BY ChargeInitInv
<1>2. ChargeRaceInv /\ [Charges!Next]_(Charges!vars) => ChargeRaceInv'
    BY ChargeStep
<1> QED BY <1>1, <1>2, PTL DEF Charges!Spec

\* The rows keep their shape, and the row of the sale is locked by one transaction at a time.
THEOREM ChargesTypeCorrect ==
    ASSUME None \notin Txs
    PROVE  Charges!Spec => []Charges!TypeOK
<1>1. ChargeRaceInv => Charges!TypeOK
    BY DEF ChargeRaceInv, ChargesInv, ChargeRecords, Apart, Charges!TypeOK
<1> QED BY <1>1, ChargesAlwaysSound, PTL

\* A sale has one open attempt, although a recovery may have begun before a reservation
\* committed (checkout-reservation.service.ts, T-R and T-RR): no index is needed for that.
THEOREM AlwaysOneOpenAttempt ==
    ASSUME None \notin Txs
    PROVE  Charges!Spec => []Charges!OneOpenAttempt
<1>1. ChargeRaceInv => Charges!OneOpenAttempt
    BY DEF ChargeRaceInv, ChargesInv
<1> QED BY <1>1, ChargesAlwaysSound, PTL

\* The open attempt charges what the customer has not paid yet: its plan is the unapplied
\* collections, and it alone claims them (checkout-reservation.service.ts, checkout-close.service.ts).
THEOREM PlanAlwaysHoldsCollections ==
    ASSUME None \notin Txs
    PROVE  Charges!Spec => []Charges!PlanHoldsCollections
<1>1. ChargeRaceInv => Charges!PlanHoldsCollections
    BY DEF ChargeRaceInv, ChargesInv
<1> QED BY <1>1, ChargesAlwaysSound, PTL

\* A settled sale leaves no charge unapplied and nothing open, in any order of the transactions
\* on it (checkout.service.ts, confirm).
THEOREM SettledAlwaysLeavesNothing ==
    ASSUME None \notin Txs
    PROVE  Charges!Spec => []SettledLeavesNothing
<1>1. ChargeRaceInv => SettledLeavesNothing
    BY DEF ChargeRaceInv, ChargesInv, SettledLeavesNothing
<1> QED BY <1>1, ChargesAlwaysSound, PTL

\* Money that was applied or returned stays so, and a settled sale gets no other confirmation
\* (checkout.service.ts, external-collections.service.ts).
THEOREM AlwaysResolvedForGood ==
    ASSUME None \notin Txs
    PROVE  Charges!Spec => Charges!ResolvedForGood
<1>1. ChargeRaceInv /\ [Charges!Next]_(Charges!vars) => (Resolved \/ UNCHANGED db)
    BY ChargeStep
<1>2. (Resolved \/ UNCHANGED db) =>
          [/\ \A c \in Txs : db.collection[c].status \in {"APPLIED", "REFUNDED"}
                 => db'.collection[c].status = db.collection[c].status
           /\ db.status = "COMPLETED" => \A a \in Txs :
                 db'.attempt[a].state = "CONFIRMED" <=> db.attempt[a].state = "CONFIRMED"]_db
    BY DEF Resolved
<1> QED BY <1>1, <1>2, ChargesAlwaysSound, PTL DEF Charges!Spec, Charges!ResolvedForGood
-----------------------------------------------------------------------------
(***************************************************************************)
(* The transactions implement the operations of SaleCharges: each takes    *)
(* effect when it commits, and what it decided on is then still so.        *)
(***************************************************************************)

LEMMA AtomicView ==
    /\ Atomic!Left(None) = Charges!Unapplied(db)
    /\ \A a \in Txs : Atomic!Open(a) <=> Charges!Open(db, a)
<1>1. \A c \in Txs : c \in [t \in Txs |-> {t}][c]
    OBVIOUS
<1> QED BY <1>1 DEF Atomic!Left, Atomic!Open, Charges!Unapplied, Charges!Open

LEMMA AtomicInit ==
    ASSUME Charges!Init
    PROVE  Atomic!ChargesInit
<1>1. /\ db.status = "PENDING_PAYMENT"
      /\ \A t \in Txs : /\ db.attempt[t] = Charges!NoAttempt
                        /\ db.collection[t] = Charges!NoCollection
    BY DEF Charges!Init, Charges!EmptyDb
<1> QED BY <1>1 DEF Atomic!ChargesInit, Charges!NoAttempt, Charges!NoCollection

\* T-R and T-RR reserve for all that is left of the sale when they commit.
LEMMA AtomicReserve ==
    ASSUME None \notin Txs, ChargeRaceInv, NEW t \in Txs, Charges!Commit(t),
           tx[t].kind \in {"reserve", "recover"}
    PROVE  Atomic!Reserve(t, None)
<1>1. /\ db.status = "PENDING_PAYMENT" /\ Charges!NoneOpen(db)
      /\ tx[t].held = Charges!Unapplied(db) /\ db.attempt[t] = Charges!NoAttempt
    BY ReserveWrites
<1>2. /\ db'.status = db.status
      /\ db'.attempt[t].state = "RESERVED" /\ db'.attempt[t].plan = tx[t].held
      /\ ~db'.attempt[t].declared
      /\ \A a \in Txs \ {t} : db'.attempt[a] = db.attempt[a]
    BY ReserveWrites
<1>3. \A c \in Txs :
         /\ db'.collection[c].status = db.collection[c].status
         /\ db'.collection[c].claim = IF c \in tx[t].held THEN t ELSE db.collection[c].claim
    BY ReserveWrites
<1>4. \A c \in Txs : db.collection[c].claim = None
    BY <1>1, NothingClaimed
<1>5. \A a \in Txs : ~Atomic!Open(a)
    BY <1>1, AtomicView DEF Charges!NoneOpen
<1>6. Atomic!Left(None) = tx[t].held /\ tx[t].held \subseteq Txs
    BY <1>1, AtomicView DEF Charges!Unapplied
<1>7. [a \in Txs |-> IF db.attempt[a].declared THEN "CLOSED" ELSE db.attempt[a].state]' =
          [[a \in Txs |-> IF db.attempt[a].declared THEN "CLOSED" ELSE db.attempt[a].state]
              EXCEPT ![t] = "RESERVED"]
    BY <1>2
<1>8. [a \in Txs |-> db.attempt[a].plan]' =
          [[a \in Txs |-> db.attempt[a].plan] EXCEPT ![t] = Atomic!Left(None)]
    BY <1>2, <1>6
<1>9. [c \in Txs |-> db.collection[c].claim]' =
          [c \in Txs |-> IF c \in Atomic!Left(None) THEN t
                         ELSE [u \in Txs |-> db.collection[u].claim][c]]
    BY <1>3, <1>6
<1>10. UNCHANGED <<[u \in {None} |-> db.status], [c \in Txs |-> db.collection[c].status],
                   [a \in Txs |-> None]>>
    BY <1>2, <1>3
<1>11. [a \in Txs |-> IF db.attempt[a].declared THEN "CLOSED" ELSE db.attempt[a].state][t] = "NONE"
    BY <1>1 DEF Charges!NoAttempt
<1>12. [u \in {None} |-> db.status][None] = "PENDING_PAYMENT"
    BY <1>1
<1>13. \A c \in Atomic!Left(None) : [u \in Txs |-> db.collection[u].claim][c] = None
    BY <1>4, <1>6
<1>14. [a \in Txs |-> None]' = [[a \in Txs |-> None] EXCEPT ![t] = None]
    OBVIOUS
<1> QED BY <1>5, <1>7, <1>8, <1>9, <1>10, <1>11, <1>12, <1>13, <1>14 DEF Atomic!Reserve

\* T-X records the charge that was made, if any, and frees what the attempt held.
LEMMA AtomicClose ==
    ASSUME None \notin Txs, ChargeRaceInv, NEW t \in Txs, Charges!Commit(t), tx[t].kind = "close"
    PROVE  \E a \in Txs : \E C \in SUBSET {a} : Atomic!Close(a, C)
<1>0. PICK a \in Txs : a = tx[t].target
    BY CloseWrites
<1>1. /\ Charges!Open(db, a)
      /\ db.status = "PENDING_PAYMENT" /\ db.collection[a].status = "NONE"
    BY <1>0, CloseWrites
<1>2. /\ db'.status = db.status
      /\ db'.attempt[a].declared /\ db'.attempt[a].plan = db.attempt[a].plan
      /\ \A b \in Txs \ {a} : db'.attempt[b] = db.attempt[b]
    BY <1>0, CloseWrites
<1>3. /\ \A c \in Txs \ {a} : db'.collection[c].status = db.collection[c].status
      /\ db'.collection[a].status \in {"NONE", "UNAPPLIED"}
      /\ \A c \in Txs : db.collection[c].claim \in {a, None} /\ db'.collection[c].claim = None
    BY <1>0, CloseWrites
<1>4. PICK C \in SUBSET {a} : \A c \in Txs : db'.collection[c].status =
          IF c \in C THEN "UNAPPLIED" ELSE db.collection[c].status
  <2>1. CASE db'.collection[a].status = "UNAPPLIED"
    <3>1. \A c \in Txs : db'.collection[c].status =
              IF c \in {a} THEN "UNAPPLIED" ELSE db.collection[c].status
        BY <1>3, <2>1
    <3> QED BY <3>1
  <2>2. CASE db'.collection[a].status = "NONE"
    <3>1. \A c \in Txs : db'.collection[c].status =
              IF c \in {} THEN "UNAPPLIED" ELSE db.collection[c].status
        BY <1>1, <1>3, <2>2
    <3> WITNESS {} \in SUBSET {a}
    <3> QED BY <3>1
  <2> QED BY <1>3, <2>1, <2>2
<1>5. Atomic!Open(a) /\ \A c \in C : db.collection[c].status = "NONE"
    BY <1>1, <1>4, AtomicView
<1>6. [u \in Txs |-> IF db.attempt[u].declared THEN "CLOSED" ELSE db.attempt[u].state]' =
          [[u \in Txs |-> IF db.attempt[u].declared THEN "CLOSED" ELSE db.attempt[u].state]
              EXCEPT ![a] = "CLOSED"]
    BY <1>2
<1>7. [c \in Txs |-> db.collection[c].status]' = Atomic!Mark(C, "UNAPPLIED")
    BY <1>4 DEF Atomic!Mark
<1>8. [c \in Txs |-> db.collection[c].claim]' =
          [c \in Txs |-> IF [u \in Txs |-> db.collection[u].claim][c] = a THEN None
                         ELSE [u \in Txs |-> db.collection[u].claim][c]]
    BY <1>3
<1>9. \A c \in C : [u \in Txs |-> db.collection[u].status][c] = "NONE"
    BY <1>5
<1>10. UNCHANGED <<[u \in {None} |-> db.status], [u \in Txs |-> None],
                   [u \in Txs |-> db.attempt[u].plan]>>
    BY <1>2
<1>11. Atomic!Close(a, C)
    BY <1>5, <1>6, <1>7, <1>8, <1>9, <1>10 DEF Atomic!Close
<1> QED BY <1>11

\* T-F returns what nobody holds when it commits.
LEMMA AtomicRefund ==
    ASSUME None \notin Txs, ChargeRaceInv, NEW t \in Txs, Charges!Commit(t), tx[t].kind = "refund"
    PROVE  \E c \in Txs : Atomic!Refund(c)
<1>0. PICK c \in Txs : c = tx[t].target
    BY RefundWrites
<1>1. /\ db.collection[c].status = "UNAPPLIED" /\ db.collection[c].claim = None
    BY <1>0, RefundWrites
<1>2. /\ db'.status = db.status /\ db'.attempt = db.attempt
      /\ \A b \in Txs : /\ db'.collection[b].claim = db.collection[b].claim
                        /\ b # c => db'.collection[b] = db.collection[b]
      /\ db'.collection[c].status = "REFUNDED"
    BY <1>0, RefundWrites
<1> QED BY <1>1, <1>2 DEF Atomic!Refund, Atomic!Mark

\* T-C settles the sale with all that is left of it, or rejects the attempt.
LEMMA AtomicConfirm ==
    ASSUME None \notin Txs, ChargeRaceInv, NEW t \in Txs, Charges!Commit(t), tx[t].kind = "confirm"
    PROVE  \E a \in Txs : Atomic!Reject(a) \/ \E C \in SUBSET {a} : Atomic!Confirm(a, C)
<1>0. PICK a \in Txs : a = tx[t].target
    BY ConfirmWrites
<1>1. /\ tx[t].held = Charges!Unapplied(db)
      /\ db.attempt[a].state = "RESERVED" /\ ~db.attempt[a].declared
      /\ db.attempt[a].plan = Charges!Unapplied(db)
      /\ db.collection[a].status = "NONE" /\ db.status = "PENDING_PAYMENT"
    BY <1>0, ConfirmWrites
<1>2. /\ \A c \in Txs : db.collection[c].claim = IF c \in tx[t].held THEN a ELSE None
      /\ \A c \in Txs : db'.collection[c].claim = db.collection[c].claim
    BY <1>0, ConfirmWrites
<1>3. /\ \A b \in Txs \ {a} : db'.attempt[b] = db.attempt[b]
      /\ db'.attempt[a].plan = db.attempt[a].plan /\ ~db'.attempt[a].declared
    BY <1>0, ConfirmWrites
<1>4. Charges!Applies(t) =>
         /\ db'.status = "COMPLETED" /\ db'.attempt[a].state = "CONFIRMED"
         /\ \A c \in Txs \ {a} : db'.collection[c].status =
               IF c \in tx[t].held THEN "APPLIED" ELSE db.collection[c].status
         /\ db'.collection[a].status \in {"NONE", "APPLIED"}
    BY <1>0, ConfirmWrites
<1>5. ~Charges!Applies(t) =>
         /\ db'.status = db.status /\ db'.attempt[a].state = "REJECTED"
         /\ db'.collection = db.collection
    BY <1>0, ConfirmWrites
<1>6. Atomic!Left(None) = tx[t].held /\ a \notin tx[t].held /\ tx[t].held \subseteq Txs
    BY <1>1, AtomicView DEF Charges!Unapplied
<1>7. CASE Charges!Applies(t)
  <2>1. PICK C \in SUBSET {a} : \A c \in Txs : db'.collection[c].status =
            IF c \in db.attempt[a].plan \cup C THEN "APPLIED" ELSE db.collection[c].status
    <3>1. CASE db'.collection[a].status = "APPLIED"
      <4>1. \A c \in Txs : db'.collection[c].status =
                IF c \in db.attempt[a].plan \cup {a} THEN "APPLIED" ELSE db.collection[c].status
          BY <1>1, <1>4, <1>7, <3>1
      <4> QED BY <4>1
    <3>2. CASE db'.collection[a].status = "NONE"
      <4>1. \A c \in Txs : db'.collection[c].status =
                IF c \in db.attempt[a].plan \cup {} THEN "APPLIED" ELSE db.collection[c].status
          BY <1>1, <1>4, <1>6, <1>7, <3>2
      <4> WITNESS {} \in SUBSET {a}
      <4> QED BY <4>1
    <3> QED BY <1>4, <1>7, <3>1, <3>2
  <2>2. \A c \in C : db.collection[c].status = "NONE"
      BY <1>1, <2>1
  <2>3. db'.status = "COMPLETED" /\ db'.attempt[a].state = "CONFIRMED"
      BY <1>4, <1>7
  <2> DEFINE phaseOf == [u \in Txs |-> IF db.attempt[u].declared THEN "CLOSED"
                                       ELSE db.attempt[u].state]
             planOf == [u \in Txs |-> db.attempt[u].plan]
             takenOf == [c \in Txs |-> db.collection[c].status]
             claimOf == [c \in Txs |-> db.collection[c].claim]
             saleOf == [u \in Txs |-> None]
             stateOf == [s \in {None} |-> db.status]
  <2>4. /\ phaseOf[a] = "RESERVED" /\ stateOf[saleOf[a]] = "PENDING_PAYMENT"
        /\ phaseOf' = [phaseOf EXCEPT ![a] = "CONFIRMED"]
        /\ stateOf' = [stateOf EXCEPT ![saleOf[a]] = "COMPLETED"]
      BY <1>1, <1>3, <2>3
  <2>5. UNCHANGED <<saleOf, planOf, claimOf>>
      BY <1>2, <1>3
  <2>6. planOf[a] = Atomic!Left(saleOf[a]) /\ \A c \in planOf[a] : claimOf[c] = a
      BY <1>1, <1>2, <1>6
  <2>7. takenOf' = [c \in Txs |-> IF c \in planOf[a] \cup C THEN "APPLIED" ELSE takenOf[c]]
      BY <2>1
  <2>8. \A c \in C : takenOf[c] = "NONE"
      BY <2>2
  <2> QED BY <2>4, <2>5, <2>6, <2>7, <2>8 DEF Atomic!Confirm, Atomic!Mark
<1>8. CASE ~Charges!Applies(t)
  <2>1. Atomic!Reject(a)
      BY <1>1, <1>3, <1>5, <1>8 DEF Atomic!Reject
  <2> QED BY <2>1
<1> QED BY <1>7, <1>8

\* Each operation on an attempt moves it to another phase.
LEMMA AtomicOperates ==
    ASSUME NEW a \in Txs,
           \/ \E s \in {None} : Atomic!Reserve(a, s)
           \/ \E C \in SUBSET {a} : Atomic!Confirm(a, C) \/ Atomic!Close(a, C)
           \/ Atomic!Reject(a)
    PROVE  Atomic!ChargesNext
<1> DEFINE phase == [t \in Txs |-> IF db.attempt[t].declared THEN "CLOSED" ELSE db.attempt[t].state]
           new == phase'
<1>1. \/ phase[a] = "NONE" /\ new = [phase EXCEPT ![a] = "RESERVED"]
      \/ phase[a] = "RESERVED" /\ new = [phase EXCEPT ![a] = "CONFIRMED"]
      \/ phase[a] \in {"RESERVED", "REJECTED"} /\ new = [phase EXCEPT ![a] = "CLOSED"]
      \/ phase[a] = "RESERVED" /\ new = [phase EXCEPT ![a] = "REJECTED"]
  <2>1. ASSUME NEW s \in {None}, Atomic!Reserve(a, s)
        PROVE  phase[a] = "NONE" /\ new = [phase EXCEPT ![a] = "RESERVED"]
      BY <2>1 DEF Atomic!Reserve
  <2>2. ASSUME NEW C \in SUBSET {a}, Atomic!Confirm(a, C)
        PROVE  phase[a] = "RESERVED" /\ new = [phase EXCEPT ![a] = "CONFIRMED"]
      BY <2>2 DEF Atomic!Confirm
  <2>3. ASSUME NEW C \in SUBSET {a}, Atomic!Close(a, C)
        PROVE  phase[a] \in {"RESERVED", "REJECTED"} /\ new = [phase EXCEPT ![a] = "CLOSED"]
      BY <2>3 DEF Atomic!Close, Atomic!Open
  <2>4. ASSUME Atomic!Reject(a)
        PROVE  phase[a] = "RESERVED" /\ new = [phase EXCEPT ![a] = "REJECTED"]
      BY <2>4 DEF Atomic!Reject
  <2> QED BY <2>1, <2>2, <2>3, <2>4
<1>2. phase = [t \in Txs |-> phase[t]]
    OBVIOUS
<1> HIDE DEF phase, new
<1>3. new[a] # phase[a]
    BY <1>1, <1>2
<1>4. [t \in Txs |-> {t}][a] = {a}
    OBVIOUS
<1>5. Atomic!Operate(a)
    BY <1>3, <1>4 DEF phase, new, Atomic!Operate
<1> QED BY <1>5 DEF Atomic!ChargesNext

LEMMA AtomicStep ==
    ASSUME None \notin Txs, ChargeRaceInv, [Charges!Next]_(Charges!vars)
    PROVE  [Atomic!ChargesNext]_(Atomic!chargesVars)
<1>1. CASE UNCHANGED db
    BY <1>1 DEF Atomic!chargesVars
<1>2. ASSUME NEW t \in Txs, Charges!Commit(t)
      PROVE  Atomic!ChargesNext
  <2>1. tx[t].kind \in Charges!Kinds
      BY DEF ChargeRaceInv, ChargeRecords
  <2>2. CASE tx[t].kind \in {"reserve", "recover"}
      BY <1>2, <2>2, AtomicReserve, AtomicOperates
  <2>3. CASE tx[t].kind = "close"
    <3>1. PICK a \in Txs : \E C \in SUBSET {a} : Atomic!Close(a, C)
        BY <1>2, <2>3, AtomicClose
    <3> QED BY <3>1, AtomicOperates
  <2>4. CASE tx[t].kind = "refund"
      BY <1>2, <2>4, AtomicRefund DEF Atomic!ChargesNext
  <2>5. CASE tx[t].kind = "confirm"
    <3>1. PICK a \in Txs : Atomic!Reject(a) \/ \E C \in SUBSET {a} : Atomic!Confirm(a, C)
        BY <1>2, <2>5, AtomicConfirm
    <3> QED BY <3>1, AtomicOperates
  <2> QED BY <2>1, <2>2, <2>3, <2>4, <2>5 DEF Charges!Kinds
<1>3. (\E t \in Txs : Charges!Commit(t)) \/ UNCHANGED db
    BY DEF Charges!Next, Charges!vars, Charges!Begin, Charges!LockSale, Charges!LockCollections,
           Charges!Rollback
<1> QED BY <1>1, <1>2, <1>3

\* The transactions of a sale, however they overlap, amount to operations one after the other:
\* T-R, T-RR, T-X, T-C and T-F may be taken as single actions, as Checkout takes them
\* (the rule of visibility, checkout-reservation.service.ts and checkout-close.service.ts).
THEOREM ChargesAlwaysAtomic ==
    ASSUME None \notin Txs
    PROVE  Charges!Spec => ChargesAreAtomic
<1>1. Charges!Init => Atomic!ChargesInit
    BY AtomicInit
<1>2. ChargeRaceInv /\ [Charges!Next]_(Charges!vars) =>
          [Atomic!ChargesNext]_(Atomic!chargesVars)
    BY AtomicStep
<1> QED BY <1>1, <1>2, ChargesAlwaysSound, PTL
        DEF Charges!Spec, ChargesAreAtomic, Atomic!ChargesSpec


-----------------------------------------------------------------------------
(***************************************************************************)
(* The books of a drawer, for any finite number of transactions and any    *)
(* amounts.  A count reads the row of the session and every movement, so   *)
(* with a movement it did not see it would be one of two transactions that *)
(* missed each other, and the same holds of two exits.                     *)
(***************************************************************************)

DrawerAssumptions ==
    /\ IsFiniteSet(Txs) /\ None \notin Txs
    /\ StartingCash \in Nat /\ MaxAmount \in Nat

\* The sums of DrawerRace, of any transactions f.
PesosOf(f, ts) == {p \in Txs \X (1 .. MaxAmount) : p[1] \in ts /\ p[2] <= f[p[1]].amount}
Ins(f, ts) == {t \in ts : f[t].kind \in {"income", "reversal"}}
Outs(f, ts) == {t \in ts : f[t].kind = "exit"}
Books(f, ts) ==
    StartingCash + Cardinality(PesosOf(f, Ins(f, ts))) - Cardinality(PesosOf(f, Outs(f, ts)))

DrawerRecords ==
    [stage: {"none", "begun", "locked", "written", "committed", "gone"},
     kind: Drawers!Kinds, amount: 0 .. MaxAmount, undoes: Txs \cup {None},
     snapshot: SUBSET Txs, expected: Int]

LEMMA SameCardinality ==
    ASSUME NEW S
    PROVE  Drawers!Cardinality(S) = Cardinality(S)
BY DEF Drawers!Cardinality, Cardinality

LEMMA PesosFinite ==
    ASSUME DrawerAssumptions, NEW f, NEW ts
    PROVE  IsFiniteSet(PesosOf(f, ts)) /\ Cardinality(PesosOf(f, ts)) \in Nat
<1>1. IsFiniteSet(1 .. MaxAmount) /\ IsFiniteSet(Txs)
    BY FS_Interval DEF DrawerAssumptions
<1>2. IsFiniteSet(Txs \X (1 .. MaxAmount))
    BY <1>1, FS_Product
<1>3. PesosOf(f, ts) \in SUBSET (Txs \X (1 .. MaxAmount))
    BY DEF PesosOf
<1>4. IsFiniteSet(PesosOf(f, ts))
    BY <1>2, <1>3, FS_Subset
<1> QED BY <1>4, FS_CardinalityType

LEMMA BooksAreInt ==
    ASSUME DrawerAssumptions, NEW f, NEW ts
    PROVE  Books(f, ts) \in Int
BY PesosFinite DEF Books, DrawerAssumptions

LEMMA ExpectedIsBooks ==
    /\ \A ts : Drawers!ExpectedOver(ts) = Books(drawerTx, ts)
    /\ \A ts : Drawers!ExpectedOver(ts)' = Books(drawerTx', ts)
<1>1. \A S : Drawers!Cardinality(S) = Cardinality(S)
    BY SameCardinality
<1>2. ASSUME NEW ts
      PROVE  Drawers!ExpectedOver(ts) = Books(drawerTx, ts)
    BY <1>1 DEF Drawers!ExpectedOver, Drawers!Pesos, Books, PesosOf, Ins, Outs
<1>3. ASSUME NEW ts
      PROVE  Drawers!ExpectedOver(ts)' = Books(drawerTx', ts)
    BY <1>1 DEF Drawers!ExpectedOver, Drawers!Pesos, Books, PesosOf, Ins, Outs
<1> QED BY <1>2, <1>3

LEMMA BooksFrame ==
    ASSUME NEW f, NEW g, NEW ts, \A t \in ts : f[t].kind = g[t].kind /\ f[t].amount = g[t].amount
    PROVE  Books(f, ts) = Books(g, ts)
<1>1. Ins(f, ts) = Ins(g, ts) /\ Outs(f, ts) = Outs(g, ts)
    BY DEF Ins, Outs
<1>2. PesosOf(f, Ins(f, ts)) = PesosOf(g, Ins(f, ts))
    BY DEF PesosOf, Ins
<1>3. PesosOf(f, Outs(f, ts)) = PesosOf(g, Outs(f, ts))
    BY DEF PesosOf, Outs
<1> QED BY <1>1, <1>2, <1>3 DEF Books

\* Incomes a transaction did not see only add to what it saw.
LEMMA BooksGrow ==
    ASSUME DrawerAssumptions, NEW f, NEW ts, NEW us, ts \subseteq us, Outs(f, us) = Outs(f, ts)
    PROVE  Books(f, ts) <= Books(f, us)
<1>1. PesosOf(f, Ins(f, ts)) \in SUBSET PesosOf(f, Ins(f, us))
    BY DEF PesosOf, Ins
<1>2. Cardinality(PesosOf(f, Ins(f, ts))) <= Cardinality(PesosOf(f, Ins(f, us)))
    BY <1>1, PesosFinite, FS_Subset
<1> QED BY <1>2, PesosFinite DEF Books, DrawerAssumptions

LEMMA PesosAdd ==
    ASSUME DrawerAssumptions, NEW f, NEW ts, NEW t \in Txs, t \notin ts,
           f[t].amount \in 0 .. MaxAmount
    PROVE  Cardinality(PesosOf(f, ts \cup {t})) = Cardinality(PesosOf(f, ts)) + f[t].amount
<1> DEFINE n == f[t].amount
<1>0. n \in Nat /\ n <= MaxAmount /\ MaxAmount \in Nat
    BY DEF DrawerAssumptions
<1>1. PesosOf(f, {t}) = {t} \X (1 .. n)
    BY <1>0 DEF PesosOf
<1> HIDE DEF n
<1>2. Cardinality(PesosOf(f, {t})) = n
  <2>1. IsFiniteSet(1 .. n) /\ Cardinality(1 .. n) = n
    <3>1. 1 \in Int /\ n \in Int
        BY <1>0
    <3> DEFINE size == IF 1 > n THEN 0 ELSE n - 1 + 1
    <3>2. size = n
        BY <1>0
    <3>3. IsFiniteSet(1 .. n) /\ Cardinality(1 .. n) = size
        BY <3>1, FS_Interval, Zenon
    <3> HIDE DEF size
    <3> QED BY <3>2, <3>3
  <2>2. IsFiniteSet({t}) /\ Cardinality({t}) = 1
      BY FS_Singleton
  <2>3. Cardinality({t} \X (1 .. n)) = Cardinality({t}) * Cardinality(1 .. n)
      BY <2>1, <2>2, FS_Product, Zenon
  <2>4. Cardinality({t}) * Cardinality(1 .. n) = 1 * n
      BY <2>1, <2>2, Zenon
  <2>5. 1 * n = n
      BY <1>0
  <2> QED BY <1>1, <2>3, <2>4, <2>5, Zenon
<1>3. PesosOf(f, ts \cup {t}) = PesosOf(f, ts) \cup PesosOf(f, {t})
    BY DEF PesosOf
<1>4. PesosOf(f, ts) \cap PesosOf(f, {t}) = {}
    BY DEF PesosOf
<1>5. Cardinality(PesosOf(f, ts) \cap PesosOf(f, {t})) = 0
    BY <1>4, FS_EmptySet
<1>6. Cardinality(PesosOf(f, ts) \cup PesosOf(f, {t}))
          = Cardinality(PesosOf(f, ts)) + Cardinality(PesosOf(f, {t})) - 0
    BY <1>5, PesosFinite, FS_Union
<1>7. Cardinality(PesosOf(f, ts)) \in Nat
    BY PesosFinite
<1>8. Cardinality(PesosOf(f, ts \cup {t})) = Cardinality(PesosOf(f, ts)) + n
  <2> DEFINE old == Cardinality(PesosOf(f, ts))
             new == Cardinality(PesosOf(f, {t}))
             all == Cardinality(PesosOf(f, ts \cup {t}))
  <2>1. old \in Nat /\ new = n /\ all = old + new - 0
      BY <1>2, <1>3, <1>6, <1>7
  <2> HIDE DEF old, new, all
  <2>2. all = old + n
      BY <1>0, <2>1
  <2> QED BY <2>2 DEF old, all
<1> QED BY <1>8 DEF n

LEMMA BooksAdd ==
    ASSUME DrawerAssumptions, NEW f, NEW ts, NEW t \in Txs, t \notin ts,
           f[t].amount \in 0 .. MaxAmount
    PROVE  /\ f[t].kind \in {"income", "reversal"} =>
                 Books(f, ts \cup {t}) = Books(f, ts) + f[t].amount
           /\ f[t].kind = "exit" => Books(f, ts \cup {t}) = Books(f, ts) - f[t].amount
           /\ f[t].kind = "count" => Books(f, ts \cup {t}) = Books(f, ts)
<1> DEFINE n == f[t].amount
           in == Cardinality(PesosOf(f, Ins(f, ts)))
           out == Cardinality(PesosOf(f, Outs(f, ts)))
<1>0. n \in Nat /\ in \in Nat /\ out \in Nat /\ StartingCash \in Nat
    BY PesosFinite DEF DrawerAssumptions
<1>1. CASE f[t].kind \in {"income", "reversal"}
  <2>1. Ins(f, ts \cup {t}) = Ins(f, ts) \cup {t} /\ Outs(f, ts \cup {t}) = Outs(f, ts)
        /\ t \notin Ins(f, ts)
      BY <1>1 DEF Ins, Outs
  <2>2. Cardinality(PesosOf(f, Ins(f, ts) \cup {t})) = in + n
      BY <2>1, PesosAdd
  <2>3. Books(f, ts) = StartingCash + in - out
        /\ Books(f, ts \cup {t}) = StartingCash + (in + n) - out
      BY <2>1, <2>2 DEF Books
  <2> HIDE DEF n, in, out
  <2>4. Books(f, ts \cup {t}) = Books(f, ts) + n
      BY <1>0, <2>3
  <2> QED BY <1>1, <2>4 DEF n
<1>2. CASE f[t].kind = "exit"
  <2>1. Ins(f, ts \cup {t}) = Ins(f, ts) /\ Outs(f, ts \cup {t}) = Outs(f, ts) \cup {t}
        /\ t \notin Outs(f, ts)
      BY <1>2 DEF Ins, Outs
  <2>2. Cardinality(PesosOf(f, Outs(f, ts) \cup {t})) = out + n
      BY <2>1, PesosAdd
  <2>3. Books(f, ts) = StartingCash + in - out
        /\ Books(f, ts \cup {t}) = StartingCash + in - (out + n)
      BY <2>1, <2>2 DEF Books
  <2> HIDE DEF n, in, out
  <2>4. Books(f, ts \cup {t}) = Books(f, ts) - n
      BY <1>0, <2>3
  <2> QED BY <1>2, <2>4 DEF n
<1>3. CASE f[t].kind = "count"
  <2>1. Ins(f, ts \cup {t}) = Ins(f, ts) /\ Outs(f, ts \cup {t}) = Outs(f, ts)
      BY <1>3 DEF Ins, Outs
  <2> QED BY <1>3, <2>1 DEF Books
<1> QED BY <1>1, <1>2, <1>3

\* What a transaction that waits or has written may rely on.
DrawerTxSound(t) ==
    LET d == drawerTx[t] IN
    /\ d.snapshot \subseteq Drawers!Committed
    /\ d.stage = "locked" => counted = None \/ counted \in d.snapshot
    /\ d.stage = "written" =>
          /\ counted = None
          /\ d.kind = "exit" => d.amount <= Books(drawerTx, d.snapshot)
          /\ d.kind = "count" => d.expected = Books(drawerTx, d.snapshot)

DrawerInv ==
    /\ drawerTx \in [Txs -> DrawerRecords]
    /\ order \in Seq(Txs) /\ Drawers!IsInjective(order)
    /\ Drawers!Committed = {t \in Txs : drawerTx[t].stage = "committed"}
    /\ counted \in Drawers!Committed \cup {None}
    /\ \A t, u \in Txs : Drawers!HoldsSession(t) /\ Drawers!HoldsSession(u) => t = u
    /\ \A t \in Txs : DrawerTxSound(t)
    /\ Books(drawerTx, Drawers!Committed) >= 0
    /\ counted # None => drawerTx[counted].expected = Books(drawerTx, Drawers!Committed)

LEMMA DrawerInitInv ==
    ASSUME DrawerAssumptions, Drawers!Init
    PROVE  DrawerInv
<1>1. /\ drawerTx \in [Txs -> DrawerRecords]
      /\ \A t \in Txs : drawerTx[t].stage = "none" /\ drawerTx[t].snapshot = {}
    BY DEF Drawers!Init, Drawers!Unborn, Drawers!Kinds, DrawerRecords, DrawerAssumptions
<1>2. order = <<>> /\ counted = None
    BY DEF Drawers!Init
<1>3. order \in Seq(Txs) /\ Drawers!IsInjective(order) /\ Drawers!Committed = {}
    BY <1>2 DEF Drawers!IsInjective, Drawers!Committed, Drawers!ToSet
<1>4. Books(drawerTx, Drawers!Committed) >= 0
  <2>1. Cardinality(PesosOf(drawerTx, {})) = 0
    <3>1. PesosOf(drawerTx, {}) = {}
        BY DEF PesosOf
    <3> QED BY <3>1, FS_EmptySet
  <2>2. Ins(drawerTx, {}) = {} /\ Outs(drawerTx, {}) = {}
      BY DEF Ins, Outs
  <2>3. Books(drawerTx, {}) = StartingCash + 0 - 0
      BY <2>1, <2>2 DEF Books
  <2> QED BY <1>3, <2>3 DEF DrawerAssumptions
<1>5. \A t \in Txs : DrawerTxSound(t)
    BY <1>1 DEF DrawerTxSound
<1>6. \A t, u \in Txs : Drawers!HoldsSession(t) /\ Drawers!HoldsSession(u) => t = u
    BY <1>1 DEF Drawers!HoldsSession
<1> QED BY <1>1, <1>2, <1>3, <1>4, <1>5, <1>6 DEF DrawerInv

\* A step of one transaction before its commit changes no sum of what is committed.
LEMMA DrawerQuietStep ==
    ASSUME DrawerAssumptions, DrawerInv, UNCHANGED <<order, counted>>,
           NEW t \in Txs, NEW d \in DrawerRecords, drawerTx' = [drawerTx EXCEPT ![t] = d],
           drawerTx[t].stage # "committed", d.stage # "committed", DrawerTxSound(t)',
           Drawers!HoldsSession(t)' =>
               Drawers!HoldsSession(t) \/ \A u \in Txs : ~Drawers!HoldsSession(u)
    PROVE  DrawerInv'
<1>1. /\ drawerTx' \in [Txs -> DrawerRecords] /\ drawerTx'[t] = d
      /\ \A u \in Txs \ {t} : drawerTx'[u] = drawerTx[u]
    BY DEF DrawerInv
<1>2. Drawers!Committed' = Drawers!Committed
    BY DEF Drawers!Committed, Drawers!ToSet
<1>3. Drawers!Committed' = {u \in Txs : drawerTx'[u].stage = "committed"}
    BY <1>1, <1>2 DEF DrawerInv
<1>4. order' \in Seq(Txs) /\ Drawers!IsInjective(order)'
    BY DEF DrawerInv, Drawers!IsInjective
<1>5. \A u \in Drawers!Committed : drawerTx'[u] = drawerTx[u]
    BY <1>1 DEF DrawerInv
<1>6. \A ts : ts \subseteq Drawers!Committed => Books(drawerTx', ts) = Books(drawerTx, ts)
  <2> DEFINE f == drawerTx'
  <2>1. \A u \in Drawers!Committed : f[u].kind = drawerTx[u].kind /\ f[u].amount = drawerTx[u].amount
      BY <1>5
  <2>2. \A ts : (\A u \in ts : f[u].kind = drawerTx[u].kind /\ f[u].amount = drawerTx[u].amount)
              => Books(f, ts) = Books(drawerTx, ts)
    <3> HIDE DEF f
    <3> QED BY BooksFrame
  <2> HIDE DEF f
  <2>3. \A ts : ts \subseteq Drawers!Committed => Books(f, ts) = Books(drawerTx, ts)
      BY <2>1, <2>2
  <2> QED BY <2>3 DEF f
<1>7. ASSUME NEW u \in Txs \ {t}
      PROVE  DrawerTxSound(u)'
  <2>1. DrawerTxSound(u) /\ drawerTx'[u] = drawerTx[u]
      BY <1>1, <1>7 DEF DrawerInv
  <2>2. Books(drawerTx', drawerTx[u].snapshot) = Books(drawerTx, drawerTx[u].snapshot)
      BY <1>6, <2>1 DEF DrawerTxSound
  <2> QED BY <1>2, <2>1, <2>2 DEF DrawerTxSound
<1>8. ASSUME NEW u \in Txs, NEW v \in Txs, Drawers!HoldsSession(u)', Drawers!HoldsSession(v)'
      PROVE  u = v
    BY <1>1, <1>8 DEF DrawerInv, Drawers!HoldsSession
<1>9. Books(drawerTx', Drawers!Committed') = Books(drawerTx, Drawers!Committed)
    BY <1>2, <1>6
<1>10. counted' # None => drawerTx'[counted'] = drawerTx[counted]
    BY <1>5 DEF DrawerInv
<1> QED BY <1>1, <1>2, <1>3, <1>4, <1>7, <1>8, <1>9, <1>10 DEF DrawerInv

LEMMA DrawerBeginKeeps ==
    ASSUME DrawerAssumptions, DrawerInv, NEW t \in Txs, NEW kind \in Drawers!Kinds,
           NEW amount \in 0 .. MaxAmount, NEW undoes \in Txs \cup {None},
           Drawers!Begin(t, kind, amount, undoes)
    PROVE  DrawerInv'
<1> DEFINE d == [stage |-> "begun", kind |-> kind, amount |-> amount, undoes |-> undoes,
                 snapshot |-> Drawers!Committed, expected |-> 0]
<1>1. drawerTx' = [drawerTx EXCEPT ![t] = d] /\ UNCHANGED <<order, counted>>
      /\ drawerTx[t].stage = "none"
    BY DEF Drawers!Begin
<1>2. d \in DrawerRecords
    BY DEF DrawerRecords, DrawerInv
<1>3. drawerTx'[t] = d
    BY <1>1 DEF DrawerInv
<1>4. DrawerTxSound(t)' /\ ~Drawers!HoldsSession(t)'
    BY <1>1, <1>3 DEF DrawerTxSound, Drawers!HoldsSession, Drawers!Committed, Drawers!ToSet
<1>5. d.stage = "begun"
    OBVIOUS
<1> HIDE DEF d
<1> QED BY <1>1, <1>2, <1>4, <1>5, DrawerQuietStep

LEMMA DrawerLockKeeps ==
    ASSUME DrawerAssumptions, DrawerInv, NEW t \in Txs, Drawers!LockSession(t)
    PROVE  DrawerInv'
<1> DEFINE d == [drawerTx[t] EXCEPT !.stage = "locked"]
<1>1. /\ drawerTx' = [drawerTx EXCEPT ![t] = d] /\ UNCHANGED <<order, counted>>
      /\ drawerTx[t].stage = "begun" /\ ~Drawers!SessionChanged(t)
      /\ \A u \in Txs : ~Drawers!HoldsSession(u)
    BY DEF Drawers!LockSession, Drawers!SessionFree
<1>2. drawerTx[t] \in DrawerRecords
    BY DEF DrawerInv
<1>3. d \in DrawerRecords /\ d.stage = "locked" /\ d.snapshot = drawerTx[t].snapshot
    BY <1>2 DEF DrawerRecords
<1>4. drawerTx'[t] = d
    BY <1>1 DEF DrawerInv
<1>5. Drawers!LevelOf(t) = "SERIALIZABLE"
    BY <1>2 DEF Drawers!LevelOf, Drawers!Level, DrawerRecords
<1>6. DrawerTxSound(t)'
    BY <1>1, <1>3, <1>4, <1>5
       DEF DrawerInv, DrawerTxSound, Drawers!SessionChanged, Drawers!Committed, Drawers!ToSet
<1> HIDE DEF d
<1> QED BY <1>1, <1>3, <1>6, DrawerQuietStep

LEMMA DrawerWriteKeeps ==
    ASSUME DrawerAssumptions, DrawerInv, NEW t \in Txs, UNCHANGED <<order, counted>>,
           drawerTx[t].stage = "locked", Drawers!SessionOpenFor(t),
           NEW expected \in Int,
           drawerTx'[t] = [drawerTx[t] EXCEPT !.stage = "written", !.expected = expected],
           drawerTx' = [drawerTx EXCEPT ![t] = drawerTx'[t]],
           drawerTx[t].kind = "exit" =>
               drawerTx[t].amount <= Drawers!ExpectedOver(Drawers!Sees(t)),
           drawerTx[t].kind = "count" => expected = Drawers!ExpectedOver(Drawers!Sees(t))
    PROVE  DrawerInv'
<1> DEFINE d == drawerTx'[t]
<1>1. drawerTx[t] \in DrawerRecords /\ DrawerTxSound(t)
    BY DEF DrawerInv
<1>2. [drawerTx[t] EXCEPT !.stage = "written", !.expected = expected]
          = [stage |-> "written", kind |-> drawerTx[t].kind, amount |-> drawerTx[t].amount,
             undoes |-> drawerTx[t].undoes, snapshot |-> drawerTx[t].snapshot,
             expected |-> expected]
    BY <1>1 DEF DrawerRecords
<1>3. /\ d \in DrawerRecords /\ d.stage = "written" /\ d.kind = drawerTx[t].kind
      /\ d.amount = drawerTx[t].amount /\ d.snapshot = drawerTx[t].snapshot
      /\ d.expected = expected
    BY <1>1, <1>2 DEF DrawerRecords
<1>4. Drawers!Sees(t) = drawerTx[t].snapshot
    BY <1>1 DEF Drawers!Sees, Drawers!LevelOf, Drawers!Level, DrawerRecords
<1>5. counted = None
    BY <1>1, <1>4 DEF DrawerTxSound, Drawers!SessionOpenFor
<1>6. Books(drawerTx', d.snapshot) = Books(drawerTx, d.snapshot)
  <2>1. \A u \in d.snapshot : u \in Txs /\ u # t
      BY <1>1, <1>3 DEF DrawerInv, DrawerTxSound
  <2>2. \A u \in d.snapshot : drawerTx'[u] = drawerTx[u]
      BY <2>1 DEF DrawerInv
  <2> QED BY <2>2, BooksFrame
<1>7. Drawers!ExpectedOver(Drawers!Sees(t)) = Books(drawerTx, d.snapshot)
    BY <1>3, <1>4, ExpectedIsBooks
<1>8. DrawerTxSound(t)'
  <2>1. Drawers!Committed' = Drawers!Committed
      BY DEF Drawers!Committed, Drawers!ToSet
  <2> QED BY <1>1, <1>3, <1>5, <1>6, <1>7, <2>1 DEF DrawerTxSound
<1>9. Drawers!HoldsSession(t)
    BY DEF Drawers!HoldsSession
<1> HIDE DEF d
<1>10. drawerTx' = [drawerTx EXCEPT ![t] = d]
    BY DEF d
<1> QED BY <1>3, <1>8, <1>9, <1>10, DrawerQuietStep

LEMMA DrawerRollbackKeeps ==
    ASSUME DrawerAssumptions, DrawerInv, NEW t \in Txs, Drawers!Rollback(t)
    PROVE  DrawerInv'
<1> DEFINE d == [Drawers!Unborn EXCEPT !.stage = "gone"]
<1>1. /\ drawerTx' = [drawerTx EXCEPT ![t] = d] /\ UNCHANGED <<order, counted>>
      /\ drawerTx[t].stage # "committed"
    BY DEF Drawers!Rollback
<1>2. d = [stage |-> "gone", kind |-> "count", amount |-> 0, undoes |-> None, snapshot |-> {},
           expected |-> 0]
    BY DEF Drawers!Unborn
<1>3. d \in DrawerRecords /\ d.stage = "gone" /\ d.snapshot = {}
    BY <1>2 DEF DrawerRecords, Drawers!Kinds, DrawerAssumptions
<1>4. drawerTx'[t] = d
    BY <1>1 DEF DrawerInv
<1>5. DrawerTxSound(t)' /\ ~Drawers!HoldsSession(t)'
    BY <1>3, <1>4 DEF DrawerTxSound, Drawers!HoldsSession
<1> HIDE DEF d
<1> QED BY <1>1, <1>3, <1>5, DrawerQuietStep

\* A count or an exit that commits has seen everything but incomes: two transactions that read
\* the movements and did not see each other would be in conflict.
LEMMA MissedOnlyIncomes ==
    ASSUME DrawerAssumptions, DrawerInv, NEW t \in Txs, drawerTx[t].stage = "written",
           ~Drawers!Conflict(t), drawerTx[t].kind \in {"exit", "count"},
           NEW u \in Drawers!Committed \ drawerTx[t].snapshot
    PROVE  drawerTx[t].kind = "exit" /\ drawerTx[u].kind = "income"
<1>1. /\ drawerTx[t] \in DrawerRecords /\ drawerTx[u] \in DrawerRecords
      /\ t \notin Drawers!Committed /\ u \in Txs
    BY DEF DrawerInv
<1>2. Drawers!LevelOf(t) = "SERIALIZABLE" /\ Drawers!LevelOf(u) = "SERIALIZABLE"
    BY <1>1 DEF Drawers!LevelOf, Drawers!Level, DrawerRecords
<1>3. t \notin drawerTx[u].snapshot
    BY <1>1 DEF DrawerInv, DrawerTxSound
<1>4. Drawers!Reads(t) \cap Drawers!Writes(u) # {}
  <2>1. "movements" \in Drawers!Reads(t) /\ "movements" \in Drawers!Writes(u)
      BY DEF Drawers!Reads, Drawers!Writes
  <2> QED BY <2>1
<1>5. Drawers!Missed(t, u)
    BY <1>1, <1>2, <1>3, <1>4 DEF Drawers!Missed
<1>6. Drawers!Missed(u, t) => Drawers!Conflict(t)
    BY <1>1, <1>5 DEF Drawers!Conflict, Drawers!CommittedBefore
<1>7. Drawers!Reads(u) \cap Drawers!Writes(t) = {}
    BY <1>1, <1>2, <1>3, <1>6 DEF Drawers!Missed
<1>8. CASE drawerTx[t].kind = "count"
  <2>1. "session" \in Drawers!Reads(u) /\ "session" \in Drawers!Writes(t)
      BY <1>8 DEF Drawers!Reads, Drawers!Writes
  <2> QED BY <1>7, <2>1
<1>9. CASE drawerTx[u].kind # "income"
  <2>1. "movements" \in Drawers!Reads(u) /\ "movements" \in Drawers!Writes(t)
      BY <1>9 DEF Drawers!Reads, Drawers!Writes
  <2> QED BY <1>7, <2>1
<1> QED BY <1>8, <1>9

\* What a transaction of the drawer relied on is still so when it commits.
LEMMA DrawerCommitStep ==
    ASSUME DrawerAssumptions, DrawerInv, NEW t \in Txs, Drawers!Commit(t)
    PROVE  /\ t \notin Drawers!Committed /\ Drawers!Committed' = Drawers!Committed \cup {t}
           /\ counted = None
           /\ counted' = IF drawerTx[t].kind = "count" THEN t ELSE None
           /\ drawerTx[t] \in DrawerRecords
           /\ drawerTx'[t] = [drawerTx[t] EXCEPT !.stage = "committed"]
           /\ drawerTx' \in [Txs -> DrawerRecords]
           /\ \A u \in Txs \ {t} : drawerTx'[u] = drawerTx[u]
           /\ Books(drawerTx', Drawers!Committed') = Books(drawerTx, Drawers!Committed \cup {t})
           /\ drawerTx[t].kind = "exit" => drawerTx[t].amount <= Books(drawerTx, Drawers!Committed)
           /\ drawerTx[t].kind = "count" =>
                  drawerTx[t].expected = Books(drawerTx, Drawers!Committed)
<1> DEFINE d == [drawerTx[t] EXCEPT !.stage = "committed"]
           old == Drawers!Committed
<1>1. /\ drawerTx[t].stage = "written" /\ ~Drawers!Conflict(t)
      /\ drawerTx' = [drawerTx EXCEPT ![t] = d]
      /\ order' = Append(order, t)
      /\ counted' = IF drawerTx[t].kind = "count" THEN t ELSE counted
    BY DEF Drawers!Commit
<1>2. drawerTx[t] \in DrawerRecords /\ DrawerTxSound(t) /\ counted = None /\ old \subseteq Txs
    BY <1>1 DEF DrawerInv, DrawerTxSound
<1>3. /\ d \in DrawerRecords /\ d.kind = drawerTx[t].kind /\ d.amount = drawerTx[t].amount
    BY <1>2 DEF DrawerRecords
<1>4. /\ drawerTx' \in [Txs -> DrawerRecords] /\ drawerTx'[t] = d
      /\ \A u \in Txs \ {t} : drawerTx'[u] = drawerTx[u]
    BY <1>1, <1>3 DEF DrawerInv
<1>5. t \notin old
    BY <1>1 DEF DrawerInv
<1>6. /\ order' \in Seq(Txs) /\ Len(order') = Len(order) + 1 /\ order'[Len(order) + 1] = t
      /\ \A i \in 1 .. Len(order) : order'[i] = order[i]
      /\ DOMAIN order = 1 .. Len(order) /\ DOMAIN order' = 1 .. Len(order) + 1
      /\ Len(order) \in Nat
    BY <1>1 DEF DrawerInv
<1>7. Drawers!Committed' = old \cup {t}
    BY <1>6 DEF Drawers!Committed, Drawers!ToSet
<1>8. Books(drawerTx', Drawers!Committed') = Books(drawerTx, old \cup {t})
  <2>1. \A u \in old \cup {t} :
            drawerTx'[u].kind = drawerTx[u].kind /\ drawerTx'[u].amount = drawerTx[u].amount
      BY <1>2, <1>3, <1>4
  <2> QED BY <1>7, <2>1, BooksFrame
<1>9. ASSUME drawerTx[t].kind = "exit"
      PROVE  drawerTx[t].amount <= Books(drawerTx, old)
  <2>1. \A u \in old \ drawerTx[t].snapshot : drawerTx[u].kind = "income"
      BY <1>1, <1>9, MissedOnlyIncomes
  <2>2. Outs(drawerTx, old) = Outs(drawerTx, drawerTx[t].snapshot)
        /\ drawerTx[t].snapshot \subseteq old
      BY <1>2, <2>1 DEF Outs, DrawerTxSound
  <2>3. Books(drawerTx, drawerTx[t].snapshot) <= Books(drawerTx, old)
      BY <2>2, BooksGrow
  <2>4. drawerTx[t].amount <= Books(drawerTx, drawerTx[t].snapshot)
      BY <1>1, <1>2, <1>9 DEF DrawerTxSound
  <2>5. Books(drawerTx, old) \in Int /\ Books(drawerTx, drawerTx[t].snapshot) \in Int
        /\ drawerTx[t].amount \in Int
      BY <1>2, BooksAreInt DEF DrawerAssumptions, DrawerRecords
  <2> QED BY <2>3, <2>4, <2>5
<1>10. ASSUME drawerTx[t].kind = "count"
       PROVE  drawerTx[t].expected = Books(drawerTx, old)
  <2>1. old \ drawerTx[t].snapshot = {}
      BY <1>1, <1>10, MissedOnlyIncomes
  <2>2. drawerTx[t].snapshot = old
      BY <1>2, <2>1 DEF DrawerTxSound
  <2> QED BY <1>1, <1>2, <1>10, <2>2 DEF DrawerTxSound
<1>11. counted' = IF drawerTx[t].kind = "count" THEN t ELSE None
    BY <1>1, <1>2
<1> QED BY <1>2, <1>4, <1>5, <1>7, <1>8, <1>9, <1>10, <1>11

LEMMA DrawerCommitKeeps ==
    ASSUME DrawerAssumptions, DrawerInv, NEW t \in Txs, Drawers!Commit(t)
    PROVE  DrawerInv'
<1> DEFINE d == [drawerTx[t] EXCEPT !.stage = "committed"]
           old == Drawers!Committed
<1>1. drawerTx[t].stage = "written" /\ order' = Append(order, t)
    BY DEF Drawers!Commit
<1>2. drawerTx[t] \in DrawerRecords /\ DrawerTxSound(t) /\ counted = None
    BY DrawerCommitStep DEF DrawerInv
<1>3. /\ d.stage = "committed" /\ d.kind = drawerTx[t].kind
      /\ d.snapshot = drawerTx[t].snapshot /\ d.expected = drawerTx[t].expected
    BY <1>2 DEF DrawerRecords
<1>4. /\ drawerTx' \in [Txs -> DrawerRecords] /\ drawerTx'[t] = d
      /\ \A u \in Txs \ {t} : drawerTx'[u] = drawerTx[u]
      /\ t \notin old /\ Drawers!Committed' = old \cup {t}
      /\ counted' = IF drawerTx[t].kind = "count" THEN t ELSE None
      /\ Books(drawerTx', Drawers!Committed') = Books(drawerTx, old \cup {t})
    BY DrawerCommitStep
<1> HIDE DEF d
<1>5. /\ order' \in Seq(Txs) /\ Len(order') = Len(order) + 1 /\ order'[Len(order) + 1] = t
      /\ \A i \in 1 .. Len(order) : order'[i] = order[i]
      /\ DOMAIN order = 1 .. Len(order) /\ DOMAIN order' = 1 .. Len(order) + 1
      /\ Len(order) \in Nat
    BY <1>1 DEF DrawerInv
<1>6. Drawers!IsInjective(order)'
  <2>1. \A i \in 1 .. Len(order) : order[i] # t
      BY <1>4, <1>5 DEF Drawers!Committed, Drawers!ToSet
  <2> QED BY <1>5, <2>1 DEF DrawerInv, Drawers!IsInjective
<1>7. Drawers!Committed' = {u \in Txs : drawerTx'[u].stage = "committed"}
    BY <1>3, <1>4 DEF DrawerInv
<1>8. \A u \in Txs \ {t} : ~Drawers!HoldsSession(u)
    BY <1>1 DEF DrawerInv, Drawers!HoldsSession
<1>9. \A u, v \in Txs : Drawers!HoldsSession(u)' /\ Drawers!HoldsSession(v)' => u = v
    BY <1>3, <1>4, <1>8 DEF Drawers!HoldsSession
<1>10. \A u \in Txs : DrawerTxSound(u)'
  <2>1. ASSUME NEW u \in Txs \ {t}
        PROVE  DrawerTxSound(u)'
    <3>1. drawerTx'[u] = drawerTx[u] /\ DrawerTxSound(u)
          /\ drawerTx[u].stage \notin {"locked", "written"}
        BY <1>4, <1>8, <2>1 DEF DrawerInv, Drawers!HoldsSession
    <3> QED BY <1>4, <3>1 DEF DrawerTxSound
  <2>2. DrawerTxSound(t)'
      BY <1>2, <1>3, <1>4 DEF DrawerTxSound
  <2> QED BY <2>1, <2>2
<1>11. drawerTx[t].amount \in 0 .. MaxAmount /\ drawerTx[t].kind \in Drawers!Kinds
       /\ t \notin old
    BY <1>2, <1>4 DEF DrawerRecords
<1>12. Books(drawerTx, old) >= 0 /\ Books(drawerTx, old) \in Int /\ drawerTx[t].amount \in Nat
    BY <1>11, BooksAreInt DEF DrawerAssumptions, DrawerInv
<1>13. Books(drawerTx, old \cup {t}) >= 0
  <2> HIDE DEF old
  <2>0. /\ drawerTx[t].kind \in {"income", "reversal"} =>
             Books(drawerTx, old \cup {t}) = Books(drawerTx, old) + drawerTx[t].amount
        /\ drawerTx[t].kind = "exit" =>
             Books(drawerTx, old \cup {t}) = Books(drawerTx, old) - drawerTx[t].amount
        /\ drawerTx[t].kind = "count" =>
             Books(drawerTx, old \cup {t}) = Books(drawerTx, old)
      BY <1>11, BooksAdd
  <2>1. CASE drawerTx[t].kind \in {"income", "reversal"}
    <3>1. Books(drawerTx, old \cup {t}) = Books(drawerTx, old) + drawerTx[t].amount
        BY <2>0, <2>1
    <3> QED BY <1>12, <3>1
  <2>2. CASE drawerTx[t].kind = "exit"
    <3>1. drawerTx[t].amount <= Books(drawerTx, old)
        BY <2>2, DrawerCommitStep DEF old
    <3>2. Books(drawerTx, old \cup {t}) = Books(drawerTx, old) - drawerTx[t].amount
        BY <2>0, <2>2
    <3> DEFINE n == drawerTx[t].amount
               has == Books(drawerTx, old)
               left == Books(drawerTx, old \cup {t})
    <3>3. n \in Nat /\ has \in Int /\ n <= has /\ left = has - n
        BY <1>12, <3>1, <3>2
    <3> HIDE DEF n, has, left
    <3>4. left >= 0
        BY <3>3
    <3> QED BY <3>4 DEF left
  <2>3. CASE drawerTx[t].kind = "count"
      BY <1>12, <2>0, <2>3
  <2> QED BY <1>11, <2>1, <2>2, <2>3 DEF Drawers!Kinds
<1>14. counted' # None => drawerTx'[counted'].expected = Books(drawerTx', Drawers!Committed')
  <2>1. SUFFICES ASSUME counted' # None
                 PROVE  drawerTx'[counted'].expected = Books(drawerTx', Drawers!Committed')
      OBVIOUS
  <2>2. drawerTx[t].kind = "count" /\ counted' = t
      BY <1>4, <2>1
  <2>3. drawerTx[t].expected = Books(drawerTx, old)
      BY <2>2, DrawerCommitStep
  <2>4. Books(drawerTx, old \cup {t}) = Books(drawerTx, old)
      BY <1>11, <2>2, BooksAdd
  <2> QED BY <1>3, <1>4, <2>2, <2>3, <2>4
<1>15. counted' \in Drawers!Committed' \cup {None}
    BY <1>4
<1> QED BY <1>4, <1>5, <1>6, <1>7, <1>9, <1>10, <1>13, <1>14, <1>15 DEF DrawerInv

LEMMA DrawerStep ==
    ASSUME DrawerAssumptions, DrawerInv, [Drawers!Next]_(Drawers!vars)
    PROVE  DrawerInv'
<1>1. ASSUME NEW t \in Txs, NEW kind \in Drawers!Kinds, NEW amount \in 0 .. MaxAmount,
             NEW undoes \in Txs \cup {None}, Drawers!Begin(t, kind, amount, undoes)
      PROVE  DrawerInv'
    BY <1>1, DrawerBeginKeeps
<1>2. ASSUME NEW t \in Txs, Drawers!LockSession(t)
      PROVE  DrawerInv'
    BY <1>2, DrawerLockKeeps
<1>3. ASSUME NEW t \in Txs,
             \/ Drawers!WriteIncome(t) \/ Drawers!WriteExit(t) \/ Drawers!WriteReversal(t)
             \/ Drawers!WriteCount(t)
      PROVE  DrawerInv'
  <2> DEFINE expected == IF drawerTx[t].kind = "count" THEN Drawers!ExpectedOver(Drawers!Sees(t))
                         ELSE drawerTx[t].expected
             d == [drawerTx[t] EXCEPT !.stage = "written", !.expected = expected]
  <2>1. drawerTx[t] \in DrawerRecords
      BY DEF DrawerInv
  <2>2. expected \in Int
    <3>1. Drawers!ExpectedOver(Drawers!Sees(t)) \in Int
        BY ExpectedIsBooks, BooksAreInt
    <3> QED BY <2>1, <3>1 DEF DrawerRecords
  <2>3. CASE drawerTx[t].kind # "count"
    <3>1. drawerTx' = [drawerTx EXCEPT ![t].stage = "written"]
        BY <1>3, <2>3 DEF Drawers!WriteIncome, Drawers!WriteExit, Drawers!WriteReversal,
                          Drawers!WriteCount
    <3>2. [drawerTx[t] EXCEPT !.stage = "written"] = d
        BY <2>1, <2>3 DEF DrawerRecords
    <3>3. drawerTx'[t] = d /\ drawerTx' = [drawerTx EXCEPT ![t] = d]
        BY <3>1, <3>2 DEF DrawerInv
    <3>4. /\ drawerTx[t].stage = "locked" /\ Drawers!SessionOpenFor(t)
          /\ UNCHANGED <<order, counted>>
          /\ drawerTx[t].kind = "exit" =>
                drawerTx[t].amount <= Drawers!ExpectedOver(Drawers!Sees(t))
        BY <1>3, <2>3 DEF Drawers!WriteIncome, Drawers!WriteExit, Drawers!WriteReversal,
                          Drawers!WriteCount
    <3> QED BY <2>2, <2>3, <3>3, <3>4, DrawerWriteKeeps
  <2>4. CASE drawerTx[t].kind = "count"
    <3>1. Drawers!WriteCount(t)
        BY <1>3, <2>4 DEF Drawers!WriteIncome, Drawers!WriteExit, Drawers!WriteReversal
    <3>2. drawerTx' = [drawerTx EXCEPT ![t].stage = "written", ![t].expected = expected]
        BY <2>4, <3>1 DEF Drawers!WriteCount
    <3>3. drawerTx'[t] = d /\ drawerTx' = [drawerTx EXCEPT ![t] = d]
        BY <2>1, <3>2 DEF DrawerInv
    <3>4. /\ drawerTx[t].stage = "locked" /\ Drawers!SessionOpenFor(t)
          /\ UNCHANGED <<order, counted>>
        BY <3>1 DEF Drawers!WriteCount
    <3> QED BY <2>2, <2>4, <3>3, <3>4, DrawerWriteKeeps
  <2> QED BY <2>3, <2>4
<1>4. ASSUME NEW t \in Txs, Drawers!Commit(t)
      PROVE  DrawerInv'
    BY <1>4, DrawerCommitKeeps
<1>5. ASSUME NEW t \in Txs, Drawers!Rollback(t)
      PROVE  DrawerInv'
    BY <1>5, DrawerRollbackKeeps
<1>6. CASE UNCHANGED Drawers!vars
  <2>1. UNCHANGED <<drawerTx, order, counted>>
      BY <1>6 DEF Drawers!vars
  <2>2. UNCHANGED Drawers!Committed
      BY <2>1 DEF Drawers!Committed, Drawers!ToSet
  <2>3. Drawers!IsInjective(order)'
      BY <2>1 DEF DrawerInv, Drawers!IsInjective
  <2>4. \A t \in Txs : DrawerTxSound(t)'
      BY <2>1, <2>2 DEF DrawerInv, DrawerTxSound
  <2>5. \A t, u \in Txs : Drawers!HoldsSession(t)' /\ Drawers!HoldsSession(u)' => t = u
      BY <2>1 DEF DrawerInv, Drawers!HoldsSession
  <2> QED BY <2>1, <2>2, <2>3, <2>4, <2>5 DEF DrawerInv
<1> QED BY <1>1, <1>2, <1>3, <1>4, <1>5, <1>6 DEF Drawers!Next

LEMMA DrawersAlwaysSound ==
    ASSUME DrawerAssumptions
    PROVE  Drawers!Spec => []DrawerInv
<1>1. Drawers!Init => DrawerInv
    BY DrawerInitInv
<1>2. DrawerInv /\ [Drawers!Next]_(Drawers!vars) => DrawerInv'
    BY DrawerStep
<1> QED BY <1>1, <1>2, PTL DEF Drawers!Spec

\* The transactions keep their shape, and one at a time holds the row of the session.
THEOREM DrawersTypeCorrect ==
    ASSUME DrawerAssumptions
    PROVE  Drawers!Spec => []Drawers!TypeOK
<1>1. DrawerInv => Drawers!TypeOK
    BY DEF DrawerInv, DrawerRecords, Drawers!TypeOK
<1> QED BY <1>1, DrawersAlwaysSound, PTL

\* The count that closes a drawer has every movement of it, also those that committed while it
\* waited for the row of the session (cash.service.ts, closeSession): all of them ask for
\* Serializable transactions.
THEOREM CountNeverMisses ==
    ASSUME DrawerAssumptions
    PROVE  Drawers!Spec => []CountMissesNothing
<1>1. DrawerInv => CountMissesNothing
    BY ExpectedIsBooks DEF DrawerInv, Drawers!CountMissesNothing, CountMissesNothing
<1> QED BY <1>1, DrawersAlwaysSound, PTL

\* The drawer never gives more than it holds, whatever two exits saw of each other
\* (cash.service.ts, createMovement; void-and-exchange.service.ts).
THEOREM DrawerAlwaysHoldsCash ==
    ASSUME DrawerAssumptions
    PROVE  Drawers!Spec => []Drawers!DrawerHoldsCash
<1>1. DrawerInv => Drawers!DrawerHoldsCash
    BY ExpectedIsBooks DEF DrawerInv, Drawers!DrawerHoldsCash
<1> QED BY <1>1, DrawersAlwaysSound, PTL

-----------------------------------------------------------------------------
(***************************************************************************)
(* The transactions of a drawer implement the movements and the count of   *)
(* DrawerBooks.  A reversal checks that nobody put its exit back while it  *)
(* holds the row of the session, so that is still so when it commits.      *)
(***************************************************************************)

UndoSound(t) ==
    LET d == drawerTx[t] IN
    /\ d.stage \in {"begun", "locked", "written", "committed"} => (d.kind = "count" <=> d.amount = 0)
    /\ IF d.kind = "reversal"
       THEN /\ d.undoes \in Drawers!Committed
            /\ drawerTx[d.undoes].kind = "exit" /\ drawerTx[d.undoes].amount = d.amount
       ELSE d.undoes = None
    /\ d.stage = "written" /\ d.kind = "reversal" =>
          \A u \in Drawers!Committed : drawerTx[u].undoes # d.undoes

UndoInv == \A t \in Txs : UndoSound(t)

LEMMA UndoInit ==
    ASSUME Drawers!Init
    PROVE  UndoInv
BY DEF Drawers!Init, Drawers!Unborn, UndoInv, UndoSound

\* Before it commits, a transaction changes nothing that others rely on.
LEMMA UndoQuiet ==
    ASSUME DrawerInv, UndoInv, UNCHANGED <<order, counted>>, NEW t \in Txs, NEW d \in DrawerRecords,
           drawerTx' = [drawerTx EXCEPT ![t] = d], drawerTx[t].stage # "committed",
           /\ d.stage \in {"begun", "locked", "written"} => (d.kind = "count" <=> d.amount = 0)
           /\ IF d.kind = "reversal"
              THEN /\ d.undoes \in Drawers!Committed
                   /\ drawerTx[d.undoes].kind = "exit" /\ drawerTx[d.undoes].amount = d.amount
              ELSE d.undoes = None
           /\ d.stage = "written" /\ d.kind = "reversal" =>
                 \A u \in Drawers!Committed : drawerTx[u].undoes # d.undoes
           /\ d.stage # "committed"
    PROVE  UndoInv'
<1>1. /\ drawerTx'[t] = d /\ \A u \in Txs \ {t} : drawerTx'[u] = drawerTx[u]
      /\ t \notin Drawers!Committed /\ Drawers!Committed \subseteq Txs
    BY DEF DrawerInv
<1>2. Drawers!Committed' = Drawers!Committed
    BY DEF Drawers!Committed, Drawers!ToSet
<1>3. \A u \in Drawers!Committed : drawerTx'[u] = drawerTx[u]
    BY <1>1
<1>4. ASSUME NEW u \in Txs
      PROVE  UndoSound(u)'
  <2>1. CASE u = t
      BY <1>1, <1>2, <1>3, <2>1 DEF UndoSound
  <2>2. CASE u # t
    <3>1. UndoSound(u) /\ drawerTx'[u] = drawerTx[u]
        BY <1>1, <2>2 DEF UndoInv
    <3> QED BY <1>2, <1>3, <3>1 DEF UndoSound
  <2> QED BY <2>1, <2>2
<1> QED BY <1>4 DEF UndoInv

LEMMA UndoCommit ==
    ASSUME DrawerAssumptions, DrawerInv, UndoInv, NEW t \in Txs, Drawers!Commit(t)
    PROVE  UndoInv'
<1> DEFINE d == [drawerTx[t] EXCEPT !.stage = "committed"]
           old == Drawers!Committed
<1>1. /\ drawerTx[t] \in DrawerRecords /\ drawerTx[t].stage = "written"
      /\ t \notin old /\ Drawers!Committed' = old \cup {t} /\ drawerTx'[t] = d
      /\ \A u \in Txs \ {t} : drawerTx'[u] = drawerTx[u]
    BY DrawerCommitStep DEF Drawers!Commit
<1>2. /\ d.stage = "committed" /\ d.kind = drawerTx[t].kind
      /\ d.amount = drawerTx[t].amount /\ d.undoes = drawerTx[t].undoes
    BY <1>1 DEF DrawerRecords
<1> HIDE DEF d
<1>3. \A u \in Txs \ {t} : drawerTx[u].stage # "written"
    BY <1>1 DEF DrawerInv, Drawers!HoldsSession
<1>4. old \subseteq Txs \ {t}
    BY <1>1 DEF DrawerInv
<1>5. ASSUME NEW u \in Txs
      PROVE  UndoSound(u)'
  <2>1. UndoSound(u)
      BY DEF UndoInv
  <2>2. /\ drawerTx'[u].kind = drawerTx[u].kind /\ drawerTx'[u].amount = drawerTx[u].amount
        /\ drawerTx'[u].undoes = drawerTx[u].undoes
        /\ drawerTx'[u].stage # "written"
        /\ drawerTx'[u].stage \in {"begun", "locked", "written", "committed"} =>
              drawerTx[u].stage \in {"begun", "locked", "written", "committed"}
      BY <1>1, <1>2, <1>3
  <2>3. \A m \in old : drawerTx'[m] = drawerTx[m] /\ m \in Drawers!Committed'
      BY <1>1, <1>4
  <2> QED BY <2>1, <2>2, <2>3 DEF UndoSound
<1> QED BY <1>5 DEF UndoInv

LEMMA UndoStep ==
    ASSUME DrawerAssumptions, DrawerInv, UndoInv, [Drawers!Next]_(Drawers!vars)
    PROVE  UndoInv'
<1>1. ASSUME NEW t \in Txs, NEW kind \in Drawers!Kinds, NEW amount \in 0 .. MaxAmount,
             NEW undoes \in Txs \cup {None}, Drawers!Begin(t, kind, amount, undoes)
      PROVE  UndoInv'
  <2> DEFINE d == [stage |-> "begun", kind |-> kind, amount |-> amount, undoes |-> undoes,
                   snapshot |-> Drawers!Committed, expected |-> 0]
  <2>1. d \in DrawerRecords
      BY DEF DrawerInv, DrawerRecords
  <2>2. /\ drawerTx' = [drawerTx EXCEPT ![t] = d] /\ UNCHANGED <<order, counted>>
        /\ drawerTx[t].stage = "none" /\ (kind = "count" <=> amount = 0)
        /\ IF kind = "reversal"
           THEN undoes \in Drawers!Committed /\ drawerTx[undoes].kind = "exit"
                /\ drawerTx[undoes].amount = amount
           ELSE undoes = None
      BY <1>1 DEF Drawers!Begin
  <2>3. d.stage = "begun" /\ d.kind = kind /\ d.amount = amount /\ d.undoes = undoes
      OBVIOUS
  <2> HIDE DEF d
  <2> QED BY <2>1, <2>2, <2>3, UndoQuiet
<1>2. ASSUME NEW t \in Txs, Drawers!LockSession(t)
      PROVE  UndoInv'
  <2> DEFINE d == [drawerTx[t] EXCEPT !.stage = "locked"]
  <2>1. drawerTx[t] \in DrawerRecords /\ UndoSound(t)
      BY DEF DrawerInv, UndoInv
  <2>2. /\ d \in DrawerRecords /\ d.stage = "locked" /\ d.kind = drawerTx[t].kind
        /\ d.amount = drawerTx[t].amount /\ d.undoes = drawerTx[t].undoes
      BY <2>1 DEF DrawerRecords
  <2>3. /\ drawerTx' = [drawerTx EXCEPT ![t] = d] /\ UNCHANGED <<order, counted>>
        /\ drawerTx[t].stage = "begun"
      BY <1>2 DEF Drawers!LockSession, DrawerInv
  <2> HIDE DEF d
  <2> QED BY <2>1, <2>2, <2>3, UndoQuiet DEF UndoSound
<1>3. ASSUME NEW t \in Txs,
             \/ Drawers!WriteIncome(t) \/ Drawers!WriteExit(t) \/ Drawers!WriteReversal(t)
             \/ Drawers!WriteCount(t)
      PROVE  UndoInv'
  <2> DEFINE d == drawerTx'[t]
  <2>1. drawerTx[t] \in DrawerRecords /\ UndoSound(t)
      BY DEF DrawerInv, UndoInv
  <2>2. PICK e \in Int : d = [drawerTx[t] EXCEPT !.stage = "written", !.expected = e]
                         /\ drawerTx' = [drawerTx EXCEPT ![t] = d]
    <3>1. CASE Drawers!WriteCount(t)
      <4>1. Drawers!ExpectedOver(Drawers!Sees(t)) \in Int
          BY ExpectedIsBooks, BooksAreInt
      <4>2. drawerTx' = [drawerTx EXCEPT ![t].stage = "written",
                            ![t].expected = Drawers!ExpectedOver(Drawers!Sees(t))]
          BY <3>1 DEF Drawers!WriteCount
      <4>3. d = [drawerTx[t] EXCEPT !.stage = "written",
                            !.expected = Drawers!ExpectedOver(Drawers!Sees(t))]
            /\ drawerTx' = [drawerTx EXCEPT ![t] = d]
          BY <4>2 DEF DrawerInv
      <4> QED BY <4>1, <4>3
    <3>2. CASE Drawers!WriteIncome(t) \/ Drawers!WriteExit(t) \/ Drawers!WriteReversal(t)
      <4>1. drawerTx' = [drawerTx EXCEPT ![t].stage = "written"]
          BY <3>2 DEF Drawers!WriteIncome, Drawers!WriteExit, Drawers!WriteReversal
      <4>2. [drawerTx[t] EXCEPT !.stage = "written"]
              = [drawerTx[t] EXCEPT !.stage = "written", !.expected = drawerTx[t].expected]
          BY <2>1 DEF DrawerRecords
      <4>3. drawerTx[t].expected \in Int
          BY <2>1 DEF DrawerRecords
      <4>4. d = [drawerTx[t] EXCEPT !.stage = "written", !.expected = drawerTx[t].expected]
            /\ drawerTx' = [drawerTx EXCEPT ![t] = d]
          BY <4>1, <4>2 DEF DrawerInv
      <4> QED BY <4>3, <4>4
    <3> QED BY <1>3, <3>1, <3>2
  <2>3. /\ d \in DrawerRecords /\ d.stage = "written" /\ d.kind = drawerTx[t].kind
        /\ d.amount = drawerTx[t].amount /\ d.undoes = drawerTx[t].undoes
      BY <2>1, <2>2 DEF DrawerRecords
  <2>4. /\ drawerTx[t].stage = "locked" /\ UNCHANGED <<order, counted>>
        /\ drawerTx[t].kind = "reversal" =>
              \A u \in Drawers!Committed : drawerTx[u].undoes # drawerTx[t].undoes
      BY <1>3 DEF Drawers!WriteIncome, Drawers!WriteExit, Drawers!WriteReversal, Drawers!WriteCount
  <2>5. drawerTx' = [drawerTx EXCEPT ![t] = d]
      BY <2>2
  <2> HIDE DEF d
  <2> QED BY <2>1, <2>3, <2>4, <2>5, UndoQuiet DEF UndoSound
<1>4. ASSUME NEW t \in Txs, Drawers!Commit(t)
      PROVE  UndoInv'
    BY <1>4, UndoCommit
<1>5. ASSUME NEW t \in Txs, Drawers!Rollback(t)
      PROVE  UndoInv'
  <2> DEFINE d == [Drawers!Unborn EXCEPT !.stage = "gone"]
  <2>1. d = [stage |-> "gone", kind |-> "count", amount |-> 0, undoes |-> None, snapshot |-> {},
             expected |-> 0]
      BY DEF Drawers!Unborn
  <2>2. d \in DrawerRecords /\ d.stage = "gone" /\ d.kind = "count" /\ d.undoes = None
      BY <2>1 DEF DrawerRecords, Drawers!Kinds, DrawerAssumptions
  <2>3. /\ drawerTx' = [drawerTx EXCEPT ![t] = d] /\ UNCHANGED <<order, counted>>
        /\ drawerTx[t].stage # "committed"
      BY <1>5 DEF Drawers!Rollback
  <2> HIDE DEF d
  <2> QED BY <2>2, <2>3, UndoQuiet
<1>6. CASE UNCHANGED Drawers!vars
  <2>1. UNCHANGED <<drawerTx, order, counted>>
      BY <1>6 DEF Drawers!vars
  <2>2. UNCHANGED Drawers!Committed
      BY <2>1 DEF Drawers!Committed, Drawers!ToSet
  <2> QED BY <2>1, <2>2 DEF UndoInv, UndoSound
<1> QED BY <1>1, <1>2, <1>3, <1>4, <1>5, <1>6 DEF Drawers!Next

\* What the exits among the transactions ts took and nobody of ts put back.
TakenOf(f, ts) ==
    [t \in Txs |-> IF t \in ts /\ f[t].kind = "exit" /\ ~\E u \in ts : f[u].undoes = t
                   THEN f[t].amount ELSE 0]

\* What the drawer moves from one commit to the next, in the terms of DrawerBooks.
LEMMA LedgerMoves ==
    ASSUME counted = None, counted' = None,
           NEW has \in Int, has = Books(drawerTx, Drawers!Committed),
           NEW left \in Int, left = Books(drawerTx', Drawers!Committed'), left # has,
           NEW took, took = TakenOf(drawerTx, Drawers!Committed),
           NEW take, take = TakenOf(drawerTx', Drawers!Committed'),
           \/ left > has /\ take = took
           \/ \E t \in Txs : took[t] = 0 /\ left \in Nat /\ left < has
                              /\ take = [took EXCEPT ![t] = has - left]
           \/ \E t \in Txs : took[t] > 0 /\ left = has + took[t] /\ take = [took EXCEPT ![t] = 0]
    PROVE  Ledger!BooksNext
<1>1. /\ has = Drawers!ExpectedOver(Drawers!Committed)
      /\ left = Drawers!ExpectedOver(Drawers!Committed)'
  <2>1. Drawers!ExpectedOver(Drawers!Committed)' = Books(drawerTx', Drawers!Committed')
      BY SameCardinality DEF Drawers!ExpectedOver, Drawers!Pesos, Books, PesosOf, Ins, Outs
  <2> QED BY <2>1, ExpectedIsBooks
<1>2. took = [t \in Txs |->
                IF t \in Drawers!Committed /\ drawerTx[t].kind = "exit" /\ ~PutBack(t)
                THEN drawerTx[t].amount ELSE 0]
    BY DEF TakenOf, PutBack
<1>3. take = [t \in Txs |->
                IF t \in Drawers!Committed /\ drawerTx[t].kind = "exit" /\ ~PutBack(t)
                THEN drawerTx[t].amount ELSE 0]'
    BY DEF TakenOf, PutBack
<1>4. CASE left > has /\ take = took
  <2>1. Ledger!TakeIn
      BY <1>1, <1>2, <1>3, <1>4 DEF Ledger!TakeIn
  <2> QED BY <1>1, <2>1 DEF Ledger!Move, Ledger!BooksNext
<1>5. ASSUME NEW t \in Txs, took[t] = 0, left \in Nat, left < has,
             take = [took EXCEPT ![t] = has - left]
      PROVE  Ledger!BooksNext
  <2>1. Ledger!TakeOut(t)
      BY <1>1, <1>2, <1>3, <1>5 DEF Ledger!TakeOut
  <2> QED BY <1>1, <2>1 DEF Ledger!Move, Ledger!BooksNext
<1>6. ASSUME NEW t \in Txs, took[t] > 0, left = has + took[t], take = [took EXCEPT ![t] = 0]
      PROVE  Ledger!BooksNext
  <2>1. Ledger!PutBack(t)
      BY <1>1, <1>2, <1>3, <1>6 DEF Ledger!PutBack
  <2> QED BY <1>1, <2>1 DEF Ledger!Move, Ledger!BooksNext
<1> QED BY <1>4, <1>5, <1>6

LEMMA LedgerCommit ==
    ASSUME DrawerAssumptions, DrawerInv, UndoInv, NEW t \in Txs, Drawers!Commit(t)
    PROVE  Ledger!BooksNext
<1> DEFINE d == drawerTx[t]
           old == Drawers!Committed
           has == Books(drawerTx, old)
           left == Books(drawerTx', Drawers!Committed')
           took == TakenOf(drawerTx, old)
           take == TakenOf(drawerTx', Drawers!Committed')
<1>1. /\ t \notin old /\ Drawers!Committed' = old \cup {t} /\ counted = None
      /\ counted' = IF d.kind = "count" THEN t ELSE None
      /\ d \in DrawerRecords
      /\ drawerTx'[t] = [d EXCEPT !.stage = "committed"]
      /\ \A u \in Txs \ {t} : drawerTx'[u] = drawerTx[u]
      /\ left = Books(drawerTx, old \cup {t})
      /\ d.kind = "exit" => d.amount <= has
      /\ d.kind = "count" => d.expected = has
    BY DrawerCommitStep
<1>2. /\ UndoSound(t) /\ d.stage = "written" /\ None \notin Txs /\ old \subseteq Txs
      /\ \A u \in old : UndoSound(u)
    BY DEF DrawerInv, UndoInv, Drawers!Commit, DrawerAssumptions
<1>3. d.amount \in 0 .. MaxAmount /\ d.kind \in Drawers!Kinds /\ MaxAmount \in Nat
    BY <1>1 DEF DrawerRecords, DrawerAssumptions
<1>4. has \in Int /\ left \in Int
    BY BooksAreInt
<1>5. \A u \in Txs : /\ drawerTx'[u].kind = drawerTx[u].kind
                     /\ drawerTx'[u].amount = drawerTx[u].amount
                     /\ drawerTx'[u].undoes = drawerTx[u].undoes
    BY <1>1 DEF DrawerRecords
<1>6. take = [u \in Txs |-> IF u \in old \cup {t} /\ drawerTx[u].kind = "exit"
                                /\ ~\E v \in old \cup {t} : drawerTx[v].undoes = u
                             THEN drawerTx[u].amount ELSE 0]
    BY <1>1, <1>2, <1>5 DEF TakenOf
<1>7. \A u \in old : drawerTx[u].undoes # t
    BY <1>1, <1>2 DEF UndoSound
<1>8. d.kind # "reversal" => \A u \in Txs : d.undoes # u
    BY <1>2 DEF UndoSound
<1>9. took \in [Txs -> Nat]
  <2>1. \A u \in Txs : drawerTx[u].amount \in Nat
      BY <1>3 DEF DrawerInv, DrawerRecords
  <2> QED BY <2>1 DEF TakenOf
<1>10. took = [u \in Txs |-> IF u \in old /\ drawerTx[u].kind = "exit"
                                /\ ~\E v \in old : drawerTx[v].undoes = u
                             THEN drawerTx[u].amount ELSE 0]
    BY DEF TakenOf
<1>11. /\ d.kind \in {"income", "reversal"} => left = has + d.amount
       /\ d.kind = "exit" => left = has - d.amount
       /\ d.kind = "count" => left = has
  <2>1. t \notin old /\ left = Books(drawerTx, old \cup {t})
      BY <1>1
  <2>2. drawerTx[t].amount \in 0 .. MaxAmount
      BY <1>3
  <2> HIDE DEF left, old
  <2>3. /\ drawerTx[t].kind \in {"income", "reversal"} =>
             Books(drawerTx, old \cup {t}) = Books(drawerTx, old) + drawerTx[t].amount
        /\ drawerTx[t].kind = "exit" =>
             Books(drawerTx, old \cup {t}) = Books(drawerTx, old) - drawerTx[t].amount
        /\ drawerTx[t].kind = "count" =>
             Books(drawerTx, old \cup {t}) = Books(drawerTx, old)
      BY <2>1, <2>2, BooksAdd
  <2> QED BY <2>1, <2>3
<1> HIDE DEF has, left, took, take, old
<1>12. CASE d.kind = "income"
  <2>1. take = took
      BY <1>6, <1>8, <1>10, <1>12
  <2>2. left = has + d.amount
      BY <1>11, <1>12
  <2>3. d.amount > 0
      BY <1>2, <1>3, <1>12 DEF UndoSound
  <2>4. left > has /\ left # has
      BY <1>3, <1>4, <2>2, <2>3
  <2>5. counted' = None
      BY <1>1, <1>12
  <2> QED BY <1>1, <1>4, <2>1, <2>4, <2>5, LedgerMoves DEF has, left, took, take, old
<1>13. CASE d.kind = "exit"
  <2>1. left = has - d.amount
      BY <1>11, <1>13
  <2>2. d.amount > 0 /\ d.amount <= has
      BY <1>1, <1>2, <1>3, <1>13 DEF UndoSound
  <2>3. take = [took EXCEPT ![t] = d.amount] /\ took[t] = 0
      BY <1>1, <1>6, <1>7, <1>8, <1>10, <1>13
  <2>4. counted' = None
      BY <1>1, <1>13
  <2>5. left < has /\ left # has /\ left \in Nat /\ d.amount = has - left
      BY <1>3, <1>4, <2>1, <2>2
  <2>6. \E u \in Txs : took[u] = 0 /\ left \in Nat /\ left < has
                         /\ take = [took EXCEPT ![u] = has - left]
      BY <2>3, <2>5
  <2>7. counted = None /\ left # has
      BY <1>1, <2>5
  <2> QED BY <1>4, <2>4, <2>6, <2>7, LedgerMoves DEF has, left, took, take, old
<1>14. CASE d.kind = "reversal"
  <2> DEFINE m == d.undoes
  <2>1. /\ m \in old /\ m \in Txs /\ drawerTx[m].kind = "exit" /\ drawerTx[m].amount = d.amount
        /\ \A u \in old : drawerTx[u].undoes # m
      BY <1>2, <1>14 DEF UndoSound, old
  <2>2. took[m] = d.amount
      BY <1>10, <2>1
  <2>3. take = [took EXCEPT ![m] = 0]
    <3>1. [took EXCEPT ![m] = 0] \in [Txs -> Nat]
        BY <1>9
    <3>2. ASSUME NEW u \in Txs
          PROVE  take[u] = [took EXCEPT ![m] = 0][u]
      <4>1. CASE u = m
          BY <1>6, <1>9, <4>1
      <4>2. CASE u # m
        <5>1. u # t \/ drawerTx[u].kind # "exit"
            BY <1>14
        <5>2. (\E v \in old \cup {t} : drawerTx[v].undoes = u) <=> \E v \in old : drawerTx[v].undoes = u
            BY <4>2
        <5> QED BY <1>6, <1>9, <1>10, <4>2, <5>1, <5>2
      <4> QED BY <4>1, <4>2
    <3>3. take = [u \in Txs |-> take[u]] /\ [took EXCEPT ![m] = 0] = [u \in Txs |-> [took EXCEPT ![m] = 0][u]]
        BY <1>6, <3>1
    <3> QED BY <3>2, <3>3
  <2>4. left = has + d.amount
      BY <1>11, <1>14
  <2>5. d.amount > 0
      BY <1>2, <1>3, <1>14 DEF UndoSound
  <2>6. counted' = None
      BY <1>1, <1>14
  <2> HIDE DEF m
  <2>7. left # has
      BY <1>3, <1>4, <2>4, <2>5
  <2>8. \E u \in Txs : took[u] > 0 /\ left = has + took[u] /\ take = [took EXCEPT ![u] = 0]
      BY <2>1, <2>2, <2>3, <2>4, <2>5
  <2>9. counted = None
      BY <1>1
  <2> QED BY <1>4, <2>6, <2>7, <2>8, <2>9, LedgerMoves DEF has, left, took, take, old
<1>15. CASE d.kind = "count"
  <2>1. take = took
      BY <1>6, <1>8, <1>10, <1>15
  <2>2. left = has
      BY <1>11, <1>15
  <2>3. counted' = t /\ drawerTx'[t].expected = has /\ t # None
      BY <1>1, <1>2, <1>15 DEF DrawerRecords
  <2>4. /\ Drawers!ExpectedOver(Drawers!Committed) = has
        /\ Drawers!ExpectedOver(Drawers!Committed)' = left
    <3>1. Drawers!ExpectedOver(Drawers!Committed)' = Books(drawerTx', Drawers!Committed')
        BY SameCardinality DEF Drawers!ExpectedOver, Drawers!Pesos, Books, PesosOf, Ins, Outs
    <3> QED BY <3>1, ExpectedIsBooks DEF has, left, old
  <2>5. took = [u \in Txs |->
                  IF u \in Drawers!Committed /\ drawerTx[u].kind = "exit" /\ ~PutBack(u)
                  THEN drawerTx[u].amount ELSE 0]
      BY DEF TakenOf, PutBack, took, take, old
  <2>6. take = [u \in Txs |->
                  IF u \in Drawers!Committed /\ drawerTx[u].kind = "exit" /\ ~PutBack(u)
                  THEN drawerTx[u].amount ELSE 0]'
      BY DEF TakenOf, PutBack, took, take, old
  <2>7. Ledger!Count
      BY <1>1, <2>1, <2>2, <2>3, <2>4, <2>5, <2>6 DEF Ledger!Count
  <2> QED BY <2>7 DEF Ledger!BooksNext
<1> QED BY <1>3, <1>12, <1>13, <1>14, <1>15 DEF Drawers!Kinds

LEMMA LedgerInit ==
    ASSUME DrawerAssumptions, Drawers!Init
    PROVE  Ledger!BooksInit
<1>1. order = <<>> /\ counted = None
    BY DEF Drawers!Init
<1>2. Drawers!Committed = {}
    BY <1>1 DEF Drawers!Committed, Drawers!ToSet
<1>3. Drawers!ExpectedOver(Drawers!Committed) = StartingCash
  <2>1. Ins(drawerTx, {}) = {} /\ Outs(drawerTx, {}) = {} /\ PesosOf(drawerTx, {}) = {}
      BY DEF Ins, Outs, PesosOf
  <2>2. Books(drawerTx, {}) = StartingCash + 0 - 0
      BY <2>1, FS_EmptySet DEF Books
  <2> QED BY <1>2, <2>2, ExpectedIsBooks DEF DrawerAssumptions
<1> QED BY <1>1, <1>2, <1>3 DEF Ledger!BooksInit, DrawerAssumptions

\* Until a transaction commits, the books stay as they are.
LEMMA LedgerQuiet ==
    ASSUME DrawerAssumptions, DrawerInv, DrawerInv', UNCHANGED <<order, counted>>,
           \A u \in Drawers!Committed : drawerTx'[u] = drawerTx[u]
    PROVE  UNCHANGED Ledger!booksVars
<1>1. Drawers!Committed' = Drawers!Committed
    BY DEF Drawers!Committed, Drawers!ToSet
<1>2. Drawers!ExpectedOver(Drawers!Committed)' = Drawers!ExpectedOver(Drawers!Committed)
  <2>1. Drawers!ExpectedOver(Drawers!Committed)' = Books(drawerTx', Drawers!Committed')
      BY SameCardinality DEF Drawers!ExpectedOver, Drawers!Pesos, Books, PesosOf, Ins, Outs
  <2>2. Books(drawerTx', Drawers!Committed) = Books(drawerTx, Drawers!Committed)
      BY BooksFrame
  <2> QED BY <1>1, <2>1, <2>2, ExpectedIsBooks
<1>3. \A t \in Txs : PutBack(t)' <=> PutBack(t)
    BY <1>1 DEF PutBack
<1>4. counted # None => drawerTx'[counted] = drawerTx[counted]
    BY DEF DrawerInv
<1>5. UNCHANGED (IF counted = None THEN None ELSE drawerTx[counted].expected)
    BY <1>4
<1>6. UNCHANGED [t \in Txs |->
          IF t \in Drawers!Committed /\ drawerTx[t].kind = "exit" /\ ~PutBack(t)
          THEN drawerTx[t].amount ELSE 0]
    BY <1>1, <1>3
<1>7. UNCHANGED (IF counted = None THEN "OPEN" ELSE "COUNTED")
    OBVIOUS
<1> QED BY <1>2, <1>5, <1>6, <1>7 DEF Ledger!booksVars

LEMMA LedgerStep ==
    ASSUME DrawerAssumptions, DrawerInv, DrawerInv', UndoInv, [Drawers!Next]_(Drawers!vars)
    PROVE  [Ledger!BooksNext]_(Ledger!booksVars)
<1>1. ASSUME NEW t \in Txs, Drawers!Commit(t)
      PROVE  Ledger!BooksNext
    BY <1>1, LedgerCommit
<1>2. CASE \A t \in Txs : ~Drawers!Commit(t)
  <2>1. /\ UNCHANGED <<order, counted>>
        /\ \A u \in Txs : drawerTx[u].stage = "committed" => drawerTx'[u] = drawerTx[u]
    <3>1. CASE UNCHANGED Drawers!vars
        BY <3>1 DEF Drawers!vars
    <3>2. CASE Drawers!Next
        BY <1>2, <3>2 DEF Drawers!Next, Drawers!Begin, Drawers!LockSession, Drawers!WriteIncome,
           Drawers!WriteExit, Drawers!WriteReversal, Drawers!WriteCount, Drawers!Rollback, DrawerInv
    <3> QED BY <3>1, <3>2
  <2>2. \A u \in Drawers!Committed : drawerTx'[u] = drawerTx[u]
      BY <2>1 DEF DrawerInv
  <2> QED BY <2>1, <2>2, LedgerQuiet
<1> QED BY <1>1, <1>2

\* The transactions on a drawer, however they overlap, amount to movements and a count one after
\* the other, each on the cash that is then there: CashDrawer may take them as single actions
\* (cash.service.ts, registerMovement, reverseMovement and closeSession).
THEOREM DrawerAlwaysAtomic ==
    ASSUME DrawerAssumptions
    PROVE  Drawers!Spec => DrawerIsAtomic
<1>1. Drawers!Init => Ledger!BooksInit /\ UndoInv
    BY LedgerInit, UndoInit
<1>2. DrawerInv /\ UndoInv /\ [Drawers!Next]_(Drawers!vars) => UndoInv'
    BY UndoStep
<1>3. DrawerInv /\ DrawerInv' /\ UndoInv /\ [Drawers!Next]_(Drawers!vars) =>
          [Ledger!BooksNext]_(Ledger!booksVars)
    BY LedgerStep
<1> QED BY <1>1, <1>2, <1>3, DrawersAlwaysSound, PTL
        DEF Drawers!Spec, DrawerIsAtomic, Ledger!BooksSpec

=============================================================================
