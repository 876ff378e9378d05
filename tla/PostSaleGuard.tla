--------------------------- MODULE PostSaleGuard ---------------------------
(***************************************************************************)
(* What keeps a void and an exchange of one sale apart in the database,    *)
(* for any writer: the triggers of SaleVoid and SaleExchange               *)
(* (src/api/prisma/migrations/20261026130000 .. 150000) and the migration  *)
(* that adds the claim.  SaleStock takes each operation as one action;     *)
(* here a writer is a transaction that takes its snapshot, waits for the   *)
(* row of the sale, writes, and commits.                                   *)
(*                                                                         *)
(* One sale: the triggers read and lock nothing of another.  The conflict  *)
(* detection of PostgreSQL among Serializable readers is left out, so that *)
(* nothing below rests on it.                                              *)
(***************************************************************************)
EXTENDS Naturals

CONSTANTS
    Writers,        \* transactions, each with at most one row to write
    None

Modes == {"VOID", "EXCHANGE"}
Levels == {"READ COMMITTED", "SERIALIZABLE"}

ASSUME GuardAssumption == None \notin Modes

VARIABLES
    rows,           \* rows[mode]: the writers whose SaleVoid or SaleExchange row is committed
    guard,          \* the mode of the SalePostSaleGuard row of the sale, or None
    claims,         \* how often that row was written
    saleState,      \* Sale.status, which a void sets to CANCELLED
    migrated,       \* the claim exists
    writer          \* the transactions

guardVars == <<rows, guard, claims, saleState, migrated, writer>>

Unborn == [stage |-> "none", mode |-> "VOID", level |-> "SERIALIZABLE", service |-> FALSE,
           rows |-> [m \in Modes |-> {}], claims |-> 0, saleState |-> "COMPLETED"]

GuardInit ==
    /\ rows = [m \in Modes |-> {}] /\ guard = None /\ claims = 0
    /\ saleState = "COMPLETED" /\ migrated = FALSE
    /\ writer = [w \in Writers |-> Unborn]

-----------------------------------------------------------------------------
(* What a transaction sees *)

Serializable(w) == writer[w].level = "SERIALIZABLE"
Mode(w) == writer[w].mode
Other(mode) == CHOOSE m \in Modes : m # mode

\* A Serializable transaction reads its snapshot, the other the last commit.
SeenRows(w, mode) == IF Serializable(w) THEN writer[w].rows[mode] ELSE rows[mode]

\* FOR UPDATE of a row that was updated after the snapshot fails (40001).
SaleChanged(w) == Serializable(w) /\ writer[w].saleState # saleState

\* Not the code: ON CONFLICT DO NOTHING passes over a row the snapshot does not have.
ClaimFailsIfSeen(w) == migrated /\ ~Serializable(w) /\ guard \notin {None, Mode(w)}

\* ON CONFLICT DO UPDATE fails if the row was written after the snapshot (40001), and its
\* mode is refused if it is not the writer's.
ClaimFails(w) ==
    /\ migrated
    /\ (Serializable(w) /\ writer[w].claims # claims) \/ guard \notin {None, Mode(w)}

\* The guards of each table, in the order they fire, and the unique index of SaleVoid.
Refused(w) ==
    \/ SeenRows(w, Other(Mode(w))) # {}
    \/ ClaimFails(w)
    \/ Mode(w) = "VOID" /\ rows["VOID"] # {}
    \/ Mode(w) = "EXCHANGE" /\ saleState # "COMPLETED"

-----------------------------------------------------------------------------
(* Writers *)

\* The services are Serializable, and a void by a service cancels the sale; nobody else
\* promises either.
Begin(w, mode, level, service) ==
    /\ writer[w].stage = "none" /\ (service => level = "SERIALIZABLE")
    /\ writer' = [writer EXCEPT ![w] = [stage |-> "begun", mode |-> mode, level |-> level,
          service |-> service, rows |-> rows, claims |-> claims, saleState |-> saleState]]
    /\ UNCHANGED <<rows, guard, claims, saleState, migrated>>

\* Who has the lock of the sale row.
Holds(w) == writer[w].stage \in {"locked", "written", "claimed"}

\* The first trigger of either table locks the row of the sale.
LockSale(w) ==
    /\ writer[w].stage = "begun" /\ \A v \in Writers : ~Holds(v)
    /\ writer' = [writer EXCEPT ![w].stage = IF SaleChanged(w) THEN "aborted" ELSE "locked"]
    /\ UNCHANGED <<rows, guard, claims, saleState, migrated>>

\* The other triggers and the row, with its claim if there are claims, uncommitted.
Write(w) ==
    /\ writer[w].stage = "locked"
    /\ writer' = [writer EXCEPT ![w].stage =
          IF Refused(w) THEN "aborted" ELSE IF migrated THEN "claimed" ELSE "written"]
    /\ UNCHANGED <<rows, guard, claims, saleState, migrated>>

Commit(w) ==
    /\ writer[w].stage \in {"written", "claimed"}
    /\ rows' = [rows EXCEPT ![Mode(w)] = @ \cup {w}]
    /\ IF writer[w].stage = "claimed"
       THEN guard' = (IF guard = None THEN Mode(w) ELSE guard) /\ claims' = claims + 1
       ELSE UNCHANGED <<guard, claims>>
    /\ saleState' = IF writer[w].service /\ Mode(w) = "VOID" THEN "CANCELLED" ELSE saleState
    /\ writer' = [writer EXCEPT ![w].stage = "committed"]
    /\ UNCHANGED migrated

\* Anything else fails: nothing is left of it.
Rollback(w) ==
    /\ writer[w].stage \in {"begun", "locked", "written", "claimed"}
    /\ writer' = [writer EXCEPT ![w].stage = "aborted"]
    /\ UNCHANGED <<rows, guard, claims, saleState, migrated>>

-----------------------------------------------------------------------------
(* The migration *)

\* LOCK TABLE ... IN SHARE ROW EXCLUSIVE MODE waits for those who have written.
TablesFree == \A w \in Writers : writer[w].stage \notin {"written", "claimed"}

\* A sale in both tables aborts the migration.
Conflicting == rows["VOID"] # {} /\ rows["EXCHANGE"] # {}

Migrate ==
    /\ ~migrated /\ TablesFree /\ ~Conflicting
    /\ migrated' = TRUE
    /\ guard' = IF rows["VOID"] # {} THEN "VOID" ELSE IF rows["EXCHANGE"] # {} THEN "EXCHANGE" ELSE None
    /\ claims' = IF rows["VOID"] \cup rows["EXCHANGE"] # {} THEN 1 ELSE 0
    /\ UNCHANGED <<rows, saleState, writer>>

GuardNext ==
    \/ Migrate
    \/ \E w \in Writers :
          \/ \E mode \in Modes, level \in Levels, service \in BOOLEAN : Begin(w, mode, level, service)
          \/ LockSale(w) \/ Write(w) \/ Commit(w) \/ Rollback(w)

GuardSpec == GuardInit /\ [][GuardNext]_guardVars

-----------------------------------------------------------------------------
(* Properties *)

Transactions ==
    [stage : {"none", "begun", "locked", "written", "claimed", "committed", "aborted"}, mode : Modes,
     level : Levels, service : BOOLEAN, rows : [Modes -> SUBSET Writers], claims : Nat,
     saleState : {"COMPLETED", "CANCELLED"}]

\* Every variable has its type, and one writer at a time has the lock of the sale.
GuardTypeOK ==
    /\ rows \in [Modes -> SUBSET Writers] /\ guard \in Modes \cup {None} /\ claims \in Nat
    /\ saleState \in {"COMPLETED", "CANCELLED"} /\ migrated \in BOOLEAN
    /\ writer \in [Writers -> Transactions]
    /\ \A v, w \in Writers : {v, w} \subseteq {u \in Writers :
          writer[u].stage \in {"locked", "written", "claimed"}} => v = w

\* Once the claim exists no sale has both a SaleVoid and a SaleExchange, whatever isolation
\* the writers chose, and however long before the migration they began.
NeverBoth == migrated => rows["VOID"] = {} \/ rows["EXCHANGE"] = {}

\* The claim of a sale is what its rows say, so no writer is refused for a row that a
\* rolled-back writer meant to write.
ClaimTellsRows ==
    migrated => \A m \in Modes : guard = m <=> rows[m] # {}
=============================================================================
