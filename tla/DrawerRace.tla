----------------------------- MODULE DrawerRace -----------------------------
(***************************************************************************)
(* Why an operation on a drawer may be taken as one action.  CashDrawer    *)
(* does so for every writer of CashMovement; here each is a transaction    *)
(* that takes its snapshot with its first statement, waits for the row of  *)
(* the session, reads the movements, writes and commits.                   *)
(*                                                                         *)
(* Only the count updates the row everybody locks; incomes and exits just  *)
(* insert movements.  So the lock alone lets a transaction that waited     *)
(* read movements as they were before it waited, and the books rest on     *)
(* PostgreSQL aborting one of two Serializable transactions that did not   *)
(* see each other (Conflict).                                              *)
(***************************************************************************)
EXTENDS Integers, FiniteSets, Sequences, SequencesExt

CONSTANTS
    Txs,            \* transactions: a retry after an abort is a new one
    StartingCash,   \* pesos in the drawer when it was opened
    MaxAmount,      \* bound: pesos of one movement
    None            \* no transaction

Kinds == {"income", "exit", "reversal", "count"}

VARIABLES
    tx,             \* tx[t]: the transaction
    order,          \* those that committed, in that order
    counted         \* the count that closed the session, or None

vars == <<tx, order, counted>>

Unborn == [stage |-> "none", kind |-> "count", amount |-> 0, undoes |-> None, snapshot |-> {},
           expected |-> 0]

Init == tx = [t \in Txs |-> Unborn] /\ order = <<>> /\ counted = None

-----------------------------------------------------------------------------
(* Transactions of PostgreSQL *)

Committed == ToSet(order)

\* Not the code: a payment that does not ask for an isolation level.
PaymentsCommitted == [k \in Kinds |-> IF k = "income" THEN "READ COMMITTED" ELSE "SERIALIZABLE"]
\* Every writer of a movement asks for the same level.
Level == [k \in Kinds |-> "SERIALIZABLE"]

LevelOf(t) == Level[tx[t].kind]

\* The committed transactions whose rows a statement of t returns.
Sees(t) == IF LevelOf(t) = "READ COMMITTED" THEN Committed ELSE tx[t].snapshot

\* FOR UPDATE fails on a row that was updated after the snapshot (40001).
SessionChanged(t) ==
    LevelOf(t) # "READ COMMITTED" /\ counted # None /\ counted \notin tx[t].snapshot

Reads(t) == IF tx[t].kind = "income" THEN {"session"} ELSE {"session", "movements"}
Writes(t) == IF tx[t].kind = "count" THEN {"session", "movements"} ELSE {"movements"}

\* u read what w wrote, in a snapshot that does not have it, while both were alive.
Missed(u, w) ==
    /\ u # w /\ {LevelOf(u), LevelOf(w)} = {"SERIALIZABLE"}
    /\ w \notin tx[u].snapshot /\ u \notin tx[w].snapshot
    /\ Reads(u) \cap Writes(w) # {}

CommittedBefore(u, w) ==
    /\ u \in Committed
    /\ w \in Committed => \E i, j \in DOMAIN order : order[i] = u /\ order[j] = w /\ i < j

\* With t committed there would be a transaction that missed one and was missed by another,
\* the first of which committed before the others.
Conflict(t) ==
    \E a, b, c \in Committed \cup {t} :
        /\ t \in {a, b} /\ Missed(a, b) /\ Missed(b, c)
        /\ CommittedBefore(c, b) /\ (a = c \/ CommittedBefore(c, a))

-----------------------------------------------------------------------------
(* Movements *)

\* The pesos the movements of ts moved.
Pesos(ts) == {p \in Txs \X (1 .. MaxAmount) : p[1] \in ts /\ p[2] <= tx[p[1]].amount}

\* startingCash + SALE_INCOME and reversals - exits and refunds, over the rows of these.
ExpectedOver(ts) ==
    StartingCash + Cardinality(Pesos({t \in ts : tx[t].kind \in {"income", "reversal"}}))
                 - Cardinality(Pesos({t \in ts : tx[t].kind = "exit"}))

SessionOpenFor(t) == counted = None \/ counted \notin Sees(t)

Begin(t, kind, amount, undoes) ==
    /\ tx[t].stage = "none"
    /\ kind = "count" <=> amount = 0
    /\ IF kind = "reversal"
       THEN undoes \in Committed /\ tx[undoes].kind = "exit" /\ tx[undoes].amount = amount
       ELSE undoes = None
    /\ tx' = [tx EXCEPT ![t] = [stage |-> "begun", kind |-> kind, amount |-> amount,
          undoes |-> undoes, snapshot |-> Committed, expected |-> 0]]
    /\ UNCHANGED <<order, counted>>

HoldsSession(t) == tx[t].stage \in {"locked", "written"}
SessionFree == \A t \in Txs : ~HoldsSession(t)

LockSession(t) ==
    /\ tx[t].stage = "begun" /\ SessionFree /\ ~SessionChanged(t)
    /\ tx' = [tx EXCEPT ![t].stage = "locked"]
    /\ UNCHANGED <<order, counted>>

\* A payment or a confirmed checkout: no look at the other movements.
WriteIncome(t) ==
    /\ tx[t].stage = "locked" /\ tx[t].kind = "income" /\ SessionOpenFor(t)
    /\ tx' = [tx EXCEPT ![t].stage = "written"]
    /\ UNCHANGED <<order, counted>>

\* A withdrawal, an expense or the refund of a void, within the projected cash.
WriteExit(t) ==
    /\ tx[t].stage = "locked" /\ tx[t].kind = "exit" /\ SessionOpenFor(t)
    /\ tx[t].amount <= ExpectedOver(Sees(t))
    /\ tx' = [tx EXCEPT ![t].stage = "written"]
    /\ UNCHANGED <<order, counted>>

\* At most one reversal per movement: the unique index sees what the snapshot does not.
WriteReversal(t) ==
    /\ tx[t].stage = "locked" /\ tx[t].kind = "reversal" /\ SessionOpenFor(t)
    /\ tx[t].undoes \in Sees(t)
    /\ \A u \in Committed : tx[u].undoes # tx[t].undoes
    /\ tx' = [tx EXCEPT ![t].stage = "written"]
    /\ UNCHANGED <<order, counted>>

WriteCount(t) ==
    /\ tx[t].stage = "locked" /\ tx[t].kind = "count" /\ SessionOpenFor(t)
    /\ tx' = [tx EXCEPT ![t].stage = "written", ![t].expected = ExpectedOver(Sees(t))]
    /\ UNCHANGED <<order, counted>>

Commit(t) ==
    /\ tx[t].stage = "written" /\ ~Conflict(t)
    /\ tx' = [tx EXCEPT ![t].stage = "committed"]
    /\ order' = Append(order, t)
    /\ counted' = IF tx[t].kind = "count" THEN t ELSE counted

\* A refusal, a conflict, a timeout or a crash: nothing is left.
Rollback(t) ==
    /\ tx[t].stage \in {"begun", "locked", "written"}
    /\ tx' = [tx EXCEPT ![t] = [Unborn EXCEPT !.stage = "gone"]]
    /\ UNCHANGED <<order, counted>>

Next == \E t \in Txs :
    \/ \E kind \in Kinds, amount \in 0..MaxAmount, undoes \in Txs \cup {None} :
          Begin(t, kind, amount, undoes)
    \/ LockSession(t)
    \/ WriteIncome(t) \/ WriteExit(t) \/ WriteReversal(t) \/ WriteCount(t)
    \/ Commit(t) \/ Rollback(t)

Spec == Init /\ [][Next]_vars

-----------------------------------------------------------------------------
(* Properties *)

TypeOK ==
    /\ tx \in [Txs -> [stage: {"none", "begun", "locked", "written", "committed", "gone"},
          kind: Kinds, amount: 0..MaxAmount, undoes: Txs \cup {None}, snapshot: SUBSET Txs,
          expected: Int]]
    /\ order \in Seq(Txs) /\ IsInjective(order)
    /\ counted \in Txs \cup {None}
    /\ \A t, u \in Txs : HoldsSession(t) /\ HoldsSession(u) => t = u

\* The books of a closed session are what all its movements add up to, also those that
\* committed while the count was waiting (the claim of the comment in closeSession).
CountMissesNothing == counted # None => tx[counted].expected = ExpectedOver(Committed)

\* The drawer never gives more than it holds, whatever two exits saw of each other.
DrawerHoldsCash == ExpectedOver(Committed) >= 0
=============================================================================
