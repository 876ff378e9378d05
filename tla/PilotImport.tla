---------------------------- MODULE PilotImport ----------------------------
(***************************************************************************)
(* The import of a shop's catalog and first stock                          *)
(* (scripts/database/pilot-local1-catalog-import.mjs).  An operator        *)
(* authorizes one execution; a run of the tool checks the authorization,   *)
(* consumes it by creating a file exclusively, and writes the catalog in   *)
(* one transaction under the maintenance lock, with a provenance record as *)
(* its last write.  A run may die anywhere, and the answer to its COMMIT   *)
(* may be lost, while the shop goes on selling and editing its catalog.    *)
(*                                                                         *)
(* One plan, one target.  The checks of the file, the backup and the       *)
(* target are part of Check and IdentityFails; the transaction is READ     *)
(* COMMITTED, and each of its steps reads what is committed by then.       *)
(***************************************************************************)
EXTENDS Integers, FiniteSets

CONSTANTS
    Runs,           \* executions of the tool
    Auths,          \* authorizations
    Skus,           \* the rows of the plan
    Stock,          \* units of each row
    MaxOther,       \* bound: changes of other stock
    Nobody, Shop

ASSUME ImportAssumption ==
    /\ Stock \in Nat \ {0} /\ MaxOther \in Nat
    /\ Nobody \notin Runs /\ Shop \notin Runs /\ Shop # Nobody /\ Skus # {} /\ IsFiniteSet(Skus)

VARIABLES
    auths,          \* an authorization: unissued, issued or expired
    consumed,       \* authorizations with a consumed file
    run,            \* a run: its step, its authorization, what it has written and seen, its verdict
    server,         \* its transaction as the server has it
    locker,         \* who holds the maintenance lock
    rows,           \* committed: who created each row, and the units sold of it
    provenance,     \* committed: the runs that left a provenance record
    other           \* changes of the stock of other variants

vars == <<auths, consumed, run, server, locker, rows, provenance, other>>

Steps == {"idle", "checked", "consumed", "open", "writing", "pending", "confirmed", "done"}
Verdicts == {"none", "OK", "NOOP", "authorization", "identity", "import", "conflict", "verify", "commit", "receipt"}

TypeOK ==
    /\ auths \in [Auths -> {"unissued", "issued", "expired"}]
    /\ consumed \subseteq Auths
    /\ run \in [Runs -> [step: Steps, auth: Auths \cup {Nobody}, written: SUBSET Skus,
                         creates: BOOLEAN, seen: 0 .. MaxOther, verdict: Verdicts]]
    /\ server \in [Runs -> {"none", "open", "orphan", "sent", "committed", "aborted"}]
    /\ locker \in Runs \cup {Nobody}
    /\ rows \in [Skus -> [by: Runs \cup {Nobody, Shop}, sold: 0 .. Stock]]
    /\ provenance \subseteq Runs
    /\ other \in 0 .. MaxOther

Init ==
    /\ auths = [a \in Auths |-> "unissued"] /\ consumed = {}
    /\ run = [r \in Runs |-> [step |-> "idle", auth |-> Nobody, written |-> {}, creates |-> FALSE,
                              seen |-> 0, verdict |-> "none"]]
    /\ server = [r \in Runs |-> "none"] /\ locker = Nobody
    /\ rows = [s \in Skus |-> [by |-> Nobody, sold |-> 0]] /\ provenance = {} /\ other = 0

-----------------------------------------------------------------------------
(* Authorizations *)

Authorize(a) ==
    /\ auths[a] = "unissued"
    /\ auths' = [auths EXCEPT ![a] = "issued"]
    /\ UNCHANGED <<consumed, run, server, locker, rows, provenance, other>>

Expire(a) ==
    /\ auths[a] = "issued"
    /\ auths' = [auths EXCEPT ![a] = "expired"]
    /\ UNCHANGED <<consumed, run, server, locker, rows, provenance, other>>

\* A run ends, and says so.  Before its transaction it leaves nothing to undo.
Ends(r, verdict) == run' = [run EXCEPT ![r].step = "done", ![r].verdict = verdict]

\* The record is bound to the plan, has not expired and has no consumed file.
Check(r, a) ==
    /\ run[r].step = "idle" /\ auths[a] # "unissued"
    /\ IF auths[a] = "expired" \/ a \in consumed
       THEN run' = [run EXCEPT ![r].step = "done", ![r].auth = a, ![r].verdict = "authorization"]
       ELSE run' = [run EXCEPT ![r].step = "checked", ![r].auth = a]
    /\ UNCHANGED <<auths, consumed, server, locker, rows, provenance, other>>

\* The proof of the marker is awaited between the check and the consumption.
IdentityFails(r) ==
    /\ run[r].step = "checked" /\ Ends(r, "identity")
    /\ UNCHANGED <<auths, consumed, server, locker, rows, provenance, other>>

CreatesExclusively(a) == a \notin consumed

\* writeExclusive may fail after it created the file, which then stays.
Consume(r) ==
    /\ run[r].step = "checked"
    /\ \/ /\ CreatesExclusively(run[r].auth)
          /\ consumed' = consumed \cup {run[r].auth}
          /\ run' = [run EXCEPT ![r].step = "consumed"]
       \/ consumed' \in {consumed, consumed \cup {run[r].auth}} /\ Ends(r, "authorization")
    /\ UNCHANGED <<auths, server, locker, rows, provenance, other>>

-----------------------------------------------------------------------------
(* The transaction *)

Begin(r) ==
    /\ run[r].step = "consumed" /\ locker = Nobody
    /\ locker' = r /\ server' = [server EXCEPT ![r] = "open"]
    /\ run' = [run EXCEPT ![r].step = "open"]
    /\ UNCHANGED <<auths, consumed, rows, provenance, other>>

Absent == provenance = {} /\ \A s \in Skus : rows[s].by = Nobody

\* Exactly the rows of the run that left the only provenance record, untouched since.
Exact ==
    \E p \in provenance :
        provenance = {p} /\ \A s \in Skus : rows[s].by = p /\ rows[s].sold = 0

RolledBack(r, verdict) ==
    /\ Ends(r, verdict) /\ locker' = Nobody
    /\ server' = [server EXCEPT ![r] = "aborted"]

\* The marker and the migrations are proved again first, inside the transaction.
Classify(r) ==
    /\ run[r].step = "open" /\ server[r] = "open"
    /\ \/ /\ Absent
          /\ run' = [run EXCEPT ![r].step = "writing", ![r].creates = TRUE, ![r].seen = other]
          /\ UNCHANGED <<server, locker>>
       \/ /\ Exact
          /\ run' = [run EXCEPT ![r].step = "pending"]
          /\ UNCHANGED <<server, locker>>
       \/ ~Absent /\ ~Exact /\ RolledBack(r, "conflict")
       \/ RolledBack(r, "identity")
    /\ UNCHANGED <<auths, consumed, rows, provenance, other>>

\* Not the code: the services open a transaction of their own for each row.
WriteRowOnItsOwn(r, s) ==
    /\ run[r].step = "writing" /\ s \notin run[r].written /\ server[r] = "open"
    /\ IF rows[s].by = Nobody
       THEN /\ run' = [run EXCEPT ![r].written = @ \cup {s}]
            /\ rows' = [rows EXCEPT ![s].by = r]
            /\ UNCHANGED <<server, locker>>
       ELSE RolledBack(r, "import") /\ UNCHANGED rows
    /\ UNCHANGED <<auths, consumed, provenance, other>>

\* Product, variant and first stock, by the services of the shop inside this transaction.  A row
\* that the shop created since makes them fail, and the failure is not retried.
WriteRow(r, s) ==
    /\ run[r].step = "writing" /\ s \notin run[r].written /\ server[r] = "open"
    /\ IF rows[s].by = Nobody
       THEN run' = [run EXCEPT ![r].written = @ \cup {s}] /\ UNCHANGED <<server, locker>>
       ELSE RolledBack(r, "import")
    /\ UNCHANGED <<auths, consumed, rows, provenance, other>>

\* What was written is read again, with its totals and the stock of everything else; the
\* provenance record is the last write.  From here on the commit is pending.
Verify(r) ==
    /\ run[r].step = "writing" /\ run[r].written = Skus /\ server[r] = "open"
    /\ IF other = run[r].seen
       THEN run' = [run EXCEPT ![r].step = "pending"] /\ UNCHANGED <<server, locker>>
       ELSE RolledBack(r, "verify")
    /\ UNCHANGED <<auths, consumed, rows, provenance, other>>

SendCommit(r) ==
    /\ run[r].step = "pending" /\ server[r] = "open"
    /\ server' = [server EXCEPT ![r] = "sent"]
    /\ UNCHANGED <<auths, consumed, run, locker, rows, provenance, other>>

ServerCommits(r) ==
    /\ server[r] = "sent"
    /\ server' = [server EXCEPT ![r] = "committed"] /\ locker' = Nobody
    /\ IF run[r].creates
       THEN /\ rows' = [s \in Skus |-> IF s \in run[r].written THEN [by |-> r, sold |-> 0] ELSE rows[s]]
            /\ provenance' = provenance \cup {r}
       ELSE UNCHANGED <<rows, provenance>>
    /\ UNCHANGED <<auths, consumed, run, other>>

\* A transaction that nobody drives any more, or whose COMMIT did not arrive.
ServerRollsBack(r) ==
    /\ server[r] \in {"orphan", "sent"}
    /\ server' = [server EXCEPT ![r] = "aborted"] /\ locker' = Nobody
    /\ UNCHANGED <<auths, consumed, run, rows, provenance, other>>

-----------------------------------------------------------------------------
(* How a run ends *)

\* The connection is lost or times out before the write body ended.
FailsBeforeCommit(r) ==
    /\ run[r].step \in {"consumed", "open", "writing"} /\ Ends(r, "import")
    /\ server' = [server EXCEPT ![r] = IF @ = "open" THEN "orphan" ELSE @]
    /\ UNCHANGED <<auths, consumed, locker, rows, provenance, other>>

Confirmed(r) ==
    /\ run[r].step = "pending" /\ server[r] = "committed"
    /\ run' = [run EXCEPT ![r].step = "confirmed"]
    /\ UNCHANGED <<auths, consumed, server, locker, rows, provenance, other>>

\* Not the code: whatever is not confirmed failed before COMMIT.
SaidFailed == "import"

SaidOfPending == "commit"

\* The transaction call throws after the write body ended.
Uncertain(r) ==
    /\ run[r].step = "pending" /\ server[r] # "none"
    /\ Ends(r, SaidOfPending)
    /\ server' = [server EXCEPT ![r] = IF @ = "open" THEN "orphan" ELSE @]
    /\ UNCHANGED <<auths, consumed, locker, rows, provenance, other>>

Receipt(r) ==
    /\ run[r].step = "confirmed"
    /\ \/ Ends(r, IF run[r].creates THEN "OK" ELSE "NOOP")
       \/ Ends(r, "receipt")
    /\ UNCHANGED <<auths, consumed, server, locker, rows, provenance, other>>

Crash(r) ==
    /\ run[r].step \notin {"idle", "done"} /\ Ends(r, "none")
    /\ server' = [server EXCEPT ![r] = IF @ = "open" THEN "orphan" ELSE @]
    /\ UNCHANGED <<auths, consumed, locker, rows, provenance, other>>

-----------------------------------------------------------------------------
(* The shop, at the same time *)

InFlight(s) ==
    \E r \in Runs : server[r] \in {"open", "orphan", "sent"} /\ s \in run[r].written

\* A code already inserted by a transaction in flight makes the shop wait.
ShopCreates(s) ==
    /\ rows[s].by = Nobody /\ ~InFlight(s)
    /\ rows' = [rows EXCEPT ![s].by = Shop]
    /\ UNCHANGED <<auths, consumed, run, server, locker, provenance, other>>

ShopSells(s) ==
    /\ rows[s].by # Nobody /\ rows[s].sold < Stock
    /\ rows' = [rows EXCEPT ![s].sold = @ + 1]
    /\ UNCHANGED <<auths, consumed, run, server, locker, provenance, other>>

ShopMovesOther ==
    /\ other < MaxOther /\ other' = other + 1
    /\ UNCHANGED <<auths, consumed, run, server, locker, rows, provenance>>

-----------------------------------------------------------------------------

Execute(r) ==
    \/ Consume(r) \/ Begin(r) \/ Classify(r) \/ (\E s \in Skus : WriteRow(r, s)) \/ Verify(r)
    \/ SendCommit(r) \/ Confirmed(r) \/ Uncertain(r) \/ Receipt(r)

Next ==
    \/ \E a \in Auths : Authorize(a) \/ Expire(a)
    \/ \E r \in Runs, a \in Auths : Check(r, a)
    \/ \E r \in Runs : Execute(r) \/ IdentityFails(r) \/ FailsBeforeCommit(r) \/ Crash(r)
    \/ \E r \in Runs : ServerCommits(r) \/ ServerRollsBack(r)
    \/ \E s \in Skus : ShopCreates(s) \/ ShopSells(s)
    \/ ShopMovesOther

Spec == Init /\ [][Next]_vars

\* A live run goes on or dies; the server ends a transaction whose client is gone (keepalive, and
\* the time limit of the transaction), and commits or not what it was told to commit.
Fairness ==
    \A r \in Runs : /\ WF_vars(Execute(r) \/ FailsBeforeCommit(r) \/ Crash(r))
                    /\ WF_vars(ServerCommits(r) \/ ServerRollsBack(r))

-----------------------------------------------------------------------------
(* Properties *)

\* The catalog is created by one run or not at all, and its stock is loaded once: whatever dies,
\* is retried or is authorized again, no row is of a run that did not commit all of them.
CreatedAtOnce ==
    /\ \A p, q \in provenance : p = q
    /\ \A s \in Skus : rows[s].by \in Runs => provenance = {rows[s].by}
    /\ \A p \in provenance : \A s \in Skus : rows[s].by = p

\* What the tool says of the database is true of it, a lost answer included.
VerdictIsTrue ==
    \A r \in Runs :
        /\ run[r].verdict \in {"OK", "receipt"} /\ run[r].creates => r \in provenance
        /\ run[r].verdict = "NOOP" => provenance \notin {{}, {r}}
        /\ run[r].verdict \in {"authorization", "identity", "import", "conflict", "verify"} =>
              r \notin provenance /\ server[r] \notin {"sent", "committed"}

\* An authorization is good for one execution.
OneRunPerAuthorization ==
    \A r, q \in Runs :
        r # q /\ server[r] # "none" /\ server[q] # "none" => run[r].auth # run[q].auth

\* Nothing that exists is ever updated: a row keeps its creator, and what was sold of it.
NothingOverwritten ==
    [][\A s \in Skus : rows[s].by # Nobody =>
          rows'[s].by = rows[s].by /\ rows'[s].sold >= rows[s].sold]_vars

\* A run that died or lost its answer does not keep the next one out.
LockComesBack == locker # Nobody ~> locker = Nobody
=============================================================================
