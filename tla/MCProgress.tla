------------------------------ MODULE MCProgress ------------------------------
(***************************************************************************)
(* What must come to an end, in small instances, under the fairness of     *)
(* each component: the import (PilotImport, with its safety), the process  *)
(* of the server (Server, with its safety), the requests about accounts    *)
(* (Accounts), and the calls of the register (RegisterScreen) and of the   *)
(* charge panel (ChargePanel).  They share nothing here: every behaviour   *)
(* picks its subject at the start, the others stay idle, and nothing that  *)
(* their fairness speaks of is enabled in them.                            *)
(***************************************************************************)
EXTENDS PilotImport, Sequences

CONSTANTS r1, r2, a1, a2, sk1, sk2, ana, bea, c1, c2, k1, b1, s1, d1, d2, p1, p2, None

VARIABLES
    subject,
    gate, listening, requests, started, stopped, timers, sweeps, shutdown, deadline, code,
    heard, exit,                                                        \* Server
    account, changes, ops, told, token, task, socket,                   \* Accounts
    db, screen, closing, calls, exitKeys,                               \* RegisterScreen
    shown, panel, attempts, inFlight, keys, net, held                   \* ChargePanel

processVars == <<gate, listening, requests, started, stopped, timers, sweeps, shutdown,
                 deadline, code, heard, exit>>
accountVars == <<account, changes, ops, told, token, task, socket>>
registerVars == <<db, screen, closing, calls, exitKeys>>
panelVars == <<shown, panel, attempts, inFlight, keys, net, held>>

Process == INSTANCE Server WITH Signals <- {"SIGINT", "SIGTERM"}, MaxRequests <- 2

People ==
    INSTANCE Accounts WITH
        Users <- {ana, bea}, Owners <- {ana, bea}, Admins <- {}, Clients <- {c1, c2},
        Sockets <- {}, Keys <- {k1}, Offered <- {"DEACTIVATE", "ASSIGN", "CHANGE"},
        Clock <- {1}, MaxChanges <- 2

Register ==
    INSTANCE RegisterScreen WITH
        Branches <- {b1}, MaxSessions <- 2, MaxKeys <- 0, MaxCalls <- 2, Modes <- FALSE,
        keys <- exitKeys

Panel ==
    INSTANCE ChargePanel WITH
        Sales <- {s1}, Sessions <- {c1}, Drafts <- {d1, d2}, Prices <- {p1, p2},
        MaxKeys <- 2, Faults <- {"lost"}, server <- held

-------------------------------------------------------------------------------
Subjects == {"import", "process", "accounts", "register", "panel"}

\* A process that ended long ago, a screen without a call.
ProcessIdle ==
    /\ gate = "checking" /\ listening = FALSE /\ requests = 0 /\ started = FALSE
    /\ stopped = FALSE /\ timers = 0 /\ sweeps = 0 /\ shutdown = "no" /\ deadline = FALSE
    /\ code = "clean" /\ heard = {} /\ exit = "killed"
RegisterIdle ==
    /\ db = [branchOf |-> <<>>, open |-> [b \in {b1} |-> 0], edition |-> [b \in {b1} |-> 0],
             exits |-> {}]
    /\ screen = [Register!Blank(b1) EXCEPT !.loading = FALSE]
    /\ closing = {} /\ calls = {} /\ exitKeys = 0

\* Runs and authorizations are interchangeable, and so are browsers: the first is used first.
\* A run writes the rows in the order of its plan.
InOrder ==
    /\ run[r2].step # "idle" => run[r1].step # "idle"
    /\ auths[a2] # "unissued" => auths[a1] # "unissued"
    /\ \A r \in Runs : sk2 \in run[r].written => sk1 \in run[r].written
    /\ token[c2].user # None => token[c1].user # None

\* The shop creates a row, sells a unit or moves other stock, once.
ShopActs ==
    other + Cardinality({s \in Skus : rows[s].by = Shop})
          + Cardinality({s \in Skus : rows[s].sold > 0})

\* Three changes of accounts, counting those under way.
Changes ==
    changes[ana] + changes[bea]
        + Cardinality({c \in {c1, c2} : task[c].stage \notin {"idle", "committed"}})

ProgressInit ==
    /\ subject \in Subjects
    /\ Init /\ People!Init /\ Panel!Init
    /\ subject # "panel" => held.price[s1] = p1
    /\ (IF subject = "process" THEN Process!Init ELSE ProcessIdle)
    /\ (IF subject = "register" THEN Register!Init ELSE RegisterIdle)

ProgressNext ==
    /\ \/ /\ subject = "import" /\ Next /\ ShopActs' <= 1
          /\ UNCHANGED <<processVars, accountVars, registerVars, panelVars>>
       \/ /\ subject = "process" /\ Process!Next
          /\ UNCHANGED <<vars, accountVars, registerVars, panelVars>>
       \/ /\ subject = "accounts" /\ People!Next /\ Changes' <= 3
          /\ UNCHANGED <<vars, processVars, registerVars, panelVars>>
       \/ /\ subject = "register" /\ Register!Next
          /\ UNCHANGED <<vars, processVars, accountVars, panelVars>>
       \/ /\ subject = "panel" /\ Panel!Next
          /\ UNCHANGED <<vars, processVars, accountVars, registerVars>>
    /\ UNCHANGED subject /\ InOrder'

ProgressSpec ==
    /\ ProgressInit
    /\ [][ProgressNext]_<<subject, vars, processVars, accountVars, registerVars, panelVars>>
    /\ Fairness /\ Process!Fairness /\ People!Fairness /\ Register!Fairness /\ Panel!Fairness

-------------------------------------------------------------------------------
(* Properties *)

\* While nobody stops the process there is always another sweep, whatever the last one met
\* (reservation-sweeper.ts).
SweepsKeepComing == Process!SweepsKeepComing

\* A process that was open when it was told to stop ends, even if its requests do not
\* (shutdown and its deadline).
OpenProcessEnds == Process!OpenProcessEnds

\* No lock is held for ever: every request about accounts ends, since no two wait for each
\* other's locks (user-admin-service.ts), and the import gives the maintenance lock back,
\* whatever dies (pilot-local1-catalog-import.mjs).
LocksComeBack == People!RequestsEnd /\ LockComesBack

\* The screens come back, whatever call fails: a sale does not stay locked (checkoutInFlight),
\* and the buttons of the register do not stay disabled (refreshAll, openCashSession,
\* closeCashSession).
ScreensComeBack == Panel!LockReleased /\ (subject = "register" => Register!LoadingEnds)
===============================================================================
