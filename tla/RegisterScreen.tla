-------------------------- MODULE RegisterScreen --------------------------
(***************************************************************************)
(* The register on the cashier's screen (CashierWorkspace in page.tsx):    *)
(* the session of the branch that is shown, read, opened and closed, and   *)
(* the exits of cash, while answers come late and other devices work on    *)
(* the same registers.                                                     *)
(*                                                                         *)
(* A function that awaits an answer compares a counter of its own time     *)
(* with the present one (cashStateRequest, branchEpoch, refreshAllRequest) *)
(* and does nothing when it is behind; here a call is fresh while that     *)
(* comparison would hold.  A branch has one register.  refreshCash reads   *)
(* the register and then the session; only the session is modelled, read   *)
(* by the second request.  The queue, which refreshAll reads too, may fail *)
(* and end the loading before the register is read.  A reversal is handled *)
(* like an exit, and left out.                                             *)
(***************************************************************************)
EXTENDS Naturals, FiniteSets, Sequences

CONSTANTS
    Branches,
    MaxSessions,    \* bound: sessions of all registers
    MaxKeys,        \* bound: exits
    MaxCalls,       \* bound: calls under way at a time
    Modes           \* the user may leave the workspace for another mode

VARIABLES
    db,             \* the server: the branch of each session, the open session and the number of
                    \* openings and closes (edition) of each branch, and the exits recorded
    screen,         \* what the workspace shows and holds
    closing,        \* module level: CLOSES_IN_FLIGHT
    calls,          \* under way: fresh, and what the server answered
    keys            \* keys minted

vars == <<db, screen, closing, calls, keys>>

NoSession == 0
Sessions == 1 .. MaxSessions
NoIntent == [session |-> NoSession, key |-> 0]
Unasked == [session |-> NoSession, edition |-> 0]

\* edition is that of the state shown; owner tells whether a refresh owns the loading flag.
Blank(b) ==
    [branch |-> b, session |-> NoSession, known |-> FALSE, edition |-> 0, loading |-> TRUE,
     confirm |-> NoSession, intent |-> NoIntent, paying |-> FALSE]

Call(kind, b, session, key, owner) ==
    [kind |-> kind, branch |-> b, session |-> session, key |-> key, owner |-> owner,
     fresh |-> TRUE, answered |-> "no", answer |-> Unasked]

Init ==
    \E b \in Branches :
       /\ db = [branchOf |-> <<>>, open |-> [c \in Branches |-> NoSession],
                edition |-> [c \in Branches |-> 0], exits |-> {}]
       /\ screen = Blank(b) /\ closing = {} /\ keys = 0
       /\ calls = {Call("read", b, NoSession, 0, TRUE)}

-----------------------------------------------------------------------------
(* The server *)

Opened(b) ==
    LET s == Len(db.branchOf) + 1
    IN [branchOf |-> Append(db.branchOf, b), open |-> [db.open EXCEPT ![b] = s],
        edition |-> [db.edition EXCEPT ![b] = @ + 1], exits |-> db.exits]

Ended(s) ==
    LET b == db.branchOf[s]
    IN [branchOf |-> db.branchOf, open |-> [db.open EXCEPT ![b] = NoSession],
        edition |-> [db.edition EXCEPT ![b] = @ + 1], exits |-> db.exits]

Answer(c, outcome, after) ==
    /\ db' = after
    /\ calls' = (calls \ {c}) \cup
         {[c EXCEPT !.answered = outcome,
                    !.answer = [session |-> after.open[c.branch], edition |-> after.edition[c.branch]]]}

Refuse(c) == Answer(c, "failed", db)

Serve(c) ==
    /\ c.answered = "no"
    /\ \/ c.kind = "read" /\ Answer(c, "ok", db)
       \/ /\ c.kind = "open"
          /\ \/ db.open[c.branch] # NoSession /\ Refuse(c)
             \/ /\ db.open[c.branch] = NoSession /\ Len(db.branchOf) < MaxSessions
                /\ Answer(c, "ok", Opened(c.branch))
       \/ /\ c.kind = "close"
          /\ IF db.open[c.branch] = c.session THEN Answer(c, "ok", Ended(c.session)) ELSE Refuse(c)
       \/ /\ c.kind = "exit"
          /\ IF db.open[c.branch] = c.session \/ c.key \in db.exits
             THEN Answer(c, "ok", [db EXCEPT !.exits = @ \cup {c.key}]) ELSE Refuse(c)
    /\ UNCHANGED <<screen, closing, keys>>

\* The request, or its answer, is lost; or it is refused for its amounts, which are left out.
Lose(c) ==
    /\ c.answered # "failed"
    /\ calls' = (calls \ {c}) \cup {[c EXCEPT !.answered = "failed"]}
    /\ UNCHANGED <<db, screen, closing, keys>>

\* Another device opens or closes the register of a branch.
Elsewhere(b) ==
    /\ \/ db.open[b] # NoSession /\ db' = Ended(db.open[b])
       \/ db.open[b] = NoSession /\ Len(db.branchOf) < MaxSessions /\ db' = Opened(b)
    /\ UNCHANGED <<screen, closing, calls, keys>>

-----------------------------------------------------------------------------
(* Reading the register *)

\* Not the code: the counters are left as they are.
Untouched(cs, kinds) == cs

\* A newer call, a commit or a change of branch makes the calls under way of these kinds stale.
Stale(cs, kinds) ==
    {IF c.kind \in kinds THEN [c EXCEPT !.fresh = FALSE, !.owner = FALSE] ELSE c : c \in cs}

\* The effect that voids a confirmation whose session is no longer shown.
Reconfirmed(s) == [s EXCEPT !.confirm = IF @ = s.session THEN @ ELSE NoSession]

Show(s, session, edition) ==
    Reconfirmed([s EXCEPT !.session = session, !.edition = edition, !.known = TRUE])

Start(cs, c) == cs \cup {c}

\* refreshAll, by the button.
Refresh ==
    /\ ~screen.loading /\ Cardinality(calls) < MaxCalls
    /\ screen' = [screen EXCEPT !.loading = TRUE]
    /\ calls' = Start(Stale(calls, {"read"}), Call("read", screen.branch, NoSession, 0, TRUE))
    /\ UNCHANGED <<db, closing, keys>>

\* The queue cannot be read: refreshAll ends, refreshCash goes on.
QueueFails(c) ==
    /\ c.kind = "read" /\ c.owner
    /\ screen' = [screen EXCEPT !.loading = FALSE]
    /\ calls' = (calls \ {c}) \cup {[c EXCEPT !.owner = FALSE]}
    /\ UNCHANGED <<db, closing, keys>>

Lowered(s, c) == IF c.owner THEN [s EXCEPT !.loading = FALSE] ELSE s

ReadAnswered(c) ==
    /\ c.kind = "read" /\ c.answered # "no"
    /\ screen' = Lowered(IF c.fresh /\ c.answered = "ok"
                         THEN Show(screen, c.answer.session, c.answer.edition) ELSE screen, c)
    /\ calls' = calls \ {c}
    /\ UNCHANGED <<db, closing, keys>>

-----------------------------------------------------------------------------
(* Opening and closing it *)

OpenCashSession ==
    /\ screen.session = NoSession /\ screen.known /\ ~screen.loading
    /\ Cardinality(calls) < MaxCalls
    /\ screen' = [screen EXCEPT !.loading = TRUE]
    /\ calls' = Start(calls, Call("open", screen.branch, NoSession, 0, FALSE))
    /\ UNCHANGED <<db, closing, keys>>

OpenAnswered(c) ==
    /\ c.kind = "open" /\ c.answered # "no"
    /\ IF c.fresh /\ c.answered = "ok"
       THEN /\ screen' = [Show(screen, c.answer.session, c.answer.edition) EXCEPT !.loading = FALSE]
            /\ calls' = Stale(calls \ {c}, {"read"})
       ELSE /\ screen' = IF c.fresh THEN [screen EXCEPT !.loading = FALSE] ELSE screen
            /\ calls' = calls \ {c}
    /\ UNCHANGED <<db, closing, keys>>

RequestCloseCashSession ==
    /\ screen.session # NoSession /\ screen.confirm = NoSession /\ ~screen.loading
    /\ screen' = [screen EXCEPT !.confirm = screen.session]
    /\ UNCHANGED <<db, closing, calls, keys>>

CancelClose ==
    /\ screen.confirm # NoSession /\ ~screen.loading
    /\ screen' = [screen EXCEPT !.confirm = NoSession]
    /\ UNCHANGED <<db, closing, calls, keys>>

\* Not the code: the workspace remembers its own closes only.
ForgottenCloses(s) == FALSE

ClosePending(s) == s \in closing

CloseCashSession ==
    LET s == screen.confirm
    IN /\ s # NoSession /\ ~screen.loading /\ Cardinality(calls) < MaxCalls
       /\ IF ClosePending(s) \/ s # screen.session
          THEN screen' = [screen EXCEPT !.confirm = NoSession] /\ UNCHANGED <<closing, calls>>
          ELSE /\ closing' = closing \cup {s}
               /\ screen' = [screen EXCEPT !.loading = TRUE]
               /\ calls' = Start(calls, Call("close", screen.branch, s, 0, FALSE))
       /\ UNCHANGED <<db, keys>>

\* finally.
Released(c) == closing \ {c.session}

\* The register is read again, by a refresh that owns nothing.
CloseAnswered(c) ==
    /\ c.kind = "close" /\ c.answered # "no"
    /\ closing' = Released(c)
    /\ screen' =
         IF ~c.fresh THEN screen
         ELSE [Show(screen, IF c.answered = "ok" THEN NoSession ELSE screen.session,
                    IF c.answered = "ok" THEN c.answer.edition ELSE screen.edition)
                 EXCEPT !.loading = FALSE, !.confirm = NoSession]
    /\ calls' = IF c.fresh /\ c.answered = "ok"
                THEN Start(Stale(calls \ {c}, {"read"}), Call("read", screen.branch, NoSession, 0, FALSE))
                ELSE calls \ {c}
    /\ UNCHANGED <<db, keys>>

-----------------------------------------------------------------------------
(* Exits of cash *)

RequestCashMovement ==
    /\ screen.session # NoSession /\ screen.intent = NoIntent /\ ~screen.paying /\ keys < MaxKeys
    /\ keys' = keys + 1
    /\ screen' = [screen EXCEPT !.intent = [session |-> screen.session, key |-> keys + 1]]
    /\ UNCHANGED <<db, closing, calls>>

CancelMovement ==
    /\ screen.intent # NoIntent /\ ~screen.paying
    /\ screen' = [screen EXCEPT !.intent = NoIntent]
    /\ UNCHANGED <<db, closing, calls, keys>>

SubmitCashMovement ==
    /\ screen.intent # NoIntent /\ ~screen.paying /\ screen.session # NoSession
    /\ Cardinality(calls) < MaxCalls
    /\ IF screen.session # screen.intent.session
       THEN screen' = [screen EXCEPT !.intent = NoIntent] /\ UNCHANGED calls
       ELSE /\ screen' = [screen EXCEPT !.paying = TRUE]
            /\ calls' = Start(calls, Call("exit", screen.branch, screen.intent.session,
                                          screen.intent.key, FALSE))
    /\ UNCHANGED <<db, closing, keys>>

MovementAnswered(c) ==
    /\ c.kind = "exit" /\ c.answered # "no"
    /\ screen' = IF ~c.fresh THEN screen
                 ELSE [screen EXCEPT !.paying = FALSE,
                         !.intent = IF c.answered = "ok" THEN NoIntent ELSE @]
    /\ calls' = calls \ {c}
    /\ UNCHANGED <<db, closing, keys>>

-----------------------------------------------------------------------------
(* Branch and mode *)

AllKinds == {"read", "open", "close", "exit"}

Pinned == screen.loading \/ screen.paying

\* changeBranch, and the refresh of the branch that comes with it.
ChangeBranch(b) ==
    /\ b # screen.branch /\ ~Pinned /\ Cardinality(calls) < MaxCalls
    /\ screen' = Blank(b)
    /\ calls' = Start(Stale(calls, AllKinds), Call("read", b, NoSession, 0, TRUE))
    /\ UNCHANGED <<db, closing, keys>>

\* To another mode and back: a new workspace, while the functions of the old one still await.
SwitchMode ==
    /\ Modes /\ Cardinality(calls) < MaxCalls
    /\ screen' = Blank(screen.branch)
    /\ calls' = Start(Stale(calls, AllKinds), Call("read", screen.branch, NoSession, 0, TRUE))
    /\ UNCHANGED <<db, closing, keys>>

-----------------------------------------------------------------------------
Cashier ==
    \/ Refresh \/ OpenCashSession \/ RequestCloseCashSession \/ CancelClose \/ CloseCashSession
    \/ RequestCashMovement \/ CancelMovement \/ SubmitCashMovement
    \/ SwitchMode \/ \E b \in Branches : ChangeBranch(b)

Answered(c) == ReadAnswered(c) \/ OpenAnswered(c) \/ CloseAnswered(c) \/ MovementAnswered(c)

Network == \E c \in calls : Serve(c) \/ Lose(c) \/ QueueFails(c) \/ Answered(c)

Next == Cashier \/ Network \/ \E b \in Branches : Elsewhere(b)

Spec == Init /\ [][Next]_vars

\* Every call is answered or fails, and its function then runs on.
Kept(kind) == \E c \in calls : c.kind = kind /\ (Serve(c) \/ Lose(c) \/ Answered(c))
Fairness == \A kind \in AllKinds : WF_vars(Kept(kind))

-----------------------------------------------------------------------------
(* Properties *)

Databases ==
    [branchOf: Seq(Branches), open: [Branches -> Nat], edition: [Branches -> Nat],
     exits: SUBSET Nat]
Screens ==
    [branch: Branches, session: Nat, known: BOOLEAN, edition: Nat, loading: BOOLEAN,
     confirm: Nat, intent: [session: Nat, key: Nat], paying: BOOLEAN]
Calls ==
    [kind: AllKinds, branch: Branches, session: Nat, key: Nat, owner: BOOLEAN, fresh: BOOLEAN,
     answered: {"no", "ok", "failed"}, answer: [session: Nat, edition: Nat]]

\* Everything has its shape; at most one fresh read owns the flag of a screen that loads.
TypeOK ==
    /\ db \in Databases /\ screen \in Screens /\ calls \subseteq Calls
    /\ closing \subseteq Nat /\ keys \in Nat
    /\ \A c \in calls : c.owner => c.kind = "read" /\ c.fresh /\ screen.loading
    /\ \A c, d \in calls : c.owner /\ d.owner => c = d

\* The session on the screen, and so the one that is charged to, closed or paid from, is of the
\* branch on the screen, however late the answers of another branch come.
ShownIsOfBranch ==
    screen.session # NoSession => db.branchOf[screen.session] = screen.branch

\* A close that waits for its second step is of the session that is shown.
ConfirmedIsShown == screen.confirm # NoSession => screen.confirm = screen.session

\* A session has one close under way, also when the workspace that sent it was left.
OneClosePerSession ==
    \A c, d \in calls : c.kind = "close" /\ d.kind = "close" /\ c.session = d.session => c = d

\* An exit of cash under way is not discarded and made again under another key.
NeverRekeyed ==
    \A c \in calls : c.kind = "exit" => screen.intent.key \in {0, c.key}

\* A read never puts an older state of the register over a newer one.
ReadsNeverGoBack ==
    [][(\E c \in calls : ReadAnswered(c)) => screen'.edition >= screen.edition]_vars

\* The buttons come back: no refresh, opening or close leaves the screen loading for good.
LoadingEnds == []<>(~screen.loading)
=============================================================================
