------------------------------- MODULE Server -------------------------------
(***************************************************************************)
(* The life of the API process (src/api/src/server.ts): the readiness gate *)
(* before the socket is bound, the sweeper with its chained timer          *)
(* (modules/sales/reservation-sweeper.ts), requests, signals, and the      *)
(* shutdown with its deadline.  What a sweep or a request does is left     *)
(* out: nothing here depends on it, except that it may fail or never end.  *)
(***************************************************************************)
EXTENDS Naturals

CONSTANTS
    Signals,        \* those with a handler: SIGINT and SIGTERM
    MaxRequests     \* bound: requests under way at once

VARIABLES
    gate,           \* the readiness gate and listen(): "checking", "passed" or "failed"
    listening,      \* the HTTP server accepts connections
    requests,       \* how many requests are being served
    started,        \* the sweeper was started
    stopped,        \* its stop() was called
    timers,         \* its armed timers
    sweeps,         \* its runs in flight
    shutdown,       \* how far shutdown() has got
    deadline,       \* its ten seconds are running
    code,           \* process.exitCode
    heard,          \* signals whose one-time handler has run
    exit            \* "up", or how the process ended

vars == <<gate, listening, requests, started, stopped, timers, sweeps, shutdown, deadline,
          code, heard, exit>>

sweeper == <<started, stopped, timers, sweeps>>

Init ==
    /\ gate = "checking" /\ listening = FALSE /\ requests = 0
    /\ started = FALSE /\ stopped = FALSE /\ timers = 0 /\ sweeps = 0
    /\ shutdown = "no" /\ deadline = FALSE /\ code = "clean" /\ heard = {} /\ exit = "up"

-----------------------------------------------------------------------------
(* The sweeper *)

\* Not the code: the next run is armed only when this one succeeded.
RearmOnSuccess(ok) == IF ok /\ ~stopped THEN 1 ELSE 0

\* The next run is armed when this one has ended, well or not, unless stopped.
Rearm(ok) == IF stopped THEN 0 ELSE 1

SweepEnds(ok) ==
    /\ exit = "up" /\ sweeps > 0
    /\ sweeps' = sweeps - 1 /\ timers' = timers + Rearm(ok)
    /\ UNCHANGED <<gate, listening, requests, started, stopped, shutdown, deadline, code, heard, exit>>

\* The timer is spent when it fires.
TimersAfterFiring == timers - 1

TimerFires ==
    /\ exit = "up" /\ timers > 0
    /\ timers' = TimersAfterFiring
    /\ sweeps' = IF stopped THEN sweeps ELSE sweeps + 1
    /\ UNCHANGED <<gate, listening, requests, started, stopped, shutdown, deadline, code, heard, exit>>

-----------------------------------------------------------------------------
(* Shutdown *)

\* Not the code: a shutdown waits as long as it takes.
NoDeadline == FALSE

\* A deadline of ten seconds is armed.
Deadline == TRUE

\* shutdown(code) up to its first await: the sweeper will not start another run.
Shutdown(wanted) ==
    IF shutdown # "no" THEN UNCHANGED <<shutdown, deadline, code, stopped, timers>>
    ELSE /\ shutdown' = "sweeper" /\ deadline' = Deadline /\ code' = wanted
         /\ stopped' = started /\ timers' = 0

\* When the run in flight has ended, the HTTP server closes: what it serves is still answered.
CloseServer ==
    /\ exit = "up" /\ shutdown = "sweeper" /\ sweeps = 0
    /\ shutdown' = "closing" /\ listening' = FALSE
    /\ UNCHANGED <<gate, requests, sweeper, deadline, code, heard, exit>>

Disconnect ==
    /\ exit = "up" /\ shutdown = "closing" /\ requests = 0
    /\ shutdown' = "disconnecting"
    /\ UNCHANGED <<gate, listening, requests, sweeper, deadline, code, heard, exit>>

\* The database is disconnected, or that failed.
Finish(ok) ==
    /\ exit = "up" /\ shutdown = "disconnecting"
    /\ shutdown' = "done" /\ deadline' = FALSE /\ code' = IF ok THEN code ELSE "failed"
    /\ UNCHANGED <<gate, listening, requests, sweeper, heard, exit>>

\* process.exit(1)
CodeOfDeadline == "failed"

DeadlineFires ==
    /\ exit = "up" /\ deadline
    /\ exit' = CodeOfDeadline
    /\ UNCHANGED <<gate, listening, requests, sweeper, shutdown, deadline, code, heard>>

\* A process with nothing left to wait for ends (its timers do not count).
Exit ==
    /\ exit = "up" /\ shutdown = "done"
    /\ gate # "checking" /\ ~listening /\ requests = 0 /\ sweeps = 0
    /\ exit' = code
    /\ UNCHANGED <<gate, listening, requests, sweeper, shutdown, deadline, code, heard>>

\* The handlers run once; a signal without a handler kills.
Signal(s) ==
    /\ exit = "up"
    /\ IF s \in heard
       THEN exit' = "killed" /\ UNCHANGED <<shutdown, deadline, code, stopped, timers, heard>>
       ELSE heard' = heard \cup {s} /\ Shutdown("clean") /\ UNCHANGED exit
    /\ UNCHANGED <<gate, listening, requests, started, sweeps>>

-----------------------------------------------------------------------------
(* Start-up and requests *)

\* The database is not ready, or the port is taken.
GateFails ==
    /\ exit = "up" /\ gate = "checking"
    /\ gate' = "failed" /\ Shutdown("failed")
    /\ UNCHANGED <<listening, requests, started, sweeps, heard, exit>>

\* onListening
MayStart == shutdown = "no"

\* The server listens, whatever happened meanwhile; the first run of the sweeper starts with it.
GatePasses ==
    /\ exit = "up" /\ gate = "checking"
    /\ gate' = "passed" /\ listening' = TRUE
    /\ started' = MayStart /\ sweeps' = IF MayStart THEN 1 ELSE 0
    /\ UNCHANGED <<requests, stopped, timers, shutdown, deadline, code, heard, exit>>

RequestArrives ==
    /\ exit = "up" /\ listening /\ requests < MaxRequests
    /\ requests' = requests + 1
    /\ UNCHANGED <<gate, listening, sweeper, shutdown, deadline, code, heard, exit>>

RequestAnswered ==
    /\ exit = "up" /\ requests > 0
    /\ requests' = requests - 1
    /\ UNCHANGED <<gate, listening, sweeper, shutdown, deadline, code, heard, exit>>

Next ==
    \/ GatePasses \/ GateFails \/ RequestArrives \/ RequestAnswered
    \/ TimerFires \/ \E ok \in BOOLEAN : SweepEnds(ok) \/ Finish(ok)
    \/ CloseServer \/ Disconnect \/ DeadlineFires \/ Exit
    \/ \E s \in Signals : Signal(s)

Spec == Init /\ [][Next]_vars

\* Timers fire, and the queries of the gate and the transactions of a sweep end (they have
\* timeouts).  Nobody owes a signal, and a request, or the shutdown itself, may never end.
Fairness ==
    /\ WF_vars(GatePasses \/ GateFails)
    /\ WF_vars(TimerFires) /\ WF_vars(\E ok \in BOOLEAN : SweepEnds(ok))
    /\ WF_vars(DeadlineFires) /\ WF_vars(Exit)

FairSpec == Spec /\ Fairness

-----------------------------------------------------------------------------
(* Properties *)

TypeOK ==
    /\ gate \in {"checking", "passed", "failed"} /\ listening \in BOOLEAN
    /\ requests \in 0 .. MaxRequests
    /\ started \in BOOLEAN /\ stopped \in BOOLEAN /\ timers \in 0 .. 1 /\ sweeps \in 0 .. 1
    /\ shutdown \in {"no", "sweeper", "closing", "disconnecting", "done"}
    /\ deadline \in BOOLEAN /\ code \in {"clean", "failed"} /\ heard \subseteq Signals
    /\ exit \in {"up", "clean", "failed", "killed"}

\* One chain: a run in flight or a timer armed, never two of them (00-pilot-safety-gate.md:
\* runs never overlap).
OneChain == timers + sweeps <= 1

\* No sweep uses the database once shutdown() disconnects it, however late the server opened.
DatabaseOutlivesSweeps ==
    shutdown \in {"disconnecting", "done"} => sweeps = 0 /\ timers = 0

\* A process that ended with code 0 cut no request and no sweep off.
CleanExitCutsNothing == exit = "clean" => requests = 0 /\ sweeps = 0

\* While nobody stops the process there is always another sweep, whatever the last one met.
SweepsKeepComing ==
    /\ started ~> (sweeps > 0 \/ shutdown # "no" \/ exit # "up")
    /\ timers > 0 ~> (sweeps > 0 \/ shutdown # "no" \/ exit # "up")
    /\ sweeps > 0 ~> (timers > 0 \/ shutdown # "no" \/ exit # "up")

\* A process that was open when it was told to stop ends, even if its requests do not.
OpenProcessEnds == started /\ shutdown # "no" ~> exit # "up"

\* What api/README.md says: a signal closes everything within a bounded time.
EveryShutdownEnds == shutdown # "no" ~> exit # "up"
=============================================================================
