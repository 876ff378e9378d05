---------------------------- MODULE ProcessProofs ----------------------------
(***************************************************************************)
(* The two programs whose process may end at any point: the catalog import *)
(* (PilotImport) and the server (Server).                                  *)
(***************************************************************************)
EXTENDS PilotImport, TLAPS

-----------------------------------------------------------------------------
(***************************************************************************)
(* The safety properties of PilotImport for any number of runs,            *)
(* authorizations and rows.  The maintenance lock is held exactly while    *)
(* the server still has the transaction, so what a run found in the        *)
(* database (nothing, or another run's import) is still so when it         *)
(* commits; the shop may only add rows that no run in flight has written.  *)
(***************************************************************************)

Busy(r) == server[r] \in {"open", "orphan", "sent"}
Past(r) == run[r].step = "consumed" \/ server[r] # "none"

\* How far the tool is, and how far the server.
StepsMatch(r) ==
    /\ run[r].step \in {"idle", "checked", "consumed"} => server[r] = "none"
    /\ run[r].step \in {"open", "writing"} => server[r] = "open"
    /\ run[r].step = "pending" => server[r] \in {"open", "sent", "committed", "aborted"}
    /\ run[r].step = "confirmed" => server[r] = "committed"
    /\ server[r] = "open" => run[r].step \in {"open", "writing", "pending"}
    /\ run[r].step \in {"idle", "checked", "consumed", "open"} => ~run[r].creates
    /\ run[r].step = "writing" => run[r].creates
    /\ run[r].step # "idle" => run[r].auth \in Auths
    /\ Past(r) => run[r].auth \in consumed
    /\ Busy(r) <=> locker = r

\* What a run found still holds, and what it left is there.
FoundHolds(r) ==
    /\ run[r].creates /\ Busy(r) =>
          /\ provenance = {}
          /\ \A s \in Skus : rows[s].by \notin Runs
          /\ \A s \in run[r].written : rows[s].by = Nobody
    /\ run[r].creates /\ (run[r].step = "pending" \/ server[r] = "sent") => run[r].written = Skus
    /\ ~run[r].creates /\ (run[r].step = "pending" \/ server[r] \in {"sent", "committed"}) =>
          provenance # {} /\ r \notin provenance
    /\ r \in provenance => server[r] = "committed"
    /\ server[r] = "committed" /\ run[r].creates => r \in provenance

VerdictsMatch(r) ==
    /\ run[r].verdict # "none" => run[r].step = "done"
    /\ run[r].verdict \in {"OK", "NOOP", "receipt"} => server[r] = "committed"
    /\ run[r].verdict = "NOOP" => ~run[r].creates
    /\ run[r].verdict \in {"authorization", "identity", "import", "conflict", "verify"} =>
          server[r] \notin {"sent", "committed"}

Sound(r) == StepsMatch(r) /\ FoundHolds(r) /\ VerdictsMatch(r)

OnePast == \A r, q \in Runs : r # q /\ Past(r) /\ Past(q) => run[r].auth # run[q].auth

ImportInv == TypeOK /\ CreatedAtOnce /\ OnePast /\ \A r \in Runs : Sound(r)

USE ImportAssumption

RunRecords == [step: Steps, auth: Auths \cup {Nobody}, written: SUBSET Skus,
               creates: BOOLEAN, seen: 0 .. MaxOther, verdict: Verdicts]

LEMMA InitInv == Init => ImportInv
<1> SUFFICES ASSUME Init PROVE ImportInv
    OBVIOUS
<1>1. TypeOK
    BY DEF Init, TypeOK, Steps, Verdicts
<1>2. \A r \in Runs : run[r].step = "idle" /\ ~run[r].creates /\ run[r].verdict = "none" /\ server[r] = "none"
                      /\ locker # r /\ r \notin provenance
    BY DEF Init
<1>3. \A s \in Skus : rows[s].by = Nobody
    BY DEF Init
<1>4. provenance = {}
    BY DEF Init
<1> QED BY <1>1, <1>2, <1>3, <1>4
        DEF ImportInv, CreatedAtOnce, OnePast, Past, Sound, StepsMatch, FoundHolds, VerdictsMatch, Busy

-----------------------------------------------------------------------------
(* How records change *)

\* The run r becomes the record t.
Becomes(r, t) ==
    /\ run' \in [Runs -> RunRecords] /\ run'[r] = t
    /\ \A q \in Runs \ {r} : run'[q] = run[q]

LEMMA BecomesByExcept ==
    ASSUME TypeOK, NEW r \in Runs, NEW t \in RunRecords, run' = [run EXCEPT ![r] = t]
    PROVE  Becomes(r, t)
BY DEF TypeOK, Becomes, RunRecords

Ended(r, verdict) == [run[r] EXCEPT !.step = "done", !.verdict = verdict]

LEMMA EndsBecomes ==
    ASSUME TypeOK, NEW r \in Runs, NEW verdict \in Verdicts, Ends(r, verdict)
    PROVE  /\ Becomes(r, Ended(r, verdict))
           /\ Ended(r, verdict).step = "done" /\ Ended(r, verdict).verdict = verdict
           /\ Ended(r, verdict).auth = run[r].auth /\ Ended(r, verdict).creates = run[r].creates
           /\ Ended(r, verdict).written = run[r].written
<1>1. run \in [Runs -> RunRecords] /\ run[r] \in RunRecords
    BY DEF TypeOK, RunRecords
<1>2. Ended(r, verdict) \in RunRecords
    BY <1>1 DEF Ended, RunRecords, Steps
<1>3. run' = [run EXCEPT ![r] = Ended(r, verdict)]
    BY <1>1 DEF Ends, Ended
<1> QED BY <1>1, <1>2, <1>3, BecomesByExcept DEF Ended, RunRecords

LEMMA StepBecomes ==
    ASSUME TypeOK, NEW r \in Runs, NEW step \in Steps, run' = [run EXCEPT ![r].step = step]
    PROVE  \E t \in RunRecords :
              /\ Becomes(r, t) /\ t.step = step /\ t.auth = run[r].auth /\ t.written = run[r].written
              /\ t.creates = run[r].creates /\ t.seen = run[r].seen /\ t.verdict = run[r].verdict
<1> DEFINE t == [run[r] EXCEPT !.step = step]
<1>1. run \in [Runs -> RunRecords] /\ run[r] \in RunRecords
    BY DEF TypeOK, RunRecords
<1>2. t \in RunRecords
    BY <1>1 DEF RunRecords
<1>3. run' = [run EXCEPT ![r] = t]
    BY <1>1
<1>4. Becomes(r, t)
    BY <1>2, <1>3, BecomesByExcept
<1>5. /\ t.step = step /\ t.auth = run[r].auth /\ t.written = run[r].written
      /\ t.creates = run[r].creates /\ t.seen = run[r].seen /\ t.verdict = run[r].verdict
    BY <1>1 DEF RunRecords
<1> QED BY <1>2, <1>4, <1>5

-----------------------------------------------------------------------------
(* The runs that a step is not about *)

LEMMA FrameSound ==
    ASSUME ImportInv, NEW q \in Runs, run'[q] = run[q], server'[q] = server[q],
           consumed \subseteq consumed', provenance' = provenance,
           \A s \in Skus : rows'[s].by = rows[s].by, locker' = q <=> locker = q
    PROVE  Sound(q)'
<1>1. Sound(q) /\ run[q].written \subseteq Skus
    BY DEF ImportInv, TypeOK
<1>2. StepsMatch(q)'
    BY <1>1 DEF Sound, StepsMatch, Past, Busy
<1>3. FoundHolds(q)'
    BY <1>1 DEF Sound, FoundHolds, Busy
<1>4. VerdictsMatch(q)'
    BY <1>1 DEF Sound, VerdictsMatch
<1> QED BY <1>2, <1>3, <1>4 DEF Sound

\* A step of one run that takes no authorization and commits nothing.
LEMMA RunStep ==
    ASSUME ImportInv, NEW r \in Runs, NEW t, Becomes(r, t), TypeOK', Sound(r)',
           \A q \in Runs \ {r} : server'[q] = server[q] /\ (locker' = q <=> locker = q),
           consumed \subseteq consumed', UNCHANGED <<rows, provenance>>,
           Past(r)' => Past(r) /\ t.auth = run[r].auth
    PROVE  ImportInv'
<1>1. \A q \in Runs \ {r} : run'[q] = run[q]
    BY DEF Becomes
<1>2. \A q \in Runs : Sound(q)'
    BY <1>1, FrameSound
<1>3. OnePast'
    BY <1>1 DEF ImportInv, OnePast, Past, Becomes
<1>4. CreatedAtOnce'
    BY DEF ImportInv, CreatedAtOnce
<1> QED BY <1>2, <1>3, <1>4 DEF ImportInv

-----------------------------------------------------------------------------
(* The actions of a run *)

LEMMA Facts ==
    ASSUME ImportInv, NEW r \in Runs
    PROVE  TypeOK /\ Sound(r) /\ run[r] \in RunRecords /\ locker \in Runs \cup {Nobody}
           /\ server \in [Runs -> {"none", "open", "orphan", "sent", "committed", "aborted"}]
BY DEF ImportInv, TypeOK, RunRecords

\* A run that ends and keeps the database and its authorization as they are.
LEMMA EndStep ==
    ASSUME ImportInv, NEW r \in Runs, NEW verdict \in Verdicts, Ends(r, verdict),
           run[r].step # "idle", consumed \subseteq consumed', consumed' \subseteq Auths,
           UNCHANGED <<auths, rows, provenance, other>>,
           server' \in [Runs -> {"none", "open", "orphan", "sent", "committed", "aborted"}],
           \A q \in Runs \ {r} : server'[q] = server[q] /\ (locker' = q <=> locker = q),
           locker' \in Runs \cup {Nobody}, (server'[r] \in {"orphan", "sent"}) <=> locker' = r,
           server'[r] # "open", server'[r] # "none" => server[r] # "none",
           server'[r] = "committed" <=> server[r] = "committed",
           server'[r] = "sent" => server[r] = "sent", server'[r] = "orphan" => Busy(r),
           verdict \in {"OK", "NOOP", "receipt"} => server'[r] = "committed",
           verdict = "NOOP" => ~run[r].creates,
           verdict \in {"authorization", "identity", "import", "conflict", "verify"} =>
              server'[r] \notin {"sent", "committed"}
    PROVE  ImportInv'
<1>1. Sound(r) /\ run[r] \in RunRecords /\ TypeOK
    BY Facts
<1> DEFINE t == Ended(r, verdict)
<1>2. /\ Becomes(r, t) /\ t.step = "done" /\ t.verdict = verdict /\ t.auth = run[r].auth
      /\ t.creates = run[r].creates /\ t.written = run[r].written
    BY <1>1, EndsBecomes
<1> HIDE DEF t
<1>3. run'[r] = t
    BY <1>2 DEF Becomes
<1>4. StepsMatch(r)'
    BY <1>1, <1>2, <1>3 DEF Sound, StepsMatch, Past, Busy
<1>5. FoundHolds(r)'
    BY <1>1, <1>2, <1>3 DEF Sound, FoundHolds, Busy
<1>6. VerdictsMatch(r)'
    BY <1>1, <1>2, <1>3 DEF VerdictsMatch
<1>7. TypeOK'
    BY <1>1, <1>2 DEF TypeOK, Becomes, RunRecords
<1>8. Past(r)' => Past(r)
    BY <1>2, <1>3 DEF Past
<1> QED BY <1>2, <1>4, <1>5, <1>6, <1>7, <1>8, RunStep DEF Sound

LEMMA CheckStep ==
    ASSUME ImportInv, NEW r \in Runs, NEW a \in Auths, Check(r, a)
    PROVE  ImportInv'
<1>1. Sound(r) /\ run[r] \in RunRecords /\ TypeOK
    BY Facts
<1>2. PICK t \in RunRecords :
          /\ Becomes(r, t) /\ t.creates = run[r].creates /\ t.auth = a
          /\ \/ t.step = "done" /\ t.verdict = "authorization"
             \/ t.step = "checked" /\ t.verdict = run[r].verdict
  <2>1. CASE auths[a] = "expired" \/ a \in consumed
    <3> DEFINE t == [run[r] EXCEPT !.step = "done", !.auth = a, !.verdict = "authorization"]
    <3>1. t \in RunRecords /\ run' = [run EXCEPT ![r] = t]
        BY <1>1, <2>1 DEF Check, RunRecords, Steps, Verdicts, TypeOK
    <3>2. t.creates = run[r].creates /\ t.auth = a /\ t.step = "done" /\ t.verdict = "authorization"
        BY <1>1 DEF RunRecords
    <3> HIDE DEF t
    <3> QED BY <1>1, <3>1, <3>2, BecomesByExcept
  <2>2. CASE ~(auths[a] = "expired" \/ a \in consumed)
    <3> DEFINE t == [run[r] EXCEPT !.step = "checked", !.auth = a]
    <3>1. t \in RunRecords /\ run' = [run EXCEPT ![r] = t]
        BY <1>1, <2>2 DEF Check, RunRecords, Steps, TypeOK
    <3>2. t.creates = run[r].creates /\ t.auth = a /\ t.step = "checked" /\ t.verdict = run[r].verdict
        BY <1>1 DEF RunRecords
    <3> HIDE DEF t
    <3> QED BY <1>1, <3>1, <3>2, BecomesByExcept
  <2> QED BY <2>1, <2>2
<1>3. run'[r] = t /\ run[r].step = "idle" /\ server[r] = "none"
      /\ UNCHANGED <<auths, consumed, server, locker, rows, provenance, other>>
    BY <1>1, <1>2 DEF Becomes, Check, Sound, StepsMatch
<1>4. Sound(r)'
    BY <1>1, <1>2, <1>3 DEF Sound, StepsMatch, FoundHolds, VerdictsMatch, Past, Busy
<1>5. TypeOK'
    BY <1>1, <1>2, <1>3 DEF TypeOK, Becomes, RunRecords
<1>6. ~Past(r)'
    BY <1>2, <1>3 DEF Past
<1> QED BY <1>2, <1>3, <1>4, <1>5, <1>6, RunStep

\* The one step that takes an authorization: no other run has it.
LEMMA ConsumeStep ==
    ASSUME ImportInv, NEW r \in Runs, Consume(r)
    PROVE  ImportInv'
<1>1. Sound(r) /\ run[r] \in RunRecords /\ TypeOK
    BY Facts
<1>2. server[r] = "none" /\ UNCHANGED <<auths, server, locker, rows, provenance, other>>
    BY <1>1 DEF Consume, Sound, StepsMatch
<1>3. CASE consumed' \in {consumed, consumed \cup {run[r].auth}} /\ Ends(r, "authorization")
  <2>1. consumed \subseteq consumed' /\ consumed' \subseteq Auths
      BY <1>1, <1>3 DEF TypeOK, Sound, StepsMatch, Consume
  <2>2. server' \in [Runs -> {"none", "open", "orphan", "sent", "committed", "aborted"}]
        /\ locker' \in Runs \cup {Nobody} /\ locker # r
      BY <1>1, <1>2 DEF TypeOK, Sound, StepsMatch, Busy
  <2>3. "authorization" \in Verdicts
      BY DEF Verdicts
  <2>4. run[r].step = "checked"
      BY DEF Consume
  <2> QED BY <1>2, <1>3, <2>1, <2>2, <2>3, <2>4, EndStep
<1>4. CASE CreatesExclusively(run[r].auth) /\ consumed' = consumed \cup {run[r].auth}
           /\ run' = [run EXCEPT ![r].step = "consumed"]
  <2>0. "consumed" \in Steps
      BY DEF Steps
  <2>1. PICK t \in RunRecords :
            /\ Becomes(r, t) /\ t.step = "consumed" /\ t.auth = run[r].auth /\ t.written = run[r].written
            /\ t.creates = run[r].creates /\ t.verdict = run[r].verdict
      BY <1>1, <1>4, <2>0, StepBecomes
  <2>2. run'[r] = t /\ \A q \in Runs \ {r} : run'[q] = run[q]
      BY <2>1 DEF Becomes
  <2>3. run[r].step = "checked"
      BY DEF Consume
  <2>4. Sound(r)'
      BY <1>1, <1>2, <1>4, <2>1, <2>2, <2>3 DEF Sound, StepsMatch, FoundHolds, VerdictsMatch, Past, Busy
  <2>5. \A q \in Runs : Sound(q)'
      BY <1>2, <1>4, <2>2, <2>4, FrameSound
  <2>6. \A q \in Runs \ {r} : Past(q) => run[q].auth # run[r].auth
      BY <1>4 DEF ImportInv, Sound, StepsMatch, CreatesExclusively
  <2>7. OnePast'
      BY <1>2, <2>1, <2>2, <2>6 DEF ImportInv, OnePast, Past
  <2>8. TypeOK'
      BY <1>1, <1>2, <1>4, <2>1, <2>3 DEF TypeOK, Becomes, RunRecords, Sound, StepsMatch
  <2> QED BY <1>2, <2>5, <2>7, <2>8 DEF ImportInv, CreatedAtOnce
<1> QED BY <1>3, <1>4 DEF Consume

LEMMA ServerFacts ==
    ASSUME ImportInv, NEW r \in Runs,
           NEW status \in {"none", "open", "orphan", "sent", "committed", "aborted"},
           server' = [server EXCEPT ![r] = status]
    PROVE  /\ server' \in [Runs -> {"none", "open", "orphan", "sent", "committed", "aborted"}]
           /\ server'[r] = status /\ \A q \in Runs \ {r} : server'[q] = server[q]
BY DEF ImportInv, TypeOK

LEMMA RollbackStep ==
    ASSUME ImportInv, NEW r \in Runs, NEW verdict \in {"conflict", "identity", "import", "verify"},
           RolledBack(r, verdict), server[r] = "open", UNCHANGED <<auths, consumed, rows, provenance, other>>
    PROVE  ImportInv'
<1>1. Sound(r) /\ run[r] \in RunRecords /\ TypeOK
    BY Facts
<1>2. Ends(r, verdict) /\ locker' = Nobody /\ server' = [server EXCEPT ![r] = "aborted"]
    BY DEF RolledBack
<1>3. /\ server' \in [Runs -> {"none", "open", "orphan", "sent", "committed", "aborted"}]
      /\ server'[r] = "aborted" /\ \A q \in Runs \ {r} : server'[q] = server[q]
    BY <1>2, ServerFacts
<1>4. locker = r /\ run[r].step # "idle"
    BY <1>1 DEF Sound, StepsMatch, Busy
<1>5. verdict \in Verdicts /\ consumed' \subseteq Auths
    BY <1>1 DEF Verdicts, TypeOK
<1>6. \A q \in Runs \ {r} : locker' = q <=> locker = q
    BY <1>2, <1>4
<1> QED BY <1>2, <1>3, <1>4, <1>5, <1>6, EndStep

LEMMA BeginStep ==
    ASSUME ImportInv, NEW r \in Runs, Begin(r)
    PROVE  ImportInv'
<1>1. Sound(r) /\ run[r] \in RunRecords /\ TypeOK
    BY Facts
<1>2. run[r].step = "consumed" /\ locker = Nobody /\ locker' = r /\ server' = [server EXCEPT ![r] = "open"]
      /\ run' = [run EXCEPT ![r].step = "open"] /\ UNCHANGED <<auths, consumed, rows, provenance, other>>
    BY DEF Begin
<1>3. /\ server' \in [Runs -> {"none", "open", "orphan", "sent", "committed", "aborted"}]
      /\ server'[r] = "open" /\ \A q \in Runs \ {r} : server'[q] = server[q]
    BY <1>2, ServerFacts
<1>0. "open" \in Steps
    BY DEF Steps
<1>4. PICK t \in RunRecords :
          /\ Becomes(r, t) /\ t.step = "open" /\ t.auth = run[r].auth /\ t.written = run[r].written
          /\ t.creates = run[r].creates /\ t.verdict = run[r].verdict
    BY <1>0, <1>1, <1>2, StepBecomes
<1>5. run'[r] = t
    BY <1>4 DEF Becomes
<1>6. Sound(r)'
    BY <1>1, <1>2, <1>3, <1>4, <1>5 DEF Sound, StepsMatch, FoundHolds, VerdictsMatch, Past, Busy
<1>7. TypeOK'
    BY <1>1, <1>2, <1>3, <1>4 DEF TypeOK, Becomes, RunRecords
<1>8. Past(r)
    BY <1>2 DEF Past
<1> QED BY <1>2, <1>3, <1>4, <1>6, <1>7, <1>8, RunStep

\* The rows of a run are there only together with its provenance, so a run that finds no row of
\* any kind finds nothing, and one that finds an import finds another run's.
LEMMA ClassifyStep ==
    ASSUME ImportInv, NEW r \in Runs, Classify(r)
    PROVE  ImportInv'
<1>1. Sound(r) /\ run[r] \in RunRecords /\ TypeOK
    BY Facts
<1>2. run[r].step = "open" /\ server[r] = "open" /\ UNCHANGED <<auths, consumed, rows, provenance, other>>
    BY DEF Classify
<1>3. CASE Absent /\ run' = [run EXCEPT ![r].step = "writing", ![r].creates = TRUE, ![r].seen = other]
           /\ UNCHANGED <<server, locker>>
  <2> DEFINE t == [run[r] EXCEPT !.step = "writing", !.creates = TRUE, !.seen = other]
  <2>1. t \in RunRecords /\ run' = [run EXCEPT ![r] = t]
      BY <1>1, <1>3 DEF RunRecords, Steps, TypeOK
  <2>2. t.creates /\ t.auth = run[r].auth /\ t.step = "writing" /\ t.verdict = run[r].verdict
        /\ t.written = run[r].written
      BY <1>1 DEF RunRecords
  <2> HIDE DEF t
  <2>3. Becomes(r, t) /\ run'[r] = t
      BY <1>1, <2>1, BecomesByExcept DEF Becomes
  <2>4. t.written \subseteq Skus
      BY <2>1 DEF RunRecords
  <2>5. Sound(r)'
    <3>1. StepsMatch(r)'
        BY <1>1, <1>2, <1>3, <2>2, <2>3 DEF Sound, StepsMatch, Past, Busy
    <3>2. provenance = {} /\ \A s \in Skus : rows[s].by = Nobody
        BY <1>3 DEF Absent
    <3>3. FoundHolds(r)'
        BY <1>2, <1>3, <2>2, <2>3, <2>4, <3>2 DEF FoundHolds, Busy
    <3>4. VerdictsMatch(r)'
        BY <1>1, <1>2, <1>3, <2>2, <2>3 DEF Sound, VerdictsMatch
    <3> QED BY <3>1, <3>3, <3>4 DEF Sound
  <2>6. TypeOK'
      BY <1>1, <1>2, <1>3, <2>3 DEF TypeOK, Becomes, RunRecords
  <2>7. Past(r)
      BY <1>2 DEF Past
  <2> QED BY <1>2, <1>3, <2>2, <2>3, <2>5, <2>6, <2>7, RunStep
<1>4. CASE Exact /\ run' = [run EXCEPT ![r].step = "pending"] /\ UNCHANGED <<server, locker>>
  <2>0. "pending" \in Steps
      BY DEF Steps
  <2>1. PICK t \in RunRecords :
            /\ Becomes(r, t) /\ t.step = "pending" /\ t.auth = run[r].auth /\ t.written = run[r].written
            /\ t.creates = run[r].creates /\ t.verdict = run[r].verdict
      BY <1>1, <1>4, <2>0, StepBecomes
  <2>2. run'[r] = t
      BY <2>1 DEF Becomes
  <2>3. provenance # {} /\ r \notin provenance /\ ~run[r].creates
      BY <1>1, <1>2, <1>4 DEF Exact, Sound, StepsMatch, FoundHolds
  <2>4. Sound(r)'
      BY <1>1, <1>2, <1>4, <2>1, <2>2, <2>3
         DEF Sound, StepsMatch, FoundHolds, VerdictsMatch, Past, Busy
  <2>5. TypeOK'
      BY <1>1, <1>2, <1>4, <2>1 DEF TypeOK, Becomes, RunRecords
  <2>6. Past(r)
      BY <1>2 DEF Past
  <2> QED BY <1>2, <1>4, <2>1, <2>4, <2>5, <2>6, RunStep
<1>5. ASSUME NEW verdict \in {"conflict", "identity"}, RolledBack(r, verdict)
      PROVE  ImportInv'
    BY <1>2, <1>5, RollbackStep
<1> QED BY <1>3, <1>4, <1>5 DEF Classify

LEMMA WriteRowStep ==
    ASSUME ImportInv, NEW r \in Runs, NEW s \in Skus, WriteRow(r, s)
    PROVE  ImportInv'
<1>1. Sound(r) /\ run[r] \in RunRecords /\ TypeOK
    BY Facts
<1>2. run[r].step = "writing" /\ server[r] = "open" /\ UNCHANGED <<auths, consumed, rows, provenance, other>>
    BY DEF WriteRow
<1>3. CASE rows[s].by = Nobody
  <2> DEFINE t == [run[r] EXCEPT !.written = @ \cup {s}]
  <2>1. t \in RunRecords /\ run' = [run EXCEPT ![r] = t] /\ UNCHANGED <<server, locker>>
      BY <1>1, <1>3 DEF WriteRow, RunRecords, TypeOK
  <2>2. t.written = run[r].written \cup {s} /\ t.auth = run[r].auth /\ t.step = run[r].step
        /\ t.verdict = run[r].verdict /\ t.creates = run[r].creates
      BY <1>1 DEF RunRecords
  <2> HIDE DEF t
  <2>3. Becomes(r, t) /\ run'[r] = t
      BY <1>1, <2>1, BecomesByExcept DEF Becomes
  <2>4. StepsMatch(r)'
      BY <1>1, <1>2, <2>1, <2>2, <2>3 DEF Sound, StepsMatch, Past, Busy
  <2>5. FoundHolds(r)'
      BY <1>1, <1>2, <1>3, <2>1, <2>2, <2>3 DEF Sound, FoundHolds, Busy
  <2>6. VerdictsMatch(r)'
      BY <1>1, <1>2, <2>1, <2>2, <2>3 DEF Sound, VerdictsMatch
  <2>7. TypeOK'
      BY <1>1, <1>2, <2>1, <2>3 DEF TypeOK, Becomes, RunRecords
  <2>8. Past(r)
      BY <1>2 DEF Past
  <2> QED BY <1>2, <2>1, <2>2, <2>3, <2>4, <2>5, <2>6, <2>7, <2>8, RunStep DEF Sound
<1>4. CASE rows[s].by # Nobody
  <2>1. RolledBack(r, "import")
      BY <1>4 DEF WriteRow
  <2> QED BY <1>2, <2>1, RollbackStep
<1> QED BY <1>3, <1>4

\* A run that goes to its next step, its transaction as it is.
LEMMA AdvanceStep ==
    ASSUME ImportInv, NEW r \in Runs, NEW step \in {"pending", "confirmed"},
           run' = [run EXCEPT ![r].step = step], UNCHANGED <<auths, consumed, server, locker, rows, provenance, other>>,
           step = "pending" => run[r].step = "writing" /\ run[r].creates /\ run[r].written = Skus,
           step = "confirmed" => run[r].step = "pending" /\ server[r] = "committed"
    PROVE  ImportInv'
<1>1. Sound(r) /\ run[r] \in RunRecords /\ TypeOK
    BY Facts
<1>0. step \in Steps
    BY DEF Steps
<1>2. PICK t \in RunRecords :
          /\ Becomes(r, t) /\ t.step = step /\ t.auth = run[r].auth /\ t.written = run[r].written
          /\ t.creates = run[r].creates /\ t.verdict = run[r].verdict
    BY <1>0, <1>1, StepBecomes
<1>3. run'[r] = t
    BY <1>2 DEF Becomes
<1>4. StepsMatch(r)'
    BY <1>1, <1>2, <1>3 DEF Sound, StepsMatch, Past, Busy
<1>5. FoundHolds(r)'
    BY <1>1, <1>2, <1>3 DEF Sound, StepsMatch, FoundHolds, Busy
<1>6. VerdictsMatch(r)'
    BY <1>1, <1>2, <1>3 DEF Sound, VerdictsMatch
<1>7. TypeOK'
    BY <1>1, <1>2 DEF TypeOK, Becomes, RunRecords
<1>8. Past(r)
    BY <1>1 DEF Past, Sound, StepsMatch
<1> QED BY <1>2, <1>4, <1>5, <1>6, <1>7, <1>8, RunStep DEF Sound

LEMMA VerifyStep ==
    ASSUME ImportInv, NEW r \in Runs, Verify(r)
    PROVE  ImportInv'
<1>1. Sound(r)
    BY Facts
<1>2. run[r].step = "writing" /\ server[r] = "open" /\ run[r].written = Skus
      /\ UNCHANGED <<auths, consumed, rows, provenance, other>>
    BY DEF Verify
<1>3. CASE other = run[r].seen
  <2>1. run' = [run EXCEPT ![r].step = "pending"] /\ UNCHANGED <<server, locker>>
      BY <1>3 DEF Verify
  <2>2. run[r].creates
      BY <1>1, <1>2 DEF Sound, StepsMatch
  <2> QED BY <1>2, <2>1, <2>2, AdvanceStep
<1>4. CASE other # run[r].seen
  <2>1. RolledBack(r, "verify")
      BY <1>4 DEF Verify
  <2> QED BY <1>2, <2>1, RollbackStep
<1> QED BY <1>3, <1>4

LEMMA ConfirmedStep ==
    ASSUME ImportInv, NEW r \in Runs, Confirmed(r)
    PROVE  ImportInv'
BY AdvanceStep DEF Confirmed

\* The client is gone or gives up; what it leaves open is an orphan.
LEMMA LeaveStep ==
    ASSUME ImportInv, NEW r \in Runs, NEW verdict \in {"none", "import", "commit"}, Ends(r, verdict),
           server' = [server EXCEPT ![r] = IF @ = "open" THEN "orphan" ELSE @],
           UNCHANGED <<auths, consumed, locker, rows, provenance, other>>,
           run[r].step # "idle",
           verdict = "import" => run[r].step \in {"consumed", "open", "writing"}
    PROVE  ImportInv'
<1>1. Sound(r) /\ TypeOK
    BY Facts
<1> DEFINE status == IF server[r] = "open" THEN "orphan" ELSE server[r]
<1>2. server' = [server EXCEPT ![r] = status]
      /\ status \in {"none", "open", "orphan", "sent", "committed", "aborted"}
    BY <1>1 DEF TypeOK
<1>3. /\ status # "open" /\ (status # "none" => server[r] # "none") /\ (status = "committed" <=> server[r] = "committed")
      /\ (status = "sent" => server[r] = "sent") /\ (status = "orphan" => server[r] \in {"open", "orphan"})
      /\ (status \in {"orphan", "sent"} <=> Busy(r))
    BY <1>2 DEF Busy
<1>4. verdict = "import" => status \notin {"sent", "committed"}
    BY <1>1 DEF Sound, StepsMatch
<1> HIDE DEF status
<1>5. /\ server' \in [Runs -> {"none", "open", "orphan", "sent", "committed", "aborted"}]
      /\ server'[r] = status /\ \A q \in Runs \ {r} : server'[q] = server[q]
    BY <1>2, ServerFacts
<1>6. status \in {"orphan", "sent"} <=> locker' = r
    BY <1>1, <1>3 DEF Sound, StepsMatch
<1>7. status = "orphan" => Busy(r)
    BY <1>3 DEF Busy
<1>8. verdict \in Verdicts /\ consumed' \subseteq Auths /\ locker' \in Runs \cup {Nobody}
    BY <1>1 DEF Verdicts, TypeOK
<1> QED BY <1>3, <1>4, <1>5, <1>6, <1>7, <1>8, EndStep

LEMMA QuietEndStep ==
    ASSUME ImportInv, NEW r \in Runs, NEW verdict \in {"identity", "OK", "NOOP", "receipt"}, Ends(r, verdict),
           UNCHANGED <<auths, consumed, server, locker, rows, provenance, other>>,
           verdict = "identity" => run[r].step = "checked",
           verdict # "identity" => run[r].step = "confirmed",
           verdict = "NOOP" => ~run[r].creates
    PROVE  ImportInv'
<1>1. Sound(r) /\ TypeOK
    BY Facts
<1>2. verdict \in Verdicts /\ consumed' \subseteq Auths /\ locker' \in Runs \cup {Nobody}
      /\ server' \in [Runs -> {"none", "open", "orphan", "sent", "committed", "aborted"}]
    BY <1>1 DEF Verdicts, TypeOK
<1>3. IF verdict = "identity" THEN server[r] = "none" ELSE server[r] = "committed"
    BY <1>1 DEF Sound, StepsMatch
<1>4. locker # r
    BY <1>1, <1>3 DEF Sound, StepsMatch, Busy
<1>5. run[r].step # "idle"
    OBVIOUS
<1> QED BY <1>2, <1>3, <1>4, <1>5, EndStep

-----------------------------------------------------------------------------
(* The server and the shop *)

LEMMA SendCommitStep ==
    ASSUME ImportInv, NEW r \in Runs, SendCommit(r)
    PROVE  ImportInv'
<1>1. Sound(r) /\ TypeOK
    BY Facts
<1>2. /\ server' \in [Runs -> {"none", "open", "orphan", "sent", "committed", "aborted"}]
      /\ server'[r] = "sent" /\ \A q \in Runs \ {r} : server'[q] = server[q]
    BY ServerFacts DEF SendCommit
<1>3. run[r].step = "pending" /\ server[r] = "open" /\ UNCHANGED <<auths, consumed, run, locker, rows, provenance, other>>
    BY DEF SendCommit
<1>4. StepsMatch(r)'
    BY <1>1, <1>2, <1>3 DEF Sound, StepsMatch, Past, Busy
<1>5. FoundHolds(r)'
    BY <1>1, <1>2, <1>3 DEF Sound, FoundHolds, Busy
<1>6. VerdictsMatch(r)'
    BY <1>1, <1>2, <1>3 DEF Sound, VerdictsMatch
<1>7. TypeOK'
    BY <1>1, <1>2, <1>3 DEF TypeOK
<1>8. Becomes(r, run[r])
    BY <1>1, <1>3 DEF Becomes, TypeOK, RunRecords
<1>9. Past(r)
    BY <1>3 DEF Past
<1> QED BY <1>2, <1>3, <1>4, <1>5, <1>6, <1>7, <1>8, <1>9, RunStep DEF Sound

LEMMA RollsBackStep ==
    ASSUME ImportInv, NEW r \in Runs, ServerRollsBack(r)
    PROVE  ImportInv'
<1>1. Sound(r) /\ TypeOK
    BY Facts
<1>2. /\ server' \in [Runs -> {"none", "open", "orphan", "sent", "committed", "aborted"}]
      /\ server'[r] = "aborted" /\ \A q \in Runs \ {r} : server'[q] = server[q]
    BY ServerFacts DEF ServerRollsBack
<1>3. server[r] \in {"orphan", "sent"} /\ locker' = Nobody
      /\ UNCHANGED <<auths, consumed, run, rows, provenance, other>>
    BY DEF ServerRollsBack
<1>4. locker = r
    BY <1>1, <1>3 DEF Sound, StepsMatch, Busy
<1>5. StepsMatch(r)'
    BY <1>1, <1>2, <1>3 DEF Sound, StepsMatch, Past, Busy
<1>6. FoundHolds(r)'
    BY <1>1, <1>2, <1>3 DEF Sound, FoundHolds, Busy
<1>7. VerdictsMatch(r)'
    BY <1>1, <1>2, <1>3 DEF Sound, VerdictsMatch
<1>8. TypeOK'
    BY <1>1, <1>2, <1>3 DEF TypeOK
<1>9. Becomes(r, run[r]) /\ Past(r)
    BY <1>1, <1>3 DEF Becomes, TypeOK, RunRecords, Past
<1>10. \A q \in Runs \ {r} : locker' = q <=> locker = q
    BY <1>3, <1>4
<1> QED BY <1>2, <1>3, <1>5, <1>6, <1>7, <1>8, <1>9, <1>10, RunStep DEF Sound

\* The one step that changes what is committed: the lock tells that no other run is in flight.
LEMMA CommitStep ==
    ASSUME ImportInv, NEW r \in Runs, ServerCommits(r)
    PROVE  ImportInv'
<1>1. Sound(r) /\ TypeOK /\ run[r] \in RunRecords
    BY Facts
<1>2. /\ server' \in [Runs -> {"none", "open", "orphan", "sent", "committed", "aborted"}]
      /\ server'[r] = "committed" /\ \A q \in Runs \ {r} : server'[q] = server[q]
    BY ServerFacts DEF ServerCommits
<1>3. server[r] = "sent" /\ locker' = Nobody /\ UNCHANGED <<auths, consumed, run, other>>
    BY DEF ServerCommits
<1>4. locker = r /\ \A q \in Runs \ {r} : ~Busy(q)
    BY <1>1, <1>3 DEF ImportInv, Sound, StepsMatch, Busy
<1>5. \A q \in Runs \ {r} : locker' = q <=> locker = q
    BY <1>3, <1>4
<1>6. CASE ~run[r].creates
  <2>1. UNCHANGED <<rows, provenance>>
      BY <1>6 DEF ServerCommits
  <2>2. StepsMatch(r)'
      BY <1>1, <1>2, <1>3 DEF Sound, StepsMatch, Past, Busy
  <2>3. FoundHolds(r)'
      BY <1>1, <1>2, <1>3, <1>6, <2>1 DEF Sound, FoundHolds, Busy
  <2>4. VerdictsMatch(r)'
      BY <1>1, <1>2, <1>3 DEF Sound, VerdictsMatch
  <2>5. TypeOK'
      BY <1>1, <1>2, <1>3, <2>1 DEF TypeOK
  <2>6. Becomes(r, run[r]) /\ Past(r)
      BY <1>1, <1>3 DEF Becomes, TypeOK, RunRecords, Past
  <2> QED BY <1>2, <1>3, <1>5, <2>1, <2>2, <2>3, <2>4, <2>5, <2>6, RunStep DEF Sound
<1>7. CASE run[r].creates
  <2>1. run[r].written = Skus /\ provenance = {}
      BY <1>1, <1>3, <1>7 DEF Sound, FoundHolds, Busy
  <2>2. rows' = [s \in Skus |-> [by |-> r, sold |-> 0]] /\ provenance' = {r}
      BY <1>7, <2>1 DEF ServerCommits
  <2>3. CreatedAtOnce'
      BY <2>2 DEF CreatedAtOnce
  <2>4. TypeOK'
      BY <1>1, <1>2, <1>3, <2>2 DEF TypeOK
  <2>5. OnePast'
      BY <1>2, <1>3 DEF ImportInv, OnePast, Past
  <2>6. Sound(r)'
    <3>1. StepsMatch(r)'
        BY <1>1, <1>2, <1>3 DEF Sound, StepsMatch, Past, Busy
    <3>2. FoundHolds(r)'
        BY <1>1, <1>2, <1>3, <1>7, <2>2 DEF Sound, FoundHolds, Busy
    <3>3. VerdictsMatch(r)'
        BY <1>1, <1>2, <1>3 DEF Sound, VerdictsMatch
    <3> QED BY <3>1, <3>2, <3>3 DEF Sound
  <2>7. ASSUME NEW q \in Runs \ {r} PROVE Sound(q)'
    <3>1. Sound(q) /\ ~Busy(q) /\ server'[q] = server[q] /\ (locker' = q <=> locker = q) /\ run'[q] = run[q]
        BY <1>2, <1>3, <1>4, <1>5 DEF ImportInv
    <3>2. StepsMatch(q)'
        BY <1>3, <3>1 DEF Sound, StepsMatch, Past, Busy
    <3>3. server[q] = "committed" => ~run[q].creates
        BY <2>1, <3>1 DEF Sound, FoundHolds
    <3>4. ~run[q].creates /\ (run[q].step = "pending" \/ server[q] \in {"sent", "committed"}) => FALSE
        BY <2>1, <3>1 DEF Sound, FoundHolds
    <3>5. FoundHolds(q)'
        BY <2>2, <3>1, <3>3, <3>4 DEF Sound, FoundHolds, Busy
    <3>6. VerdictsMatch(q)'
        BY <3>1 DEF Sound, VerdictsMatch
    <3> QED BY <3>2, <3>5, <3>6 DEF Sound
  <2> QED BY <2>3, <2>4, <2>5, <2>6, <2>7 DEF ImportInv
<1> QED BY <1>6, <1>7

LEMMA AroundStep ==
    ASSUME ImportInv, TypeOK', UNCHANGED <<consumed, run, server, locker, rows, provenance>>
    PROVE  ImportInv'
<1>1. \A q \in Runs : Sound(q)'
    BY FrameSound
<1> QED BY <1>1 DEF ImportInv, CreatedAtOnce, OnePast, Past

LEMMA ShopSellsStep ==
    ASSUME ImportInv, NEW s \in Skus, ShopSells(s)
    PROVE  ImportInv'
<1>1. TypeOK
    BY DEF ImportInv
<1>2. /\ rows' \in [Skus -> [by: Runs \cup {Nobody, Shop}, sold: 0 .. Stock]]
      /\ \A z \in Skus : rows'[z].by = rows[z].by
    BY <1>1 DEF ShopSells, TypeOK
<1>3. \A q \in Runs : Sound(q)'
    BY <1>2, FrameSound DEF ShopSells
<1>4. TypeOK'
    BY <1>1, <1>2 DEF TypeOK, ShopSells
<1> QED BY <1>2, <1>3, <1>4 DEF ImportInv, CreatedAtOnce, OnePast, Past, ShopSells

LEMMA ShopCreatesStep ==
    ASSUME ImportInv, NEW s \in Skus, ShopCreates(s)
    PROVE  ImportInv'
<1>1. TypeOK
    BY DEF ImportInv
<1>2. /\ rows' \in [Skus -> [by: Runs \cup {Nobody, Shop}, sold: 0 .. Stock]]
      /\ rows'[s].by = Shop /\ \A z \in Skus \ {s} : rows'[z] = rows[z]
    BY <1>1 DEF ShopCreates, TypeOK
<1>3. rows[s].by = Nobody /\ ~InFlight(s) /\ UNCHANGED <<auths, consumed, run, server, locker, provenance, other>>
    BY DEF ShopCreates
<1>4. ASSUME NEW q \in Runs PROVE Sound(q)'
  <2>1. Sound(q) /\ (Busy(q) => s \notin run[q].written)
      BY <1>3 DEF ImportInv, InFlight, Busy
  <2>2. StepsMatch(q)' /\ VerdictsMatch(q)'
      BY <1>3, <2>1 DEF Sound, StepsMatch, VerdictsMatch, Past, Busy
  <2>3. \A z \in Skus : rows[z].by \notin Runs => rows'[z].by \notin Runs
      BY <1>2
  <2>4. run[q].written \subseteq Skus
      BY <1>1 DEF TypeOK
  <2>5. FoundHolds(q)'
      BY <1>2, <1>3, <2>1, <2>3, <2>4 DEF Sound, FoundHolds, Busy
  <2> QED BY <2>2, <2>5 DEF Sound
<1>5. provenance = {}
    BY <1>1, <1>3 DEF TypeOK, ImportInv, CreatedAtOnce
<1>6. CreatedAtOnce'
  <2>1. \A z \in Skus : rows'[z].by \notin Runs
      BY <1>2, <1>5 DEF ImportInv, CreatedAtOnce
  <2> QED BY <1>3, <1>5, <2>1 DEF CreatedAtOnce
<1>7. OnePast'
    BY <1>3 DEF ImportInv, OnePast, Past
<1>8. TypeOK'
    BY <1>1, <1>2, <1>3 DEF TypeOK
<1> QED BY <1>4, <1>6, <1>7, <1>8 DEF ImportInv

LEMMA NextInv == ImportInv /\ [Next]_vars => ImportInv'
<1> SUFFICES ASSUME ImportInv, [Next]_vars PROVE ImportInv'
    OBVIOUS
<1>0. TypeOK
    BY DEF ImportInv
<1>1. CASE UNCHANGED vars
    BY <1>0, <1>1, AroundStep DEF vars, TypeOK
<1>2. ASSUME NEW a \in Auths, Authorize(a) \/ Expire(a) PROVE ImportInv'
  <2>1. TypeOK' /\ UNCHANGED <<consumed, run, server, locker, rows, provenance>>
      BY <1>0, <1>2 DEF TypeOK, Authorize, Expire
  <2> QED BY <2>1, AroundStep
<1>3. CASE ShopMovesOther
  <2>1. TypeOK' /\ UNCHANGED <<consumed, run, server, locker, rows, provenance>>
      BY <1>0, <1>3 DEF TypeOK, ShopMovesOther, ImportAssumption
  <2> QED BY <2>1, AroundStep
<1>4. ASSUME NEW s \in Skus, ShopCreates(s) \/ ShopSells(s) PROVE ImportInv'
    BY <1>4, ShopCreatesStep, ShopSellsStep
<1>5. ASSUME NEW r \in Runs, ServerCommits(r) \/ ServerRollsBack(r) PROVE ImportInv'
    BY <1>5, CommitStep, RollsBackStep
<1>6. ASSUME NEW r \in Runs, NEW a \in Auths, Check(r, a) PROVE ImportInv'
    BY <1>6, CheckStep
<1>7. ASSUME NEW r \in Runs, IdentityFails(r) PROVE ImportInv'
    BY <1>7, QuietEndStep DEF IdentityFails
<1>8. ASSUME NEW r \in Runs, FailsBeforeCommit(r) PROVE ImportInv'
    BY <1>8, LeaveStep DEF FailsBeforeCommit
<1>9. ASSUME NEW r \in Runs, Crash(r) PROVE ImportInv'
    BY <1>9, LeaveStep DEF Crash
<1>10. ASSUME NEW r \in Runs, Execute(r) PROVE ImportInv'
  <2>1. CASE Consume(r) \/ Begin(r) \/ Classify(r) \/ Verify(r) \/ SendCommit(r) \/ Confirmed(r)
      BY <2>1, ConsumeStep, BeginStep, ClassifyStep, VerifyStep, SendCommitStep, ConfirmedStep
  <2>2. CASE \E s \in Skus : WriteRow(r, s)
      BY <2>2, WriteRowStep
  <2>3. CASE Uncertain(r)
      BY <2>3, LeaveStep DEF Uncertain, SaidOfPending
  <2>4. CASE Receipt(r)
    <3>1. UNCHANGED <<auths, consumed, server, locker, rows, provenance, other>> /\ run[r].step = "confirmed"
        BY <2>4 DEF Receipt
    <3>2. CASE Ends(r, "receipt")
        BY <3>1, <3>2, QuietEndStep
    <3>3. CASE Ends(r, "OK")
        BY <3>1, <3>3, QuietEndStep
    <3>4. CASE Ends(r, "NOOP") /\ ~run[r].creates
        BY <3>1, <3>4, QuietEndStep
    <3> QED BY <2>4, <3>2, <3>3, <3>4 DEF Receipt
  <2> QED BY <1>10, <2>1, <2>2, <2>3, <2>4 DEF Execute
<1> QED BY <1>1, <1>2, <1>3, <1>4, <1>5, <1>6, <1>7, <1>8, <1>9, <1>10 DEF Next

-----------------------------------------------------------------------------
(* Theorems *)

THEOREM InvariantHolds == Spec => []ImportInv
BY InitInv, NextInv, PTL DEF Spec

\* Every variable keeps its type.
THEOREM TypeCorrect == Spec => []TypeOK
<1>1. ImportInv => TypeOK
    BY DEF ImportInv
<1> QED BY <1>1, InvariantHolds, PTL

\* The catalog is created by one run or not at all (importTransaction).
THEOREM AlwaysCreatedAtOnce == Spec => []CreatedAtOnce
<1>1. ImportInv => CreatedAtOnce
    BY DEF ImportInv
<1> QED BY <1>1, InvariantHolds, PTL

\* What the tool says of the database is true (commitState in main).
THEOREM VerdictAlwaysTrue == Spec => []VerdictIsTrue
<1>1. ASSUME ImportInv PROVE VerdictIsTrue
  <2>1. ASSUME NEW r \in Runs
        PROVE  /\ run[r].verdict \in {"OK", "receipt"} /\ run[r].creates => r \in provenance
               /\ run[r].verdict = "NOOP" => provenance \notin {{}, {r}}
               /\ run[r].verdict \in {"authorization", "identity", "import", "conflict", "verify"} =>
                     r \notin provenance /\ server[r] \notin {"sent", "committed"}
    <3>1. FoundHolds(r) /\ VerdictsMatch(r)
        BY <1>1 DEF ImportInv, Sound
    <3> QED BY <3>1 DEF FoundHolds, VerdictsMatch
  <2> QED BY <2>1 DEF VerdictIsTrue
<1> QED BY <1>1, InvariantHolds, PTL

\* An authorization is consumed by one run (writeExclusive).
THEOREM AlwaysOneRunPerAuthorization == Spec => []OneRunPerAuthorization
<1>1. ImportInv => OneRunPerAuthorization
    BY DEF ImportInv, OnePast, Past, OneRunPerAuthorization
<1> QED BY <1>1, InvariantHolds, PTL

\* A row that exists is never written over: a commit finds no row but its own.
THEOREM NeverOverwritten == Spec => NothingOverwritten
<1>1. ASSUME ImportInv, [Next]_vars
      PROVE  [\A s \in Skus : rows[s].by # Nobody =>
                 rows'[s].by = rows[s].by /\ rows'[s].sold >= rows[s].sold]_vars
  <2> SUFFICES ASSUME NEW s \in Skus, rows[s].by # Nobody
               PROVE  rows'[s].by = rows[s].by /\ rows'[s].sold >= rows[s].sold
      OBVIOUS
  <2>1. rows[s].sold \in Nat /\ TypeOK
      BY <1>1 DEF ImportInv, TypeOK
  <2>2. CASE UNCHANGED rows
      BY <2>1, <2>2
  <2>3. ASSUME NEW z \in Skus, ShopSells(z) PROVE rows'[s].by = rows[s].by /\ rows'[s].sold >= rows[s].sold
      BY <2>1, <2>3 DEF ShopSells, TypeOK
  <2>4. ASSUME NEW z \in Skus, ShopCreates(z) PROVE rows'[s] = rows[s]
      BY <2>1, <2>4 DEF ShopCreates, TypeOK
  <2>5. ASSUME NEW r \in Runs, ServerCommits(r) PROVE rows' = rows
    <3>1. CASE ~run[r].creates
        BY <2>5, <3>1 DEF ServerCommits
    <3>2. CASE run[r].creates
      <4>1. server[r] = "sent" /\ FoundHolds(r)
          BY <1>1, <2>5 DEF ServerCommits, ImportInv, Sound
      <4>2. run[r].written = Skus /\ rows[s].by = Nobody
          BY <3>2, <4>1 DEF FoundHolds, Busy
      <4> QED BY <4>2
    <3> QED BY <3>1, <3>2
  <2> QED
    <3>1. [Next]_vars
        BY <1>1
    <3>2. CASE \E z \in Skus : ShopSells(z) \/ ShopCreates(z)
        BY <2>1, <2>3, <2>4, <3>2
    <3>3. CASE \E r \in Runs : ServerCommits(r)
        BY <2>2, <2>5, <3>3
    <3>4. CASE ~(\E z \in Skus : ShopSells(z) \/ ShopCreates(z)) /\ ~(\E r \in Runs : ServerCommits(r))
        BY <2>2, <3>1, <3>4
           DEF Next, vars, Authorize, Expire, Check, Execute, IdentityFails, FailsBeforeCommit, Crash,
               Consume, Begin, Classify, WriteRow, Verify, SendCommit, Confirmed, Uncertain, Receipt,
               ServerRollsBack, ShopMovesOther
    <3> QED BY <3>2, <3>3, <3>4
<1> QED BY <1>1, InvariantHolds, PTL DEF Spec, NothingOverwritten
-----------------------------------------------------------------------------
(***************************************************************************)
(* The process of the server, for any signals and any number of requests.  *)
(* A timer or a run in flight is what onListening left, and shutdown       *)
(* clears the timer before its first await.                                *)
(***************************************************************************)

CONSTANTS Signals, MaxRequests

VARIABLES
    gate, listening, requests, started, stopped, timers, sweeps, shutdown, deadline, code,
    heard, exit

Process == INSTANCE Server

ProcessInv ==
    /\ Process!TypeOK
    /\ Process!OneChain
    /\ gate = "checking" => ~started /\ ~listening /\ requests = 0
    /\ ~started => timers = 0 /\ sweeps = 0
    /\ shutdown # "no" => timers = 0 /\ (started => stopped)
    /\ shutdown \in {"closing", "disconnecting", "done"} => sweeps = 0
    /\ Process!CleanExitCutsNothing

LEMMA ProcessInitInv ==
    ASSUME MaxRequests \in Nat, Process!Init
    PROVE  ProcessInv
<1>1. requests \in 0 .. MaxRequests /\ timers \in 0 .. 1 /\ sweeps \in 0 .. 1
    BY DEF Process!Init
<1>2. listening \in BOOLEAN /\ started \in BOOLEAN /\ stopped \in BOOLEAN /\ deadline \in BOOLEAN
    BY DEF Process!Init
<1>3. Process!TypeOK
    BY <1>1, <1>2 DEF Process!TypeOK, Process!Init
<1> QED
    BY <1>3 DEF Process!Init, ProcessInv, Process!OneChain, Process!CleanExitCutsNothing

\* The first run starts only when nobody asked for the shutdown before.
LEMMA GatePassesKeeps ==
    ASSUME ProcessInv, Process!GatePasses
    PROVE  ProcessInv'
<1> USE DEF Process!GatePasses, Process!MayStart, Process!OneChain, Process!CleanExitCutsNothing
<1>1. started' = (shutdown = "no")
    OBVIOUS
<1>2. started' \in BOOLEAN /\ listening' \in BOOLEAN
    BY <1>1
<1>3. Process!TypeOK'
    BY <1>2 DEF Process!TypeOK, ProcessInv
<1>4. ~started' => sweeps' = 0 /\ timers' = 0
    BY <1>1 DEF ProcessInv
<1> QED BY <1>1, <1>3, <1>4 DEF ProcessInv, Process!TypeOK

\* A run that ends arms a timer only when nobody stopped the sweeper.
LEMMA SweepKeeps ==
    ASSUME ProcessInv, NEW ok \in BOOLEAN, Process!SweepEnds(ok)
    PROVE  ProcessInv'
<1>1. timers \in 0 .. 1 /\ sweeps \in 0 .. 1 /\ timers + sweeps <= 1 /\ sweeps > 0
    BY DEF ProcessInv, Process!TypeOK, Process!OneChain, Process!SweepEnds
<1>2. timers = 0 /\ sweeps = 1 /\ sweeps' = 0
    BY <1>1 DEF Process!SweepEnds
<1>3. timers' = (IF stopped THEN 0 ELSE 1)
    BY <1>2 DEF Process!SweepEnds, Process!Rearm
<1>4. timers' \in 0 .. 1 /\ sweeps' \in 0 .. 1 /\ timers' + sweeps' <= 1
    BY <1>2, <1>3
<1>5. Process!TypeOK'
    BY <1>4 DEF Process!TypeOK, ProcessInv, Process!SweepEnds
<1> QED
    BY <1>2, <1>3, <1>4, <1>5
       DEF ProcessInv, Process!OneChain, Process!CleanExitCutsNothing, Process!SweepEnds

LEMMA TimerKeeps ==
    ASSUME ProcessInv, Process!TimerFires
    PROVE  ProcessInv'
<1>1. timers = 1 /\ sweeps = 0 /\ timers' = 0
    BY DEF ProcessInv, Process!TypeOK, Process!OneChain, Process!TimerFires, Process!TimersAfterFiring
<1>2. sweeps' \in 0 .. 1
    BY <1>1 DEF Process!TimerFires
<1>3. Process!TypeOK'
    BY <1>1, <1>2 DEF Process!TypeOK, ProcessInv, Process!TimerFires
<1> QED
    BY <1>1, <1>2, <1>3
       DEF ProcessInv, Process!OneChain, Process!CleanExitCutsNothing, Process!TimerFires

LEMMA ShutdownKeeps ==
    ASSUME ProcessInv,
           NEW wanted \in {"clean", "failed"}, Process!Shutdown(wanted),
           gate' \in {gate, "failed"}, exit' = exit, heard' \subseteq Signals,
           UNCHANGED <<listening, requests, started, sweeps>>
    PROVE  ProcessInv'
<1> USE DEF Process!Shutdown, Process!Deadline
<1>1. stopped' \in BOOLEAN /\ deadline' \in BOOLEAN
    BY DEF ProcessInv, Process!TypeOK
<1>2. timers' \in 0 .. 1 /\ timers' \in {0, timers}
    BY DEF ProcessInv, Process!TypeOK
<1>3. Process!TypeOK'
    BY <1>1, <1>2 DEF Process!TypeOK, ProcessInv
<1>4. timers' + sweeps' <= 1
  <2>1. timers \in 0 .. 1 /\ sweeps \in 0 .. 1 /\ timers + sweeps <= 1 /\ sweeps' = sweeps
      BY DEF ProcessInv, Process!TypeOK, Process!OneChain
  <2>2. CASE timers' = 0
      BY <2>1, <2>2
  <2>3. CASE timers' = timers
      BY <2>1, <2>3
  <2> QED BY <1>2, <2>2, <2>3
<1> QED
    BY <1>3, <1>4 DEF ProcessInv, Process!TypeOK, Process!OneChain, Process!CleanExitCutsNothing

LEMMA ProcessStep ==
    ASSUME MaxRequests \in Nat, ProcessInv, [Process!Next]_(Process!vars)
    PROVE  ProcessInv'
<1> USE DEF Process!sweeper
<1>1. CASE Process!GatePasses
    BY <1>1, GatePassesKeeps
<1>2. CASE Process!GateFails
  <2>1. Process!Shutdown("failed") /\ heard' \subseteq Signals
      BY <1>2 DEF Process!GateFails, ProcessInv, Process!TypeOK
  <2> QED BY <1>2, <2>1, ShutdownKeeps DEF Process!GateFails
<1>3. CASE Process!RequestArrives
    BY <1>3 DEF Process!RequestArrives, ProcessInv, Process!TypeOK, Process!OneChain,
                Process!CleanExitCutsNothing
<1>4. CASE Process!RequestAnswered
    BY <1>4 DEF Process!RequestAnswered, ProcessInv, Process!TypeOK, Process!OneChain,
                Process!CleanExitCutsNothing
<1>5. CASE Process!TimerFires
    BY <1>5, TimerKeeps
<1>6. ASSUME NEW ok \in BOOLEAN, Process!SweepEnds(ok)
      PROVE  ProcessInv'
    BY <1>6, SweepKeeps
<1>7. ASSUME NEW ok \in BOOLEAN, Process!Finish(ok)
      PROVE  ProcessInv'
    BY <1>7 DEF Process!Finish, ProcessInv, Process!TypeOK, Process!OneChain,
                Process!CleanExitCutsNothing
<1>8. CASE Process!CloseServer
    BY <1>8 DEF Process!CloseServer, ProcessInv, Process!TypeOK, Process!OneChain,
                Process!CleanExitCutsNothing
<1>9. CASE Process!Disconnect
    BY <1>9 DEF Process!Disconnect, ProcessInv, Process!TypeOK, Process!OneChain,
                Process!CleanExitCutsNothing
<1>10. CASE Process!DeadlineFires
    BY <1>10 DEF Process!DeadlineFires, Process!CodeOfDeadline, ProcessInv, Process!TypeOK,
                 Process!OneChain, Process!CleanExitCutsNothing
<1>11. CASE Process!Exit
    BY <1>11 DEF Process!Exit, ProcessInv, Process!TypeOK, Process!OneChain,
                 Process!CleanExitCutsNothing
<1>12. ASSUME NEW s \in Signals, Process!Signal(s)
       PROVE  ProcessInv'
  <2>1. CASE s \in heard
      BY <1>12, <2>1 DEF Process!Signal, ProcessInv, Process!TypeOK, Process!OneChain,
                         Process!CleanExitCutsNothing
  <2>2. CASE s \notin heard
    <3>1. Process!Shutdown("clean") /\ heard' \subseteq Signals
        BY <1>12, <2>2 DEF Process!Signal, ProcessInv, Process!TypeOK
    <3> QED BY <1>12, <2>2, <3>1, ShutdownKeeps DEF Process!Signal
  <2> QED BY <2>1, <2>2
<1>13. CASE UNCHANGED Process!vars
    BY <1>13 DEF Process!vars, ProcessInv, Process!TypeOK, Process!OneChain,
                 Process!CleanExitCutsNothing
<1> QED
    BY <1>1, <1>2, <1>3, <1>4, <1>5, <1>6, <1>7, <1>8, <1>9, <1>10, <1>11, <1>12, <1>13
       DEF Process!Next

\* The state of the process keeps its shape (src/api/src/server.ts).
THEOREM ProcessTypeCorrect ==
    ASSUME MaxRequests \in Nat
    PROVE  Process!Spec => []Process!TypeOK
<1>1. Process!Init => ProcessInv
    BY ProcessInitInv
<1>2. ProcessInv /\ [Process!Next]_(Process!vars) => ProcessInv'
    BY ProcessStep
<1>3. ProcessInv => Process!TypeOK
    BY DEF ProcessInv
<1> QED BY <1>1, <1>2, <1>3, PTL DEF Process!Spec

\* Runs of the sweeper never overlap and never have two timers, whenever a signal comes
\* (reservation-sweeper.ts: the next timer is armed when a run has ended).
THEOREM AlwaysOneChain ==
    ASSUME MaxRequests \in Nat
    PROVE  Process!Spec => []Process!OneChain
<1>1. Process!Init => ProcessInv
    BY ProcessInitInv
<1>2. ProcessInv /\ [Process!Next]_(Process!vars) => ProcessInv'
    BY ProcessStep
<1>3. ProcessInv => Process!OneChain
    BY DEF ProcessInv
<1> QED BY <1>1, <1>2, <1>3, PTL DEF Process!Spec

\* No sweep meets a disconnected database: not one in flight, not one a late onListening would
\* start (server.ts: shutdown awaits the sweeper before it disconnects).
THEOREM DatabaseAlwaysOutlivesSweeps ==
    ASSUME MaxRequests \in Nat
    PROVE  Process!Spec => []Process!DatabaseOutlivesSweeps
<1>1. Process!Init => ProcessInv
    BY ProcessInitInv
<1>2. ProcessInv /\ [Process!Next]_(Process!vars) => ProcessInv'
    BY ProcessStep
<1>3. ProcessInv => Process!DatabaseOutlivesSweeps
    BY DEF ProcessInv, Process!DatabaseOutlivesSweeps
<1> QED BY <1>1, <1>2, <1>3, PTL DEF Process!Spec

\* A process that ends with code 0 has cut nothing off (server.ts: the deadline and a second
\* signal end it otherwise).
THEOREM CleanExitNeverCuts ==
    ASSUME MaxRequests \in Nat
    PROVE  Process!Spec => []Process!CleanExitCutsNothing
<1>1. Process!Init => ProcessInv
    BY ProcessInitInv
<1>2. ProcessInv /\ [Process!Next]_(Process!vars) => ProcessInv'
    BY ProcessStep
<1>3. ProcessInv => Process!CleanExitCutsNothing
    BY DEF ProcessInv
<1> QED BY <1>1, <1>2, <1>3, PTL DEF Process!Spec
==============================================================================
