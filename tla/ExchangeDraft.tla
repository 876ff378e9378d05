---------------------------- MODULE ExchangeDraft ----------------------------
(***************************************************************************)
(* The exchange of one sale as the tabs of one browser drive it:           *)
(* src/client/src/app/exchange-draft-store.ts and exchange-fresh-read.ts.  *)
(*                                                                         *)
(* POST /sales/:id/exchanges is idempotent by (sale, key), so an exchange  *)
(* whose outcome is unknown is resolved by repeating its body under its    *)
(* key.  The tabs share, in localStorage, one attempt record and one       *)
(* high-water mark per user and sale, and take a Web Lock around each      *)
(* section that decides from them; the lock is held for one synchronous    *)
(* section, which is one action here.  Between the sections requests       *)
(* travel, answers are lost, tabs are reloaded, storage refuses a write or *)
(* a read, and other devices exchange the same sale.                       *)
(*                                                                         *)
(* Abstractions: one user, one sale, one branch; a line is a quantity of   *)
(* an item, its replacement and the reason of the exchange are left out,   *)
(* and so are the texts of errors; the fingerprint of an attempt is its    *)
(* lines with their baselines.  The sale stays COMPLETED (module SaleStock *)
(* has the void); why the server refuses a business request is left open.  *)
(***************************************************************************)
EXTENDS Integers, FiniteSets

CONSTANTS
    Tabs,           \* the tabs of the browser
    Items,          \* the items of the sale
    Sold,           \* the units sold of each item
    Returns,        \* the quantities an operator types
    MaxElsewhere,   \* bound: the units other devices exchange
    MaxKeys,        \* bound: the keys the tabs may generate
    Faults          \* what may go wrong in a run, among FaultKinds

\* "late": a request the tab gave up on may still commit.  "write": setItem throws.
\* "read": getItem throws or the text is broken, for a while or for good.  "lock": the lock
\* cannot be taken to settle.  "permission": the user's SALE_EXCHANGE comes and goes.
FaultKinds == {"late", "write", "read", "lock", "permission"}

VARIABLES
    exchanged,      \* server: the units taken back of each item
    elsewhere,      \* how many of them by other devices
    committed,      \* server: what the sale showed after the exchange of each key
    permitted,      \* server: whether the user may exchange
    late,           \* requests nobody waits for any more
    record,         \* the durable attempt
    mark,           \* the durable high-water mark
    broken,         \* which of the two cannot be read: a subset of {"attempt", "mark"}
    minted,         \* how many keys were generated: the keys are 1..minted
    draft,          \* each tab's draft
    owned,          \* each tab's own or adopted keys
    flight,         \* each tab's send, from the click to the settled answer
    reading,        \* each tab's read of GET /sales/exchangeable
    refused         \* the keys a definitive refusal was settled for

serverVars == <<exchanged, elsewhere, committed, permitted, late>>
diskVars == <<record, mark, broken, minted, refused>>
tabVars == <<draft, owned, flight, reading>>
vars == <<serverVars, diskVars, tabVars>>

-----------------------------------------------------------------------------
(* Records, drafts and reads *)

Keys == 1 .. MaxKeys
NoAttempt == [status |-> "none"]
NoLines == [i \in {} |-> 0]
NoDraft == [open |-> FALSE]
Idle == [stage |-> "idle"]

\* The lines of a request, with the quantity exchanged before it per item (the baseline).
Quantities == UNION {[S -> 0 .. Sold] : S \in SUBSET Items}
LineSets == UNION {[S -> [qty : Returns, before : 0 .. Sold]] : S \in SUBSET Items}

Baseline(lines) == [i \in DOMAIN lines |-> lines[i].before]
\* What a read must show once the exchange of these lines is confirmed.
Watermark(lines) == [i \in DOMAIN lines |-> lines[i].before + lines[i].qty]

OlderThan(shown, known) ==
    \E i \in DOMAIN shown \cap DOMAIN known : shown[i] < known[i]

\* max(current, value) per item.
Raised(shown) ==
    [i \in DOMAIN mark \cup DOMAIN shown |->
        IF i \notin DOMAIN mark THEN shown[i]
        ELSE IF i \notin DOMAIN shown \/ shown[i] <= mark[i] THEN mark[i]
        ELSE shown[i]]

NothingLeft(shown) == \A i \in Items : shown[i] = Sold

\* What readDurable returns.
Durable == IF "attempt" \in broken THEN [status |-> "unreadable"] ELSE record

Draft(lines, available, attempt, recovery) ==
    [open |-> TRUE, lines |-> lines, available |-> available, attempt |-> attempt,
     recovery |-> recovery]

\* A draft rebuilt from the durable record, keeping the items an earlier draft could add.
FromRecord(r, status, previous) ==
    Draft(r.lines,
          IF previous.open /\ DOMAIN previous.available # {}
          THEN previous.available ELSE Baseline(r.lines),
          [status |-> status, key |-> r.key, lines |-> r.lines],
          IF status = "CONFIRMED" THEN "CONFIRMED" ELSE "none")

Blocked(d, reason) == Draft(d.lines, d.available, d.attempt, reason)

\* What blocked the sale was resolved by another tab.
Resolved(d) == Draft(d.lines, d.available, NoAttempt, "RESOLVED_ELSEWHERE")

\* recoveryDraft: what is left of an earlier draft, blocked.
Recovery(previous) ==
    IF previous.open THEN Blocked(previous, "UNREADABLE")
    ELSE Draft(NoLines, NoLines, NoAttempt, "UNREADABLE")

FreshDraft(shown) == Draft(NoLines, shown, NoAttempt, "none")

InFlight(t) == flight[t].stage # "idle"
Holds(t, status) == draft[t].open /\ draft[t].attempt.status = status

-----------------------------------------------------------------------------
(* Writing to the shared storage *)

\* setItem throws, and nothing changes.
WriteFails == "write" \in Faults /\ UNCHANGED record

\* raiseMark answers FALSE, and changes nothing, when the mark cannot be read or written.
RaiseSucceeds(shown) == "mark" \notin broken /\ mark' = Raised(shown)
RaiseFails(shown) ==
    /\ "mark" \in broken \/ ("write" \in Faults /\ Raised(shown) # mark)
    /\ UNCHANGED mark

-----------------------------------------------------------------------------
(* A tab starts, or starts again: what it had in memory and was waiting for is gone. *)

Abandoned(t) ==
    IF flight[t].stage = "sent" /\ "late" \in Faults
    THEN {[key |-> flight[t].key, lines |-> flight[t].lines]} ELSE {}

Forgets(t) == draft' = [draft EXCEPT ![t] = NoDraft] /\ owned' = [owned EXCEPT ![t] = {}]

\* ensureLoaded(): every record found is one whose outcome this tab never saw.
Adopts(t) ==
    CASE Durable.status = "none" -> Forgets(t)
      [] Durable.status = "unreadable" ->
           draft' = [draft EXCEPT ![t] = Recovery(NoDraft)] /\ owned' = [owned EXCEPT ![t] = {}]
      [] Durable.status = "CONFIRMED" ->
           /\ draft' = [draft EXCEPT ![t] = FromRecord(record, "CONFIRMED", NoDraft)]
           /\ owned' = [owned EXCEPT ![t] = {}]
      [] Durable.status \in {"SENDING", "UNCERTAIN"} ->
           /\ draft' = [draft EXCEPT ![t] = FromRecord(record, "UNCERTAIN", NoDraft)]
           /\ owned' = [owned EXCEPT ![t] = {record.key}]

Load(t) ==
    /\ late' = late \cup Abandoned(t)
    /\ flight' = [flight EXCEPT ![t] = Idle]
    /\ reading' = [reading EXCEPT ![t] = Idle]
    /\ \/ Adopts(t)
       \/ \* the storage cannot be enumerated
          "read" \in Faults /\ Forgets(t)
    /\ UNCHANGED <<exchanged, elsewhere, committed, permitted, diskVars>>

-----------------------------------------------------------------------------
(* Drafts *)

\* The operator looks the sale up; the answer waits for the lock of openDraftFromFreshRead.
Look(t) ==
    /\ reading[t].stage = "idle" /\ ~draft[t].open /\ permitted
    /\ reading' = [reading EXCEPT ![t] = [stage |-> "found", shown |-> exchanged]]
    /\ UNCHANGED <<serverVars, diskVars, draft, owned, flight>>

\* What an existing attempt, or an unreadable storage, makes of the opened sale.
OpenExisting(t) ==
    LET empty == NothingLeft(reading[t].shown) IN
    IF Durable.status \in {"SENDING", "UNCERTAIN", "CONFIRMED"}
    THEN IF empty /\ Durable.status # "CONFIRMED" THEN NoDraft
         ELSE FromRecord(record, record.status, NoDraft)
    ELSE IF ~empty /\ (Durable.status = "unreadable" \/ "mark" \in broken)
    THEN Recovery(NoDraft) ELSE NoDraft

OpenDraft(t) ==
    /\ reading[t].stage = "found"
    /\ reading' = [reading EXCEPT ![t] = Idle]
    /\ LET shown == reading[t].shown
           fresh == /\ ~draft[t].open
                    /\ Durable.status = "none" /\ "mark" \notin broken
                    /\ ~NothingLeft(shown) /\ ~OlderThan(shown, mark)
       IN  \/ /\ fresh /\ RaiseSucceeds(shown)
              /\ draft' = [draft EXCEPT ![t] = FreshDraft(shown)]
           \/ /\ fresh /\ RaiseFails(shown)
              /\ UNCHANGED draft
           \/ /\ ~fresh
              /\ draft' = IF draft[t].open THEN draft
                          ELSE [draft EXCEPT ![t] = OpenExisting(t)]
              /\ UNCHANGED mark
    /\ UNCHANGED <<serverVars, record, broken, minted, refused, owned, flight>>

\* The lines the operator chooses; a line keeps its baseline, an added one takes the read's.
Edit(t) ==
    /\ draft[t].open /\ draft[t].recovery = "none"
    /\ draft[t].attempt.status \in {"none", "REJECTED"}
    /\ \E S \in SUBSET (DOMAIN draft[t].lines \cup DOMAIN draft[t].available) :
         \E qty \in [S -> Returns] :
           LET lines == [i \in S |-> [qty |-> qty[i],
                                      before |-> IF i \in DOMAIN draft[t].lines
                                                 THEN draft[t].lines[i].before
                                                 ELSE draft[t].available[i]]]
           IN draft' = [draft EXCEPT ![t] = Draft(lines, @.available, NoAttempt, @.recovery)]
    /\ UNCHANGED <<serverVars, diskVars, owned, flight, reading>>

\* reset(), or a logout or expired session (dropEditable): only what was never sent, or was
\* refused, may go.
Reset(t) ==
    /\ draft[t].open /\ draft[t].recovery = "none"
    /\ draft[t].attempt.status \notin {"SENDING", "UNCERTAIN", "CONFIRMED"}
    /\ draft' = [draft EXCEPT ![t] = NoDraft]
    /\ UNCHANGED <<serverVars, diskVars, owned, flight, reading>>

-----------------------------------------------------------------------------
(* Sending *)

\* Not the code: any pending attempt is repeated, with what this draft says.
ReusableAnyLines(t) ==
    /\ Durable.status \in {"SENDING", "UNCERTAIN"}
    /\ Durable.status = "SENDING" => record.key \in owned[t]

\* The record another send of this browser left may be repeated under its own key.
Reusable(t) ==
    /\ Durable.status \in {"SENDING", "UNCERTAIN"}
    /\ Durable.status = "SENDING" => record.key \in owned[t]
    /\ record.lines = draft[t].lines

\* Not the code: the mark is not consulted.
MayMintUnmarked(t) ==
    /\ Durable.status = "none"
    /\ draft[t].attempt.status \notin {"SENDING", "UNCERTAIN"}

\* No attempt is pending, and nothing known as confirmed is missing from the baseline.
MayMint(t) ==
    /\ Durable.status = "none" /\ "mark" \notin broken
    /\ draft[t].attempt.status \notin {"SENDING", "UNCERTAIN"}
    /\ ~OlderThan(Baseline(draft[t].lines), mark)

Sendable(t) ==
    /\ DOMAIN draft[t].lines # {}
    /\ draft[t].attempt.status = "UNCERTAIN" => draft[t].attempt.lines = draft[t].lines

\* prepare() writes SENDING before the request leaves.
Written(t, key) == record' = [status |-> "SENDING", key |-> key, lines |-> draft[t].lines]

\* It cannot read back what it wrote, and sends nothing.
Unverified(t, key) ==
    "read" \in Faults /\ Written(t, key) /\ UNCHANGED <<draft, owned, flight>>

Launches(t, key) ==
    /\ Written(t, key)
    /\ owned' = [owned EXCEPT ![t] = @ \cup {key}]
    /\ draft' = [draft EXCEPT ![t] = Draft(@.lines, @.available,
                    [status |-> "SENDING", key |-> key, lines |-> @.lines], @.recovery)]
    /\ flight' = [flight EXCEPT ![t] =
                    [stage |-> "sent", key |-> key, lines |-> draft[t].lines]]

\* What a refused prepare() leaves in memory.
Refusal(t) ==
    LET d == draft[t] IN
    IF ~Sendable(t) THEN d
    ELSE CASE Durable.status = "unreadable" -> Blocked(d, "UNREADABLE")
           [] Durable.status = "CONFIRMED" -> FromRecord(record, "CONFIRMED", d)
           [] Durable.status \in {"SENDING", "UNCERTAIN"} -> d
           [] Durable.status = "none" ->
                IF d.attempt.status \in {"SENDING", "UNCERTAIN"}
                THEN Resolved(d)
                ELSE IF "mark" \in broken THEN Blocked(d, "UNREADABLE")
                ELSE Blocked(d, "STALE_BASELINE")

\* send(): the click takes the slot of the sale, waits for the lock and prepares.  While it
\* waits it only sees less of the other tabs (storage events are ignored), so it is one step.
Send(t) ==
    /\ draft[t].open /\ draft[t].recovery = "none" /\ ~InFlight(t)
    /\ draft[t].attempt.status # "SENDING"
    /\ \/ /\ Sendable(t) /\ Reusable(t)
          /\ Launches(t, record.key) \/ Unverified(t, record.key)
          /\ UNCHANGED minted
       \/ /\ Sendable(t) /\ MayMint(t)
          /\ minted < MaxKeys
          /\ minted' = minted + 1
          /\ Launches(t, minted + 1) \/ Unverified(t, minted + 1)
       \/ /\ Sendable(t) /\ (Reusable(t) \/ MayMint(t))
          /\ WriteFails
          /\ UNCHANGED <<minted, draft, owned, flight>>
       \/ /\ ~(Sendable(t) /\ (Reusable(t) \/ MayMint(t)))
          /\ draft' = [draft EXCEPT ![t] = Refusal(t)]
          /\ UNCHANGED <<minted, record, owned, flight>>
    /\ UNCHANGED <<serverVars, mark, broken, refused, reading>>

-----------------------------------------------------------------------------
(* The server: POST /sales/:id/exchanges, and everybody else *)

\* No line asks for more than what earlier exchanges left.
Fits(lines) == \A i \in DOMAIN lines : exchanged[i] + lines[i].qty <= Sold

After(lines) ==
    [i \in Items |-> exchanged[i] + (IF i \in DOMAIN lines THEN lines[i].qty ELSE 0)]

\* The answers a request may get, in the order the service decides: the permission, the
\* exchange already stored under the key, then everything else.
Commits(r) ==
    /\ permitted /\ r.key \notin DOMAIN committed /\ Fits(r.lines)
    /\ exchanged' = After(r.lines)
    /\ committed' = [k \in DOMAIN committed \cup {r.key} |->
                        IF k = r.key THEN [i \in DOMAIN r.lines |-> exchanged'[i]]
                        ELSE committed[k]]
Replays(r) == permitted /\ r.key \in DOMAIN committed
Refuses(r) == ~permitted \/ r.key \notin DOMAIN committed

Answered(t, stage) ==
    flight' = [flight EXCEPT ![t] = [stage |-> stage, key |-> @.key, lines |-> @.lines]]

\* "UNCERTAIN" is a lost request or answer, a 5xx, a 401, a CONCURRENCY_ERROR or an
\* unreadable 2xx: all that classifyFailure and classifySuccess do not take as definitive.
Serve(t) ==
    /\ flight[t].stage = "sent"
    /\ \/ Commits(flight[t]) /\ (Answered(t, "CONFIRMED") \/ Answered(t, "UNCERTAIN"))
       \/ Replays(flight[t]) /\ Answered(t, "CONFIRMED") /\ UNCHANGED <<exchanged, committed>>
       \/ Refuses(flight[t]) /\ Answered(t, "REJECTED") /\ UNCHANGED <<exchanged, committed>>
       \/ Answered(t, "UNCERTAIN") /\ UNCHANGED <<exchanged, committed>>
    /\ UNCHANGED <<elsewhere, permitted, late, diskVars, draft, owned, reading>>

\* The connection breaks with the request still on its way.
GiveUp(t) ==
    /\ flight[t].stage = "sent" /\ "late" \in Faults
    /\ late' = late \cup Abandoned(t)
    /\ Answered(t, "UNCERTAIN")
    /\ UNCHANGED <<exchanged, elsewhere, committed, permitted, diskVars, draft, owned, reading>>

ServeLate(r) ==
    /\ late' = late \ {r}
    /\ Commits(r) \/ UNCHANGED <<exchanged, committed>>
    /\ UNCHANGED <<elsewhere, permitted, diskVars, tabVars>>

\* Another device, profile or user exchanges the same sale.
ExchangeElsewhere ==
    /\ elsewhere < MaxElsewhere /\ elsewhere' = elsewhere + 1
    /\ \E i \in Items : exchanged[i] < Sold /\ exchanged' = [exchanged EXCEPT ![i] = @ + 1]
    /\ UNCHANGED <<committed, permitted, late, diskVars, tabVars>>

\* A supervisor changes the roles of the user.
ChangePermission ==
    /\ "permission" \in Faults
    /\ permitted' = ~permitted
    /\ UNCHANGED <<exchanged, elsewhere, committed, late, diskVars, tabVars>>

-----------------------------------------------------------------------------
(* Settling the answer *)

NextState(d, outcome) ==
    Draft(d.lines, d.available,
          [status |-> outcome, key |-> d.attempt.key, lines |-> d.attempt.lines],
          IF outcome = "CONFIRMED" THEN "CONFIRMED" ELSE "none")

\* Not the code: the record is taken to be this answer's unless it is a tombstone.
NotMineTombstone(key) == Durable.status = "CONFIRMED"

\* A durable record of another key, or a tombstone: not this answer's to change.
NotMine(key) ==
    /\ Durable.status \in {"SENDING", "UNCERTAIN", "CONFIRMED"}
    /\ record.key # key \/ record.status = "CONFIRMED"

\* now(): a time no read that is under way took its tombstone for.
Now == CHOOSE n \in 0 .. Cardinality(Tabs) :
          \A t \in Tabs : reading[t].stage \in {"asked", "read"} =>
              reading[t].basis.kind = "none" \/ reading[t].basis.at # n

\* settleLocked() keeps an outcome that may be a commit, and removes a refused attempt.
Keeps(t, outcome) ==
    LET key == flight[t].key
        sent == draft[t].attempt.lines
    IN  \/ /\ outcome = "CONFIRMED"
           /\ record' = [status |-> outcome, key |-> key, lines |-> sent, at |-> Now]
        \/ /\ outcome = "UNCERTAIN"
           /\ record' = [status |-> outcome, key |-> key, lines |-> sent]
        \/ /\ outcome \in {"CONFIRMED", "UNCERTAIN"}
           /\ WriteFails
        \/ /\ outcome = "REJECTED"
           /\ IF Durable.status = "none" THEN UNCHANGED record
              ELSE record' = NoAttempt \/ WriteFails

\* Only a confirmation raises the mark.
Teaches(outcome) == outcome = "CONFIRMED"

Settle(t) ==
    LET outcome == flight[t].stage IN
    /\ outcome \in {"CONFIRMED", "REJECTED", "UNCERTAIN"}
    /\ IF Teaches(outcome)
       THEN LET shown == Watermark(draft[t].attempt.lines)
            IN  RaiseSucceeds(shown) \/ RaiseFails(shown)
       ELSE UNCHANGED mark
    /\ IF Durable.status = "unreadable"
       THEN /\ draft' = [draft EXCEPT ![t] = Recovery(@)]
            /\ UNCHANGED record
       ELSE IF NotMine(flight[t].key)
       THEN /\ draft' = [draft EXCEPT ![t] = FromRecord(record, record.status, @)]
            /\ UNCHANGED record
       ELSE /\ Keeps(t, outcome)
            /\ draft' = [draft EXCEPT ![t] = NextState(@, outcome)]
    /\ refused' = refused \cup (IF outcome = "REJECTED" THEN {flight[t].key} ELSE {})
    /\ flight' = [flight EXCEPT ![t] = Idle]
    /\ UNCHANGED <<serverVars, broken, minted, owned, reading>>

\* The lock was gone when the answer came: only this tab learns the outcome.
SettleAlone(t) ==
    LET outcome == flight[t].stage IN
    /\ "lock" \in Faults
    /\ outcome \in {"CONFIRMED", "REJECTED", "UNCERTAIN"}
    /\ draft' = [draft EXCEPT ![t] = NextState(@, outcome)]
    /\ refused' = refused \cup (IF outcome = "REJECTED" THEN {flight[t].key} ELSE {})
    /\ flight' = [flight EXCEPT ![t] = Idle]
    /\ UNCHANGED <<serverVars, record, mark, broken, minted, owned, reading>>

-----------------------------------------------------------------------------
(* Closing a confirmed attempt with a fresh read *)

\* What blocks the sale: the tombstone, or nothing durable and the memory of this tab.
Basis(t) ==
    IF Durable.status = "CONFIRMED"
    THEN [kind |-> "tombstone", key |-> record.key, at |-> record.at,
          proof |-> Watermark(record.lines)]
    ELSE [kind |-> "none",
          proof |-> IF draft[t].recovery = "CONFIRMED"
                    THEN Watermark(draft[t].attempt.lines) ELSE NoLines]

Refreshable(t) ==
    /\ draft[t].open /\ ~InFlight(t) /\ draft[t].recovery # "UNREADABLE"
    /\ \/ Durable.status = "CONFIRMED"
       \/ Durable.status = "none" /\ draft[t].recovery # "none"

\* What an inspection that is not refreshable leaves in memory: the durable state.
Inspected(t) ==
    IF InFlight(t) \/ draft[t].recovery = "UNREADABLE" THEN draft[t]
    ELSE CASE Durable.status = "unreadable" -> Recovery(draft[t])
           [] Durable.status \in {"SENDING", "UNCERTAIN"} ->
                FromRecord(record, record.status, draft[t])
           [] OTHER -> draft[t]

Inspect(t) ==
    /\ reading[t].stage = "idle" /\ draft[t].open
    /\ IF Refreshable(t)
       THEN /\ reading' = [reading EXCEPT ![t] = [stage |-> "asked", basis |-> Basis(t)]]
            /\ UNCHANGED draft
       ELSE /\ draft' = [draft EXCEPT ![t] = Inspected(t)]
            /\ UNCHANGED reading
    /\ UNCHANGED <<serverVars, diskVars, owned, flight>>

\* GET /sales/exchangeable fails, shows less than the watermarks or, with no watermark to
\* prove anything, shows nothing left; or it is worth taking to the lock.
ReadAgain(t) ==
    /\ reading[t].stage = "asked"
    /\ LET proof == reading[t].basis.proof
           proves == permitted /\ IF DOMAIN proof # {} THEN ~OlderThan(exchanged, proof)
                                  ELSE ~NothingLeft(exchanged)
       IN  \/ /\ proves
              /\ reading' = [reading EXCEPT ![t] =
                    [stage |-> "read", basis |-> reading[t].basis, shown |-> exchanged]]
           \/ reading' = [reading EXCEPT ![t] = Idle]
    /\ UNCHANGED <<serverVars, diskVars, draft, owned, flight>>

SameBasis(a, b) ==
    /\ a.kind = b.kind
    /\ a.kind = "tombstone" => a.key = b.key /\ a.at = b.at

\* The mark first, then the tombstone, then the new draft.
Reconciled(t) ==
    LET shown == reading[t].shown IN
    /\ Refreshable(t) /\ SameBasis(reading[t].basis, Basis(t))
    /\ "mark" \notin broken /\ ~OlderThan(shown, mark)
    /\ RaiseSucceeds(shown)
    /\ IF Durable.status = "CONFIRMED" THEN record' = NoAttempt ELSE UNCHANGED record
    /\ draft' = [draft EXCEPT ![t] = IF NothingLeft(shown) THEN NoDraft ELSE FreshDraft(shown)]
    /\ owned' = [owned EXCEPT ![t] = IF draft[t].attempt.status = "none" THEN @
                                     ELSE @ \ {draft[t].attempt.key}]

CloseRead(t) ==
    /\ reading[t].stage = "read"
    /\ reading' = [reading EXCEPT ![t] = Idle]
    /\ \/ Reconciled(t)
       \/ \* the tombstone cannot be removed after the mark was raised
          /\ Refreshable(t) /\ SameBasis(reading[t].basis, Basis(t))
          /\ ~OlderThan(reading[t].shown, mark) /\ RaiseSucceeds(reading[t].shown)
          /\ Durable.status = "CONFIRMED" /\ WriteFails
          /\ UNCHANGED <<draft, owned>>
       \/ \* the mark cannot be raised, or is ahead of the read
          /\ Refreshable(t) /\ SameBasis(reading[t].basis, Basis(t))
          /\ \/ RaiseFails(reading[t].shown)
             \/ OlderThan(reading[t].shown, mark) /\ UNCHANGED mark
          /\ draft' = IF "mark" \in broken THEN [draft EXCEPT ![t] = Recovery(@)] ELSE draft
          /\ UNCHANGED <<record, owned>>
       \/ \* what blocked the sale is not what was inspected
          /\ ~(Refreshable(t) /\ SameBasis(reading[t].basis, Basis(t)))
          /\ draft' = IF draft[t].open /\ ~Refreshable(t)
                      THEN [draft EXCEPT ![t] = Inspected(t)] ELSE draft
          /\ UNCHANGED <<record, mark, owned>>
    /\ UNCHANGED <<serverVars, broken, minted, refused, flight>>

-----------------------------------------------------------------------------
(* Other tabs, and the storage itself *)

\* Not the code: an event moves the draft of a request that is out.
ListensAlways(t) == TRUE

\* A tab with a request out is the writer.
Listens(t) == ~InFlight(t)

\* The storage event: the memory of this tab follows the record, unless it is the writer.
HandleStorageEvent(t) ==
    /\ draft' = [draft EXCEPT ![t] =
         IF ~Listens(t) THEN @
         ELSE CASE Durable.status = "unreadable" -> Recovery(@)
                [] Durable.status = "none" ->
                     IF Holds(t, "SENDING") \/ Holds(t, "UNCERTAIN")
                     THEN Resolved(@) ELSE @
                [] OTHER ->
                     IF Holds(t, record.status) /\ @.attempt.key = record.key THEN @
                     ELSE FromRecord(record, record.status, @)]
    /\ UNCHANGED <<serverVars, diskVars, owned, flight, reading>>

\* A text that cannot be read, or can be read again.
StorageBreaks(part) ==
    /\ "read" \in Faults
    /\ broken' = IF part \in broken THEN broken \ {part} ELSE broken \cup {part}
    /\ UNCHANGED <<serverVars, record, mark, minted, refused, tabVars>>

-----------------------------------------------------------------------------
Init ==
    /\ exchanged \in [Items -> {0}] /\ elsewhere = 0
    /\ committed = NoLines /\ permitted = TRUE /\ late = {}
    /\ record = NoAttempt /\ mark = NoLines /\ broken = {} /\ minted = 0
    /\ refused = {}
    /\ draft = [t \in Tabs |-> NoDraft]
    /\ owned = [t \in Tabs |-> {}]
    /\ flight = [t \in Tabs |-> Idle]
    /\ reading = [t \in Tabs |-> Idle]

TabStep(t) ==
    \/ Load(t) \/ Look(t) \/ OpenDraft(t) \/ Edit(t) \/ Reset(t)
    \/ Send(t) \/ Serve(t) \/ GiveUp(t)
    \/ Settle(t) \/ SettleAlone(t)
    \/ Inspect(t) \/ ReadAgain(t) \/ CloseRead(t) \/ HandleStorageEvent(t)

Next ==
    \/ \E t \in Tabs : TabStep(t)
    \/ \E r \in late : ServeLate(r)
    \/ ExchangeElsewhere
    \/ ChangePermission
    \/ \E part \in {"attempt", "mark"} : StorageBreaks(part)

Spec == Init /\ [][Next]_vars

-----------------------------------------------------------------------------
(* Properties *)

\* Whether quantities known of the sale show the exchange of key k, for the items they speak of.
Show(known, k) ==
    \A i \in DOMAIN committed[k] \cap DOMAIN known : known[i] >= committed[k][i]

Statuses == {"none", "SENDING", "UNCERTAIN", "CONFIRMED", "REJECTED"}
Reasons == {"none", "UNREADABLE", "RESOLVED_ELSEWHERE", "CONFIRMED", "STALE_BASELINE"}
Stages == {"idle", "sent", "CONFIRMED", "REJECTED", "UNCERTAIN"}

\* Every part of the state has its shape, in the server, in the storage and in the tabs.
TypeOK ==
    /\ exchanged \in [Items -> 0 .. Sold] /\ elsewhere \in 0 .. MaxElsewhere
    /\ DOMAIN committed \subseteq 1 .. minted
    /\ \A k \in DOMAIN committed : committed[k] \in Quantities
    /\ permitted \in BOOLEAN /\ late \subseteq [key : Keys, lines : LineSets]
    /\ record.status \in Statuses \ {"REJECTED"}
    /\ record.status # "none" => record.key \in 1 .. minted /\ record.lines \in LineSets
    /\ mark \in Quantities /\ broken \subseteq {"attempt", "mark"}
    /\ minted \in 0 .. MaxKeys /\ refused \subseteq 1 .. minted
    /\ owned \in [Tabs -> SUBSET Keys]
    /\ \A t \in Tabs :
        /\ flight[t].stage \in Stages
        /\ reading[t].stage \in {"idle", "found", "asked", "read"}
        /\ draft[t].open =>
            /\ draft[t].lines \in LineSets
            /\ draft[t].available \in Quantities
            /\ draft[t].attempt.status \in Statuses /\ draft[t].recovery \in Reasons

\* Nothing a browser knows of an exchange is lost before it is safe to forget: every key is
\* still in the record, or was definitively refused, or was confirmed and the mark shows it
\* (the high-water mark of raiseMark outlives the tombstone).
EvidenceKept ==
    \A k \in 1 .. minted \ refused :
        \/ record.status # "none" /\ record.key = k
        \/ /\ k \in DOMAIN committed
           /\ DOMAIN committed[k] \subseteq DOMAIN mark /\ Show(mark, k)

\* Requests of one key carry one body, whichever tab sends them, and the record that would
\* repeat them has it too: the server answers a key with what it stored for it, or refuses
\* another body (IDEMPOTENCY_KEY_REUSED_WITH_DIFFERENT_PAYLOAD) as if nothing was committed.
OneBodyPerKey ==
    LET sent == late \cup {flight[t] : t \in {u \in Tabs : InFlight(u)}}
                \cup (IF record.status = "none" THEN {} ELSE {record})
    IN  \A a, b \in sent : a.key = b.key => a.lines = b.lines

\* An answer finds the draft it belongs to: nothing a tab does while its request is out
\* (storage events, edits, logout, reads) takes the attempt from under it.
AnswerFindsItsDraft ==
    \A t \in Tabs : InFlight(t) =>
        Holds(t, "SENDING") /\ draft[t].attempt.key = flight[t].key

\* The mark never passes what the server would show: every later read would be refused as
\* stale and the sale could never be exchanged from this browser again (P3-MARKNOEXIT-01).
MarkBehindServer == \A i \in DOMAIN mark : mark[i] <= exchanged[i]

\* The mark only rises.
MarkNeverLowers ==
    [][/\ DOMAIN mark \subseteq DOMAIN mark'
       /\ \A i \in DOMAIN mark : mark[i] <= mark'[i]]_vars

\* A key is generated only when every earlier one is settled: refused, or confirmed and
\* shown by the baseline of the new exchange, however stale the tab that sends it is.
NewKeyKnowsTheOld ==
    [][minted' # minted =>
        \A k \in 1 .. minted \ refused :
            k \in DOMAIN committed /\ Show(Baseline(record'.lines), k)]_vars

\* A tombstone is only taken away, and only after the mark shows its exchange: a late answer
\* or another key never overwrites it.
TombstoneLeavesProven ==
    [][record.status = "CONFIRMED" /\ record' # record =>
        /\ record'.status = "none"
        /\ \A i \in DOMAIN committed[record.key] :
              i \in DOMAIN mark' /\ mark'[i] >= committed[record.key][i]]_vars
=============================================================================
