---------------------------- MODULE ClientProofs ----------------------------
(***************************************************************************)
(* What the cashier's browser keeps: the register on the screen            *)
(* (RegisterScreen), for any branches, sessions and calls under way; the   *)
(* charges of the proportional checkout (ChargePanel), for any sales,      *)
(* compositions and faults; and the exchange of a sale (ExchangeDraft),    *)
(* for any tabs, items, units and keys.                                    *)
(***************************************************************************)
EXTENDS CashierScreens, ExchangeTabs, TLAPS

-----------------------------------------------------------------------------
(***************************************************************************)
(* The register on the screen, for any branches, sessions and calls.  A    *)
(* fresh call is of the branch on the screen, one fresh read is under way  *)
(* at a time, and what it was answered is not older than what is display:    *)
(* whatever shows something newer makes it stale.                          *)
(***************************************************************************)

\* Session s, if any, is one of branch b.
OfBranch(d, s, b) == s \in 0 .. Len(d.branchOf) /\ (s # NoSession => d.branchOf[s] = b)

DbSound(d) == d \in Databases /\ \A b \in Branches : OfBranch(d, d.open[b], b)

\* Sessions are never taken back, and editions only grow.
Grows(d, e) ==
    /\ Len(d.branchOf) <= Len(e.branchOf)
    /\ \A s \in 1 .. Len(d.branchOf) : e.branchOf[s] = d.branchOf[s]
    /\ \A b \in Branches : d.edition[b] <= e.edition[b]

ScreenSound(s, d) ==
    /\ s \in Screens
    /\ OfBranch(d, s.session, s.branch) /\ s.edition <= d.edition[s.branch]
    /\ s.confirm # NoSession => s.confirm = s.session

AnswerSound(c, d) ==
    c.answered = "ok" =>
        OfBranch(d, c.answer.session, c.branch) /\ c.answer.edition <= d.edition[c.branch]

\* A call whose answer lowers the loading flag.
Loads(c) == c.owner \/ (c.fresh /\ c.kind \in {"open", "close"})

CallSound(c, s) ==
    /\ c.fresh => c.branch = s.branch
    /\ c.fresh /\ c.kind = "read" /\ c.answered = "ok" => s.edition <= c.answer.edition
    /\ c.owner => c.kind = "read" /\ c.fresh
    /\ Loads(c) => s.loading
    /\ ~Modes /\ c.kind = "exit" => s.paying /\ s.intent.key = c.key /\ c.fresh

\* A close is registered until it is answered.  At a time there is one close of a session, one
\* fresh read, one call that loads and, short of other modes, one exit.
CallsSound(cs, cl) ==
    /\ \A c \in cs : c.kind = "close" => c.session \in cl
    /\ \A c, d \in cs :
          \/ c = d
          \/ /\ ~(c.kind = "close" /\ d.kind = "close" /\ c.session = d.session)
             /\ ~(c.kind = "read" /\ d.kind = "read" /\ c.fresh /\ d.fresh)
             /\ ~(Loads(c) /\ Loads(d))
             /\ ~(~Modes /\ c.kind = "exit" /\ d.kind = "exit")

RegisterInv ==
    /\ DbSound(db) /\ ScreenSound(screen, db)
    /\ calls \subseteq Calls /\ closing \subseteq Nat /\ keys \in Nat
    /\ \A c \in calls : AnswerSound(c, db) /\ CallSound(c, screen)
    /\ CallsSound(calls, closing)

LEMMA GrowKeeps ==
    ASSUME NEW d \in Databases, NEW e \in Databases, Grows(d, e)
    PROVE  /\ \A s, b : OfBranch(d, s, b) => OfBranch(e, s, b)
           /\ \A c \in Calls : AnswerSound(c, d) => AnswerSound(c, e)
           /\ \A s : ScreenSound(s, d) => ScreenSound(s, e)
<1>1. /\ Len(d.branchOf) \in Nat /\ Len(e.branchOf) \in Nat
      /\ \A b \in Branches : d.edition[b] \in Nat /\ e.edition[b] \in Nat
    BY DEF Databases
<1>2. ASSUME NEW s, NEW b, OfBranch(d, s, b)
      PROVE  OfBranch(e, s, b)
    BY <1>1, <1>2 DEF OfBranch, Grows, NoSession
<1>3. ASSUME NEW c \in Calls, AnswerSound(c, d), c.answered = "ok"
      PROVE  OfBranch(e, c.answer.session, c.branch) /\ c.answer.edition <= e.edition[c.branch]
  <2>1. OfBranch(d, c.answer.session, c.branch) /\ c.answer.edition <= d.edition[c.branch]
      BY <1>3 DEF AnswerSound
  <2>2. c.branch \in Branches /\ c.answer.edition \in Nat
      BY DEF Calls
  <2> QED BY <1>1, <1>2, <2>1, <2>2 DEF Grows
<1>4. ASSUME NEW s, ScreenSound(s, d)
      PROVE  ScreenSound(s, e)
  <2>1. s.branch \in Branches /\ s.edition \in Nat
      BY <1>4 DEF ScreenSound, Screens
  <2>2. OfBranch(e, s.session, s.branch)
      BY <1>2, <1>4 DEF ScreenSound
  <2>3. s.edition <= e.edition[s.branch]
      BY <1>1, <1>4, <2>1 DEF ScreenSound, Grows
  <2> QED BY <1>4, <2>2, <2>3 DEF ScreenSound
<1> QED BY <1>2, <1>3, <1>4 DEF AnswerSound

LEMMA OpenedSound ==
    ASSUME DbSound(db), NEW b \in Branches
    PROVE  DbSound(Opened(b)) /\ Grows(db, Opened(b))
<1> DEFINE n == Len(db.branchOf) + 1
           list == Append(db.branchOf, b)
           open == [db.open EXCEPT ![b] = n]
           edition == [db.edition EXCEPT ![b] = @ + 1]
<1>1. /\ db.branchOf \in Seq(Branches) /\ db.open \in [Branches -> Nat]
      /\ db.edition \in [Branches -> Nat] /\ db.exits \in SUBSET Nat
    BY DEF DbSound, Databases
<1>2. /\ list \in Seq(Branches) /\ Len(list) = n /\ n \in Nat /\ list[n] = b
      /\ \A s \in 1 .. Len(db.branchOf) : list[s] = db.branchOf[s]
    BY <1>1
<1>3. /\ open \in [Branches -> Nat] /\ open[b] = n
      /\ \A a \in Branches \ {b} : open[a] = db.open[a]
    BY <1>1, <1>2
<1>4. edition \in [Branches -> Nat] /\ \A a \in Branches : db.edition[a] <= edition[a]
    BY <1>1
<1> HIDE DEF n, list, open, edition
<1>5. Opened(b) = [branchOf |-> list, open |-> open, edition |-> edition, exits |-> db.exits]
    BY DEF Opened, n, list, open, edition
<1>6. Opened(b) \in Databases /\ Grows(db, Opened(b))
  <2>1. Len(db.branchOf) <= Len(list)
      BY <1>1, <1>2 DEF n
  <2> QED BY <1>1, <1>2, <1>3, <1>4, <1>5, <2>1 DEF Databases, Grows
<1>7. OfBranch(Opened(b), n, b)
    BY <1>2, <1>5 DEF OfBranch
<1>8. ASSUME NEW a \in Branches \ {b}
      PROVE  OfBranch(Opened(b), open[a], a)
    BY <1>3, <1>6, GrowKeeps DEF DbSound
<1> QED BY <1>3, <1>5, <1>6, <1>7, <1>8 DEF DbSound

LEMMA EndedSound ==
    ASSUME DbSound(db), NEW a \in Branches
    PROVE  DbSound(Ended(db.open[a])) /\ Grows(db, Ended(db.open[a]))
<1> DEFINE b == db.branchOf[db.open[a]]
           open == [db.open EXCEPT ![b] = NoSession]
           edition == [db.edition EXCEPT ![b] = @ + 1]
<1>1. /\ db.branchOf \in Seq(Branches) /\ db.open \in [Branches -> Nat]
      /\ db.edition \in [Branches -> Nat] /\ db.exits \in SUBSET Nat
    BY DEF DbSound, Databases
<1>2. Ended(db.open[a]) = [branchOf |-> db.branchOf, open |-> open, edition |-> edition,
                           exits |-> db.exits]
    BY DEF Ended
<1> HIDE DEF b
<1>3. /\ open \in [Branches -> Nat]
      /\ \A c \in Branches : open[c] = db.open[c] \/ open[c] = NoSession
    BY <1>1 DEF NoSession
<1>4. edition \in [Branches -> Nat] /\ \A c \in Branches : db.edition[c] <= edition[c]
  <2>1. CASE b \in Branches
      BY <1>1, <2>1
  <2>2. CASE b \notin Branches
    <3>1. edition = db.edition
        BY <1>1, <2>2
    <3>2. \A c \in Branches : db.edition[c] <= db.edition[c]
        BY <1>1
    <3> HIDE DEF edition
    <3> QED BY <1>1, <3>1, <3>2
  <2> QED BY <2>1, <2>2
<1> HIDE DEF open, edition
<1>5. Ended(db.open[a]) \in Databases /\ Grows(db, Ended(db.open[a]))
    BY <1>1, <1>2, <1>3, <1>4 DEF Databases, Grows
<1>6. \A c \in Branches : OfBranch(Ended(db.open[a]), NoSession, c)
    BY <1>1, <1>2 DEF OfBranch, NoSession
<1>7. \A c \in Branches : OfBranch(Ended(db.open[a]), db.open[c], c)
    BY <1>5, GrowKeeps DEF DbSound
<1> QED BY <1>2, <1>3, <1>5, <1>6, <1>7 DEF DbSound

LEMMA ExitSound ==
    ASSUME DbSound(db), NEW k \in Nat
    PROVE  /\ DbSound([db EXCEPT !.exits = @ \cup {k}])
           /\ Grows(db, [db EXCEPT !.exits = @ \cup {k}])
<1> DEFINE e == [db EXCEPT !.exits = @ \cup {k}]
<1>1. db \in Databases
    BY DEF DbSound
<1>2. /\ e.branchOf = db.branchOf /\ e.open = db.open /\ e.edition = db.edition
      /\ e \in Databases
    BY <1>1 DEF Databases
<1> HIDE DEF e
<1>3. Grows(db, e)
    BY <1>1, <1>2 DEF Grows, Databases
<1>4. DbSound(e)
    BY <1>2, <1>3 DEF DbSound, OfBranch
<1> QED BY <1>3, <1>4 DEF e

-----------------------------------------------------------------------------
(* Calls that are answered, lost or left *)

LEMMA CallsReplace ==
    ASSUME NEW cs, NEW cl, CallsSound(cs, cl), NEW c \in cs, NEW d,
           d.kind = c.kind, d.session = c.session, d.fresh => c.fresh, d.owner => c.owner
    PROVE  CallsSound((cs \ {c}) \cup {d}, cl)
BY DEF CallsSound, Loads

LEMMA CallsSubset ==
    ASSUME NEW cs, NEW cl, CallsSound(cs, cl), NEW ds \in SUBSET cs
    PROVE  CallsSound(ds, cl)
BY DEF CallsSound

\* The database changes, and one call with it.
LEMMA AnswerKeeps ==
    ASSUME RegisterInv, NEW c \in calls, NEW after, DbSound(after), Grows(db, after),
           c.answered = "no", NEW outcome \in {"ok", "failed"}, Answer(c, outcome, after),
           UNCHANGED <<screen, closing, keys>>
    PROVE  RegisterInv'
<1> DEFINE answer == [session |-> after.open[c.branch], edition |-> after.edition[c.branch]]
           d == [c EXCEPT !.answered = outcome, !.answer = answer]
<1>1. /\ db \in Databases /\ after \in Databases /\ c \in Calls /\ c.branch \in Branches
      /\ DbSound(db) /\ CallSound(c, screen) /\ ScreenSound(screen, db)
    BY DEF RegisterInv, DbSound, Calls
<1>2. answer \in [session: Nat, edition: Nat]
    BY <1>1 DEF Databases
<1>3. answer.session = after.open[c.branch] /\ answer.edition = after.edition[c.branch]
    OBVIOUS
<1> HIDE DEF answer
<1>4. d = [[c EXCEPT !.answered = outcome] EXCEPT !.answer = answer]
    OBVIOUS
<1>5. /\ d \in Calls /\ d.kind = c.kind /\ d.branch = c.branch /\ d.session = c.session
      /\ d.key = c.key /\ d.fresh = c.fresh /\ d.owner = c.owner
      /\ d.answered = outcome /\ d.answer = answer
    BY <1>1, <1>2, <1>4 DEF Calls
<1>6. db' = after /\ calls' = (calls \ {c}) \cup {d}
    BY DEF Answer, answer
<1> HIDE DEF d
<1>7. DbSound(db') /\ ScreenSound(screen', db')
    BY <1>1, <1>6, GrowKeeps
<1>8. AnswerSound(d, after)
  <2>1. after.edition[c.branch] \in Nat
      BY <1>1 DEF Databases
  <2> QED BY <1>1, <1>3, <1>5, <2>1 DEF AnswerSound, DbSound
<1>9. CallSound(d, screen)
  <2>1. CASE c.fresh
    <3>1. c.branch = screen.branch
        BY <1>1, <2>1 DEF CallSound, Loads
    <3>2. screen.edition <= after.edition[c.branch]
        BY <1>6, <1>7, <3>1 DEF ScreenSound
    <3> QED BY <1>1, <1>3, <1>5, <3>1, <3>2 DEF CallSound, Loads
  <2>2. CASE ~c.fresh
      BY <1>1, <1>5, <2>2 DEF CallSound, Loads
  <2> QED BY <2>1, <2>2
<1>10. \A x \in calls : AnswerSound(x, after) /\ CallSound(x, screen)
    BY <1>1, GrowKeeps DEF RegisterInv
<1>11. CallsSound(calls', closing')
    BY <1>5, <1>6, CallsReplace DEF RegisterInv
<1> QED BY <1>5, <1>6, <1>7, <1>8, <1>9, <1>10, <1>11 DEF RegisterInv

LEMMA GrowsRefl ==
    ASSUME DbSound(db)
    PROVE  Grows(db, db)
BY DEF DbSound, Databases, Grows

LEMMA ServeKeeps ==
    ASSUME RegisterInv, NEW c \in calls, Serve(c)
    PROVE  RegisterInv'
<1>1. /\ DbSound(db) /\ c.answered = "no" /\ UNCHANGED <<screen, closing, keys>>
      /\ c \in Calls /\ c.branch \in Branches /\ c.key \in Nat
    BY DEF RegisterInv, Serve, Calls
<1>2. CASE Answer(c, "ok", db) \/ Refuse(c)
    BY <1>1, <1>2, GrowsRefl, AnswerKeeps DEF Refuse
<1>3. CASE Answer(c, "ok", Opened(c.branch))
    BY <1>1, <1>3, OpenedSound, AnswerKeeps
<1>4. CASE db.open[c.branch] = c.session /\ Answer(c, "ok", Ended(c.session))
    BY <1>1, <1>4, EndedSound, AnswerKeeps
<1>5. CASE Answer(c, "ok", [db EXCEPT !.exits = @ \cup {c.key}])
    BY <1>1, <1>5, ExitSound, AnswerKeeps
<1> QED BY <1>2, <1>3, <1>4, <1>5 DEF Serve

LEMMA LoseKeeps ==
    ASSUME RegisterInv, NEW c \in calls, Lose(c)
    PROVE  RegisterInv'
<1> DEFINE d == [c EXCEPT !.answered = "failed"]
<1>1. c \in Calls /\ CallSound(c, screen)
    BY DEF RegisterInv
<1>2. /\ d \in Calls /\ d.kind = c.kind /\ d.branch = c.branch /\ d.session = c.session
      /\ d.key = c.key /\ d.fresh = c.fresh /\ d.owner = c.owner /\ d.answered = "failed"
    BY <1>1 DEF Calls
<1>3. calls' = (calls \ {c}) \cup {d} /\ UNCHANGED <<db, screen, closing, keys>>
    BY DEF Lose
<1> HIDE DEF d
<1>4. AnswerSound(d, db) /\ CallSound(d, screen)
    BY <1>1, <1>2 DEF AnswerSound, CallSound, Loads
<1>5. CallsSound(calls', closing)
    BY <1>2, <1>3, CallsReplace DEF RegisterInv
<1> QED BY <1>2, <1>3, <1>4, <1>5 DEF RegisterInv

LEMMA ElsewhereKeeps ==
    ASSUME RegisterInv, NEW b \in Branches, Elsewhere(b)
    PROVE  RegisterInv'
<1>1. DbSound(db') /\ Grows(db, db') /\ UNCHANGED <<screen, closing, calls, keys>>
    BY OpenedSound, EndedSound DEF RegisterInv, Elsewhere
<1>2. db \in Databases /\ db' \in Databases
    BY <1>1 DEF RegisterInv, DbSound
<1>3. ScreenSound(screen', db') /\ \A c \in calls' : AnswerSound(c, db')
    BY <1>1, <1>2, GrowKeeps DEF RegisterInv
<1>4. \A c \in calls' : CallSound(c, screen')
    BY <1>1 DEF RegisterInv
<1> QED BY <1>1, <1>3, <1>4 DEF RegisterInv

-----------------------------------------------------------------------------
(* What the workspace changes on its screen *)

\* What is shown of the register, and an exit that is being made.
SameRegister(s, t) ==
    t.branch = s.branch /\ t.session = s.session /\ t.edition = s.edition
SameExit(s, t) == t.paying = s.paying /\ t.intent = s.intent

LEMMA ScreenLoading ==
    ASSUME NEW s \in Screens, NEW flag \in BOOLEAN
    PROVE  LET t == [s EXCEPT !.loading = flag] IN
           /\ t \in Screens /\ SameRegister(s, t) /\ SameExit(s, t)
           /\ t.confirm = s.confirm /\ t.loading = flag
BY DEF Screens, SameRegister, SameExit

LEMMA ScreenConfirm ==
    ASSUME NEW s \in Screens, NEW session \in Nat
    PROVE  LET t == [s EXCEPT !.confirm = session] IN
           /\ t \in Screens /\ SameRegister(s, t) /\ SameExit(s, t)
           /\ t.confirm = session /\ t.loading = s.loading
BY DEF Screens, SameRegister, SameExit

LEMMA ScreenIntent ==
    ASSUME NEW s \in Screens, NEW intent \in [session: Nat, key: Nat]
    PROVE  LET t == [s EXCEPT !.intent = intent] IN
           /\ t \in Screens /\ SameRegister(s, t) /\ t.paying = s.paying /\ t.intent = intent
           /\ t.confirm = s.confirm /\ t.loading = s.loading
BY DEF Screens, SameRegister

LEMMA ScreenPaying ==
    ASSUME NEW s \in Screens, NEW flag \in BOOLEAN
    PROVE  LET t == [s EXCEPT !.paying = flag] IN
           /\ t \in Screens /\ SameRegister(s, t) /\ t.paying = flag /\ t.intent = s.intent
           /\ t.confirm = s.confirm /\ t.loading = s.loading
BY DEF Screens, SameRegister

LEMMA ScreenShow ==
    ASSUME NEW s \in Screens, NEW session \in Nat, NEW edition \in Nat
    PROVE  LET t == Show(s, session, edition) IN
           /\ t \in Screens /\ SameExit(s, t)
           /\ t.branch = s.branch /\ t.session = session /\ t.edition = edition
           /\ t.confirm # NoSession => t.confirm = session
           /\ t.loading = s.loading
<1> DEFINE a == [s EXCEPT !.session = session]
           b == [a EXCEPT !.edition = edition]
           c == [b EXCEPT !.known = TRUE]
           confirm == IF s.confirm = session THEN s.confirm ELSE NoSession
<1>1. /\ a \in Screens /\ SameExit(s, a) /\ a.branch = s.branch /\ a.session = session
      /\ a.confirm = s.confirm /\ a.loading = s.loading
    BY DEF Screens, SameExit
<1>2. /\ b \in Screens /\ SameExit(s, b) /\ b.branch = s.branch /\ b.session = session
      /\ b.edition = edition /\ b.confirm = s.confirm /\ b.loading = s.loading
  <2> HIDE DEF a
  <2> QED BY <1>1 DEF Screens, SameExit
<1>3. /\ c \in Screens /\ SameExit(s, c) /\ c.branch = s.branch /\ c.session = session
      /\ c.edition = edition /\ c.confirm = s.confirm /\ c.loading = s.loading
  <2> HIDE DEF b
  <2> QED BY <1>2 DEF Screens, SameExit
<1>4. c = [s EXCEPT !.session = session, !.edition = edition, !.known = TRUE]
    OBVIOUS
<1> HIDE DEF c
<1>5. Show(s, session, edition) = [c EXCEPT !.confirm = confirm]
    BY <1>3, <1>4 DEF Show, Reconfirmed
<1>6. confirm \in Nat /\ (confirm # NoSession => confirm = session)
    BY DEF Screens, NoSession
<1> HIDE DEF confirm
<1>7. LET t == [c EXCEPT !.confirm = confirm] IN
      t \in Screens /\ SameRegister(c, t) /\ SameExit(c, t) /\ t.confirm = confirm
      /\ t.loading = c.loading
    BY <1>3, <1>6, ScreenConfirm
<1> QED BY <1>3, <1>5, <1>6, <1>7 DEF SameRegister, SameExit

LEMMA BlankSound ==
    ASSUME DbSound(db), NEW b \in Branches
    PROVE  /\ ScreenSound(Blank(b), db)
           /\ Blank(b).branch = b /\ Blank(b).loading /\ Blank(b).edition = 0
<1>1. Blank(b) \in Screens
    BY DEF Blank, Screens, NoSession, NoIntent
<1>2. Len(db.branchOf) \in Nat /\ db.edition[b] \in Nat
    BY DEF DbSound, Databases
<1> QED BY <1>1, <1>2 DEF Blank, ScreenSound, OfBranch, NoSession

-----------------------------------------------------------------------------
(* Calls that become stale, and new ones *)

\* d is what becomes of c when the calls of these kinds become stale.
Left(c, d, kinds) ==
    /\ d.kind = c.kind /\ d.branch = c.branch /\ d.session = c.session
    /\ d.key = c.key /\ d.answered = c.answered /\ d.answer = c.answer
    /\ IF c.kind \in kinds THEN ~d.fresh /\ ~d.owner ELSE d = c

LEMMA StaleCalls ==
    ASSUME NEW cs \in SUBSET Calls, NEW cl, CallsSound(cs, cl), NEW kinds
    PROVE  /\ Stale(cs, kinds) \subseteq Calls
           /\ \A d \in Stale(cs, kinds) : \E c \in cs : Left(c, d, kinds)
           /\ CallsSound(Stale(cs, kinds), cl)
<1> DEFINE F(c) == IF c.kind \in kinds THEN [c EXCEPT !.fresh = FALSE, !.owner = FALSE] ELSE c
<1>1. ASSUME NEW c \in cs
      PROVE  /\ F(c) \in Calls
             /\ F(c).kind = c.kind /\ F(c).branch = c.branch /\ F(c).session = c.session
             /\ F(c).key = c.key /\ F(c).answered = c.answered /\ F(c).answer = c.answer
             /\ IF c.kind \in kinds THEN ~F(c).fresh /\ ~F(c).owner ELSE F(c) = c
  <2>1. c \in Calls
      OBVIOUS
  <2>2. CASE c.kind \notin kinds
      BY <2>1, <2>2
  <2>3. CASE c.kind \in kinds
    <3> DEFINE a == [c EXCEPT !.fresh = FALSE]
               b == [a EXCEPT !.owner = FALSE]
    <3>1. /\ a \in Calls /\ a.kind = c.kind /\ a.branch = c.branch /\ a.session = c.session
          /\ a.key = c.key /\ a.answered = c.answered /\ a.answer = c.answer /\ ~a.fresh
        BY <2>1 DEF Calls
    <3>2. F(c) = b
        BY <2>3
    <3> HIDE DEF a
    <3>3. /\ b \in Calls /\ b.kind = c.kind /\ b.branch = c.branch /\ b.session = c.session
          /\ b.key = c.key /\ b.answered = c.answered /\ b.answer = c.answer /\ ~b.fresh
          /\ ~b.owner
        BY <3>1 DEF Calls
    <3> HIDE DEF b, F
    <3> QED BY <2>3, <3>2, <3>3
  <2> QED BY <2>2, <2>3
<1>2. Stale(cs, kinds) = {F(c) : c \in cs}
    BY DEF Stale
<1> HIDE DEF F
<1>3. \A d \in Stale(cs, kinds) : \E c \in cs : d = F(c)
    BY <1>2
<1>4. CallsSound(Stale(cs, kinds), cl)
  <2>1. ASSUME NEW c \in cs, NEW d \in cs, F(c) # F(d)
        PROVE  /\ ~(F(c).kind = "close" /\ F(d).kind = "close" /\ F(c).session = F(d).session)
               /\ ~(F(c).kind = "read" /\ F(d).kind = "read" /\ F(c).fresh /\ F(d).fresh)
               /\ ~(Loads(F(c)) /\ Loads(F(d)))
               /\ ~(~Modes /\ F(c).kind = "exit" /\ F(d).kind = "exit")
    <3>1. c # d
        BY <2>1
    <3> QED BY <1>1, <3>1 DEF CallsSound, Loads
  <2>2. \A c \in cs : F(c).kind = "close" => F(c).session \in cl
      BY <1>1 DEF CallsSound
  <2> QED BY <1>3, <2>1, <2>2 DEF CallsSound
<1>5. Stale(cs, kinds) \subseteq Calls
    BY <1>1, <1>3
<1>6. ASSUME NEW d \in Stale(cs, kinds)
      PROVE  \E c \in cs : Left(c, d, kinds)
    BY <1>1, <1>3 DEF Left
<1> QED BY <1>4, <1>5, <1>6

LEMMA NewCall ==
    ASSUME NEW kind \in AllKinds, NEW b \in Branches, NEW session \in Nat, NEW key \in Nat,
           NEW owner \in BOOLEAN
    PROVE  LET c == Call(kind, b, session, key, owner) IN
           /\ c \in Calls /\ c.kind = kind /\ c.branch = b /\ c.session = session /\ c.key = key
           /\ c.owner = owner /\ c.fresh /\ c.answered = "no"
BY DEF Call, Calls, Unasked, NoSession

LEMMA CallsAdd ==
    ASSUME NEW cs, NEW cl, CallsSound(cs, cl), NEW c,
           c.kind = "close" => c.session \in cl /\ \A d \in cs : d.kind = "close" => d.session # c.session,
           c.kind = "read" /\ c.fresh => \A d \in cs : d.kind = "read" => ~d.fresh,
           Loads(c) => \A d \in cs : ~Loads(d),
           c.kind = "exit" /\ ~Modes => \A d \in cs : d.kind # "exit"
    PROVE  CallsSound(cs \cup {c}, cl)
BY DEF CallsSound

\* Calls the screen goes on waiting for, and calls it has left behind.
LEMMA WaitingCalls ==
    ASSUME NEW c, NEW s, NEW t, CallSound(c, s), SameRegister(s, t), SameExit(s, t),
           Loads(c) => t.loading
    PROVE  CallSound(c, t)
BY DEF CallSound, SameRegister, SameExit

LEMMA StaleReads ==
    ASSUME NEW cs \in SUBSET Calls, NEW cl, CallsSound(cs, cl), NEW s, NEW t,
           \A c \in cs : AnswerSound(c, db) /\ CallSound(c, s),
           t.branch = s.branch, SameExit(s, t), \A c \in cs : Loads(c) => c.kind = "read"
    PROVE  /\ \A d \in Stale(cs, {"read"}) : AnswerSound(d, db) /\ CallSound(d, t)
           /\ \A d \in Stale(cs, {"read"}) : ~Loads(d) /\ (d.kind = "read" => ~d.fresh)
           /\ \A d \in Stale(cs, {"read"}) : \E c \in cs :
                 d.kind = c.kind /\ d.session = c.session /\ d.key = c.key
<1> SUFFICES ASSUME NEW d \in Stale(cs, {"read"})
             PROVE  /\ AnswerSound(d, db) /\ CallSound(d, t) /\ ~Loads(d)
                    /\ d.kind = "read" => ~d.fresh
                    /\ \E c \in cs : d.kind = c.kind /\ d.session = c.session /\ d.key = c.key
    OBVIOUS
<1>1. PICK c \in cs : Left(c, d, {"read"})
    BY StaleCalls
<1>2. AnswerSound(c, db) /\ CallSound(c, s) /\ (Loads(c) => c.kind = "read")
    OBVIOUS
<1>3. AnswerSound(d, db)
    BY <1>1, <1>2 DEF AnswerSound, Left
<1>4. CASE c.kind = "read"
    BY <1>1, <1>3, <1>4 DEF CallSound, Loads, Left
<1>5. CASE c.kind # "read"
    BY <1>1, <1>2, <1>3, <1>5 DEF CallSound, SameExit, Left
<1>6. d.kind = c.kind /\ d.session = c.session /\ d.key = c.key
    BY <1>1 DEF Left
<1> QED BY <1>4, <1>5, <1>6

LEMMA StaleAll ==
    ASSUME NEW cs \in SUBSET Calls, NEW cl, CallsSound(cs, cl), NEW t,
           \A c \in cs : AnswerSound(c, db), \A c \in cs : ~Modes => c.kind # "exit"
    PROVE  \A d \in Stale(cs, AllKinds) :
              /\ AnswerSound(d, db) /\ CallSound(d, t) /\ ~Loads(d) /\ ~d.fresh
              /\ ~Modes => d.kind # "exit"
<1> SUFFICES ASSUME NEW d \in Stale(cs, AllKinds)
             PROVE  /\ AnswerSound(d, db) /\ CallSound(d, t) /\ ~Loads(d) /\ ~d.fresh
                    /\ ~Modes => d.kind # "exit"
    OBVIOUS
<1>1. PICK c \in cs : Left(c, d, AllKinds)
    BY StaleCalls
<1>2. c.kind \in AllKinds
    BY DEF Calls
<1>3. AnswerSound(d, db)
    BY <1>1 DEF AnswerSound, Left
<1> QED BY <1>1, <1>2, <1>3 DEF CallSound, Loads, Left

-----------------------------------------------------------------------------
(* Reading the register *)

LEMMA InvFacts ==
    ASSUME RegisterInv
    PROVE  /\ screen \in Screens /\ screen.branch \in Branches /\ screen.session \in Nat
           /\ screen.edition \in Nat /\ screen.confirm \in Nat
           /\ screen.intent \in [session: Nat, key: Nat]
           /\ calls \in SUBSET Calls /\ CallsSound(calls, closing) /\ db \in Databases
           /\ \A c \in calls : c \in Calls /\ AnswerSound(c, db) /\ CallSound(c, screen)
BY DEF RegisterInv, ScreenSound, Screens, DbSound

LEMMA SameScreenSound ==
    ASSUME NEW s, NEW t \in Screens, ScreenSound(s, db), SameRegister(s, t),
           t.confirm \in {NoSession, t.session} \/ t.confirm = s.confirm
    PROVE  ScreenSound(t, db)
BY DEF ScreenSound, SameRegister

LEMMA RefreshKeeps ==
    ASSUME RegisterInv, Refresh
    PROVE  RegisterInv'
<1> DEFINE c == Call("read", screen.branch, NoSession, 0, TRUE)
           cs == Stale(calls, {"read"})
<1>1. /\ screen' = [screen EXCEPT !.loading = TRUE] /\ ~screen.loading
      /\ calls' = cs \cup {c} /\ UNCHANGED <<db, closing, keys>>
    BY DEF Refresh, Start
<1>2. /\ screen' \in Screens /\ SameRegister(screen, screen') /\ SameExit(screen, screen')
      /\ screen'.confirm = screen.confirm /\ screen'.loading
    BY <1>1, InvFacts, ScreenLoading
<1>3. ScreenSound(screen', db)
    BY <1>2, SameScreenSound DEF RegisterInv
<1>4. /\ c \in Calls /\ c.kind = "read" /\ c.branch = screen.branch /\ c.owner /\ c.fresh
      /\ c.answered = "no"
    BY InvFacts DEF Call, Calls, Unasked, NoSession, AllKinds
<1>5. \A d \in calls : ~Loads(d)
    BY <1>1 DEF RegisterInv, CallSound
<1>6. cs \subseteq Calls /\ CallsSound(cs, closing)
    BY InvFacts, StaleCalls
<1>7. /\ \A d \in cs : AnswerSound(d, db) /\ CallSound(d, screen')
      /\ \A d \in cs : ~Loads(d) /\ (d.kind = "read" => ~d.fresh)
    BY <1>2, <1>5, InvFacts, StaleReads DEF SameRegister
<1> HIDE DEF c, cs
<1>8. AnswerSound(c, db) /\ CallSound(c, screen')
    BY <1>2, <1>4 DEF AnswerSound, CallSound, SameRegister
<1>9. CallsSound(calls', closing)
    BY <1>1, <1>4, <1>6, <1>7, CallsAdd
<1> QED BY <1>1, <1>3, <1>4, <1>6, <1>7, <1>8, <1>9 DEF RegisterInv

LEMMA QueueFailsKeeps ==
    ASSUME RegisterInv, NEW c \in calls, QueueFails(c)
    PROVE  RegisterInv'
<1> DEFINE d == [c EXCEPT !.owner = FALSE]
<1>1. /\ screen' = [screen EXCEPT !.loading = FALSE] /\ c.kind = "read" /\ c.owner
      /\ calls' = (calls \ {c}) \cup {d} /\ UNCHANGED <<db, closing, keys>>
    BY DEF QueueFails
<1>2. /\ screen' \in Screens /\ SameRegister(screen, screen') /\ SameExit(screen, screen')
      /\ screen'.confirm = screen.confirm
    BY <1>1, InvFacts, ScreenLoading
<1>3. ScreenSound(screen', db)
    BY <1>2, SameScreenSound DEF RegisterInv
<1>4. c \in Calls /\ AnswerSound(c, db) /\ CallSound(c, screen)
    BY InvFacts
<1>5. /\ d \in Calls /\ d.kind = c.kind /\ d.branch = c.branch /\ d.session = c.session
      /\ d.key = c.key /\ d.fresh = c.fresh /\ ~d.owner /\ d.answered = c.answered
      /\ d.answer = c.answer
    BY <1>4 DEF Calls
<1> HIDE DEF d
<1>6. \A x \in calls \ {c} : ~Loads(x)
    BY <1>1, InvFacts DEF CallsSound, Loads
<1>7. \A x \in calls \ {c} : CallSound(x, screen')
    BY <1>2, <1>6, InvFacts, WaitingCalls
<1>8. AnswerSound(d, db) /\ CallSound(d, screen')
    BY <1>1, <1>2, <1>4, <1>5 DEF AnswerSound, CallSound, Loads, SameRegister
<1>9. CallsSound(calls', closing)
    BY <1>1, <1>5, CallsReplace DEF RegisterInv
<1> QED BY <1>1, <1>3, <1>5, <1>7, <1>8, <1>9 DEF RegisterInv

LEMMA ReadAnsweredKeeps ==
    ASSUME RegisterInv, NEW c \in calls, ReadAnswered(c)
    PROVE  RegisterInv' /\ screen'.edition >= screen.edition
<1> DEFINE display == IF c.fresh /\ c.answered = "ok"
                    THEN Show(screen, c.answer.session, c.answer.edition) ELSE screen
<1>1. /\ screen' = Lowered(display, c) /\ c.kind = "read"
      /\ calls' = calls \ {c} /\ UNCHANGED <<db, closing, keys>>
    BY DEF ReadAnswered
<1>2. /\ c \in Calls /\ AnswerSound(c, db) /\ CallSound(c, screen) /\ ScreenSound(screen, db)
      /\ c.answer.session \in Nat /\ c.answer.edition \in Nat
    BY InvFacts DEF RegisterInv, Calls
<1>3. /\ display \in Screens /\ SameExit(screen, display) /\ ScreenSound(display, db)
      /\ display.branch = screen.branch /\ display.edition >= screen.edition
      /\ display.loading = screen.loading /\ (~c.fresh => display = screen)
  <2>1. CASE c.fresh /\ c.answered = "ok"
    <3>1. /\ display \in Screens /\ SameExit(screen, display)
          /\ display.branch = screen.branch /\ display.session = c.answer.session
          /\ display.edition = c.answer.edition
          /\ display.confirm # NoSession => display.confirm = c.answer.session
          /\ display.loading = screen.loading
      <4>1. display = Show(screen, c.answer.session, c.answer.edition) /\ screen \in Screens
          BY <2>1, InvFacts
      <4>2. c.answer.session \in Nat /\ c.answer.edition \in Nat
          BY <1>2
      <4> DEFINE a == c.answer.session
                 b == c.answer.edition
                 t == Show(screen, a, b)
      <4> HIDE DEF display, a, b
      <4>3. /\ t \in Screens /\ SameExit(screen, t)
            /\ t.branch = screen.branch /\ t.session = a /\ t.edition = b
            /\ t.confirm # NoSession => t.confirm = a
            /\ t.loading = screen.loading
        <5>1. screen \in Screens /\ a \in Nat /\ b \in Nat
            BY <4>1, <4>2 DEF a, b
        <5> QED BY <5>1, ScreenShow
      <4>4. t = display
          BY <4>1 DEF a, b
      <4> HIDE DEF t
      <4> QED BY <4>3, <4>4 DEF a, b
    <3> HIDE DEF display
    <3>2. /\ OfBranch(db, c.answer.session, screen.branch)
          /\ c.answer.edition <= db.edition[screen.branch]
          /\ screen.edition <= c.answer.edition
        BY <1>1, <1>2, <2>1 DEF AnswerSound, CallSound
    <3> QED BY <2>1, <3>1, <3>2, <1>2, InvFacts DEF ScreenSound
  <2>2. CASE ~(c.fresh /\ c.answered = "ok")
      BY <1>2, <2>2, InvFacts DEF SameExit
  <2> QED BY <2>1, <2>2
<1> HIDE DEF display
<1>4. /\ screen' \in Screens /\ SameRegister(display, screen') /\ SameExit(display, screen')
      /\ screen'.confirm = display.confirm
      /\ screen'.loading = (IF c.owner THEN FALSE ELSE display.loading)
    BY <1>1, <1>3, ScreenLoading DEF Lowered, SameRegister, SameExit
<1>5. ScreenSound(screen', db)
    BY <1>3, <1>4, SameScreenSound
<1>6. ASSUME NEW d \in calls \ {c}
      PROVE  CallSound(d, screen')
  <2>1. CallSound(d, screen)
      BY InvFacts
  <2>2. CASE c.fresh
    <3>1. ~(d.kind = "read" /\ d.fresh) /\ (c.owner => ~Loads(d))
        BY <1>1, <2>2, InvFacts DEF CallsSound, Loads
    <3>2. Loads(d) => screen'.loading
        BY <1>3, <1>4, <2>1, <3>1 DEF CallSound
    <3> QED BY <1>3, <1>4, <2>1, <3>1, <3>2 DEF CallSound, SameRegister, SameExit
  <2>3. CASE ~c.fresh
    <3>1. ~c.owner
        BY <1>2, <2>3 DEF CallSound
    <3> QED BY <1>3, <1>4, <2>1, <2>3, <3>1 DEF CallSound, SameRegister, SameExit
  <2> QED BY <2>2, <2>3
<1>7. CallsSound(calls', closing)
    BY <1>1, InvFacts, CallsSubset
<1>8. screen'.edition >= screen.edition
    BY <1>3, <1>4 DEF SameRegister
<1>9. RegisterInv'
    BY <1>1, <1>5, <1>6, <1>7 DEF RegisterInv
<1> QED BY <1>8, <1>9

-----------------------------------------------------------------------------
(* Opening and closing it *)

LEMMA NothingLoads ==
    ASSUME RegisterInv, ~screen.loading
    PROVE  \A c \in calls : ~Loads(c)
BY DEF RegisterInv, CallSound

LEMMA NothingPaid ==
    ASSUME RegisterInv, ~screen.paying, ~Modes
    PROVE  \A c \in calls : c.kind # "exit"
BY DEF RegisterInv, CallSound

\* A step of the cashier that starts no call.
LEMMA ScreenKeeps ==
    ASSUME RegisterInv, UNCHANGED <<db, closing, calls>>, keys' \in Nat, screen' \in Screens,
           SameRegister(screen, screen'), screen'.loading = screen.loading,
           screen'.confirm \in {NoSession, screen'.session} \/ screen'.confirm = screen.confirm,
           SameExit(screen, screen') \/ \A c \in calls : ~Modes => c.kind # "exit"
    PROVE  RegisterInv'
<1>1. ScreenSound(screen', db)
    BY SameScreenSound DEF RegisterInv
<1>2. ASSUME NEW c \in calls
      PROVE  CallSound(c, screen')
    BY InvFacts DEF CallSound, SameRegister, SameExit
<1> QED BY <1>1, <1>2 DEF RegisterInv

LEMMA BusyCallKeeps ==
    ASSUME RegisterInv, UNCHANGED <<db, keys>>, ~screen.loading,
           screen' = [screen EXCEPT !.loading = TRUE],
           NEW c \in Calls, c.kind \in {"open", "close"}, c.branch = screen.branch, c.fresh,
           ~c.owner, c.answered = "no", calls' = calls \cup {c},
           closing' = closing \cup IF c.kind = "close" THEN {c.session} ELSE {},
           c.kind = "close" => c.session \notin closing
    PROVE  RegisterInv'
<1>1. /\ screen' \in Screens /\ SameRegister(screen, screen') /\ SameExit(screen, screen')
      /\ screen'.confirm = screen.confirm /\ screen'.loading
    BY InvFacts, ScreenLoading
<1>2. ScreenSound(screen', db)
    BY <1>1, SameScreenSound DEF RegisterInv
<1>3. \A d \in calls : ~Loads(d) /\ CallSound(d, screen')
    BY <1>1, NothingLoads, InvFacts, WaitingCalls
<1>4. AnswerSound(c, db) /\ CallSound(c, screen')
    BY <1>1 DEF AnswerSound, CallSound, SameRegister
<1>5. closing' \subseteq Nat /\ closing \subseteq closing'
    BY DEF RegisterInv, Calls
<1>6. CallsSound(calls, closing')
    BY <1>5 DEF RegisterInv, CallsSound
<1>7. c.kind = "close" => c.session \in closing' /\ \A d \in calls : d.kind = "close" => d.session # c.session
    BY DEF RegisterInv, CallsSound
<1>8. CallsSound(calls', closing')
    BY <1>3, <1>6, <1>7, CallsAdd
<1> QED BY <1>2, <1>3, <1>4, <1>5, <1>8 DEF RegisterInv

LEMMA OpenCashSessionKeeps ==
    ASSUME RegisterInv, OpenCashSession
    PROVE  RegisterInv'
<1> DEFINE c == Call("open", screen.branch, NoSession, 0, FALSE)
<1>1. /\ screen' = [screen EXCEPT !.loading = TRUE] /\ ~screen.loading
      /\ calls' = calls \cup {c} /\ UNCHANGED <<db, closing, keys>>
    BY DEF OpenCashSession, Start
<1>2. /\ c \in Calls /\ c.kind = "open" /\ c.branch = screen.branch /\ c.fresh /\ ~c.owner
      /\ c.answered = "no"
    BY InvFacts DEF Call, Calls, Unasked, NoSession, AllKinds
<1> HIDE DEF c
<1>3. closing' = closing \cup IF c.kind = "close" THEN {c.session} ELSE {}
    BY <1>1, <1>2
<1> QED BY <1>1, <1>2, <1>3, BusyCallKeeps

LEMMA CloseCashSessionKeeps ==
    ASSUME RegisterInv, CloseCashSession
    PROVE  RegisterInv'
<1> DEFINE s == screen.confirm
           c == Call("close", screen.branch, s, 0, FALSE)
<1>1. CASE screen' = [screen EXCEPT !.confirm = NoSession] /\ UNCHANGED <<db, closing, calls, keys>>
  <2>1. LET t == [screen EXCEPT !.confirm = NoSession] IN
        /\ t \in Screens /\ SameRegister(screen, t) /\ SameExit(screen, t)
        /\ t.confirm = NoSession /\ t.loading = screen.loading
      BY InvFacts, ScreenConfirm DEF NoSession
  <2>2. keys' \in Nat
      BY <1>1 DEF RegisterInv
  <2> QED BY <1>1, <2>1, <2>2, ScreenKeeps
<1>2. CASE /\ screen' = [screen EXCEPT !.loading = TRUE] /\ ~screen.loading /\ s \notin closing
           /\ calls' = calls \cup {c} /\ closing' = closing \cup {s} /\ UNCHANGED <<db, keys>>
  <2>1. /\ c \in Calls /\ c.kind = "close" /\ c.branch = screen.branch /\ c.fresh /\ ~c.owner
        /\ c.answered = "no" /\ c.session = s
      BY InvFacts DEF Call, Calls, Unasked, NoSession, AllKinds
  <2> HIDE DEF c
  <2>2. closing' = closing \cup IF c.kind = "close" THEN {c.session} ELSE {}
      BY <1>2, <2>1
  <2> QED BY <1>2, <2>1, <2>2, BusyCallKeeps
<1> QED BY <1>1, <1>2 DEF CloseCashSession, ClosePending, Start

LEMMA RequestCloseKeeps ==
    ASSUME RegisterInv, RequestCloseCashSession \/ CancelClose
    PROVE  RegisterInv'
<1>1. PICK session \in {NoSession, screen.session} : screen' = [screen EXCEPT !.confirm = session]
    BY DEF RequestCloseCashSession, CancelClose
<1>2. session \in Nat
    BY InvFacts DEF NoSession
<1>3. LET t == [screen EXCEPT !.confirm = session] IN
      /\ t \in Screens /\ SameRegister(screen, t) /\ SameExit(screen, t)
      /\ t.confirm = session /\ t.loading = screen.loading
    BY <1>2, InvFacts, ScreenConfirm
<1>4. UNCHANGED <<db, closing, calls, keys>> /\ keys' \in Nat
    BY DEF RequestCloseCashSession, CancelClose, RegisterInv
<1>5. screen'.confirm \in {NoSession, screen'.session}
    BY <1>1, <1>3 DEF SameRegister
<1> QED BY <1>1, <1>3, <1>4, <1>5, ScreenKeeps

LEMMA OpenAnsweredKeeps ==
    ASSUME RegisterInv, NEW c \in calls, OpenAnswered(c)
    PROVE  RegisterInv'
<1> DEFINE display == Show(screen, c.answer.session, c.answer.edition)
           cs == calls \ {c}
<1>1. /\ c \in Calls /\ AnswerSound(c, db) /\ CallSound(c, screen) /\ ScreenSound(screen, db)
      /\ c.answer.session \in Nat /\ c.answer.edition \in Nat /\ c.kind = "open"
      /\ UNCHANGED <<db, closing, keys>>
    BY InvFacts DEF RegisterInv, Calls, OpenAnswered
<1>2. cs \in SUBSET Calls /\ CallsSound(cs, closing)
    BY InvFacts, CallsSubset
<1>3. c.fresh => \A d \in cs : ~Loads(d)
    BY <1>1, InvFacts DEF CallsSound, Loads
<1>4. CASE c.fresh /\ c.answered = "ok"
  <2>1. screen' = [display EXCEPT !.loading = FALSE] /\ calls' = Stale(cs, {"read"})
      BY <1>4 DEF OpenAnswered
  <2>2. /\ display \in Screens /\ SameExit(screen, display)
        /\ display.branch = screen.branch /\ display.session = c.answer.session
        /\ display.edition = c.answer.edition
        /\ display.confirm # NoSession => display.confirm = c.answer.session
        /\ display.loading = screen.loading
    <3>1. display = Show(screen, c.answer.session, c.answer.edition) /\ screen \in Screens
        BY InvFacts
    <3>2. c.answer.session \in Nat /\ c.answer.edition \in Nat
        BY <1>1
    <3> DEFINE a == c.answer.session
               b == c.answer.edition
               t == Show(screen, a, b)
    <3> HIDE DEF display, a, b
    <3>3. /\ t \in Screens /\ SameExit(screen, t)
          /\ t.branch = screen.branch /\ t.session = a /\ t.edition = b
          /\ t.confirm # NoSession => t.confirm = a
          /\ t.loading = screen.loading
      <4>1. screen \in Screens /\ a \in Nat /\ b \in Nat
          BY <3>1, <3>2 DEF a, b
      <4> QED BY <4>1, ScreenShow
    <3>4. t = display
        BY <3>1 DEF a, b
    <3> HIDE DEF t
    <3> QED BY <3>3, <3>4 DEF a, b
  <2> HIDE DEF display
  <2>3. /\ OfBranch(db, c.answer.session, screen.branch)
        /\ c.answer.edition <= db.edition[screen.branch]
      BY <1>1, <1>4 DEF AnswerSound, CallSound
  <2>4. ScreenSound(display, db)
      BY <2>2, <2>3 DEF ScreenSound
  <2>5. /\ screen' \in Screens /\ SameRegister(display, screen') /\ SameExit(display, screen')
        /\ screen'.confirm = display.confirm
      BY <2>1, <2>2, ScreenLoading
  <2>6. ScreenSound(screen', db) /\ screen'.branch = screen.branch /\ SameExit(screen, screen')
      BY <2>2, <2>4, <2>5, SameScreenSound DEF SameRegister, SameExit
  <2>7. \A d \in cs : AnswerSound(d, db) /\ CallSound(d, screen) /\ (Loads(d) => d.kind = "read")
      BY <1>3, <1>4, InvFacts
  <2> HIDE DEF cs
  <2>8. calls' \subseteq Calls /\ CallsSound(calls', closing)
      BY <1>2, <2>1, StaleCalls
  <2>9. \A d \in calls' : AnswerSound(d, db) /\ CallSound(d, screen')
      BY <1>2, <2>1, <2>6, <2>7, StaleReads
  <2> QED BY <1>1, <2>6, <2>8, <2>9 DEF RegisterInv
<1>5. CASE ~(c.fresh /\ c.answered = "ok")
  <2>1. /\ screen' = IF c.fresh THEN [screen EXCEPT !.loading = FALSE] ELSE screen
        /\ calls' = cs
      BY <1>5 DEF OpenAnswered
  <2>2. /\ screen' \in Screens /\ SameRegister(screen, screen') /\ SameExit(screen, screen')
        /\ screen'.confirm = screen.confirm
        /\ screen'.loading = IF c.fresh THEN FALSE ELSE screen.loading
      BY <2>1, InvFacts, ScreenLoading DEF SameRegister, SameExit
  <2>3. ScreenSound(screen', db)
      BY <1>1, <2>2, SameScreenSound
  <2>4. \A d \in cs : CallSound(d, screen) /\ (Loads(d) => screen'.loading)
      BY <1>3, <2>2, InvFacts DEF CallSound
  <2>5. \A d \in cs : CallSound(d, screen')
      BY <2>2, <2>4, WaitingCalls
  <2> QED BY <1>1, <1>2, <2>1, <2>3, <2>5, InvFacts DEF RegisterInv
<1> QED BY <1>4, <1>5

LEMMA CloseAnsweredKeeps ==
    ASSUME RegisterInv, NEW c \in calls, CloseAnswered(c)
    PROVE  RegisterInv'
<1> DEFINE ok == c.answered = "ok"
           session == IF ok THEN NoSession ELSE screen.session
           edition == IF ok THEN c.answer.edition ELSE screen.edition
           display == Show(screen, session, edition)
           lowered == [display EXCEPT !.loading = FALSE]
           cs == calls \ {c}
           again == Call("read", screen.branch, NoSession, 0, FALSE)
<1>1. /\ c \in Calls /\ AnswerSound(c, db) /\ CallSound(c, screen) /\ ScreenSound(screen, db)
      /\ c.answer.edition \in Nat /\ c.kind = "close" /\ UNCHANGED <<db, keys>>
      /\ closing' = closing \ {c.session}
    BY InvFacts DEF RegisterInv, Calls, CloseAnswered, Released
<1>2. cs \in SUBSET Calls /\ CallsSound(cs, closing) /\ closing' \subseteq Nat
    BY <1>1, InvFacts, CallsSubset DEF RegisterInv
<1>3. c.fresh => \A d \in cs : ~Loads(d)
    BY <1>1, InvFacts DEF CallsSound, Loads
<1>4. \A d \in cs : d.kind = "close" => d.session \in closing'
    BY <1>1, InvFacts DEF CallsSound
<1>5. \A d \in cs : AnswerSound(d, db) /\ CallSound(d, screen)
    BY InvFacts
<1>6. CASE ~c.fresh
  <2>1. screen' = screen /\ calls' = cs
      BY <1>6 DEF CloseAnswered
  <2>2. CallsSound(calls', closing')
      BY <1>2, <1>4, <2>1 DEF CallsSound
  <2> QED BY <1>1, <1>2, <1>5, <2>1, <2>2 DEF RegisterInv
<1>7. CASE c.fresh
  <2>1. screen' = [display EXCEPT !.loading = FALSE, !.confirm = NoSession]
      BY <1>7 DEF CloseAnswered
  <2>2. session \in Nat /\ edition \in Nat /\ screen \in Screens
      BY <1>1, InvFacts DEF NoSession
  <2>3. OfBranch(db, session, screen.branch) /\ edition <= db.edition[screen.branch]
    <3>1. CASE ok
      <4>1. Len(db.branchOf) \in Nat
          BY InvFacts DEF Databases
      <4>2. c.branch = screen.branch /\ c.answer.edition <= db.edition[c.branch]
          BY <1>1, <1>7, <3>1 DEF AnswerSound, CallSound
      <4> QED BY <3>1, <4>1, <4>2 DEF OfBranch, NoSession
    <3>2. CASE ~ok
        BY <1>1, <3>2 DEF ScreenSound
    <3> QED BY <3>1, <3>2
  <2>4. ~ok => edition = screen.edition
      OBVIOUS
  <2> HIDE DEF session, edition
  <2>5. /\ display \in Screens /\ SameExit(screen, display)
        /\ display.branch = screen.branch /\ display.session = session /\ display.edition = edition
        /\ display.loading = screen.loading
      BY <2>2, ScreenShow
  <2>6. screen' = [lowered EXCEPT !.confirm = NoSession]
      BY <2>1, <2>5
  <2> HIDE DEF display
  <2>7. /\ lowered \in Screens /\ SameRegister(display, lowered) /\ SameExit(display, lowered)
      BY <2>5, ScreenLoading
  <2> HIDE DEF lowered
  <2>8. /\ screen' \in Screens /\ SameRegister(lowered, screen') /\ SameExit(lowered, screen')
        /\ screen'.confirm = NoSession
      BY <2>6, <2>7, ScreenConfirm DEF NoSession
  <2>9. /\ screen'.branch = screen.branch /\ screen'.edition = edition
        /\ SameExit(screen, screen') /\ ScreenSound(screen', db)
      BY <2>3, <2>5, <2>7, <2>8 DEF SameRegister, SameExit, ScreenSound
  <2>10. CASE ok
    <3>1. calls' = Stale(cs, {"read"}) \cup {again}
        BY <1>7, <2>10 DEF CloseAnswered, Start
    <3>2. /\ again \in Calls /\ again.kind = "read" /\ again.branch = screen.branch
          /\ ~again.owner /\ again.answered = "no"
        BY InvFacts DEF Call, Calls, Unasked, NoSession, AllKinds
    <3>3. \A d \in cs : Loads(d) => d.kind = "read"
        BY <1>3, <1>7
    <3>4. CallsSound(cs, closing')
        BY <1>2, <1>4 DEF CallsSound
    <3> HIDE DEF cs, again
    <3>5. Stale(cs, {"read"}) \subseteq Calls /\ CallsSound(Stale(cs, {"read"}), closing')
        BY <1>2, <3>4, StaleCalls
    <3>6. /\ \A d \in Stale(cs, {"read"}) : AnswerSound(d, db) /\ CallSound(d, screen')
          /\ \A d \in Stale(cs, {"read"}) : ~Loads(d) /\ (d.kind = "read" => ~d.fresh)
        BY <1>2, <1>5, <2>9, <3>3, StaleReads
    <3>7. AnswerSound(again, db) /\ CallSound(again, screen') /\ ~Loads(again)
        BY <2>9, <3>2 DEF AnswerSound, CallSound, Loads
    <3>8. CallsSound(calls', closing')
        BY <3>1, <3>2, <3>5, <3>6, <3>7, CallsAdd
    <3> QED BY <1>1, <1>2, <2>9, <3>1, <3>2, <3>5, <3>6, <3>7, <3>8 DEF RegisterInv
  <2>11. CASE ~ok
    <3>1. calls' = cs
        BY <2>11 DEF CloseAnswered
    <3>2. screen'.edition = screen.edition
        BY <2>4, <2>9, <2>11
    <3>3. \A d \in cs : CallSound(d, screen')
        BY <1>3, <1>5, <1>7, <2>9, <3>2 DEF CallSound, SameExit
    <3>4. CallsSound(calls', closing')
        BY <1>2, <1>4, <3>1 DEF CallsSound
    <3> QED BY <1>1, <1>2, <1>5, <2>9, <3>1, <3>3, <3>4 DEF RegisterInv
  <2> QED BY <2>10, <2>11
<1> QED BY <1>6, <1>7

-----------------------------------------------------------------------------
(* Exits of cash *)

LEMMA RequestCashMovementKeeps ==
    ASSUME RegisterInv, RequestCashMovement \/ CancelMovement
    PROVE  RegisterInv'
<1>1. keys + 1 \in Nat /\ keys \in Nat
    BY DEF RegisterInv
<1>2. NoIntent \in [session: Nat, key: Nat]
    BY DEF NoIntent, NoSession
<1>3. \E i \in [session: Nat, key: Nat] : screen' = [screen EXCEPT !.intent = i]
  <2>1. CASE CancelMovement
      BY <1>2, <2>1 DEF CancelMovement
  <2>2. CASE RequestCashMovement
    <3>1. [session |-> screen.session, key |-> keys + 1] \in [session: Nat, key: Nat]
        BY <1>1, InvFacts
    <3> QED BY <2>2, <3>1 DEF RequestCashMovement
  <2> QED BY <2>1, <2>2
<1>4. PICK i \in [session: Nat, key: Nat] : screen' = [screen EXCEPT !.intent = i]
    BY <1>3
<1>5. LET t == [screen EXCEPT !.intent = i] IN
      /\ t \in Screens /\ SameRegister(screen, t)
      /\ t.confirm = screen.confirm /\ t.loading = screen.loading
    BY InvFacts, ScreenIntent
<1>6. UNCHANGED <<db, closing, calls>> /\ keys' \in Nat /\ ~screen.paying
    BY <1>1 DEF RequestCashMovement, CancelMovement
<1> QED BY <1>4, <1>5, <1>6, NothingPaid, ScreenKeeps

LEMMA SubmitCashMovementKeeps ==
    ASSUME RegisterInv, SubmitCashMovement
    PROVE  RegisterInv'
<1> DEFINE intent == screen.intent
           c == Call("exit", screen.branch, intent.session, intent.key, FALSE)
<1>1. /\ ~screen.paying /\ UNCHANGED <<db, closing, keys>> /\ intent.session \in Nat
      /\ intent.key \in Nat
    BY InvFacts DEF SubmitCashMovement
<1>2. CASE screen' = [screen EXCEPT !.intent = NoIntent] /\ UNCHANGED calls
  <2>1. LET t == [screen EXCEPT !.intent = NoIntent] IN
        /\ t \in Screens /\ SameRegister(screen, t)
        /\ t.confirm = screen.confirm /\ t.loading = screen.loading
      BY InvFacts, ScreenIntent DEF NoIntent, NoSession
  <2>2. keys' \in Nat
      BY <1>1 DEF RegisterInv
  <2> QED BY <1>1, <1>2, <2>1, <2>2, NothingPaid, ScreenKeeps
<1>3. CASE screen' = [screen EXCEPT !.paying = TRUE] /\ calls' = calls \cup {c}
  <2>1. /\ screen' \in Screens /\ SameRegister(screen, screen') /\ screen'.paying
        /\ screen'.intent = intent /\ screen'.confirm = screen.confirm
        /\ screen'.loading = screen.loading
      BY <1>3, InvFacts, ScreenPaying
  <2>2. ScreenSound(screen', db)
      BY <2>1, SameScreenSound DEF RegisterInv
  <2>3. /\ c \in Calls /\ c.kind = "exit" /\ c.branch = screen.branch /\ c.fresh /\ ~c.owner
        /\ c.answered = "no" /\ c.key = intent.key
      BY <1>1, InvFacts DEF Call, Calls, Unasked, NoSession, AllKinds
  <2> HIDE DEF c
  <2>4. AnswerSound(c, db) /\ CallSound(c, screen') /\ ~Loads(c)
      BY <2>1, <2>3 DEF AnswerSound, CallSound, Loads, SameRegister
  <2>5. \A d \in calls : ~Modes => d.kind # "exit"
      BY <1>1, NothingPaid
  <2>6. \A d \in calls : CallSound(d, screen')
      BY <2>1, <2>5, InvFacts DEF CallSound, SameRegister
  <2>7. CallsSound(calls', closing')
      BY <1>1, <1>3, <2>3, <2>4, <2>5, CallsAdd DEF RegisterInv
  <2> QED BY <1>1, <1>3, <2>2, <2>3, <2>4, <2>6, <2>7 DEF RegisterInv
<1> QED BY <1>2, <1>3 DEF SubmitCashMovement, Start

LEMMA MovementAnsweredKeeps ==
    ASSUME RegisterInv, NEW c \in calls, MovementAnswered(c)
    PROVE  RegisterInv'
<1> DEFINE intent == IF c.answered = "ok" THEN NoIntent ELSE screen.intent
           paid == [screen EXCEPT !.paying = FALSE]
<1>1. /\ c.kind = "exit" /\ calls' = calls \ {c} /\ UNCHANGED <<db, closing, keys>>
      /\ screen' = IF ~c.fresh THEN screen
                   ELSE [screen EXCEPT !.paying = FALSE, !.intent = intent]
    BY DEF MovementAnswered
<1>2. intent \in [session: Nat, key: Nat]
    BY InvFacts DEF NoIntent, NoSession
<1> HIDE DEF intent
<1>3. /\ screen' \in Screens /\ SameRegister(screen, screen')
      /\ screen'.confirm = screen.confirm /\ screen'.loading = screen.loading
  <2>1. CASE ~c.fresh
      BY <1>1, <2>1, InvFacts DEF SameRegister
  <2>2. CASE c.fresh
    <3>1. screen' = [paid EXCEPT !.intent = intent]
        BY <1>1, <2>2
    <3>2. /\ paid \in Screens /\ SameRegister(screen, paid) /\ paid.confirm = screen.confirm
          /\ paid.loading = screen.loading
        BY InvFacts, ScreenPaying
    <3> HIDE DEF paid
    <3>3. /\ screen' \in Screens /\ SameRegister(paid, screen') /\ screen'.confirm = paid.confirm
          /\ screen'.loading = paid.loading
        BY <1>2, <3>1, <3>2, ScreenIntent
    <3> QED BY <3>2, <3>3 DEF SameRegister
  <2> QED BY <2>1, <2>2
<1>4. ScreenSound(screen', db)
    BY <1>3, SameScreenSound DEF RegisterInv
<1>5. \A d \in calls' : ~Modes => d.kind # "exit"
    BY <1>1, InvFacts DEF CallsSound
<1>6. \A d \in calls' : CallSound(d, screen')
    BY <1>1, <1>3, <1>5, InvFacts DEF CallSound, SameRegister
<1>7. CallsSound(calls', closing')
    BY <1>1, InvFacts, CallsSubset
<1> QED BY <1>1, <1>4, <1>6, <1>7 DEF RegisterInv

-----------------------------------------------------------------------------
(* Branch and mode *)

LEMMA LeavingKeeps ==
    ASSUME RegisterInv, UNCHANGED <<db, closing, keys>>, NEW b \in Branches, screen' = Blank(b),
           calls' = Stale(calls, AllKinds) \cup {Call("read", b, NoSession, 0, TRUE)},
           \A d \in calls : ~Modes => d.kind # "exit"
    PROVE  RegisterInv'
<1> DEFINE c == Call("read", b, NoSession, 0, TRUE)
           cs == Stale(calls, AllKinds)
<1>1. /\ ScreenSound(screen', db) /\ screen'.branch = b /\ screen'.loading
    BY BlankSound DEF RegisterInv
<1>2. /\ c \in Calls /\ c.kind = "read" /\ c.branch = b /\ c.owner /\ c.fresh
      /\ c.answered = "no"
    BY DEF Call, Calls, Unasked, NoSession, AllKinds
<1>3. cs \subseteq Calls /\ CallsSound(cs, closing)
    BY InvFacts, StaleCalls
<1>4. \A d \in cs : AnswerSound(d, db) /\ CallSound(d, screen') /\ ~Loads(d) /\ ~d.fresh
    BY InvFacts, StaleAll
<1>5. calls' = cs \cup {c}
    OBVIOUS
<1> HIDE DEF c, cs
<1>6. AnswerSound(c, db) /\ CallSound(c, screen')
    BY <1>1, <1>2 DEF AnswerSound, CallSound
<1>7. CallsSound(calls', closing)
  <2>1. \A d \in cs : ~Loads(d) /\ (d.kind = "read" => ~d.fresh)
      BY <1>4
  <2>2. CallsSound(cs \cup {c}, closing)
      BY <1>2, <1>3, <2>1, CallsAdd
  <2> QED BY <1>5, <2>2
<1> QED BY <1>1, <1>2, <1>3, <1>4, <1>5, <1>6, <1>7 DEF RegisterInv

LEMMA RegisterInit ==
    ASSUME Init
    PROVE  RegisterInv
<1>1. PICK b \in Branches :
          /\ db = [branchOf |-> <<>>, open |-> [c \in Branches |-> NoSession],
                   edition |-> [c \in Branches |-> 0], exits |-> {}]
          /\ screen = Blank(b) /\ closing = {} /\ keys = 0
          /\ calls = {Call("read", b, NoSession, 0, TRUE)}
    BY DEF Init
<1> DEFINE c == Call("read", b, NoSession, 0, TRUE)
<1>2. db \in Databases /\ Len(db.branchOf) = 0 /\ \A a \in Branches : db.open[a] = NoSession
    BY <1>1 DEF Databases, NoSession
<1>3. DbSound(db)
    BY <1>2 DEF DbSound, OfBranch, NoSession
<1>4. ScreenSound(screen, db) /\ screen.branch = b /\ screen.loading
    BY <1>1, <1>3, BlankSound
<1>5. /\ c \in Calls /\ c.kind = "read" /\ c.branch = b /\ c.owner /\ c.fresh
      /\ c.answered = "no"
    BY DEF Call, Calls, Unasked, NoSession, AllKinds
<1>6. calls = {c}
    BY <1>1
<1> HIDE DEF c
<1>7. AnswerSound(c, db) /\ CallSound(c, screen)
    BY <1>4, <1>5 DEF AnswerSound, CallSound
<1>8. CallsSound(calls, closing)
    BY <1>5, <1>6 DEF CallsSound
<1> QED BY <1>1, <1>3, <1>4, <1>5, <1>6, <1>7, <1>8 DEF RegisterInv

LEMMA RegisterStep ==
    ASSUME RegisterInv, [Next]_vars
    PROVE  RegisterInv'
<1>1. ASSUME NEW b \in Branches, ChangeBranch(b)
      PROVE  RegisterInv'
  <2>1. /\ UNCHANGED <<db, closing, keys>> /\ screen' = Blank(b) /\ ~screen.paying
        /\ calls' = Stale(calls, AllKinds) \cup {Call("read", b, NoSession, 0, TRUE)}
      BY <1>1 DEF ChangeBranch, Start, Pinned
  <2> QED BY <2>1, NothingPaid, LeavingKeeps
<1>2. CASE SwitchMode
  <2>1. /\ UNCHANGED <<db, closing, keys>> /\ screen' = Blank(screen.branch) /\ Modes
        /\ calls' = Stale(calls, AllKinds) \cup {Call("read", screen.branch, NoSession, 0, TRUE)}
      BY <1>2 DEF SwitchMode, Start
  <2>2. screen.branch \in Branches
      BY InvFacts
  <2> QED BY <2>1, <2>2, LeavingKeeps
<1>3. CASE Cashier
    BY <1>1, <1>2, <1>3, RefreshKeeps, OpenCashSessionKeeps, RequestCloseKeeps,
       CloseCashSessionKeeps, RequestCashMovementKeeps, SubmitCashMovementKeeps DEF Cashier
<1>4. CASE Network
    BY <1>4, ServeKeeps, LoseKeeps, QueueFailsKeeps, ReadAnsweredKeeps, OpenAnsweredKeeps,
       CloseAnsweredKeeps, MovementAnsweredKeeps DEF Network, Answered
<1>5. CASE UNCHANGED vars
    BY <1>5 DEF vars, RegisterInv
<1> QED BY <1>3, <1>4, <1>5, ElsewhereKeeps DEF Next

LEMMA RegisterAlwaysSound == Spec => []RegisterInv
<1>1. Init => RegisterInv
    BY RegisterInit
<1>2. RegisterInv /\ [Next]_vars => RegisterInv'
    BY RegisterStep
<1> QED BY <1>1, <1>2, PTL DEF Spec

\* The register keeps its types, and one call at most owns the loading of the screen.
THEOREM RegisterTypeCorrect == Spec => []TypeOK
<1>1. RegisterInv => TypeOK
    BY DEF RegisterInv, DbSound, ScreenSound, CallSound, CallsSound, Loads, TypeOK
<1> QED BY <1>1, RegisterAlwaysSound, PTL

\* A close is sent once, also by a workspace that was left and opened again (page.tsx,
\* CLOSES_IN_FLIGHT outlives the component).
THEOREM AlwaysOneClosePerSession == Spec => []OneClosePerSession
<1>1. RegisterInv => OneClosePerSession
    BY DEF RegisterInv, CallsSound, OneClosePerSession
<1> QED BY <1>1, RegisterAlwaysSound, PTL

\* The session on the screen is of the branch on the screen (page.tsx, refreshCash compares
\* branchEpoch after every await).
THEOREM AlwaysOfItsBranch == Spec => []ShownIsOfBranch
<1>1. RegisterInv => ShownIsOfBranch
    BY DEF RegisterInv, ScreenSound, OfBranch, ShownIsOfBranch
<1> QED BY <1>1, RegisterAlwaysSound, PTL

\* A close that waits for its second step is of the session that is shown (page.tsx,
\* requestCloseCashSession and the effect that voids it).
THEOREM AlwaysConfirmsTheShown == Spec => []ConfirmedIsShown
<1>1. RegisterInv => ConfirmedIsShown
    BY DEF RegisterInv, ScreenSound, ConfirmedIsShown
<1> QED BY <1>1, RegisterAlwaysSound, PTL

\* Short of other modes, an exit under way keeps its key on the screen (page.tsx,
\* submitCashMovement).
THEOREM ExitsKeepTheirKey == ASSUME ~Modes PROVE Spec => []NeverRekeyed
<1>1. RegisterInv => NeverRekeyed
    BY DEF RegisterInv, CallSound, NeverRekeyed
<1> QED BY <1>1, RegisterAlwaysSound, PTL

\* An answer to a read never replaces a newer state of the register, whatever was opened or
\* closed while it was under way (page.tsx, cashStateRequest).
THEOREM ReadsNeverTakeBack == Spec => ReadsNeverGoBack
<1>1. RegisterInv /\ [Next]_vars =>
          [(\E c \in calls : ReadAnswered(c)) => screen'.edition >= screen.edition]_vars
  <2> SUFFICES ASSUME RegisterInv, NEW c \in calls, ReadAnswered(c)
               PROVE  screen'.edition >= screen.edition
      OBVIOUS
  <2> QED BY ReadAnsweredKeeps
<1> QED BY <1>1, RegisterAlwaysSound, PTL DEF Spec, ReadsNeverGoBack

-----------------------------------------------------------------------------
(***************************************************************************)
(* The charges of the sales.  The network, the page and the server agree   *)
(* on the sale and the body of every key, a request of the page is what    *)
(* the attempt of its sale waits for, and an answer tells what the server  *)
(* holds, which it never takes back.  What is said of the attempts (a),    *)
(* the sales in flight (f), the keys minted (n), the requests (ms) and the *)
(* holdings of the server (h) is said of any such, as one step changes     *)
(* several of them.                                                        *)
(***************************************************************************)

\* A key stands for one sale and one body from the moment it is minted.
KeyOf == [Panel!Keys -> [sale: Sales \cup {None}, body: Panel!Body \cup {None}]]
Stands(of, k, s, body) == of[k].sale = s /\ of[k].body = body

\* A request of the page is the one its sale is locked for and its attempt waits for.
Awaited(m, a, f) ==
    /\ m.sale \in f /\ a[m.sale].key = m.key
    /\ a[m.sale].phase = IF m.kind = "reserve" THEN "RESERVATION" ELSE "CONFIRMATION"
    /\ a[m.sale].state # "CONFIRMED"

\* What an answer tells is so; a confirmation is of a reservation that was answered.
RequestSound(m, of, a, f, n, h) ==
    /\ Stands(of, m.key, m.sale, m.body) /\ m.key <= n
    /\ m.by = "page" => Awaited(m, a, f)
    /\ m.kind = "confirm" \/ m.reply = "ok" => h[m.key].state # "none"
    /\ m.kind = "confirm" /\ m.reply = "ok" => h[m.key].state = "CONFIRMED"

AttemptSound(x, s, of, n, h) ==
    /\ x.phase # "none" => Stands(of, x.key, s, x.body) /\ x.key <= n
    /\ x.phase = "CONFIRMATION" => h[x.key].state # "none"
    /\ x.state = "CONFIRMED" => x.phase = "CONFIRMATION" /\ h[x.key].state = "CONFIRMED"

HoldingSound(x, k, of, n) == x.state # "none" => Stands(of, k, x.sale, x.body) /\ k <= n

OnePerSale(ms) ==
    \A m, n \in ms : m.by = "page" /\ n.by = "page" /\ m.sale = n.sale => m = n

ChargesSound(of, a, f, n, ms, h) ==
    /\ of \in KeyOf /\ a \in [Sales -> Panel!Attempts] /\ f \subseteq Sales
    /\ n \in 0 .. MaxChargeKeys /\ ms \subseteq Panel!Requests
    /\ h \in [Panel!Keys -> Panel!Holdings]
    /\ \A m \in ms : RequestSound(m, of, a, f, n, h)
    /\ \A s \in Sales : AttemptSound(a[s], s, of, n, h)
    /\ \A k \in Panel!Keys : HoldingSound(h[k], k, of, n)
    /\ OnePerSale(ms)

ServerTyped == server \in [price: [Sales -> Prices], held: [Panel!Keys -> Panel!Holdings]]

KeysSound ==
    /\ chargeKeys \in [minted: 0 .. MaxChargeKeys, left: 0 .. MaxChargeKeys]
    /\ chargeKeys.left <= chargeKeys.minted

ChargeInv ==
    /\ ServerTyped /\ KeysSound
    /\ \E of \in KeyOf : ChargesSound(of, attempts, inFlight, chargeKeys.minted, net, server.held)

\* A panel asks for the composition it shows, and what it shows while it does not load is the
\* answer to that.
SoundPanel(p) ==
    /\ p \in Panel!Panels
    /\ p.loading <=> \E q \in p.asked : q.latest
    /\ \A q \in p.asked : q.latest => q.draft = p.draft
    /\ p.quote # Panel!NoQuote /\ ~p.loading => p.quote.draft = p.draft

Shown == [sale: Sales \cup {None}, session: CashSessions \cup {None}]

PanelSound ==
    /\ shown \in Shown
    /\ SoundPanel(panel)
    /\ shown.sale = None => panel.asked = {}

\* A cashier has something to start from, None is no sale, and MaxChargeKeys bounds the charges.
PanelConstants == Drafts # {} /\ None \notin Sales /\ MaxChargeKeys \in Nat


-----------------------------------------------------------------------------
(* The quote on the screen *)

Asks == [draft: Drafts, latest: BOOLEAN]

LEMMA AskTyped ==
    ASSUME NEW d \in Drafts, NEW l \in BOOLEAN
    PROVE  LET q == [draft |-> d, latest |-> l] IN q \in Asks /\ q.draft = d /\ q.latest = l
BY DEF Asks

\* A panel is sound that shows d, with the questions and the quote it has.
LEMMA PanelOf ==
    ASSUME NEW d \in Drafts, NEW quote \in Panel!Quotes, NEW loading \in BOOLEAN,
           NEW asked \in SUBSET Asks,
           loading <=> \E q \in asked : q.latest,
           \A q \in asked : q.latest => q.draft = d,
           quote # Panel!NoQuote /\ ~loading => quote.draft = d
    PROVE  SoundPanel([draft |-> d, quote |-> quote, loading |-> loading, asked |-> asked])
<1> DEFINE p == [draft |-> d, quote |-> quote, loading |-> loading, asked |-> asked]
<1>1. p \in Panel!Panels
    BY DEF Panel!Panels, Asks
<1>2. p.draft = d /\ p.quote = quote /\ p.loading = loading /\ p.asked = asked
    OBVIOUS
<1> HIDE DEF p
<1>3. SoundPanel(p)
    BY <1>1, <1>2 DEF SoundPanel
<1> QED BY <1>3 DEF p

LEMMA NoQuoteTyped == Panel!NoQuote \in Panel!Quotes
BY DEF Panel!Quotes

LEMMA OneAsk ==
    ASSUME NEW old \in SUBSET Asks, \A q \in old : ~q.latest, NEW d \in Drafts
    PROVE  LET asked == old \cup {[draft |-> d, latest |-> TRUE]} IN
           /\ asked \in SUBSET Asks
           /\ TRUE <=> \E q \in asked : q.latest
           /\ \A q \in asked : q.latest => q.draft = d
<1> DEFINE new == [draft |-> d, latest |-> TRUE]
<1>1. new \in Asks /\ new.latest = TRUE /\ new.draft = d
    BY AskTyped
<1> HIDE DEF new
<1>2. \A q \in old \cup {new} : q \in Asks /\ (q.latest => q.draft = d)
    BY <1>1
<1>3. \E q \in old \cup {new} : q.latest
    BY <1>1
<1> QED BY <1>2, <1>3 DEF new

LEMMA MountedSound ==
    ASSUME PanelConstants, NEW c, NEW confirmed \in BOOLEAN
    PROVE  SoundPanel(Panel!Mounted(c, confirmed))
<1>1. Panel!Initial \in Drafts
    BY DEF PanelConstants, Panel!Initial
<1>2. CASE c # None /\ ~confirmed
  <2> DEFINE asked == {} \cup {[draft |-> Panel!Initial, latest |-> TRUE]}
  <2>1. Panel!Mounted(c, confirmed) =
          [draft |-> Panel!Initial, quote |-> Panel!NoQuote, loading |-> TRUE, asked |-> asked]
      BY <1>2 DEF Panel!Mounted
  <2>2. /\ asked \in SUBSET Asks
        /\ TRUE <=> \E q \in asked : q.latest
        /\ \A q \in asked : q.latest => q.draft = Panel!Initial
    <3>1. {} \in SUBSET Asks /\ \A q \in {} : ~q.latest
        OBVIOUS
    <3> QED BY <1>1, <3>1, OneAsk
  <2> HIDE DEF asked
  <2> QED BY <1>1, <2>1, <2>2, PanelOf, NoQuoteTyped
<1>3. CASE ~(c # None /\ ~confirmed)
  <2>1. Panel!Mounted(c, confirmed) =
          [draft |-> Panel!Initial, quote |-> Panel!NoQuote, loading |-> FALSE, asked |-> {}]
      BY <1>3 DEF Panel!Mounted
  <2> QED BY <1>1, <2>1, PanelOf, NoQuoteTyped
<1> QED BY <1>2, <1>3

LEMMA OlderSound ==
    ASSUME NEW asked \in SUBSET Asks
    PROVE  Panel!Older(asked) \in SUBSET Asks /\ \A q \in Panel!Older(asked) : ~q.latest
<1> SUFFICES ASSUME NEW q \in Panel!Older(asked) PROVE q \in Asks /\ ~q.latest
    OBVIOUS
<1>1. PICK r \in asked : q = [draft |-> r.draft, latest |-> FALSE]
    BY DEF Panel!Older
<1>2. r.draft \in Drafts
    BY DEF Asks
<1> QED BY <1>1, <1>2, AskTyped

LEMMA PanelTyped ==
    ASSUME NEW p \in Panel!Panels
    PROVE  /\ p.draft \in Drafts /\ p.quote \in Panel!Quotes /\ p.asked \in SUBSET Asks
           /\ p.loading \in BOOLEAN
BY DEF Panel!Panels, Asks

LEMMA RequotedSound ==
    ASSUME NEW p \in Panel!Panels, NEW d \in Drafts, NEW c, NEW confirmed \in BOOLEAN
    PROVE  SoundPanel(Panel!Requoted(p, d, c, confirmed))
<1> DEFINE old == Panel!Older(p.asked)
<1>1. old \in SUBSET Asks /\ \A q \in old : ~q.latest
    BY PanelTyped, OlderSound
<1>2. CASE c = None \/ confirmed
  <2>1. Panel!Requoted(p, d, c, confirmed) =
          [draft |-> d, quote |-> Panel!NoQuote, loading |-> FALSE, asked |-> old]
      BY <1>2 DEF Panel!Requoted
  <2> HIDE DEF old
  <2> QED BY <1>1, <2>1, PanelOf, NoQuoteTyped
<1>3. CASE ~(c = None \/ confirmed)
  <2> DEFINE asked == old \cup {[draft |-> d, latest |-> TRUE]}
  <2>1. Panel!Requoted(p, d, c, confirmed) =
          [draft |-> d, quote |-> p.quote, loading |-> TRUE, asked |-> asked]
      BY <1>3 DEF Panel!Requoted
  <2>2. /\ asked \in SUBSET Asks
        /\ TRUE <=> \E q \in asked : q.latest
        /\ \A q \in asked : q.latest => q.draft = d
      BY <1>1, OneAsk
  <2> HIDE DEF old, asked
  <2> QED BY <2>1, <2>2, PanelOf, PanelTyped
<1> QED BY <1>2, <1>3

LEMMA PanelParts ==
    ASSUME PanelSound
    PROVE  /\ panel \in Panel!Panels /\ panel.draft \in Drafts /\ panel.quote \in Panel!Quotes
           /\ panel.asked \in SUBSET Asks /\ panel.loading \in BOOLEAN
           /\ shown \in Shown
<1>1. panel \in Panel!Panels
    BY Zenon DEF PanelSound, SoundPanel
<1>2. shown \in Shown
    BY Zenon DEF PanelSound
<1> QED BY <1>1, <1>2, PanelTyped

LEMMA SelectPanel ==
    ASSUME PanelConstants, PanelSound, NEW s \in Sales \cup {None}, Panel!Select(s)
    PROVE  PanelSound'
<1> DEFINE c == IF s = None THEN None ELSE shown.session
           confirmed == Panel!Confirmed(s)
           new == [shown EXCEPT !.sale = s]
<1>1. shown' = new /\ panel' = Panel!Mounted(c, confirmed)
    BY DEF Panel!Select
<1>2. new \in Shown /\ new.sale = s
    BY PanelParts DEF Shown
<1>3. confirmed \in BOOLEAN
    BY DEF Panel!Confirmed
<1>4. s = None => Panel!Mounted(c, confirmed).asked = {}
    BY DEF Panel!Mounted
<1> HIDE DEF c, confirmed, new
<1>5. SoundPanel(Panel!Mounted(c, confirmed))
    BY <1>3, MountedSound
<1>6. SoundPanel(panel)'
    BY <1>1, <1>5 DEF SoundPanel
<1> QED BY <1>1, <1>2, <1>4, <1>6 DEF PanelSound

\* What the panel of a sale on the screen becomes when its quote is asked for again.
LEMMA RequotedPanel ==
    ASSUME PanelSound, shown'.sale # None,
           shown' \in Shown,
           NEW p \in Panel!Panels, NEW d \in Drafts, NEW c, NEW confirmed \in BOOLEAN,
           panel' = Panel!Requoted(p, d, c, confirmed)
    PROVE  PanelSound'
<1>1. SoundPanel(Panel!Requoted(p, d, c, confirmed))
    BY RequotedSound
<1>2. SoundPanel(panel)'
    BY <1>1 DEF SoundPanel
<1> QED BY <1>2 DEF PanelSound

LEMMA SamePanel ==
    ASSUME PanelSound, UNCHANGED <<shown, panel>>
    PROVE  PanelSound'
BY DEF PanelSound, SoundPanel

LEMMA ChangeSessionPanel ==
    ASSUME PanelSound, NEW c \in CashSessions \cup {None}, Panel!ChangeSession(c)
    PROVE  PanelSound'
<1> DEFINE new == [shown EXCEPT !.session = c]
           confirmed == Panel!Confirmed(shown.sale)
<1>1. shown' = new /\ new.sale = shown.sale
      /\ new \in Shown
    BY PanelParts DEF Panel!ChangeSession, Shown
<1>2. confirmed \in BOOLEAN
    BY DEF Panel!Confirmed
<1>3. panel' = panel \/ (shown.sale # None /\ panel' = Panel!Requoted(panel, panel.draft, c, confirmed))
    BY Zenon DEF Panel!ChangeSession
<1> HIDE DEF new, confirmed
<1>4. panel \in Panel!Panels /\ panel.draft \in Drafts
    BY PanelParts
<1>5. CASE panel' = panel
    BY <1>1, <1>5 DEF PanelSound, SoundPanel
<1>6. CASE shown.sale # None /\ panel' = Panel!Requoted(panel, panel.draft, c, confirmed)
    BY <1>1, <1>2, <1>4, <1>6, RequotedPanel
<1> QED BY <1>3, <1>5, <1>6

LEMMA EditPanel ==
    ASSUME PanelSound, NEW d \in Drafts, Panel!Edit(d)
    PROVE  PanelSound'
<1>1. shown' = shown /\ shown.sale # None /\ panel' = Panel!Requoted(panel, d, shown.session, FALSE)
    BY Zenon DEF Panel!Edit
<1> QED BY <1>1, PanelParts, RequotedPanel

LEMMA QuoteAnsweredPanel ==
    ASSUME PanelConstants, PanelSound, ServerTyped,
           NEW q \in panel.asked, NEW answered \in BOOLEAN, Panel!QuoteAnswered(q, answered)
    PROVE  PanelSound'
<1>0. /\ panel \in Panel!Panels /\ panel.draft \in Drafts /\ panel.quote \in Panel!Quotes
      /\ panel.asked \in SUBSET Asks /\ panel.loading \in BOOLEAN
      /\ shown' = shown /\ shown.sale \in Sales
  <2>1. shown' = shown
      BY DEF Panel!QuoteAnswered
  <2>2. shown.sale # None
      BY Zenon DEF PanelSound
  <2> QED BY <2>1, <2>2, PanelParts DEF Shown
<1> DEFINE rest == panel.asked \ {q}
<1>1. rest \in SUBSET Asks /\ \A r \in rest : r.latest => r.draft = panel.draft
    BY <1>0 DEF PanelSound, SoundPanel
<1>2. CASE q.latest
  <2> DEFINE quote == IF answered
                      THEN [draft |-> q.draft, price |-> server.price[shown.sale]]
                      ELSE Panel!NoQuote
  <2>1. panel' = [draft |-> panel.draft, quote |-> quote, loading |-> FALSE, asked |-> rest]
      BY <1>2 DEF Panel!QuoteAnswered, Panel!IsLatest
  <2>2. q.draft = panel.draft
      BY <1>2 DEF PanelSound, SoundPanel
  <2>3. quote \in Panel!Quotes /\ (quote # Panel!NoQuote => quote.draft = panel.draft)
      BY <1>0, <2>2 DEF ServerTyped, Panel!Quotes
  <2>4. \A r \in rest : ~r.latest
    <3> SUFFICES ASSUME NEW r \in rest, r.latest PROVE FALSE
        OBVIOUS
    <3>1. r \in Asks /\ q \in Asks /\ r.draft = q.draft /\ r # q
        BY <1>0, <1>1, <2>2
    <3>2. r.latest = q.latest
        BY <1>2, <3>1 DEF Asks
    <3>3. r = [draft |-> r.draft, latest |-> r.latest] /\ q = [draft |-> q.draft, latest |-> q.latest]
        BY <3>1 DEF Asks
    <3> QED BY <3>1, <3>2, <3>3
  <2> HIDE DEF rest, quote
  <2>5. SoundPanel(panel')
      BY <1>0, <1>1, <2>1, <2>3, <2>4, PanelOf
  <2>6. panel'.asked = rest
      BY <2>1
  <2> QED BY <1>0, <2>5, PanelConstants DEF PanelSound, PanelConstants, SoundPanel
<1>3. CASE ~q.latest
  <2>1. panel' = [panel EXCEPT !.asked = rest]
      BY <1>3 DEF Panel!QuoteAnswered, Panel!IsLatest
  <2>2. panel' = [draft |-> panel.draft, quote |-> panel.quote, loading |-> panel.loading,
                  asked |-> rest]
      BY <1>0, <2>1 DEF Panel!Panels
  <2>3. panel.loading <=> \E r \in rest : r.latest
    <3>1. panel.loading <=> \E r \in panel.asked : r.latest
        BY Zenon DEF PanelSound, SoundPanel
    <3> QED BY <1>3, <3>1, Zenon
  <2>4. panel.quote # Panel!NoQuote /\ ~panel.loading => panel.quote.draft = panel.draft
      BY DEF PanelSound, SoundPanel
  <2> HIDE DEF rest
  <2>5. SoundPanel(panel')
      BY <1>0, <1>1, <2>2, <2>3, <2>4, PanelOf
  <2> QED BY <1>0, <2>5 DEF PanelSound, PanelConstants, SoundPanel
<1> QED BY <1>2, <1>3

-----------------------------------------------------------------------------
(* What changes of the attempts, the requests and the holdings keep *)

LEMMA FewerRequests ==
    ASSUME NEW of, NEW a, NEW f, NEW n, NEW ms, NEW h, ChargesSound(of, a, f, n, ms, h),
           NEW fewer \in SUBSET ms
    PROVE  ChargesSound(of, a, f, n, fewer, h)
BY DEF ChargesSound, OnePerSale

\* A request like one that was under way, which the page awaits only if it awaited that one.
LEMMA OneMoreRequest ==
    ASSUME NEW of, NEW a, NEW f, NEW n, NEW ms, NEW h, ChargesSound(of, a, f, n, ms, h),
           NEW r \in Panel!Requests, RequestSound(r, of, a, f, n, h),
           r.by = "page" => \A m \in ms : m.by = "page" => m.sale # r.sale
    PROVE  ChargesSound(of, a, f, n, ms \cup {r}, h)
<1>1. \A m \in ms \cup {r} : m \in Panel!Requests /\ RequestSound(m, of, a, f, n, h)
    BY DEF ChargesSound
<1>2. OnePerSale(ms \cup {r})
    BY DEF ChargesSound, OnePerSale
<1> QED BY <1>1, <1>2 DEF ChargesSound

\* The attempt of a sale nothing is awaited for, and the sales in flight but for that one.
LEMMA AttemptChanges ==
    ASSUME NEW of, NEW a, NEW f, NEW n, NEW ms, NEW h, ChargesSound(of, a, f, n, ms, h),
           NEW s \in Sales, \A m \in ms : m.by = "page" => m.sale # s,
           NEW x \in Panel!Attempts, AttemptSound(x, s, of, n, h),
           NEW g \in SUBSET Sales, f \ {s} \subseteq g
    PROVE  ChargesSound(of, [a EXCEPT ![s] = x], g, n, ms, h)
<1> DEFINE b == [a EXCEPT ![s] = x]
<1>1. b \in [Sales -> Panel!Attempts] /\ b[s] = x /\ \A t \in Sales \ {s} : b[t] = a[t]
    BY DEF ChargesSound
<1> HIDE DEF b
<1>2. \A t \in Sales : AttemptSound(b[t], t, of, n, h)
    BY <1>1 DEF ChargesSound
<1>3. \A m \in ms : RequestSound(m, of, b, g, n, h)
  <2> SUFFICES ASSUME NEW m \in ms PROVE RequestSound(m, of, b, g, n, h)
      OBVIOUS
  <2>1. RequestSound(m, of, a, f, n, h) /\ m.sale \in Sales
      BY DEF ChargesSound, Panel!Requests
  <2>2. ASSUME m.by = "page" PROVE Awaited(m, b, g)
      BY <1>1, <2>1, <2>2 DEF RequestSound, Awaited
  <2> QED BY <2>1, <2>2 DEF RequestSound
<1>4. ChargesSound(of, b, g, n, ms, h)
    BY <1>1, <1>2, <1>3 DEF ChargesSound
<1> QED BY <1>4 DEF b

\* The server never forgets a key, nor takes back a confirmation.
LEMMA HoldingChanges ==
    ASSUME NEW of, NEW a, NEW f, NEW n, NEW ms, NEW h, ChargesSound(of, a, f, n, ms, h),
           NEW k \in Panel!Keys, NEW x \in Panel!Holdings, HoldingSound(x, k, of, n),
           h[k].state # "none" => x.state # "none",
           h[k].state = "CONFIRMED" => x.state = "CONFIRMED"
    PROVE  ChargesSound(of, a, f, n, ms, [h EXCEPT ![k] = x])
<1> DEFINE g == [h EXCEPT ![k] = x]
<1>1. g \in [Panel!Keys -> Panel!Holdings] /\ g[k] = x /\ \A j \in Panel!Keys \ {k} : g[j] = h[j]
    BY DEF ChargesSound
<1> HIDE DEF g
<1>2. \A j \in Panel!Keys :
          /\ HoldingSound(g[j], j, of, n)
          /\ h[j].state # "none" => g[j].state # "none"
          /\ h[j].state = "CONFIRMED" => g[j].state = "CONFIRMED"
    BY <1>1 DEF ChargesSound
<1>3. \A m \in ms : RequestSound(m, of, a, f, n, g)
    BY <1>2 DEF ChargesSound, RequestSound, Panel!Requests
<1>4. \A s \in Sales : AttemptSound(a[s], s, of, n, g)
  <2> SUFFICES ASSUME NEW s \in Sales PROVE AttemptSound(a[s], s, of, n, g)
      OBVIOUS
  <2>1. AttemptSound(a[s], s, of, n, h) /\ a[s] \in Panel!Attempts
      BY DEF ChargesSound
  <2>2. a[s].phase # "none" => a[s].key \in Panel!Keys
      BY <2>1 DEF Panel!Attempts, Panel!NoAttempt
  <2>3. a[s].state = "CONFIRMED" => a[s].phase = "CONFIRMATION"
      BY <2>1 DEF AttemptSound
  <2> QED BY <1>2, <2>1, <2>2, <2>3 DEF AttemptSound
<1>5. ChargesSound(of, a, f, n, ms, g)
    BY <1>1, <1>2, <1>3, <1>4 DEF ChargesSound
<1> QED BY <1>5 DEF g

\* A key just minted is of no request, no attempt and no holding.
LEMMA KeyMinted ==
    ASSUME NEW of, NEW a, NEW f, NEW n, NEW ms, NEW h, ChargesSound(of, a, f, n, ms, h),
           MaxChargeKeys \in Nat, n < MaxChargeKeys,
           NEW s \in Sales, NEW body \in Panel!Body
    PROVE  /\ n + 1 \in Panel!Keys
           /\ \E new \in KeyOf :
                 ChargesSound(new, a, f, n + 1, ms, h) /\ Stands(new, n + 1, s, body)
<1>0. n \in Nat /\ n + 1 \in Panel!Keys /\ n + 1 \in 0 .. MaxChargeKeys
    BY DEF ChargesSound, Panel!Keys
<1> DEFINE at == [sale |-> s, body |-> body]
           new == [of EXCEPT ![n + 1] = at]
<1>1. /\ new \in KeyOf /\ new[n + 1] = at /\ at.sale = s /\ at.body = body
      /\ \A k \in Panel!Keys : k # n + 1 => new[k] = of[k]
    BY <1>0 DEF ChargesSound, KeyOf
<1> HIDE DEF at, new
<1>2. ASSUME NEW k \in Panel!Keys, k <= n PROVE new[k] = of[k] /\ k <= n + 1
    BY <1>0, <1>1, <1>2 DEF Panel!Keys
<1>3. \A m \in ms : RequestSound(m, new, a, f, n + 1, h)
    BY <1>2 DEF ChargesSound, RequestSound, Stands, Panel!Requests
<1>4. \A t \in Sales : AttemptSound(a[t], t, new, n + 1, h)
  <2> SUFFICES ASSUME NEW t \in Sales PROVE AttemptSound(a[t], t, new, n + 1, h)
      OBVIOUS
  <2>1. AttemptSound(a[t], t, of, n, h) /\ a[t] \in Panel!Attempts
      BY DEF ChargesSound
  <2>2. a[t].phase # "none" => a[t].key \in Panel!Keys /\ a[t].key <= n
      BY <2>1 DEF Panel!Attempts, Panel!NoAttempt, AttemptSound
  <2> QED BY <1>2, <2>1, <2>2 DEF AttemptSound, Stands
<1>5. \A k \in Panel!Keys : HoldingSound(h[k], k, new, n + 1)
    BY <1>2 DEF ChargesSound, HoldingSound, Stands
<1>6. ChargesSound(new, a, f, n + 1, ms, h)
    BY <1>0, <1>1, <1>3, <1>4, <1>5 DEF ChargesSound
<1> QED BY <1>0, <1>1, <1>6 DEF Stands

-----------------------------------------------------------------------------
(* Answers *)

LEMMA RequestFields ==
    ASSUME NEW m \in Panel!Requests
    PROVE  /\ m.kind \in {"reserve", "confirm"} /\ m.sale \in Sales /\ m.key \in Panel!Keys
           /\ m.body \in Panel!Body /\ m.reply \in {"none", "ok", "changed", "refused"}
           /\ m.by \in {"page", "gone", "nobody"}
BY DEF Panel!Requests

LEMMA AttemptFields ==
    ASSUME NEW x \in Panel!Attempts, x.phase # "none"
    PROVE  /\ x.key \in Panel!Keys /\ x.body \in Panel!Body
           /\ x.phase \in {"RESERVATION", "CONFIRMATION"}
           /\ x.state \in {"PENDING", "UNCERTAIN", "CONFIRMED"}
BY DEF Panel!Attempts, Panel!NoAttempt

\* The attempt that an answer to m leaves.
LEMMA StartedSound ==
    ASSUME NEW of, NEW a, NEW f, NEW n, NEW h, NEW m \in Panel!Requests,
           RequestSound(m, of, a, f, n, h),
           NEW phase \in {"RESERVATION", "CONFIRMATION"},
           NEW state \in {"PENDING", "UNCERTAIN", "CONFIRMED"},
           phase = "CONFIRMATION" => h[m.key].state # "none",
           state = "CONFIRMED" => phase = "CONFIRMATION" /\ h[m.key].state = "CONFIRMED"
    PROVE  /\ Panel!Started(m, phase, state) \in Panel!Attempts
           /\ AttemptSound(Panel!Started(m, phase, state), m.sale, of, n, h)
           /\ Panel!Started(m, phase, state).key = m.key
           /\ Panel!Started(m, phase, state).phase = phase
           /\ Panel!Started(m, phase, state).state = state
<1> DEFINE x == Panel!Started(m, phase, state)
<1>1. /\ x.key = m.key /\ x.phase = phase /\ x.state = state /\ x.body = m.body
      /\ x \in Panel!Attempts
    BY RequestFields DEF Panel!Started, Panel!Attempts
<1> HIDE DEF x
<1>2. AttemptSound(x, m.sale, of, n, h)
    BY <1>1 DEF AttemptSound, RequestSound
<1> QED BY <1>1, <1>2 DEF x

\* The confirmation that follows a reservation, sent by the page or by what is left of it.
LEMMA ConfirmationSound ==
    ASSUME NEW of, NEW a, NEW f, NEW n, NEW h, NEW m \in Panel!Requests,
           RequestSound(m, of, a, f, n, h), h[m.key].state # "none",
           NEW by \in {"page", "gone"}, NEW r,
           r = [kind |-> "confirm", sale |-> m.sale, key |-> m.key, body |-> m.body,
                reply |-> "none", by |-> by],
           NEW b, NEW g, by = "page" => Awaited(r, b, g)
    PROVE  r \in Panel!Requests /\ RequestSound(r, of, b, g, n, h)
<1>1. /\ r.kind = "confirm" /\ r.sale = m.sale /\ r.key = m.key /\ r.body = m.body
      /\ r.reply = "none" /\ r.by = by
    OBVIOUS
<1>2. r \in Panel!Requests
    BY RequestFields DEF Panel!Requests
<1> QED BY <1>1, <1>2 DEF RequestSound

\* What the handler of an answer, or of a request given up, leaves of the other requests (rest).
Handles(of, m, reply, rest) ==
    /\ m \in net /\ reply \in {m.reply, "failed"}
    /\ ChargesSound(of, attempts, inFlight, chargeKeys.minted, rest, server.held)
    /\ m.by = "page" => \A r \in rest : r.by = "page" => r.sale # m.sale

LEMMA ReservationCharges ==
    ASSUME NEW of, ChargesSound(of, attempts, inFlight, chargeKeys.minted, net, server.held),
           NEW m, NEW reply, NEW rest, Handles(of, m, reply, rest), m.kind = "reserve",
           m.by = "page", Panel!ReservationAnswered(m, reply, rest)
    PROVE  ChargesSound(of, attempts', inFlight', chargeKeys.minted, net', server.held)
<1> DEFINE h == server.held
           n == chargeKeys.minted
<1>1. /\ m \in Panel!Requests /\ m.sale \in Sales /\ m.by = "page"
      /\ RequestSound(m, of, attempts, inFlight, n, h)
      /\ \A r \in rest : r.by = "page" => r.sale # m.sale
      /\ ChargesSound(of, attempts, inFlight, n, rest, h)
      /\ m.sale \in inFlight /\ inFlight \in SUBSET Sales
    BY RequestFields DEF Handles, ChargesSound, RequestSound, Awaited
<1> HIDE DEF h, n
<1>2. CASE reply = "ok"
  <2> DEFINE x == Panel!Started(m, "CONFIRMATION", "PENDING")
             b == [attempts EXCEPT ![m.sale] = x]
             r == Panel!Request("confirm", m.sale, m.key, Panel!ConfirmationBody(m))
  <2>1. attempts' = b /\ net' = rest \cup {r} /\ inFlight' = inFlight
      BY <1>2 DEF Panel!ReservationAnswered
  <2>2. h[m.key].state # "none"
      BY <1>1, <1>2 DEF Handles, RequestSound
  <2>3. /\ x \in Panel!Attempts /\ AttemptSound(x, m.sale, of, n, h)
        /\ x.key = m.key /\ x.phase = "CONFIRMATION" /\ x.state = "PENDING"
      BY <1>1, <2>2, StartedSound
  <2>4. r = [kind |-> "confirm", sale |-> m.sale, key |-> m.key, body |-> m.body,
             reply |-> "none", by |-> "page"]
      BY DEF Panel!Request, Panel!ConfirmationBody
  <2>5. b[m.sale] = x
      BY <1>1 DEF ChargesSound
  <2> HIDE DEF x, b
  <2>6. ChargesSound(of, b, inFlight, n, rest, h)
      BY <1>1, <2>3, AttemptChanges DEF b
  <2> HIDE DEF r
  <2>7. Awaited(r, b, inFlight)
      BY <1>1, <2>3, <2>4, <2>5 DEF Awaited
  <2>8. r \in Panel!Requests /\ RequestSound(r, of, b, inFlight, n, h)
      BY <1>1, <2>2, <2>4, <2>7, ConfirmationSound
  <2>9. r.sale = m.sale
      BY <2>4
  <2> QED BY <1>1, <2>1, <2>6, <2>8, <2>9, OneMoreRequest DEF h, n
<1>3. CASE reply # "ok" /\ Panel!Discards(reply)
  <2> DEFINE x == Panel!NoAttempt
  <2>1. attempts' = [attempts EXCEPT ![m.sale] = x] /\ net' = rest /\ inFlight' = inFlight \ {m.sale}
      BY <1>3 DEF Panel!ReservationAnswered
  <2>2. x \in Panel!Attempts /\ AttemptSound(x, m.sale, of, n, h)
      BY DEF Panel!Attempts, AttemptSound, Panel!NoAttempt
  <2> HIDE DEF x
  <2>3. inFlight \ {m.sale} \in SUBSET Sales
      BY <1>1
  <2> QED BY <1>1, <2>1, <2>2, <2>3, AttemptChanges DEF h, n
<1>4. CASE ~(reply = "ok") /\ ~(reply # "ok" /\ Panel!Discards(reply))
  <2> DEFINE x == Panel!Started(m, "RESERVATION", "UNCERTAIN")
  <2>1. attempts' = [attempts EXCEPT ![m.sale] = x] /\ net' = rest /\ inFlight' = inFlight \ {m.sale}
      BY <1>4 DEF Panel!ReservationAnswered
  <2>2. x \in Panel!Attempts /\ AttemptSound(x, m.sale, of, n, h)
      BY <1>1, StartedSound
  <2> HIDE DEF x
  <2>3. inFlight \ {m.sale} \in SUBSET Sales
      BY <1>1
  <2> QED BY <1>1, <2>1, <2>2, <2>3, AttemptChanges DEF h, n
<1> QED BY <1>2, <1>3, <1>4

LEMMA ConfirmationCharges ==
    ASSUME NEW of, ChargesSound(of, attempts, inFlight, chargeKeys.minted, net, server.held),
           NEW m, NEW reply, NEW rest, Handles(of, m, reply, rest), m.kind = "confirm",
           m.by = "page", Panel!ConfirmationAnswered(m, reply, rest)
    PROVE  ChargesSound(of, attempts', inFlight', chargeKeys.minted, net', server.held)
<1> DEFINE h == server.held
           n == chargeKeys.minted
           state == IF reply = "ok" THEN "CONFIRMED" ELSE "UNCERTAIN"
           x == Panel!Started(m, "CONFIRMATION", state)
<1>1. /\ m \in Panel!Requests /\ m.sale \in Sales /\ m.by = "page"
      /\ RequestSound(m, of, attempts, inFlight, n, h)
      /\ \A r \in rest : r.by = "page" => r.sale # m.sale
      /\ ChargesSound(of, attempts, inFlight, n, rest, h)
      /\ inFlight \ {m.sale} \in SUBSET Sales
    BY RequestFields DEF Handles, ChargesSound
<1>2. attempts' = [attempts EXCEPT ![m.sale] = x] /\ net' = rest /\ inFlight' = inFlight \ {m.sale}
    BY DEF Panel!ConfirmationAnswered, Panel!Released
<1>3. h[m.key].state # "none" /\ (state = "CONFIRMED" => h[m.key].state = "CONFIRMED")
      /\ state \in {"PENDING", "UNCERTAIN", "CONFIRMED"}
    BY <1>1 DEF Handles, RequestSound
<1> HIDE DEF h, n, state
<1>4. x \in Panel!Attempts /\ AttemptSound(x, m.sale, of, n, h)
    BY <1>1, <1>3, StartedSound
<1> HIDE DEF x
<1> QED BY <1>1, <1>2, <1>4, AttemptChanges DEF h, n

LEMMA HandledCharges ==
    ASSUME NEW of, ChargesSound(of, attempts, inFlight, chargeKeys.minted, net, server.held),
           NEW m, NEW reply, NEW rest, Handles(of, m, reply, rest),
           Panel!Handled(m, reply, rest)
    PROVE  ChargesSound(of, attempts', inFlight', chargeKeys.minted, net', server.held)
<1>1. m \in Panel!Requests /\ m.kind \in {"reserve", "confirm"}
      /\ RequestSound(m, of, attempts, inFlight, chargeKeys.minted, server.held)
      /\ ChargesSound(of, attempts, inFlight, chargeKeys.minted, rest, server.held)
    BY RequestFields DEF Handles, ChargesSound
<1>2. CASE m.by = "page" /\ Panel!Answered(m, reply, rest)
  <2>1. CASE m.kind = "reserve"
      BY <1>2, <2>1, ReservationCharges DEF Panel!Answered
  <2>2. CASE m.kind = "confirm"
      BY <1>2, <2>2, ConfirmationCharges DEF Panel!Answered
  <2> QED BY <1>1, <2>1, <2>2
<1>3. CASE m.by = "gone" /\ Panel!AnsweredLater(m, reply, rest)
  <2> DEFINE r == [Panel!Request("confirm", m.sale, m.key, Panel!ConfirmationBody(m)) EXCEPT !.by = "gone"]
  <2>1. UNCHANGED <<attempts, inFlight>>
      BY <1>3 DEF Panel!AnsweredLater
  <2>2. CASE m.kind = "reserve" /\ reply = "ok"
    <3>1. net' = rest \cup {r}
        BY <1>3, <2>2 DEF Panel!AnsweredLater
    <3>2. server.held[m.key].state # "none"
        BY <1>1, <2>2 DEF Handles, RequestSound
    <3>3. r = [kind |-> "confirm", sale |-> m.sale, key |-> m.key, body |-> m.body,
               reply |-> "none", by |-> "gone"]
        BY DEF Panel!Request, Panel!ConfirmationBody
    <3> HIDE DEF r
    <3>4. r \in Panel!Requests
          /\ RequestSound(r, of, attempts, inFlight, chargeKeys.minted, server.held)
        BY <1>1, <3>2, <3>3, ConfirmationSound
    <3>5. r.by = "gone"
        BY <3>3
    <3> QED BY <1>1, <2>1, <3>1, <3>4, <3>5, OneMoreRequest
  <2>3. CASE ~(m.kind = "reserve" /\ reply = "ok")
      BY <1>1, <1>3, <2>1, <2>3 DEF Panel!AnsweredLater
  <2> QED BY <2>2, <2>3
<1> QED BY <1>2, <1>3 DEF Panel!Handled

-----------------------------------------------------------------------------
(* Every action keeps the charges *)

LEMMA ConfirmCharges ==
    ASSUME PanelConstants, PanelSound, ChargeInv, Panel!Confirm
    PROVE  ChargeInv'
<1> DEFINE s == shown.sale
           body == Panel!ReservationBody
           k == chargeKeys.minted + 1
           x == [phase |-> "RESERVATION", state |-> "PENDING", key |-> k, body |-> body]
           b == [attempts EXCEPT ![s] = x]
           g == inFlight \cup {s}
           r == Panel!Request("reserve", s, k, body)
           h == server.held
<1>1. PICK of \in KeyOf : ChargesSound(of, attempts, inFlight, chargeKeys.minted, net, h)
    BY DEF ChargeInv
<1>2. /\ s # None /\ shown.session # None /\ s \notin inFlight /\ chargeKeys.minted < MaxChargeKeys
      /\ panel.quote # Panel!NoQuote
      /\ chargeKeys' = [chargeKeys EXCEPT !.minted = k] /\ server' = server
      /\ attempts' = b /\ inFlight' = g /\ net' = net \cup {r}
  <2>1. k \in Panel!Keys => chargeKeys.minted < MaxChargeKeys
      BY DEF KeysSound, ChargeInv, PanelConstants, Panel!Keys
  <2> QED BY <2>1 DEF Panel!Confirm, Panel!Locked, Panel!QuoteMatchesDraft
<1>3. s \in Sales /\ body \in Panel!Body
  <2>1. s \in Sales /\ shown.session \in CashSessions
      BY <1>2, PanelParts DEF Shown
  <2>2. panel.draft \in Drafts /\ panel.quote.price \in Prices
      BY <1>2, PanelParts DEF Panel!Quotes
  <2> QED BY <2>1, <2>2 DEF Panel!ReservationBody, Panel!Body
<1> HIDE DEF s, body, h
<1>4. PICK new \in KeyOf : /\ k \in Panel!Keys
                           /\ ChargesSound(new, attempts, inFlight, k, net, h)
                           /\ Stands(new, k, s, body)
    BY <1>1, <1>2, <1>3, KeyMinted DEF PanelConstants
<1>5. /\ x \in Panel!Attempts /\ x.phase = "RESERVATION" /\ x.state = "PENDING" /\ x.key = k
      /\ x.body = body
    BY <1>3, <1>4 DEF Panel!Attempts
<1>6. r \in Panel!Requests /\ r.kind = "reserve" /\ r.sale = s /\ r.key = k /\ r.body = body
      /\ r.reply = "none" /\ r.by = "page"
    BY <1>3, <1>4 DEF Panel!Request, Panel!Requests
<1>7. b[s] = x /\ g \in SUBSET Sales /\ s \in g /\ inFlight \ {s} \subseteq g
    BY <1>3, <1>4 DEF ChargesSound
<1>8. \A m \in net : m.by = "page" => m.sale # s
    BY <1>2, <1>4 DEF ChargesSound, RequestSound, Awaited, s
<1>9. k <= k
    BY <1>4 DEF Panel!Keys
<1> HIDE DEF x, b, g, r, k
<1>10. AttemptSound(x, s, new, k, h)
    BY <1>4, <1>5, <1>9 DEF AttemptSound
<1>11. ChargesSound(new, b, g, k, net, h)
    BY <1>3, <1>4, <1>5, <1>7, <1>8, <1>10, AttemptChanges DEF b
<1>12. RequestSound(r, new, b, g, k, h)
    BY <1>4, <1>5, <1>6, <1>7, <1>9 DEF RequestSound, Awaited
<1>13. ChargesSound(new, b, g, k, net \cup {r}, h)
    BY <1>6, <1>8, <1>11, <1>12, OneMoreRequest
<1>14. KeysSound' /\ chargeKeys'.minted = k
    BY <1>2, <1>4 DEF ChargeInv, KeysSound, Panel!Keys, k
<1> QED BY <1>2, <1>13, <1>14 DEF ChargeInv, ServerTyped, h

LEMMA RetryCharges ==
    ASSUME PanelConstants, PanelSound, ChargeInv, Panel!Retry
    PROVE  ChargeInv'
<1> DEFINE s == shown.sale
           x == attempts[s]
           g == inFlight \cup {s}
           kind == IF x.phase = "RESERVATION" THEN "reserve" ELSE "confirm"
           r == Panel!Request(kind, s, x.key, Panel!RetriedBody(s))
           h == server.held
<1>1. PICK of \in KeyOf : ChargesSound(of, attempts, inFlight, chargeKeys.minted, net, h)
    BY DEF ChargeInv
<1>2. /\ s # None /\ s \notin inFlight /\ x.phase # "none" /\ x.state = "UNCERTAIN"
      /\ inFlight' = g /\ net' = net \cup {r}
      /\ UNCHANGED <<attempts, chargeKeys, server>>
    BY DEF Panel!Retry, Panel!Locked
<1>3. s \in Sales
    BY <1>2, PanelParts DEF Shown
<1>4. attempts \in [Sales -> Panel!Attempts] /\ x \in Panel!Attempts /\ attempts[s] = x
      /\ AttemptSound(x, s, of, chargeKeys.minted, h)
    BY <1>1, <1>3 DEF ChargesSound
<1>5. /\ x.key \in Panel!Keys /\ x.body \in Panel!Body
      /\ x.phase \in {"RESERVATION", "CONFIRMATION"}
    BY <1>2, <1>4, AttemptFields
<1>6. /\ r \in Panel!Requests /\ r.kind = kind /\ r.sale = s /\ r.key = x.key /\ r.body = x.body
      /\ r.reply = "none" /\ r.by = "page"
    BY <1>3, <1>5 DEF Panel!Request, Panel!Requests, Panel!RetriedBody
<1>7. \A m \in net : m.by = "page" => m.sale # s
    BY <1>1, <1>2 DEF ChargesSound, RequestSound, Awaited
<1>8. g \in SUBSET Sales /\ s \in g /\ inFlight \ {s} \subseteq g
    BY <1>1, <1>3 DEF ChargesSound
<1>9. [attempts EXCEPT ![s] = x] = attempts
    BY <1>4
<1> HIDE DEF s, x, g, r, h
<1>10. ChargesSound(of, attempts, g, chargeKeys.minted, net, h)
  <2>1. ChargesSound(of, [attempts EXCEPT ![s] = x], g, chargeKeys.minted, net, h)
      BY <1>1, <1>3, <1>4, <1>7, <1>8, AttemptChanges
  <2> QED BY <1>9, <2>1
<1>11. RequestSound(r, of, attempts, g, chargeKeys.minted, h)
    BY <1>2, <1>4, <1>5, <1>6, <1>8 DEF RequestSound, Awaited, AttemptSound
<1>12. ChargesSound(of, attempts, g, chargeKeys.minted, net \cup {r}, h)
    BY <1>6, <1>7, <1>10, <1>11, OneMoreRequest
<1> QED BY <1>2, <1>12 DEF ChargeInv, KeysSound, ServerTyped, h

LEMMA ReceiveCharges ==
    ASSUME ChargeInv, NEW m \in net, Panel!Receive(m)
    PROVE  ChargeInv'
<1>1. PICK of \in KeyOf : ChargesSound(of, attempts, inFlight, chargeKeys.minted, net, server.held)
    BY DEF ChargeInv
<1>2. Panel!Handled(m, m.reply, net \ {m}) /\ UNCHANGED <<chargeKeys, server>>
    BY DEF Panel!Receive, Panel!Landed
<1>3. Handles(of, m, m.reply, net \ {m})
  <2>1. ChargesSound(of, attempts, inFlight, chargeKeys.minted, net \ {m}, server.held)
      BY <1>1, FewerRequests
  <2>2. \A r \in net \ {m} : r.by = "page" /\ m.by = "page" => r.sale # m.sale
      BY <1>1 DEF ChargesSound, OnePerSale
  <2> QED BY <2>1, <2>2 DEF Handles
<1>4. ChargesSound(of, attempts', inFlight', chargeKeys.minted, net', server.held)
    BY <1>1, <1>2, <1>3, HandledCharges
<1> QED BY <1>2, <1>4 DEF ChargeInv, KeysSound, ServerTyped

\* A request goes on though nobody waits for it.
LEMMA UnawaitedSound ==
    ASSUME NEW of, NEW a, NEW f, NEW n, NEW h, NEW m \in Panel!Requests,
           RequestSound(m, of, a, f, n, h), NEW by \in {"gone", "nobody"},
           NEW r, r = [m EXCEPT !.by = by], NEW b, NEW g
    PROVE  r \in Panel!Requests /\ r.by = by /\ RequestSound(r, of, b, g, n, h)
<1>1. /\ r \in Panel!Requests /\ r.by = by /\ r.kind = m.kind /\ r.sale = m.sale
      /\ r.key = m.key /\ r.body = m.body /\ r.reply = m.reply
    BY DEF Panel!Requests
<1>2. RequestSound(r, of, b, g, n, h)
    BY <1>1 DEF RequestSound
<1> QED BY <1>1, <1>2

LEMMA GiveUpCharges ==
    ASSUME ChargeInv, NEW m \in net, NEW delayed \in BOOLEAN, Panel!GiveUp(m, delayed)
    PROVE  ChargeInv'
<1> DEFINE r == [m EXCEPT !.by = "nobody"]
           rest == IF delayed THEN (net \ {m}) \cup {r} ELSE net \ {m}
<1>1. PICK of \in KeyOf : ChargesSound(of, attempts, inFlight, chargeKeys.minted, net, server.held)
    BY DEF ChargeInv
<1>2. Panel!Handled(m, "failed", rest) /\ UNCHANGED <<chargeKeys, server>>
    BY DEF Panel!GiveUp, Panel!Landed
<1>3. m \in Panel!Requests /\ RequestSound(m, of, attempts, inFlight, chargeKeys.minted, server.held)
    BY <1>1 DEF ChargesSound
<1>4. /\ r \in Panel!Requests /\ r.by = "nobody"
      /\ RequestSound(r, of, attempts, inFlight, chargeKeys.minted, server.held)
  <2> HIDE DEF rest
  <2>1. r = [m EXCEPT !.by = "nobody"] /\ "nobody" \in {"gone", "nobody"}
      OBVIOUS
  <2> HIDE DEF r
  <2> QED BY <1>3, <2>1, UnawaitedSound
<1>5. \A q \in net \ {m} : q.by = "page" /\ m.by = "page" => q.sale # m.sale
    BY <1>1 DEF ChargesSound, OnePerSale
<1> HIDE DEF r
<1>6. ChargesSound(of, attempts, inFlight, chargeKeys.minted, net \ {m}, server.held)
    BY <1>1, FewerRequests
<1>7. ChargesSound(of, attempts, inFlight, chargeKeys.minted, rest, server.held)
    BY <1>4, <1>6, OneMoreRequest
<1>8. Handles(of, m, "failed", rest)
    BY <1>4, <1>5, <1>7 DEF Handles
<1> HIDE DEF rest
<1>9. ChargesSound(of, attempts', inFlight', chargeKeys.minted, net', server.held)
    BY <1>1, <1>2, <1>8, HandledCharges
<1> QED BY <1>2, <1>9 DEF ChargeInv, KeysSound, ServerTyped

\* The page forgets its attempts and no request of it is left.
LEMMA ForgottenCharges ==
    ASSUME ChargeInv, Panel!Forgotten,
           \A r \in net' : \E m \in net, by \in {"gone", "nobody"} : r = [m EXCEPT !.by = by]
    PROVE  ChargeInv'
<1>1. PICK of \in KeyOf : ChargesSound(of, attempts, inFlight, chargeKeys.minted, net, server.held)
    BY DEF ChargeInv
<1>2. /\ attempts' = [s \in Sales |-> Panel!NoAttempt] /\ inFlight' = {}
      /\ chargeKeys' = [chargeKeys EXCEPT !.left = chargeKeys.minted] /\ UNCHANGED server
    BY DEF Panel!Forgotten
<1>3. ASSUME NEW r \in net'
      PROVE  /\ r \in Panel!Requests /\ r.by # "page"
             /\ RequestSound(r, of, attempts', inFlight', chargeKeys.minted, server.held)
  <2>1. PICK m \in net, by \in {"gone", "nobody"} : r = [m EXCEPT !.by = by]
      OBVIOUS
  <2>2. /\ m \in Panel!Requests
        /\ RequestSound(m, of, attempts, inFlight, chargeKeys.minted, server.held)
      BY <1>1 DEF ChargesSound
  <2> QED BY <2>1, <2>2, UnawaitedSound
<1>4. OnePerSale(net')
    BY <1>3 DEF OnePerSale
<1>5. Panel!NoAttempt \in Panel!Attempts
      /\ \A s \in Sales : AttemptSound(Panel!NoAttempt, s, of, chargeKeys.minted, server.held)
    BY DEF Panel!Attempts, Panel!NoAttempt, AttemptSound
<1>6. ChargesSound(of, attempts', inFlight', chargeKeys.minted, net', server.held)
    BY <1>1, <1>2, <1>3, <1>4, <1>5 DEF ChargesSound
<1>7. KeysSound' /\ chargeKeys'.minted = chargeKeys.minted
    BY <1>2 DEF ChargeInv, KeysSound
<1> QED BY <1>2, <1>6, <1>7 DEF ChargeInv, ServerTyped

\* A request is answered with what the server then holds.
LEMMA ReplySound ==
    ASSUME NEW of, NEW a, NEW f, NEW n, NEW h, ChargesSound(of, a, f, n, net, h),
           NEW m \in net, m.reply = "none", NEW reply \in {"ok", "changed", "refused"},
           reply = "ok" => h[m.key].state # "none",
           reply = "ok" /\ m.kind = "confirm" => h[m.key].state = "CONFIRMED",
           Panel!Reply(m, reply)
    PROVE  ChargesSound(of, a, f, n, net', h)
<1> DEFINE r == [m EXCEPT !.reply = reply]
           rest == net \ {m}
<1>1. m \in Panel!Requests /\ RequestSound(m, of, a, f, n, h)
    BY DEF ChargesSound
<1>2. /\ r \in Panel!Requests /\ r.kind = m.kind /\ r.sale = m.sale /\ r.key = m.key
      /\ r.body = m.body /\ r.by = m.by /\ r.reply = reply
    BY <1>1 DEF Panel!Requests
<1>3. net' = rest \/ net' = rest \cup {r}
    BY DEF Panel!Reply, Panel!Landed
<1> HIDE DEF r
<1>4. RequestSound(r, of, a, f, n, h)
    BY <1>1, <1>2 DEF RequestSound, Awaited
<1>5. r.by = "page" => \A q \in rest : q.by = "page" => q.sale # r.sale
    BY <1>2 DEF ChargesSound, OnePerSale
<1>6. ChargesSound(of, a, f, n, rest, h)
    BY FewerRequests
<1> HIDE DEF rest
<1>7. ChargesSound(of, a, f, n, rest \cup {r}, h)
    BY <1>2, <1>4, <1>5, <1>6, OneMoreRequest
<1> QED BY <1>3, <1>6, <1>7

LEMMA HoldingFields ==
    ASSUME NEW x \in Panel!Holdings
    PROVE  /\ x.state \in {"none", "RESERVED", "REJECTED", "CONFIRMED", "CLOSED"}
           /\ x.state # "none" => x.sale \in Sales /\ x.body \in Panel!Body
           /\ x.state # "none" => \A state \in {"RESERVED", "REJECTED", "CONFIRMED", "CLOSED"} :
                 [x EXCEPT !.state = state] \in Panel!Holdings
BY DEF Panel!Holdings, Panel!Nothing

\* What the server says changes of one holding, for a key that is of m or is left alone.
LEMMA HeldServer ==
    ASSUME ServerTyped, NEW k \in Panel!Keys, NEW x \in Panel!Holdings,
           server' = [server EXCEPT !.held = [server.held EXCEPT ![k] = x]]
    PROVE  ServerTyped' /\ server'.held = [server.held EXCEPT ![k] = x]
BY DEF ServerTyped

LEMMA ServeReservationCharges ==
    ASSUME ChargeInv, NEW m \in net, m.reply = "none", m.kind = "reserve",
           Panel!ServeReservation(m), UNCHANGED <<attempts, inFlight, chargeKeys>>
    PROVE  ChargeInv'
<1>1. PICK of \in KeyOf : ChargesSound(of, attempts, inFlight, chargeKeys.minted, net, server.held)
    BY DEF ChargeInv
<1> DEFINE h == server.held
           x == [sale |-> m.sale, state |-> "RESERVED", body |-> m.body]
<1>2. /\ m \in Panel!Requests /\ RequestSound(m, of, attempts, inFlight, chargeKeys.minted, h)
      /\ m.key \in Panel!Keys /\ m.sale \in Sales /\ m.body \in Panel!Body
    BY <1>1, RequestFields DEF ChargesSound
<1>3. ServerTyped
    BY DEF ChargeInv
<1>4. CASE /\ h[m.key].state # "none" /\ UNCHANGED server
           /\ \E reply \in {"ok", "refused"} : Panel!Reply(m, reply)
  <2>1. PICK reply \in {"ok", "refused"} : Panel!Reply(m, reply)
      BY <1>4
  <2>2. ChargesSound(of, attempts, inFlight, chargeKeys.minted, net', h)
      BY <1>1, <1>4, <2>1, ReplySound
  <2> QED BY <1>3, <1>4, <2>2 DEF ChargeInv, KeysSound, ServerTyped
<1>5. CASE /\ UNCHANGED server
           /\ \E reply \in {"changed", "refused"} : Panel!Reply(m, reply)
  <2>1. PICK reply \in {"changed", "refused"} : Panel!Reply(m, reply)
      BY <1>5
  <2>2. ChargesSound(of, attempts, inFlight, chargeKeys.minted, net', h)
      BY <1>1, <2>1, ReplySound
  <2> QED BY <1>3, <1>5, <2>2 DEF ChargeInv, KeysSound, ServerTyped
<1>6. CASE /\ h[m.key].state = "none" /\ Panel!Reply(m, "ok")
           /\ server' = [server EXCEPT !.held[m.key] = x]
  <2> DEFINE g == [h EXCEPT ![m.key] = x]
  <2>1. server' = [server EXCEPT !.held = g]
      BY <1>6
  <2>2. x \in Panel!Holdings /\ x.state = "RESERVED" /\ x.sale = m.sale /\ x.body = m.body
      BY <1>2 DEF Panel!Holdings
  <2>3. g[m.key] = x
      BY <1>2, <1>3 DEF ServerTyped
  <2> HIDE DEF x
  <2>4. ServerTyped' /\ server'.held = g
      BY <1>2, <1>3, <2>1, <2>2, HeldServer
  <2>5. HoldingSound(x, m.key, of, chargeKeys.minted)
      BY <1>2, <2>2 DEF HoldingSound, RequestSound
  <2>6. ChargesSound(of, attempts, inFlight, chargeKeys.minted, net, g)
      BY <1>1, <1>2, <1>6, <2>2, <2>5, HoldingChanges
  <2> HIDE DEF g, h
  <2>7. ChargesSound(of, attempts, inFlight, chargeKeys.minted, net', g)
      BY <1>6, <2>2, <2>3, <2>6, ReplySound
  <2> QED BY <2>4, <2>7 DEF ChargeInv, KeysSound
<1> QED BY <1>4, <1>5, <1>6 DEF Panel!ServeReservation

\* The state of a holding changes, and only from there on is it answered.
LEMMA StateChanges ==
    ASSUME ServerTyped, NEW of, NEW ms,
           ChargesSound(of, attempts, inFlight, chargeKeys.minted, ms, server.held),
           NEW k \in Panel!Keys, server.held[k].state # "none",
           NEW state \in {"RESERVED", "REJECTED", "CONFIRMED", "CLOSED"},
           server.held[k].state = "CONFIRMED" => state = "CONFIRMED",
           server' = [server EXCEPT !.held[k].state = state]
    PROVE  /\ ServerTyped' /\ server'.held[k].state = state
           /\ ChargesSound(of, attempts, inFlight, chargeKeys.minted, ms, server'.held)
<1> DEFINE h == server.held
           x == [h[k] EXCEPT !.state = state]
<1>1. h[k] \in Panel!Holdings /\ h \in [Panel!Keys -> Panel!Holdings]
    BY DEF ServerTyped
<1>2. x \in Panel!Holdings /\ x.state = state /\ x.sale = h[k].sale /\ x.body = h[k].body
    BY <1>1, HoldingFields DEF Panel!Holdings, Panel!Nothing
<1>3. server' = [server EXCEPT !.held = [h EXCEPT ![k] = x]]
    OBVIOUS
<1> HIDE DEF x
<1>4. ServerTyped' /\ server'.held = [h EXCEPT ![k] = x]
    BY <1>2, <1>3, HeldServer
<1>5. HoldingSound(x, k, of, chargeKeys.minted)
    BY <1>2 DEF HoldingSound, ChargesSound
<1>6. ChargesSound(of, attempts, inFlight, chargeKeys.minted, ms, [h EXCEPT ![k] = x])
    BY <1>2, <1>5, HoldingChanges
<1> QED BY <1>1, <1>2, <1>4, <1>6

LEMMA ServeConfirmationCharges ==
    ASSUME ChargeInv, NEW m \in net, m.reply = "none", m.kind = "confirm",
           Panel!ServeConfirmation(m), UNCHANGED <<attempts, inFlight, chargeKeys>>
    PROVE  ChargeInv'
<1>1. PICK of \in KeyOf : ChargesSound(of, attempts, inFlight, chargeKeys.minted, net, server.held)
    BY DEF ChargeInv
<1>3. /\ m \in Panel!Requests /\ m.key \in Panel!Keys /\ server.held[m.key].state # "none"
      /\ ServerTyped
    BY <1>1, RequestFields DEF ChargesSound, RequestSound, ChargeInv
<1>4. server.held[m.key] \in Panel!Holdings
    BY <1>3 DEF ServerTyped
<1>5. CASE Panel!Reply(m, "refused") /\ UNCHANGED server
  <2>1. ChargesSound(of, attempts, inFlight, chargeKeys.minted, net', server.held)
      BY <1>1, <1>5, ReplySound
  <2> QED BY <1>3, <1>5, <2>1 DEF ChargeInv, KeysSound, ServerTyped
<1>6. CASE \E state \in {"CONFIRMED", "REJECTED"} :
              LET now == IF server.held[m.key].state = "RESERVED" THEN state
                         ELSE server.held[m.key].state
              IN /\ server' = [server EXCEPT !.held[m.key].state = now]
                 /\ Panel!Reply(m, IF now = "CONFIRMED" THEN "ok" ELSE "refused")
  <2>1. PICK state \in {"CONFIRMED", "REJECTED"} :
           LET now == IF server.held[m.key].state = "RESERVED" THEN state
                      ELSE server.held[m.key].state
           IN /\ server' = [server EXCEPT !.held[m.key].state = now]
              /\ Panel!Reply(m, IF now = "CONFIRMED" THEN "ok" ELSE "refused")
      BY <1>6
  <2> DEFINE now == IF server.held[m.key].state = "RESERVED" THEN state
                    ELSE server.held[m.key].state
             reply == IF now = "CONFIRMED" THEN "ok" ELSE "refused"
  <2>2. /\ now \in {"RESERVED", "REJECTED", "CONFIRMED", "CLOSED"}
        /\ server.held[m.key].state = "CONFIRMED" => now = "CONFIRMED"
      BY <1>3, <1>4, HoldingFields
  <2>3. server' = [server EXCEPT !.held[m.key].state = now] /\ Panel!Reply(m, reply)
      BY <2>1
  <2> HIDE DEF now
  <2>4. /\ ServerTyped' /\ server'.held[m.key].state = now
        /\ ChargesSound(of, attempts, inFlight, chargeKeys.minted, net, server'.held)
      BY <1>1, <1>3, <2>2, <2>3, StateChanges
  <2>5. reply \in {"ok", "changed", "refused"} /\ (reply = "ok" => server'.held[m.key].state = "CONFIRMED")
      BY <2>4
  <2> HIDE DEF reply
  <2>6. ChargesSound(of, attempts, inFlight, chargeKeys.minted, net', server'.held)
      BY <2>3, <2>4, <2>5, ReplySound
  <2> QED BY <2>4, <2>6 DEF ChargeInv, KeysSound
<1> QED BY <1>5, <1>6 DEF Panel!ServeConfirmation

LEMMA CloseCharges ==
    ASSUME ChargeInv, NEW k \in Panel!Keys, Panel!Close(k)
    PROVE  ChargeInv'
<1>1. PICK of \in KeyOf : ChargesSound(of, attempts, inFlight, chargeKeys.minted, net, server.held)
    BY DEF ChargeInv
<1>2. /\ server.held[k].state \in {"RESERVED", "REJECTED"}
      /\ server' = [server EXCEPT !.held[k].state = "CLOSED"]
      /\ UNCHANGED <<attempts, inFlight, chargeKeys, net>>
    BY DEF Panel!Close
<1>3. ServerTyped' /\ ChargesSound(of, attempts, inFlight, chargeKeys.minted, net, server'.held)
    BY <1>1, <1>2, StateChanges DEF ChargeInv
<1> QED BY <1>2, <1>3 DEF ChargeInv, KeysSound

LEMMA RepriceCharges ==
    ASSUME ChargeInv, NEW s \in Sales, NEW price \in Prices, Panel!Reprice(s, price)
    PROVE  ChargeInv'
<1>1. /\ server' = [server EXCEPT !.price[s] = price]
      /\ UNCHANGED <<attempts, inFlight, chargeKeys, net>>
    BY DEF Panel!Reprice
<1>2. ServerTyped' /\ server'.held = server.held
    BY <1>1 DEF ChargeInv, ServerTyped
<1> QED BY <1>1, <1>2 DEF ChargeInv, KeysSound

-----------------------------------------------------------------------------
(* The invariant *)

LEMMA HandledPanel ==
    ASSUME PanelConstants, PanelSound, ChargeInv, NEW m \in net, NEW reply, NEW rest,
           Panel!Handled(m, reply, rest), shown' = shown
    PROVE  PanelSound'
<1>1. m.sale \in Sales /\ m.sale # None
    BY RequestFields DEF ChargeInv, ChargesSound, PanelConstants
<1>2. PICK p \in {panel, [panel EXCEPT !.quote = Panel!NoQuote]}, confirmed \in BOOLEAN :
         \/ panel' = panel
         \/ shown.sale = m.sale /\ panel' = Panel!Requoted(p, panel.draft, shown.session, confirmed)
  <2>1. CASE m.by = "gone" /\ Panel!AnsweredLater(m, reply, rest)
      BY <2>1 DEF Panel!AnsweredLater
  <2>2. CASE m.kind = "reserve" /\ Panel!ReservationAnswered(m, reply, rest)
    <3>1. \/ panel' = panel
          \/ panel' = Panel!Dropped(m)
        BY <2>2 DEF Panel!ReservationAnswered
    <3> QED BY <3>1 DEF Panel!Dropped
  <2>3. CASE m.kind # "reserve" /\ Panel!ConfirmationAnswered(m, reply, rest)
      BY <2>3 DEF Panel!ConfirmationAnswered
  <2> QED BY <2>1, <2>2, <2>3 DEF Panel!Handled, Panel!Answered
<1>3. p \in Panel!Panels /\ panel.draft \in Drafts
    BY PanelParts, NoQuoteTyped DEF Panel!Panels
<1>4. CASE panel' = panel
    BY <1>4, SamePanel
<1>5. CASE shown.sale = m.sale /\ panel' = Panel!Requoted(p, panel.draft, shown.session, confirmed)
    BY <1>1, <1>3, <1>5, PanelParts, RequotedPanel
<1> QED BY <1>2, <1>4, <1>5

LEMMA ForgottenPanel ==
    ASSUME PanelConstants, Panel!Forgotten
    PROVE  PanelSound'
<1>1. shown' = [sale |-> None, session |-> None] /\ panel' = Panel!Mounted(None, FALSE)
    BY DEF Panel!Forgotten
<1>2. SoundPanel(Panel!Mounted(None, FALSE))
    BY MountedSound
<1>3. Panel!Mounted(None, FALSE).asked = {}
    BY DEF Panel!Mounted
<1>4. SoundPanel(panel)'
    BY <1>1, <1>2 DEF SoundPanel
<1> QED BY <1>1, <1>3, <1>4 DEF PanelSound, Shown

CashierInv == PanelSound /\ ChargeInv

LEMMA CashierInit == ASSUME PanelConstants PROVE Panel!Init => CashierInv
<1> SUFFICES ASSUME Panel!Init PROVE CashierInv
    OBVIOUS
<1>1. PICK price \in [Sales -> Prices] :
         server = [price |-> price, held |-> [k \in Panel!Keys |-> Panel!Nothing]]
    BY DEF Panel!Init
<1>2. /\ shown = [sale |-> None, session |-> None] /\ panel = Panel!Mounted(None, FALSE)
      /\ attempts = [s \in Sales |-> Panel!NoAttempt] /\ inFlight = {} /\ net = {}
      /\ chargeKeys = [minted |-> 0, left |-> 0]
    BY DEF Panel!Init
<1>3. SoundPanel(panel) /\ panel.asked = {}
  <2>1. Panel!Mounted(None, FALSE).asked = {}
      BY DEF Panel!Mounted
  <2>2. SoundPanel(Panel!Mounted(None, FALSE))
      BY MountedSound
  <2> QED BY <1>2, <2>1, <2>2
<1>4. PanelSound
    BY <1>2, <1>3 DEF PanelSound, Shown
<1>5. ServerTyped /\ \A k \in Panel!Keys : server.held[k].state = "none"
    BY <1>1 DEF ServerTyped, Panel!Holdings, Panel!Nothing
<1>6. \A s \in Sales : attempts[s] = Panel!NoAttempt
    BY <1>2
<1>7. attempts \in [Sales -> Panel!Attempts]
    BY <1>2 DEF Panel!Attempts
<1>8. PICK of \in KeyOf : TRUE
  <2>1. [k \in Panel!Keys |-> [sale |-> None, body |-> None]] \in KeyOf
      BY DEF KeyOf
  <2> QED BY <2>1
<1>9. \A s \in Sales : AttemptSound(attempts[s], s, of, chargeKeys.minted, server.held)
    BY <1>6 DEF AttemptSound, Panel!NoAttempt
<1>10. ChargesSound(of, attempts, inFlight, chargeKeys.minted, net, server.held)
  <2>1. chargeKeys.minted \in 0 .. MaxChargeKeys
      BY <1>2 DEF PanelConstants
  <2> QED BY <1>2, <1>5, <1>7, <1>9, <2>1
          DEF ChargesSound, OnePerSale, HoldingSound, ServerTyped
<1>11. KeysSound
    BY <1>2 DEF KeysSound, PanelConstants
<1> QED BY <1>4, <1>5, <1>10, <1>11 DEF CashierInv, ChargeInv

LEMMA CashierStep ==
    ASSUME PanelConstants, CashierInv, Panel!Cashier
    PROVE  CashierInv'
<1>0. PanelSound /\ ChargeInv
    BY DEF CashierInv
<1>1. ASSUME NEW s \in Sales \cup {None}, Panel!Select(s) PROVE CashierInv'
  <2>1. PanelSound'
      BY <1>0, <1>1, SelectPanel
  <2> QED BY <1>0, <1>1, <2>1 DEF CashierInv, ChargeInv, KeysSound, ServerTyped, Panel!Select
<1>2. ASSUME NEW c \in CashSessions \cup {None}, Panel!ChangeSession(c) PROVE CashierInv'
  <2>1. PanelSound'
      BY <1>0, <1>2, ChangeSessionPanel
  <2> QED BY <1>0, <1>2, <2>1 DEF CashierInv, ChargeInv, KeysSound, ServerTyped, Panel!ChangeSession
<1>3. ASSUME NEW d \in Drafts, Panel!Edit(d) PROVE CashierInv'
  <2>1. PanelSound'
      BY <1>0, <1>3, EditPanel
  <2> QED BY <1>0, <1>3, <2>1 DEF CashierInv, ChargeInv, KeysSound, ServerTyped, Panel!Edit
<1>4. CASE Panel!Confirm
  <2>1. UNCHANGED <<shown, panel>>
      BY <1>4 DEF Panel!Confirm
  <2> QED BY <1>0, <1>4, <2>1, SamePanel, ConfirmCharges DEF CashierInv
<1>5. CASE Panel!Retry
  <2>1. UNCHANGED <<shown, panel>>
      BY <1>5 DEF Panel!Retry
  <2> QED BY <1>0, <1>5, <2>1, SamePanel, RetryCharges DEF CashierInv
<1>6. CASE Panel!Reload
  <2>1. ASSUME NEW r \in net'
        PROVE  \E m \in net, by \in {"gone", "nobody"} : r = [m EXCEPT !.by = by]
    <3>1. PICK m \in net : r = [m EXCEPT !.by = "nobody"]
        BY <1>6 DEF Panel!Reload
    <3> QED BY <3>1
  <2>2. Panel!Forgotten
      BY <1>6 DEF Panel!Reload
  <2> QED BY <1>0, <2>1, <2>2, ForgottenCharges, ForgottenPanel DEF CashierInv
<1>7. CASE Panel!Switch
  <2>1. ASSUME NEW r \in net'
        PROVE  \E m \in net, by \in {"gone", "nobody"} : r = [m EXCEPT !.by = by]
    <3>1. PICK m \in net : r = [m EXCEPT !.by = IF m.by = "page" THEN "gone" ELSE m.by]
        BY <1>7 DEF Panel!Switch
    <3>2. m.by \in {"page", "gone", "nobody"}
        BY <1>0, RequestFields DEF ChargeInv, ChargesSound
    <3> QED BY <3>1, <3>2
  <2>2. Panel!Forgotten
      BY <1>7 DEF Panel!Switch
  <2> QED BY <1>0, <2>1, <2>2, ForgottenCharges, ForgottenPanel DEF CashierInv
<1> QED BY <1>1, <1>2, <1>3, <1>4, <1>5, <1>6, <1>7 DEF Panel!Cashier

LEMMA NetworkStep ==
    ASSUME PanelConstants, CashierInv, Panel!Network
    PROVE  CashierInv'
<1>0. PanelSound /\ ChargeInv /\ ServerTyped
    BY DEF CashierInv, ChargeInv
<1>1. ASSUME NEW q \in panel.asked, NEW answered \in BOOLEAN, Panel!QuoteAnswered(q, answered)
      PROVE  CashierInv'
  <2>1. PanelSound'
      BY <1>0, <1>1, QuoteAnsweredPanel
  <2> QED BY <1>0, <1>1, <2>1 DEF CashierInv, ChargeInv, KeysSound, ServerTyped, Panel!QuoteAnswered
<1>2. ASSUME NEW m \in net, Panel!Receive(m) PROVE CashierInv'
  <2>1. Panel!Handled(m, m.reply, Panel!Landed(m)) /\ shown' = shown
      BY <1>2 DEF Panel!Receive
  <2>2. PanelSound'
      BY <1>0, <2>1, HandledPanel
  <2> QED BY <1>0, <1>2, <2>2, ReceiveCharges DEF CashierInv
<1>3. ASSUME NEW m \in net, Panel!Serve(m) PROVE CashierInv'
  <2>1. m.reply = "none" /\ UNCHANGED <<shown, panel, attempts, inFlight, chargeKeys>>
      BY <1>3 DEF Panel!Serve
  <2>2. m.kind \in {"reserve", "confirm"}
      BY <1>0, RequestFields DEF ChargeInv, ChargesSound
  <2>3. CASE m.kind = "reserve"
      BY <1>0, <1>3, <2>1, <2>3, SamePanel, ServeReservationCharges DEF CashierInv, Panel!Serve
  <2>4. CASE m.kind = "confirm"
      BY <1>0, <1>3, <2>1, <2>4, SamePanel, ServeConfirmationCharges DEF CashierInv, Panel!Serve
  <2> QED BY <2>2, <2>3, <2>4
<1>4. ASSUME NEW m \in net, NEW delayed \in BOOLEAN, Panel!GiveUp(m, delayed) PROVE CashierInv'
  <2>1. shown' = shown /\ \E rest : Panel!Handled(m, "failed", rest)
      BY <1>4 DEF Panel!GiveUp
  <2>2. PanelSound'
      BY <1>0, <2>1, HandledPanel
  <2> QED BY <1>0, <1>4, <2>2, GiveUpCharges DEF CashierInv
<1> QED BY <1>1, <1>2, <1>3, <1>4 DEF Panel!Network

LEMMA CashierNext ==
    ASSUME PanelConstants, CashierInv, [Panel!Next]_(Panel!vars)
    PROVE  CashierInv'
<1>0. PanelSound /\ ChargeInv
    BY DEF CashierInv
<1>1. CASE Panel!Elsewhere
  <2>1. UNCHANGED <<shown, panel>>
      BY <1>1 DEF Panel!Elsewhere, Panel!Close, Panel!Reprice
  <2>2. ChargeInv'
      BY <1>0, <1>1, CloseCharges, RepriceCharges DEF Panel!Elsewhere
  <2> QED BY <1>0, <2>1, <2>2, SamePanel DEF CashierInv
<1>2. CASE UNCHANGED Panel!vars
  <2>1. UNCHANGED <<shown, panel>> /\ UNCHANGED <<attempts, inFlight, chargeKeys, net, server>>
      BY <1>2 DEF Panel!vars
  <2> QED BY <1>0, <2>1, SamePanel DEF CashierInv, ChargeInv, KeysSound, ServerTyped
<1> QED BY <1>1, <1>2, CashierStep, NetworkStep DEF Panel!Next

THEOREM CashierAlwaysSound == ASSUME PanelConstants PROVE Panel!Spec => []CashierInv
<1>1. CashierInv /\ [Panel!Next]_(Panel!vars) => CashierInv'
    BY CashierNext
<1> QED BY <1>1, CashierInit, PTL DEF Panel!Spec

-----------------------------------------------------------------------------
(* What follows *)

\* The panel, the page, the network and the server keep their types.
THEOREM PanelTypeCorrect == ASSUME PanelConstants PROVE Panel!Spec => []Panel!TypeOK
<1>1. CashierInv => Panel!TypeOK
    BY Zenon DEF CashierInv, PanelSound, Shown, SoundPanel, ChargeInv, ServerTyped, ChargesSound, KeysSound,
                 Panel!TypeOK
<1> QED BY <1>1, CashierAlwaysSound, PTL

\* The total on the screen is of the composition on the screen (the quote effect of the panel).
THEOREM QuoteAlwaysOfDraft == ASSUME PanelConstants PROVE Panel!Spec => []QuoteOfDraft
<1>1. CashierInv => QuoteOfDraft
    BY Zenon DEF QuoteOfDraft, CashierInv, PanelSound, SoundPanel, Panel!QuoteOfDraft
<1> QED BY <1>1, CashierAlwaysSound, PTL

\* A sale has one operation under way, wherever its panel went meanwhile (checkoutInFlight).
THEOREM AlwaysOneOperation == ASSUME PanelConstants PROVE Panel!Spec => []Panel!OneOperation
<1>1. CashierInv => Panel!OneOperation
    BY DEF CashierInv, ChargeInv, ChargesSound, OnePerSale, Panel!OneOperation
<1> QED BY <1>1, CashierAlwaysSound, PTL

\* A key is sent with one body, which is the one the server has for it (retry).
THEOREM AlwaysOneBodyPerKey == ASSUME PanelConstants PROVE Panel!Spec => []Panel!OneBodyPerKey
<1>1. ASSUME CashierInv PROVE Panel!OneBodyPerKey
  <2>1. PICK of \in KeyOf : ChargesSound(of, attempts, inFlight, chargeKeys.minted, net, server.held)
      BY <1>1 DEF CashierInv, ChargeInv
  <2>2. \A m \in net : m.key \in Panel!Keys /\ of[m.key].body = m.body
      BY <2>1, RequestFields DEF ChargesSound, RequestSound, Stands
  <2>3. \A k \in Panel!Keys : server.held[k].state # "none" => of[k].body = server.held[k].body
      BY <2>1 DEF ChargesSound, HoldingSound, Stands
  <2> QED BY <2>2, <2>3 DEF Panel!OneBodyPerKey
<1> QED BY <1>1, CashierAlwaysSound, PTL

\* What the screen shows as charged is the confirmed attempt of that sale (sendConfirmation).
THEOREM ChargedAlwaysIsCharged == ASSUME PanelConstants PROVE Panel!Spec => []Panel!ChargedIsCharged
<1>1. ASSUME CashierInv PROVE Panel!ChargedIsCharged
  <2>1. PICK of \in KeyOf : ChargesSound(of, attempts, inFlight, chargeKeys.minted, net, server.held)
      BY <1>1 DEF CashierInv, ChargeInv
  <2> SUFFICES ASSUME NEW s \in Sales, attempts[s].state = "CONFIRMED"
               PROVE  server.held[attempts[s].key] =
                        [sale |-> s, state |-> "CONFIRMED", body |-> attempts[s].body]
      BY DEF Panel!ChargedIsCharged
  <2> DEFINE x == attempts[s]
             y == server.held[x.key]
  <2>2. /\ x \in Panel!Attempts /\ x.phase = "CONFIRMATION" /\ y.state = "CONFIRMED"
        /\ Stands(of, x.key, s, x.body)
      BY <2>1 DEF ChargesSound, AttemptSound
  <2>3. x.key \in Panel!Keys
      BY <2>2, AttemptFields
  <2>4. y \in Panel!Holdings /\ Stands(of, x.key, y.sale, y.body)
      BY <2>1, <2>2, <2>3 DEF ChargesSound, HoldingSound
  <2>5. y.sale = s /\ y.body = x.body
      BY <2>2, <2>4 DEF Stands
  <2> HIDE DEF x, y
  <2>6. y = [sale |-> s, state |-> "CONFIRMED", body |-> x.body]
      BY <2>2, <2>4, <2>5 DEF Panel!Holdings, Panel!Nothing
  <2> QED BY <2>6 DEF x, y
<1> QED BY <1>1, CashierAlwaysSound, PTL

-----------------------------------------------------------------------------
(***************************************************************************)
(* That a charge is known is not inductive with the invariant above: a     *)
(* request that no one awaits any more may still charge, and a workspace   *)
(* that is gone still asks to.  What it asks for is under the keys it      *)
(* left, and what was asked for under the others keeps the sale at its     *)
(* confirmation, of which no answer takes it.                              *)
(***************************************************************************)

KnownInv ==
    /\ \A m \in net : m.by = "gone" => m.key <= chargeKeys.left
    /\ \A s \in Sales, k \in Panel!Keys :
          k > chargeKeys.left /\ (Panel!AskedToCharge(s, k) \/ Panel!ChargeMade(s, k)) =>
              attempts[s].phase = "CONFIRMATION" /\ attempts[s].key = k

\* Where no attempt changes, it is enough that no charge comes unasked.
LEMMA KnownKept ==
    ASSUME KnownInv, UNCHANGED <<attempts, chargeKeys>>,
           \A r \in net' : \E m \in net : /\ r.kind = m.kind /\ r.sale = m.sale /\ r.key = m.key
                                          /\ r.by = "gone" => m.by = "gone",
           \A s \in Sales, k \in Panel!Keys :
              Panel!ChargeMade(s, k)' => Panel!ChargeMade(s, k) \/ Panel!AskedToCharge(s, k)
    PROVE  KnownInv'
<1>1. \A s \in Sales, k \in Panel!Keys : Panel!AskedToCharge(s, k)' => Panel!AskedToCharge(s, k)
    BY DEF Panel!AskedToCharge
<1>2. \A m \in net' : m.by = "gone" => m.key <= chargeKeys'.left
    BY DEF KnownInv
<1> QED BY <1>1, <1>2 DEF KnownInv

\* What a request of the page asks for, or is answered, is of the attempt that awaits it.
LEMMA KnownAwaited ==
    ASSUME ChargeInv, KnownInv, NEW m \in net, m.by = "page"
    PROVE  /\ m.sale \in Sales /\ m.key \in Panel!Keys /\ m.kind \in {"reserve", "confirm"}
           /\ attempts \in [Sales -> Panel!Attempts]
           /\ attempts[m.sale].key = m.key
           /\ m.kind = "reserve" => attempts[m.sale].phase = "RESERVATION"
           /\ m.kind = "confirm" => attempts[m.sale].phase = "CONFIRMATION"
BY RequestFields DEF ChargeInv, ChargesSound, RequestSound, Awaited

LEMMA HandledKnown ==
    ASSUME ChargeInv, KnownInv, NEW m \in net, NEW reply, NEW rest, Panel!Handled(m, reply, rest),
           UNCHANGED <<chargeKeys, server>>,
           \A r \in rest : \E q \in net : /\ r.kind = q.kind /\ r.sale = q.sale /\ r.key = q.key
                                          /\ r.by = "gone" => q.by = "gone"
    PROVE  KnownInv'
<1>1. \A s \in Sales, k \in Panel!Keys : Panel!ChargeMade(s, k)' => Panel!ChargeMade(s, k)
    BY DEF Panel!ChargeMade
<1>2. CASE m.by = "page" /\ m.kind = "reserve"
  <2>1. Panel!ReservationAnswered(m, reply, rest)
      BY <1>2 DEF Panel!Handled, Panel!Answered
  <2>2. /\ m.sale \in Sales /\ m.key \in Panel!Keys /\ attempts \in [Sales -> Panel!Attempts]
        /\ attempts[m.sale].phase = "RESERVATION"
      BY <1>2, KnownAwaited
  <2>3. \A k \in Panel!Keys : k > chargeKeys.left =>
            ~Panel!AskedToCharge(m.sale, k) /\ ~Panel!ChargeMade(m.sale, k)
      BY <2>2 DEF KnownInv
  <2>4. CASE reply = "ok"
    <3> DEFINE x == Panel!Started(m, "CONFIRMATION", "PENDING")
               c == Panel!Request("confirm", m.sale, m.key, Panel!ConfirmationBody(m))
    <3>1. attempts' = [attempts EXCEPT ![m.sale] = x] /\ net' = rest \cup {c}
        BY <2>1, <2>4 DEF Panel!ReservationAnswered
    <3>2. x.phase = "CONFIRMATION" /\ x.key = m.key
        BY DEF Panel!Started
    <3>3. c.kind = "confirm" /\ c.sale = m.sale /\ c.key = m.key /\ c.by = "page"
        BY DEF Panel!Request
    <3> HIDE DEF x, c
    <3>4. \A r \in net' : r.by = "gone" => r.key <= chargeKeys'.left
        BY <3>1, <3>3 DEF KnownInv
    <3>5. \A s \in Sales, k \in Panel!Keys :
             Panel!AskedToCharge(s, k)' => Panel!AskedToCharge(s, k) \/ (s = m.sale /\ k = m.key)
        BY <3>1, <3>3 DEF Panel!AskedToCharge
    <3>6. attempts'[m.sale] = x /\ \A s \in Sales : s # m.sale => attempts'[s] = attempts[s]
        BY <2>2, <3>1
    <3> QED BY <1>1, <2>3, <3>2, <3>4, <3>5, <3>6 DEF KnownInv
  <2>5. CASE reply # "ok"
    <3>1. net' = rest /\ \E x : attempts' = [attempts EXCEPT ![m.sale] = x]
        BY <2>1, <2>5 DEF Panel!ReservationAnswered
    <3>2. \A s \in Sales : s # m.sale => attempts'[s] = attempts[s]
        BY <2>2, <3>1
    <3>3. \A s \in Sales, k \in Panel!Keys : Panel!AskedToCharge(s, k)' => Panel!AskedToCharge(s, k)
        BY <3>1 DEF Panel!AskedToCharge
    <3>4. \A r \in net' : r.by = "gone" => r.key <= chargeKeys'.left
        BY <3>1 DEF KnownInv
    <3> QED BY <1>1, <2>3, <3>2, <3>3, <3>4 DEF KnownInv
  <2> QED BY <2>4, <2>5
<1>3. CASE m.by = "page" /\ m.kind # "reserve"
  <2>1. Panel!ConfirmationAnswered(m, reply, rest)
      BY <1>3 DEF Panel!Handled, Panel!Answered
  <2>2. /\ m.sale \in Sales /\ attempts \in [Sales -> Panel!Attempts]
        /\ attempts[m.sale].phase = "CONFIRMATION" /\ attempts[m.sale].key = m.key
      BY <1>3, KnownAwaited
  <2>3. PICK state : attempts' = [attempts EXCEPT ![m.sale] = Panel!Started(m, "CONFIRMATION", state)]
      BY <2>1 DEF Panel!ConfirmationAnswered
  <2>4. \A s \in Sales : attempts'[s].phase = attempts[s].phase /\ attempts'[s].key = attempts[s].key
      BY <2>2, <2>3 DEF Panel!Started
  <2>5. net' = rest
      BY <2>1 DEF Panel!ConfirmationAnswered
  <2>6. \A s \in Sales, k \in Panel!Keys : Panel!AskedToCharge(s, k)' => Panel!AskedToCharge(s, k)
      BY <2>5 DEF Panel!AskedToCharge
  <2>7. \A r \in net' : r.by = "gone" => r.key <= chargeKeys'.left
      BY <2>5 DEF KnownInv
  <2> QED BY <1>1, <2>4, <2>6, <2>7 DEF KnownInv
<1>4. CASE m.by = "gone"
  <2> DEFINE c == [Panel!Request("confirm", m.sale, m.key, Panel!ConfirmationBody(m))
                     EXCEPT !.by = "gone"]
  <2>1. UNCHANGED attempts /\ net' \subseteq rest \cup {c}
      BY <1>4 DEF Panel!Handled, Panel!AnsweredLater
  <2>2. c.key = m.key /\ c.kind = "confirm" /\ m.key <= chargeKeys.left
      BY <1>4 DEF Panel!Request, KnownInv
  <2> HIDE DEF c
  <2>3. \A r \in net' : r.by = "gone" => r.key <= chargeKeys'.left
      BY <2>1, <2>2 DEF KnownInv
  <2>4. \A k \in Panel!Keys : k > chargeKeys.left => k # m.key
      BY <2>2 DEF Panel!Keys, ChargeInv, KeysSound
  <2>5. \A s \in Sales, k \in Panel!Keys :
           k > chargeKeys.left /\ Panel!AskedToCharge(s, k)' => Panel!AskedToCharge(s, k)
      BY <2>1, <2>2, <2>4 DEF Panel!AskedToCharge
  <2> QED BY <1>1, <2>1, <2>3, <2>5 DEF KnownInv
<1> QED BY <1>2, <1>3, <1>4 DEF Panel!Handled

\* Keys of a workspace that is gone are left behind, and nothing is held under one not minted yet.
LEMMA ForgottenKnown ==
    ASSUME ChargeInv, Panel!Forgotten,
           \A r \in net' : \E m \in net, by \in {"gone", "nobody"} : r = [m EXCEPT !.by = by]
    PROVE  KnownInv'
<1>1. PICK of \in KeyOf :
         ChargesSound(of, attempts, inFlight, chargeKeys.minted, net, server.held)
    BY DEF ChargeInv
<1>2. chargeKeys'.left = chargeKeys.minted /\ server' = server
    BY DEF Panel!Forgotten, ChargeInv, KeysSound
<1>3. \A r \in net' : r.key <= chargeKeys.minted /\ r.key \in Panel!Keys
  <2> SUFFICES ASSUME NEW r \in net'
               PROVE  r.key <= chargeKeys.minted /\ r.key \in Panel!Keys
      OBVIOUS
  <2>1. PICK m \in net, by \in {"gone", "nobody"} : r = [m EXCEPT !.by = by]
      OBVIOUS
  <2>2. m \in Panel!Requests /\ m.key <= chargeKeys.minted /\ m.key \in Panel!Keys
      BY <1>1, RequestFields DEF ChargesSound, RequestSound
  <2> QED BY <2>1, <2>2 DEF Panel!Requests
<1>4. \A s \in Sales, k \in Panel!Keys : Panel!ChargeMade(s, k)' => k <= chargeKeys.minted
    BY <1>1, <1>2 DEF Panel!ChargeMade, ChargesSound, HoldingSound
<1>5. \A s \in Sales, k \in Panel!Keys : Panel!AskedToCharge(s, k)' => k <= chargeKeys.minted
    BY <1>3 DEF Panel!AskedToCharge
<1>6. \A k \in Panel!Keys : k > chargeKeys.minted => ~(k <= chargeKeys.minted)
    BY DEF Panel!Keys, ChargeInv, KeysSound
<1> QED BY <1>2, <1>3, <1>4, <1>5, <1>6 DEF KnownInv

\* What the server does never charges what was not asked for.
LEMMA ServedKnown ==
    ASSUME ChargeInv, KnownInv, NEW m \in net, Panel!Serve(m)
    PROVE  KnownInv'
<1>1. PICK of \in KeyOf :
         ChargesSound(of, attempts, inFlight, chargeKeys.minted, net, server.held)
    BY DEF ChargeInv
<1>2. /\ m \in Panel!Requests /\ m.key \in Panel!Keys /\ m.kind \in {"reserve", "confirm"}
      /\ RequestSound(m, of, attempts, inFlight, chargeKeys.minted, server.held)
      /\ server.held \in [Panel!Keys -> Panel!Holdings] /\ ServerTyped
    BY <1>1, RequestFields DEF ChargesSound, ChargeInv
<1>3. UNCHANGED <<attempts, chargeKeys>> /\ \E reply : Panel!Reply(m, reply)
    BY Zenon DEF Panel!Serve, Panel!ServeReservation, Panel!ServeConfirmation
<1>4. ASSUME NEW r \in net'
      PROVE  \E q \in net : /\ r.kind = q.kind /\ r.sale = q.sale /\ r.key = q.key
                            /\ r.by = "gone" => q.by = "gone"
  <2>1. PICK reply : Panel!Reply(m, reply)
      BY <1>3
  <2>2. r \in net \/ r = [m EXCEPT !.reply = reply]
      BY <2>1 DEF Panel!Reply, Panel!Landed
  <2> QED BY <1>2, <2>2 DEF Panel!Requests
<1>5. ASSUME NEW s \in Sales, NEW k \in Panel!Keys, Panel!ChargeMade(s, k)'
      PROVE  Panel!ChargeMade(s, k) \/ Panel!AskedToCharge(s, k)
  <2>1. CASE m.kind = "reserve"
    <3>1. \/ server' = server
          \/ server' = [server EXCEPT !.held[m.key] =
                          [sale |-> m.sale, state |-> "RESERVED", body |-> m.body]]
        BY <2>1 DEF Panel!Serve, Panel!ServeReservation
    <3> QED BY <1>2, <1>5, <3>1 DEF Panel!ChargeMade, ServerTyped
  <2>2. CASE m.kind = "confirm"
    <3>0. CASE server' = server
        BY <1>5, <3>0 DEF Panel!ChargeMade
    <3>1. CASE \E state : server' = [server EXCEPT !.held[m.key].state = state]
      <4>1. PICK state : server' = [server EXCEPT !.held[m.key].state = state]
          BY <3>1
      <4>2. k # m.key => server'.held[k] = server.held[k]
          BY <1>2, <4>1 DEF ServerTyped
      <4>3. server.held[m.key].state # "none" /\ Stands(of, m.key, m.sale, m.body)
          BY <1>2, <2>2 DEF RequestSound
      <4>4. server.held[m.key].sale = m.sale
          BY <1>1, <1>2, <4>3 DEF ChargesSound, HoldingSound, Stands
      <4>5. server.held[m.key] \in [sale: Sales, body: Panel!Body,
                                    state: {"RESERVED", "REJECTED", "CONFIRMED", "CLOSED"}]
          BY <1>2, <4>3 DEF Panel!Holdings, Panel!Nothing
      <4>6. k = m.key => server'.held[k].sale = m.sale
          BY <1>2, <4>1, <4>4, <4>5 DEF ServerTyped
      <4> QED BY <1>5, <2>2, <4>2, <4>6 DEF Panel!ChargeMade, Panel!AskedToCharge
    <3> QED BY <2>2, <3>0, <3>1 DEF Panel!Serve, Panel!ServeConfirmation
  <2> QED BY <1>2, <2>1, <2>2
<1> QED BY <1>3, <1>4, <1>5, KnownKept

\* Only a sale without an attempt gets a new key, and of that nothing was asked yet.
LEMMA ConfirmKnown ==
    ASSUME PanelConstants, PanelSound, ChargeInv, KnownInv, Panel!Confirm
    PROVE  KnownInv'
<1> DEFINE s == shown.sale
<1>1. s \in Sales /\ attempts \in [Sales -> Panel!Attempts] /\ attempts[s].phase = "none"
    BY PanelParts DEF Panel!Confirm, Shown, ChargeInv, ChargesSound
<1>2. /\ \E x : attempts' = [attempts EXCEPT ![s] = x]
      /\ \E k, body : net' = net \cup {Panel!Request("reserve", s, k, body)}
      /\ server' = server /\ chargeKeys'.left = chargeKeys.left
    BY DEF Panel!Confirm, ChargeInv, KeysSound
<1>3. \A r \in net' : r \in net \/ (r.kind = "reserve" /\ r.by = "page")
    BY <1>2 DEF Panel!Request
<1>4. \A t \in Sales, k \in Panel!Keys :
         /\ Panel!AskedToCharge(t, k)' => Panel!AskedToCharge(t, k)
         /\ Panel!ChargeMade(t, k)' => Panel!ChargeMade(t, k)
    BY <1>2, <1>3 DEF Panel!AskedToCharge, Panel!ChargeMade
<1>5. \A t \in Sales : t # s => attempts'[t] = attempts[t]
    BY <1>1, <1>2
<1> QED BY <1>1, <1>2, <1>3, <1>4, <1>5 DEF KnownInv

\* A retry asks again for what the attempt stands for.
LEMMA RetryKnown ==
    ASSUME PanelSound, ChargeInv, KnownInv, Panel!Retry
    PROVE  KnownInv'
<1> DEFINE s == shown.sale
           a == attempts[s]
<1>1. s \in Sales /\ attempts \in [Sales -> Panel!Attempts] /\ a.phase # "none"
    BY PanelParts DEF Panel!Retry, Shown, ChargeInv, ChargesSound
<1>2. /\ UNCHANGED <<attempts, chargeKeys, server>>
      /\ net' = net \cup {Panel!Request(IF a.phase = "RESERVATION" THEN "reserve" ELSE "confirm",
                                        s, a.key, Panel!RetriedBody(s))}
    BY DEF Panel!Retry
<1>3. a.phase # "RESERVATION" => a.phase = "CONFIRMATION"
    BY <1>1 DEF Panel!Attempts, Panel!NoAttempt
<1>4. \A r \in net' : r \in net \/ (/\ r.by = "page" /\ r.sale = s /\ r.key = a.key
                                    /\ r.kind = "confirm" => a.phase = "CONFIRMATION")
    BY <1>2, <1>3 DEF Panel!Request
<1>5. \A t \in Sales, k \in Panel!Keys :
         Panel!AskedToCharge(t, k)' =>
            Panel!AskedToCharge(t, k) \/ (t = s /\ k = a.key /\ a.phase = "CONFIRMATION")
    BY <1>4 DEF Panel!AskedToCharge
<1>6. \A t \in Sales, k \in Panel!Keys : Panel!ChargeMade(t, k)' => Panel!ChargeMade(t, k)
    BY <1>2 DEF Panel!ChargeMade
<1> QED BY <1>2, <1>4, <1>5, <1>6 DEF KnownInv

LEMMA KnownNext ==
    ASSUME PanelConstants, CashierInv, KnownInv, [Panel!Next]_(Panel!vars)
    PROVE  KnownInv'
<1>0. PanelSound /\ ChargeInv
    BY DEF CashierInv
<1>1. ASSUME UNCHANGED <<attempts, chargeKeys, net, server>> PROVE KnownInv'
    BY <1>1, KnownKept DEF Panel!ChargeMade
<1>2. CASE Panel!Reload
  <2>1. Panel!Forgotten /\ \A r \in net' : \E m \in net : r = [m EXCEPT !.by = "nobody"]
      BY <1>2 DEF Panel!Reload
  <2> QED BY <1>0, <2>1, ForgottenKnown
<1>3. CASE Panel!Switch
  <2>1. \A r \in net' : \E m \in net, by \in {"gone", "nobody"} : r = [m EXCEPT !.by = by]
    <3> SUFFICES ASSUME NEW r \in net'
                 PROVE  \E m \in net, by \in {"gone", "nobody"} : r = [m EXCEPT !.by = by]
        OBVIOUS
    <3>1. PICK m \in net : r = [m EXCEPT !.by = IF m.by = "page" THEN "gone" ELSE m.by]
        BY <1>3 DEF Panel!Switch
    <3>2. m.by \in {"page", "gone", "nobody"}
        BY <1>0, RequestFields DEF ChargeInv, ChargesSound
    <3> QED BY <3>1, <3>2
  <2>2. Panel!Forgotten
      BY <1>3 DEF Panel!Switch
  <2> QED BY <1>0, <2>1, <2>2, ForgottenKnown
<1>4. ASSUME NEW m \in net, Panel!Receive(m) PROVE KnownInv'
  <2>1. Panel!Handled(m, m.reply, Panel!Landed(m)) /\ UNCHANGED <<chargeKeys, server>>
      BY <1>4 DEF Panel!Receive
  <2>2. Panel!Landed(m) \subseteq net
      BY DEF Panel!Landed
  <2> QED BY <1>0, <2>1, <2>2, HandledKnown
<1>5. ASSUME NEW m \in net, NEW delayed \in BOOLEAN, Panel!GiveUp(m, delayed) PROVE KnownInv'
  <2> DEFINE rest == IF delayed THEN Panel!Landed(m) \cup {[m EXCEPT !.by = "nobody"]}
                                ELSE Panel!Landed(m)
  <2>1. Panel!Handled(m, "failed", rest) /\ UNCHANGED <<chargeKeys, server>>
      BY <1>5 DEF Panel!GiveUp
  <2>2. m \in Panel!Requests
      BY <1>0 DEF ChargeInv, ChargesSound
  <2>3. \A r \in rest : \E q \in net : /\ r.kind = q.kind /\ r.sale = q.sale /\ r.key = q.key
                                       /\ r.by = "gone" => q.by = "gone"
      BY <2>2 DEF Panel!Landed, Panel!Requests
  <2> HIDE DEF rest
  <2> QED BY <1>0, <2>1, <2>3, HandledKnown
<1>6. ASSUME NEW k \in Panel!Keys, Panel!Close(k) PROVE KnownInv'
  <2>1. UNCHANGED <<attempts, chargeKeys, net>>
      BY <1>6 DEF Panel!Close
  <2>2. server' = [server EXCEPT !.held[k].state = "CLOSED"] /\ ServerTyped
      BY <1>0, <1>6 DEF Panel!Close, ChargeInv
  <2>3. \A s \in Sales, j \in Panel!Keys : Panel!ChargeMade(s, j)' => Panel!ChargeMade(s, j)
    <3>1. \A j \in Panel!Keys : j # k => server'.held[j] = server.held[j]
        BY <2>2 DEF ServerTyped
    <3>2. server.held[k].state \in {"RESERVED", "REJECTED"} /\ server.held[k] \in Panel!Holdings
        BY <1>0, <1>6 DEF Panel!Close, ChargeInv, ServerTyped
    <3>3. server'.held[k].state = "CLOSED"
        BY <2>2, <3>2 DEF ServerTyped, Panel!Holdings, Panel!Nothing
    <3> QED BY <3>1, <3>3 DEF Panel!ChargeMade
  <2> QED BY <2>1, <2>3, KnownKept
<1>7. ASSUME NEW s \in Sales, NEW price \in Prices, Panel!Reprice(s, price) PROVE KnownInv'
  <2>1. UNCHANGED <<attempts, chargeKeys, net>> /\ server'.held = server.held
      BY <1>0, <1>7 DEF Panel!Reprice, ChargeInv, ServerTyped
  <2>2. \A t \in Sales, k \in Panel!Keys : Panel!ChargeMade(t, k)' => Panel!ChargeMade(t, k)
      BY <2>1 DEF Panel!ChargeMade
  <2> QED BY <2>1, <2>2, KnownKept
<1> QED
  <2>1. CASE Panel!Cashier
      BY <1>0, <1>1, <1>2, <1>3, <2>1, ConfirmKnown, RetryKnown
         DEF Panel!Cashier, Panel!Select, Panel!ChangeSession, Panel!Edit
  <2>2. CASE Panel!Network
      BY <1>0, <1>1, <1>4, <1>5, <2>2, ServedKnown DEF Panel!Network, Panel!QuoteAnswered
  <2>3. CASE Panel!Elsewhere
      BY <1>6, <1>7, <2>3 DEF Panel!Elsewhere
  <2>4. CASE UNCHANGED Panel!vars
      BY <1>1, <2>4 DEF Panel!vars
  <2> QED BY <2>1, <2>2, <2>3, <2>4 DEF Panel!Next

\* What was charged for a sale, or may still be by a late request, is under the key that the page
\* shows for the sale at its confirmation: no answer, and no retry, leads to a charge under another
\* (sendReservation, sendConfirmation, retry).
THEOREM ChargeAlwaysKnown == ASSUME PanelConstants PROVE Panel!Spec => []ChargeIsKnown
<1>1. Panel!Init => KnownInv
    BY DEF Panel!Init, KnownInv, Panel!AskedToCharge, Panel!ChargeMade, Panel!Nothing
<1>2. CashierInv /\ KnownInv /\ [Panel!Next]_(Panel!vars) => KnownInv'
    BY KnownNext
<1>3. ASSUME CashierInv, KnownInv PROVE ChargeIsKnown
  <2>1. PICK of \in KeyOf :
           ChargesSound(of, attempts, inFlight, chargeKeys.minted, net, server.held)
      BY <1>3 DEF CashierInv, ChargeInv
  <2> SUFFICES ASSUME NEW s \in Sales, NEW k \in chargeKeys.left + 1 .. chargeKeys.minted
               PROVE  /\ Panel!AskedToCharge(s, k) \/ Panel!ChargeMade(s, k) =>
                           attempts[s].phase = "CONFIRMATION" /\ attempts[s].key = k
                      /\ Panel!ChargeMade(s, k) => attempts[s].body = server.held[k].body
      BY DEF ChargeIsKnown, Panel!ChargeIsKnown
  <2>2. k \in Panel!Keys /\ k > chargeKeys.left
    <3>1. chargeKeys.left \in 0 .. MaxChargeKeys /\ chargeKeys.minted \in 0 .. MaxChargeKeys
        BY <1>3 DEF CashierInv, ChargeInv, KeysSound
    <3> QED BY <3>1 DEF PanelConstants, Panel!Keys
  <2>3. Panel!AskedToCharge(s, k) \/ Panel!ChargeMade(s, k) =>
            attempts[s].phase = "CONFIRMATION" /\ attempts[s].key = k
      BY <1>3, <2>2 DEF KnownInv
  <2>4. Panel!ChargeMade(s, k) => attempts[s].body = server.held[k].body
      BY <2>1, <2>2, <2>3 DEF Panel!ChargeMade, ChargesSound, AttemptSound, HoldingSound, Stands
  <2> QED BY <2>3, <2>4
<1> QED BY <1>1, <1>2, <1>3, CashierAlwaysSound, PTL DEF Panel!Spec

-----------------------------------------------------------------------------
(***************************************************************************)
(* What the tabs know of a sale.  Every key has one body (of), from the    *)
(* moment it is generated, and no body asks to go beyond what the server   *)
(* had shown; the units the server took back (e) and the exchanges it      *)
(* committed (c) only grow.  So what was sound before a step of another    *)
(* tab, or of the server, is sound after it, and each action answers for   *)
(* one tab, the record and the mark only.                                  *)
(***************************************************************************)

ExchangeConstants ==
    Sold \in Nat /\ Returns \subseteq Nat /\ MaxElsewhere \in Nat /\ MaxExchangeKeys \in Nat

Bodies == [Nat -> Exchanges!LineSets]
NoMore(f, e) == \A i \in DOMAIN f : f[i] <= e[i]
Based(lines, e) == \A i \in DOMAIN lines : lines[i].before <= e[i]
Has(key, lines, of, n) == key \in 1 .. n /\ lines = of[key]

World(of, n, e, c) ==
    /\ of \in Bodies /\ n \in 0 .. MaxExchangeKeys /\ e \in [Items -> 0 .. Sold]
    /\ \A k \in 1 .. n : Based(of[k], e)
    /\ DOMAIN c \subseteq 1 .. n
    /\ \A k \in DOMAIN c :
          /\ c[k] \in Exchanges!Quantities /\ DOMAIN c[k] = DOMAIN of[k]
          /\ \A i \in DOMAIN c[k] : of[k][i].before + of[k][i].qty <= c[k][i] /\ c[k][i] <= e[i]

Later(of, n, e, c, of2, n2, e2, c2) ==
    /\ n <= n2 /\ \A k \in 1 .. n : of2[k] = of[k]
    /\ \A i \in Items : e[i] <= e2[i]
    /\ DOMAIN c \subseteq DOMAIN c2 /\ \A k \in DOMAIN c : c2[k] = c[k]

AttemptOK(a, of, n) ==
    a.status \in Exchanges!Statuses /\ (a.status # "none" => Has(a.key, a.lines, of, n))

RecordOK(r, of, n, c) ==
    /\ r.status \in Exchanges!Statuses \ {"REJECTED"}
    /\ r.status # "none" => Has(r.key, r.lines, of, n)
    /\ r.status = "CONFIRMED" => r.key \in DOMAIN c

DraftOK(d, of, n, e) ==
    d.open =>
        /\ d.lines \in Exchanges!LineSets /\ Based(d.lines, e)
        /\ d.available \in Exchanges!Quantities /\ NoMore(d.available, e)
        /\ AttemptOK(d.attempt, of, n) /\ d.recovery \in Exchanges!Reasons

\* A request that is out, or its answer, is of the attempt of the draft.
FlightOK(f, d, of, n, c) ==
    /\ f.stage \in Exchanges!Stages
    /\ f.stage # "idle" =>
          /\ Has(f.key, f.lines, of, n)
          /\ d.open /\ d.attempt.status = "SENDING" /\ d.attempt.key = f.key
    /\ f.stage = "CONFIRMED" => f.key \in DOMAIN c

ShownBy(known, k, c) ==
    k \in DOMAIN c /\ \A i \in DOMAIN c[k] : i \in DOMAIN known /\ c[k][i] <= known[i]

\* A read that was asked for a tombstone shows its exchange.
ReadingOK(x, e, c) ==
    /\ x.stage \in {"idle", "found", "asked", "read"}
    /\ x.stage \in {"found", "read"} => x.shown \in Exchanges!Quantities /\ NoMore(x.shown, e)
    /\ x.stage \in {"asked", "read"} /\ x.basis.kind = "tombstone" => x.basis.key \in DOMAIN c
    /\ x.stage = "read" /\ x.basis.kind = "tombstone" => ShownBy(x.shown, x.basis.key, c)

TabOK(d, o, f, x, of, n, e, c) ==
    DraftOK(d, of, n, e) /\ o \subseteq 1 .. n /\ FlightOK(f, d, of, n, c) /\ ReadingOK(x, e, c)

MarkOK(m, e) == m \in Exchanges!Quantities /\ NoMore(m, e)

Evident(r, m, n, gone, c) ==
    \A k \in 1 .. n \ gone : (r.status # "none" /\ r.key = k) \/ ShownBy(m, k, c)

DiskOK(r, m, gone, of, n, e, c) ==
    RecordOK(r, of, n, c) /\ MarkOK(m, e) /\ gone \subseteq 1 .. n /\ Evident(r, m, n, gone, c)

TabsOK(of) ==
    /\ DOMAIN draft = Tabs /\ DOMAIN owned = Tabs /\ DOMAIN flight = Tabs /\ DOMAIN reading = Tabs
    /\ \A t \in Tabs : TabOK(draft[t], owned[t], flight[t], reading[t],
                             of, minted, exchanged, committed)

RestTyped ==
    /\ elsewhere \in 0 .. MaxElsewhere /\ permitted \in BOOLEAN
    /\ broken \subseteq {"attempt", "mark"}

ExchangeSound(of) ==
    /\ World(of, minted, exchanged, committed)
    /\ TabsOK(of)
    /\ \A r \in late : Has(r.key, r.lines, of, minted)
    /\ DiskOK(record, mark, refused, of, minted, exchanged, committed)
    /\ RestTyped

ExchangeInv == \E of \in Bodies : ExchangeSound(of)

-----------------------------------------------------------------------------
(* Lines and quantities *)

LEMMA LinesMake ==
    ASSUME NEW S \in SUBSET Items, NEW f \in [S -> [qty : Returns, before : 0 .. Sold]]
    PROVE  f \in Exchanges!LineSets /\ DOMAIN f = S
BY DEF Exchanges!LineSets

LEMMA LinesFields ==
    ASSUME ExchangeConstants, NEW f \in Exchanges!LineSets
    PROVE  /\ DOMAIN f \in SUBSET Items
           /\ \A i \in DOMAIN f : f[i].qty \in Returns /\ f[i].before \in 0 .. Sold
           /\ \A i \in DOMAIN f : f[i].qty \in Nat /\ f[i].before \in Nat
<1>1. PICK S \in SUBSET Items : f \in [S -> [qty : Returns, before : 0 .. Sold]]
    BY DEF Exchanges!LineSets
<1>2. DOMAIN f = S
    BY <1>1
<1>3. ASSUME NEW i \in S
      PROVE  f[i].qty \in Returns /\ f[i].before \in 0 .. Sold /\ f[i].qty \in Nat /\ f[i].before \in Nat
  <2>1. f[i] \in [qty : Returns, before : 0 .. Sold]
      BY <1>1
  <2>2. f[i].qty \in Returns /\ f[i].before \in 0 .. Sold
      BY <2>1
  <2>3. Returns \subseteq Nat /\ 0 .. Sold \subseteq Nat
      BY DEF ExchangeConstants
  <2> QED BY <2>2, <2>3
<1> QED BY <1>2, <1>3

LEMMA QuantitiesMake ==
    ASSUME NEW S \in SUBSET Items, NEW f \in [S -> 0 .. Sold]
    PROVE  f \in Exchanges!Quantities /\ DOMAIN f = S
BY DEF Exchanges!Quantities

LEMMA QuantitiesFields ==
    ASSUME ExchangeConstants, NEW f \in Exchanges!Quantities
    PROVE  /\ DOMAIN f \in SUBSET Items
           /\ \A i \in DOMAIN f : f[i] \in 0 .. Sold /\ f[i] \in Nat
<1>1. PICK S \in SUBSET Items : f \in [S -> 0 .. Sold]
    BY DEF Exchanges!Quantities
<1> QED BY <1>1 DEF ExchangeConstants

LEMMA NoLinesOK ==
    ASSUME NEW e
    PROVE  /\ Exchanges!NoLines \in Exchanges!LineSets /\ Based(Exchanges!NoLines, e)
           /\ Exchanges!NoLines \in Exchanges!Quantities /\ NoMore(Exchanges!NoLines, e)
           /\ DOMAIN Exchanges!NoLines = {}
<1> DEFINE f == Exchanges!NoLines
<1>1. DOMAIN f = {} /\ f \in [{} -> [qty : Returns, before : 0 .. Sold]] /\ f \in [{} -> 0 .. Sold]
    BY DEF Exchanges!NoLines
<1> HIDE DEF f
<1>2. {} \in SUBSET Items
    OBVIOUS
<1>3. f \in Exchanges!LineSets /\ f \in Exchanges!Quantities
    BY <1>1, <1>2, LinesMake, QuantitiesMake
<1>4. Based(f, e) /\ NoMore(f, e)
    BY <1>1 DEF Based, NoMore
<1> QED BY <1>1, <1>3, <1>4 DEF f

\* The baseline of lines, and what a read must show once they are exchanged.
LEMMA BaselineOK ==
    ASSUME ExchangeConstants, NEW f \in Exchanges!LineSets, NEW e, Based(f, e)
    PROVE  Exchanges!Baseline(f) \in Exchanges!Quantities /\ NoMore(Exchanges!Baseline(f), e)
<1> DEFINE b == Exchanges!Baseline(f)
<1>1. b = [i \in DOMAIN f |-> f[i].before]
    BY DEF Exchanges!Baseline
<1>2. DOMAIN f \in SUBSET Items /\ b \in [DOMAIN f -> 0 .. Sold]
    BY <1>1, LinesFields
<1>3. DOMAIN b = DOMAIN f /\ \A i \in DOMAIN f : b[i] = f[i].before
    BY <1>1
<1> HIDE DEF b
<1>4. b \in Exchanges!Quantities
    BY <1>2, QuantitiesMake
<1>5. NoMore(b, e)
    BY <1>3 DEF NoMore, Based
<1> QED BY <1>4, <1>5 DEF b

LEMMA Raises ==
    ASSUME ExchangeConstants, NEW e \in [Items -> 0 .. Sold],
           MarkOK(mark, e), NEW s \in Exchanges!Quantities, NoMore(s, e)
    PROVE  LET m == Exchanges!Raised(s) IN
           /\ MarkOK(m, e) /\ DOMAIN m = DOMAIN mark \cup DOMAIN s
           /\ \A i \in DOMAIN mark : mark[i] <= m[i]
           /\ \A i \in DOMAIN s : s[i] <= m[i]
<1> DEFINE m == Exchanges!Raised(s)
           D == DOMAIN mark \cup DOMAIN s
<1>1. m = [i \in D |-> IF i \notin DOMAIN mark THEN s[i]
                       ELSE IF i \notin DOMAIN s \/ s[i] <= mark[i] THEN mark[i] ELSE s[i]]
    BY DEF Exchanges!Raised
<1>2. mark \in Exchanges!Quantities /\ NoMore(mark, e)
    BY DEF MarkOK
<1>3. /\ D \in SUBSET Items
      /\ \A i \in DOMAIN mark : mark[i] \in 0 .. Sold /\ mark[i] \in Nat /\ mark[i] <= e[i]
      /\ \A i \in DOMAIN s : s[i] \in 0 .. Sold /\ s[i] \in Nat /\ s[i] <= e[i]
    BY <1>2, QuantitiesFields DEF NoMore
<1>4. DOMAIN m = D /\ m \in [D -> 0 .. Sold]
    BY <1>1, <1>3
<1>5. /\ \A i \in DOMAIN mark : mark[i] <= m[i]
      /\ \A i \in DOMAIN s : s[i] <= m[i]
      /\ \A i \in D : m[i] <= e[i]
    BY <1>1, <1>3
<1> HIDE DEF m, D
<1>6. m \in Exchanges!Quantities
    BY <1>3, <1>4, QuantitiesMake
<1>7. MarkOK(m, e)
    BY <1>4, <1>5, <1>6 DEF MarkOK, NoMore
<1> QED BY <1>4, <1>5, <1>7 DEF m, D

-----------------------------------------------------------------------------
(* What was sound stays sound *)

LEMMA LaterHas ==
    ASSUME NEW of, NEW n \in Nat, NEW e, NEW c, NEW of2, NEW n2 \in Nat, NEW e2, NEW c2,
           Later(of, n, e, c, of2, n2, e2, c2), NEW key, NEW lines, Has(key, lines, of, n)
    PROVE  Has(key, lines, of2, n2)
BY DEF Later, Has

LEMMA LaterAttempt ==
    ASSUME NEW of, NEW n \in Nat, NEW e, NEW c, NEW of2, NEW n2 \in Nat, NEW e2, NEW c2,
           Later(of, n, e, c, of2, n2, e2, c2), NEW a, AttemptOK(a, of, n)
    PROVE  AttemptOK(a, of2, n2)
BY LaterHas DEF AttemptOK

LEMMA LaterDraft ==
    ASSUME ExchangeConstants,
           NEW of, NEW n \in Nat, NEW e \in [Items -> 0 .. Sold], NEW c,
           NEW of2, NEW n2 \in Nat, NEW e2 \in [Items -> 0 .. Sold], NEW c2,
           Later(of, n, e, c, of2, n2, e2, c2), NEW d, DraftOK(d, of, n, e)
    PROVE  DraftOK(d, of2, n2, e2)
<1> SUFFICES ASSUME d.open PROVE DraftOK(d, of2, n2, e2)
    BY DEF DraftOK
<1>1. /\ d.lines \in Exchanges!LineSets /\ Based(d.lines, e)
      /\ d.available \in Exchanges!Quantities /\ NoMore(d.available, e)
      /\ AttemptOK(d.attempt, of, n) /\ d.recovery \in Exchanges!Reasons
    BY DEF DraftOK
<1>2. \A i \in Items : e[i] \in Nat /\ e2[i] \in Nat /\ e[i] <= e2[i]
    BY DEF Later, ExchangeConstants
<1>3. Based(d.lines, e2)
    BY <1>1, <1>2, LinesFields DEF Based
<1>4. NoMore(d.available, e2)
    BY <1>1, <1>2, QuantitiesFields DEF NoMore
<1> QED BY <1>1, <1>3, <1>4, LaterAttempt DEF DraftOK

LEMMA LaterReading ==
    ASSUME ExchangeConstants,
           NEW of, NEW n \in Nat, NEW e \in [Items -> 0 .. Sold], NEW c,
           NEW of2, NEW n2 \in Nat, NEW e2 \in [Items -> 0 .. Sold], NEW c2,
           Later(of, n, e, c, of2, n2, e2, c2), NEW x, ReadingOK(x, e, c)
    PROVE  ReadingOK(x, e2, c2)
<1>1. \A i \in Items : e[i] \in Nat /\ e2[i] \in Nat /\ e[i] <= e2[i]
    BY DEF Later, ExchangeConstants
<1>2. ASSUME x.stage \in {"found", "read"}
      PROVE  x.shown \in Exchanges!Quantities /\ NoMore(x.shown, e2)
  <2>1. x.shown \in Exchanges!Quantities /\ NoMore(x.shown, e)
      BY <1>2 DEF ReadingOK
  <2> QED BY <1>1, <2>1, QuantitiesFields DEF NoMore
<1>3. \A k \in DOMAIN c : k \in DOMAIN c2 /\ c2[k] = c[k]
    BY DEF Later
<1> QED BY <1>2, <1>3 DEF ReadingOK, ShownBy

LEMMA LaterTab ==
    ASSUME ExchangeConstants,
           NEW of, NEW n \in Nat, NEW e \in [Items -> 0 .. Sold], NEW c,
           NEW of2, NEW n2 \in Nat, NEW e2 \in [Items -> 0 .. Sold], NEW c2,
           Later(of, n, e, c, of2, n2, e2, c2),
           NEW d, NEW o, NEW f, NEW x, TabOK(d, o, f, x, of, n, e, c)
    PROVE  TabOK(d, o, f, x, of2, n2, e2, c2)
<1>1. DraftOK(d, of2, n2, e2) /\ ReadingOK(x, e2, c2)
    BY LaterDraft, LaterReading DEF TabOK
<1>2. o \subseteq 1 .. n2
    BY DEF TabOK, Later
<1>3. \A k \in DOMAIN c : k \in DOMAIN c2
    BY DEF Later
<1>4. FlightOK(f, d, of2, n2, c2)
    BY <1>3, LaterHas DEF TabOK, FlightOK
<1> QED BY <1>1, <1>2, <1>4 DEF TabOK

LEMMA LaterDisk ==
    ASSUME ExchangeConstants,
           NEW of, NEW n \in Nat, NEW e \in [Items -> 0 .. Sold], NEW c,
           NEW of2, NEW e2 \in [Items -> 0 .. Sold], NEW c2,
           Later(of, n, e, c, of2, n, e2, c2),
           NEW r, NEW m, NEW gone, DiskOK(r, m, gone, of, n, e, c)
    PROVE  DiskOK(r, m, gone, of2, n, e2, c2)
<1>1. \A k \in DOMAIN c : k \in DOMAIN c2 /\ c2[k] = c[k]
    BY DEF Later
<1>2. RecordOK(r, of2, n, c2)
    BY <1>1, LaterHas DEF DiskOK, RecordOK
<1>3. MarkOK(m, e2)
  <2>1. \A i \in Items : e[i] \in Nat /\ e2[i] \in Nat /\ e[i] <= e2[i]
      BY DEF Later, ExchangeConstants
  <2> QED BY <2>1, QuantitiesFields DEF DiskOK, MarkOK, NoMore
<1>4. Evident(r, m, n, gone, c2)
    BY <1>1 DEF DiskOK, Evident, ShownBy
<1> QED BY <1>2, <1>3, <1>4 DEF DiskOK

\* Nothing happened to the world.
LEMMA LaterSame ==
    ASSUME NEW of, NEW n \in Nat, NEW e \in [Items -> 0 .. Sold], NEW c, Sold \in Nat
    PROVE  Later(of, n, e, c, of, n, e, c)
BY DEF Later

\* Only tab t moves.
OnlyTab(t) ==
    /\ DOMAIN draft' = Tabs /\ DOMAIN owned' = Tabs /\ DOMAIN flight' = Tabs /\ DOMAIN reading' = Tabs
    /\ \A u \in Tabs \ {t} : /\ draft'[u] = draft[u] /\ owned'[u] = owned[u]
                             /\ flight'[u] = flight[u] /\ reading'[u] = reading[u]

\* A step is sound that leaves one tab, the record, the mark and the world sound.
LEMMA StepSound ==
    ASSUME ExchangeConstants, NEW of, ExchangeSound(of),
           NEW new \in Bodies, World(new, minted', exchanged', committed'),
           Later(of, minted, exchanged, committed, new, minted', exchanged', committed'),
           NEW t \in Tabs, OnlyTab(t),
           TabOK(draft'[t], owned'[t], flight'[t], reading'[t], new, minted', exchanged', committed'),
           \A r \in late' : r \in late \/ Has(r.key, r.lines, new, minted'),
           DiskOK(record', mark', refused', new, minted', exchanged', committed'),
           RestTyped'
    PROVE  ExchangeInv'
<1>1. /\ minted \in Nat /\ exchanged \in [Items -> 0 .. Sold]
      /\ minted' \in Nat /\ exchanged' \in [Items -> 0 .. Sold]
    BY DEF ExchangeSound, World, ExchangeConstants
<1>2. ASSUME NEW u \in Tabs
      PROVE  TabOK(draft'[u], owned'[u], flight'[u], reading'[u],
                   new, minted', exchanged', committed')
  <2>1. CASE u = t
      BY <2>1
  <2>2. CASE u # t
    <3>1. /\ draft'[u] = draft[u] /\ owned'[u] = owned[u] /\ flight'[u] = flight[u]
          /\ reading'[u] = reading[u]
        BY <2>2 DEF OnlyTab
    <3>2. TabOK(draft[u], owned[u], flight[u], reading[u], of, minted, exchanged, committed)
        BY DEF ExchangeSound, TabsOK
    <3>3. TabOK(draft[u], owned[u], flight[u], reading[u], new, minted', exchanged', committed')
        BY <1>1, <3>2, LaterTab
    <3> QED BY <3>1, <3>3
  <2> QED BY <2>1, <2>2
<1>3. \A r \in late' : Has(r.key, r.lines, new, minted')
    BY <1>1, LaterHas DEF ExchangeSound
<1>4. ExchangeSound(new)'
    BY <1>2, <1>3 DEF ExchangeSound, TabsOK, OnlyTab
<1> QED BY <1>4 DEF ExchangeInv

\* The same, when neither the server nor the keys move.
LEMMA TabStepSound ==
    ASSUME ExchangeConstants, NEW of \in Bodies, ExchangeSound(of),
           UNCHANGED <<minted, exchanged, committed>>,
           NEW t \in Tabs, OnlyTab(t),
           TabOK(draft'[t], owned'[t], flight'[t], reading'[t], of, minted, exchanged, committed),
           \A r \in late' : r \in late \/ Has(r.key, r.lines, of, minted),
           DiskOK(record', mark', refused', of, minted, exchanged, committed),
           RestTyped'
    PROVE  ExchangeInv'
<1>1. World(of, minted, exchanged, committed) /\ World(of, minted', exchanged', committed')
    BY DEF ExchangeSound
<1>2. Later(of, minted, exchanged, committed, of, minted', exchanged', committed')
    BY <1>1, LaterSame DEF World, ExchangeConstants
<1> QED BY <1>1, <1>2, StepSound

\* The same, when neither the record nor the mark moves.
LEMMA MemoryStepSound ==
    ASSUME ExchangeConstants, NEW of \in Bodies, ExchangeSound(of),
           UNCHANGED <<minted, exchanged, committed, elsewhere, permitted, broken>>,
           UNCHANGED <<record, mark, refused>>,
           NEW t \in Tabs, OnlyTab(t),
           TabOK(draft'[t], owned'[t], flight'[t], reading'[t], of, minted, exchanged, committed),
           \A r \in late' : r \in late \/ Has(r.key, r.lines, of, minted)
    PROVE  ExchangeInv'
<1>1. DiskOK(record', mark', refused', of, minted, exchanged, committed) /\ RestTyped'
    BY DEF ExchangeSound, RestTyped
<1> QED BY <1>1, TabStepSound

-----------------------------------------------------------------------------
(* Drafts *)

LEMMA DraftMake ==
    ASSUME NEW of, NEW n, NEW e, NEW lines \in Exchanges!LineSets, Based(lines, e),
           NEW available \in Exchanges!Quantities, NoMore(available, e),
           NEW a, AttemptOK(a, of, n), NEW recovery \in Exchanges!Reasons
    PROVE  LET d == Exchanges!Draft(lines, available, a, recovery) IN
           /\ DraftOK(d, of, n, e) /\ d.open
           /\ d.lines = lines /\ d.available = available /\ d.attempt = a /\ d.recovery = recovery
<1> DEFINE d == Exchanges!Draft(lines, available, a, recovery)
<1>1. /\ d.open = TRUE /\ d.lines = lines /\ d.available = available /\ d.attempt = a
      /\ d.recovery = recovery
    BY DEF Exchanges!Draft
<1> HIDE DEF d
<1>2. DraftOK(d, of, n, e)
    BY <1>1 DEF DraftOK
<1> QED BY <1>1, <1>2 DEF d

LEMMA NoAttemptOK ==
    ASSUME NEW of, NEW n
    PROVE  AttemptOK(Exchanges!NoAttempt, of, n) /\ Exchanges!NoAttempt.status = "none"
BY DEF AttemptOK, Exchanges!NoAttempt, Exchanges!Statuses

LEMMA NoDraftOK ==
    ASSUME NEW of, NEW n, NEW e
    PROVE  DraftOK(Exchanges!NoDraft, of, n, e) /\ ~Exchanges!NoDraft.open
BY DEF DraftOK, Exchanges!NoDraft

\* The body of a key.
LEMMA BodyOK ==
    ASSUME NEW of, NEW n, NEW e, NEW c, World(of, n, e, c), n \in Nat,
           NEW key, NEW lines, Has(key, lines, of, n)
    PROVE  lines \in Exchanges!LineSets /\ Based(lines, e)
BY DEF World, Has, Bodies

LEMMA AttemptMake ==
    ASSUME NEW of, NEW n, NEW status \in Exchanges!Statuses, NEW key, NEW lines,
           Has(key, lines, of, n)
    PROVE  LET a == [status |-> status, key |-> key, lines |-> lines] IN
           AttemptOK(a, of, n) /\ a.status = status /\ a.key = key /\ a.lines = lines
BY DEF AttemptOK

LEMMA FromRecordOK ==
    ASSUME ExchangeConstants, NEW of, NEW n \in Nat, NEW e, NEW c, World(of, n, e, c),
           NEW r, RecordOK(r, of, n, c), r.status # "none",
           NEW status \in {"SENDING", "UNCERTAIN", "CONFIRMED"},
           NEW previous, DraftOK(previous, of, n, e)
    PROVE  DraftOK(Exchanges!FromRecord(r, status, previous), of, n, e)
<1> DEFINE available == IF previous.open /\ DOMAIN previous.available # {}
                        THEN previous.available ELSE Exchanges!Baseline(r.lines)
           a == [status |-> status, key |-> r.key, lines |-> r.lines]
           recovery == IF status = "CONFIRMED" THEN "CONFIRMED" ELSE "none"
<1>1. Exchanges!FromRecord(r, status, previous) =
        Exchanges!Draft(r.lines, available, a, recovery)
    BY DEF Exchanges!FromRecord
<1>2. Has(r.key, r.lines, of, n) /\ r.lines \in Exchanges!LineSets /\ Based(r.lines, e)
    BY BodyOK DEF RecordOK
<1>3. available \in Exchanges!Quantities /\ NoMore(available, e)
    BY <1>2, BaselineOK DEF DraftOK
<1>4. AttemptOK(a, of, n)
    BY <1>2, AttemptMake DEF Exchanges!Statuses
<1>5. recovery \in Exchanges!Reasons
    BY DEF Exchanges!Reasons
<1> HIDE DEF available, a, recovery
<1> QED BY <1>1, <1>2, <1>3, <1>4, <1>5, DraftMake

LEMMA BlockedOK ==
    ASSUME NEW of, NEW n, NEW e, NEW d, DraftOK(d, of, n, e), d.open,
           NEW reason \in Exchanges!Reasons
    PROVE  DraftOK(Exchanges!Blocked(d, reason), of, n, e)
BY DraftMake DEF Exchanges!Blocked, DraftOK

LEMMA ResolvedOK ==
    ASSUME NEW of, NEW n, NEW e, NEW d, DraftOK(d, of, n, e), d.open
    PROVE  DraftOK(Exchanges!Resolved(d), of, n, e)
<1>1. "RESOLVED_ELSEWHERE" \in Exchanges!Reasons
    BY DEF Exchanges!Reasons
<1> QED BY <1>1, DraftMake, NoAttemptOK DEF Exchanges!Resolved, DraftOK

LEMMA RecoveryOK ==
    ASSUME NEW of, NEW n, NEW e, NEW d, DraftOK(d, of, n, e)
    PROVE  DraftOK(Exchanges!Recovery(d), of, n, e)
<1>1. "UNREADABLE" \in Exchanges!Reasons
    BY DEF Exchanges!Reasons
<1>2. CASE d.open
    BY <1>1, <1>2, BlockedOK DEF Exchanges!Recovery
<1>3. CASE ~d.open
    BY <1>1, <1>3, DraftMake, NoAttemptOK, NoLinesOK DEF Exchanges!Recovery
<1> QED BY <1>2, <1>3

LEMMA FreshOK ==
    ASSUME NEW of, NEW n, NEW e, NEW s \in Exchanges!Quantities, NoMore(s, e)
    PROVE  DraftOK(Exchanges!FreshDraft(s), of, n, e)
<1>1. "none" \in Exchanges!Reasons
    BY DEF Exchanges!Reasons
<1> QED BY <1>1, DraftMake, NoAttemptOK, NoLinesOK DEF Exchanges!FreshDraft

LEMMA NextStateOK ==
    ASSUME NEW of, NEW n, NEW e, NEW d, DraftOK(d, of, n, e), d.open, d.attempt.status # "none",
           NEW outcome \in {"CONFIRMED", "REJECTED", "UNCERTAIN"}
    PROVE  DraftOK(Exchanges!NextState(d, outcome), of, n, e)
<1> DEFINE a == [status |-> outcome, key |-> d.attempt.key, lines |-> d.attempt.lines]
           recovery == IF outcome = "CONFIRMED" THEN "CONFIRMED" ELSE "none"
<1>1. Exchanges!NextState(d, outcome) = Exchanges!Draft(d.lines, d.available, a, recovery)
    BY DEF Exchanges!NextState
<1>2. AttemptOK(a, of, n)
    BY AttemptMake DEF DraftOK, AttemptOK, Exchanges!Statuses
<1>3. recovery \in Exchanges!Reasons
    BY DEF Exchanges!Reasons
<1> HIDE DEF a, recovery
<1> QED BY <1>1, <1>2, <1>3, DraftMake DEF DraftOK

\* What can be read of the record is the record.
LEMMA DurableIs ==
    ASSUME NEW of, NEW n, NEW c, RecordOK(record, of, n, c)
    PROVE  /\ Exchanges!Durable.status \in {"none", "unreadable", "SENDING", "UNCERTAIN", "CONFIRMED"}
           /\ Exchanges!Durable.status # "unreadable" => Exchanges!Durable = record
BY DEF Exchanges!Durable, RecordOK, Exchanges!Statuses

LEMMA IdleOK ==
    ASSUME NEW d, NEW of, NEW n, NEW c
    PROVE  FlightOK(Exchanges!Idle, d, of, n, c) /\ Exchanges!Idle.stage = "idle"
BY DEF FlightOK, Exchanges!Idle, Exchanges!Stages

LEMMA IdleReadingOK == ASSUME NEW e, NEW c PROVE ReadingOK(Exchanges!Idle, e, c)
BY DEF ReadingOK, Exchanges!Idle

\* A tab with no request out.
LEMMA RestingTab ==
    ASSUME NEW of, NEW n, NEW e, NEW c, NEW d, NEW o, NEW f, NEW x, DraftOK(d, of, n, e),
           o \subseteq 1 .. n, f.stage = "idle", ReadingOK(x, e, c)
    PROVE  TabOK(d, o, f, x, of, n, e, c)
BY DEF TabOK, FlightOK, Exchanges!Stages

\* What is known of a tab, and of the storage.
LEMMA TabFacts ==
    ASSUME ExchangeConstants, NEW of, ExchangeSound(of), NEW t \in Tabs
    PROVE  /\ World(of, minted, exchanged, committed) /\ minted \in Nat
           /\ exchanged \in [Items -> 0 .. Sold]
           /\ DraftOK(draft[t], of, minted, exchanged) /\ owned[t] \subseteq 1 .. minted
           /\ FlightOK(flight[t], draft[t], of, minted, committed)
           /\ ReadingOK(reading[t], exchanged, committed)
           /\ RecordOK(record, of, minted, committed) /\ MarkOK(mark, exchanged)
           /\ DiskOK(record, mark, refused, of, minted, exchanged, committed)
           /\ DOMAIN draft = Tabs /\ DOMAIN owned = Tabs /\ DOMAIN flight = Tabs
           /\ DOMAIN reading = Tabs
BY DEF ExchangeSound, World, TabsOK, TabOK, DiskOK, ExchangeConstants

-----------------------------------------------------------------------------
(* Steps that only change what a tab has in memory *)

LEMMA LoadSound ==
    ASSUME ExchangeConstants, NEW of \in Bodies, ExchangeSound(of), NEW t \in Tabs,
           Exchanges!Load(t)
    PROVE  ExchangeInv'
<1> DEFINE D == Exchanges!Durable
<1>0. RecordOK(record, of, minted, committed)
    BY TabFacts
<1>1. /\ flight' = [flight EXCEPT ![t] = Exchanges!Idle]
      /\ reading' = [reading EXCEPT ![t] = Exchanges!Idle]
      /\ UNCHANGED <<minted, exchanged, committed, elsewhere, permitted, broken>>
      /\ UNCHANGED <<record, mark, refused>>
      /\ late' = late \cup Exchanges!Abandoned(t)
    BY DEF Exchanges!Load, Exchanges!diskVars
<1>5. \E d, o : draft' = [draft EXCEPT ![t] = d] /\ owned' = [owned EXCEPT ![t] = o]
    BY <1>0, DurableIs DEF Exchanges!Load, Exchanges!Adopts, Exchanges!Forgets
<1>6. flight'[t] = Exchanges!Idle /\ reading'[t] = Exchanges!Idle /\ OnlyTab(t)
    BY <1>1, <1>5, TabFacts DEF OnlyTab
<1>2. DraftOK(draft'[t], of, minted, exchanged) /\ owned'[t] \subseteq 1 .. minted
  <2>1. CASE Exchanges!Forgets(t)
      BY <2>1, TabFacts, NoDraftOK DEF Exchanges!Forgets
  <2>5. CASE Exchanges!Adopts(t) /\ D.status = "none"
      BY <2>1, <2>5 DEF Exchanges!Adopts
  <2>2. CASE Exchanges!Adopts(t) /\ D.status = "unreadable"
    <3>1. draft' = [draft EXCEPT ![t] = Exchanges!Recovery(Exchanges!NoDraft)]
          /\ owned' = [owned EXCEPT ![t] = {}]
        BY <2>2 DEF Exchanges!Adopts
    <3> QED BY <3>1, TabFacts, NoDraftOK, RecoveryOK
  <2>3. CASE Exchanges!Adopts(t) /\ D.status = "CONFIRMED"
    <3>1. draft' = [draft EXCEPT ![t] = Exchanges!FromRecord(record, "CONFIRMED", Exchanges!NoDraft)]
          /\ owned' = [owned EXCEPT ![t] = {}]
        BY <2>3 DEF Exchanges!Adopts
    <3>2. record.status # "none"
        BY <1>0, <2>3, DurableIs
    <3>3. DraftOK(Exchanges!FromRecord(record, "CONFIRMED", Exchanges!NoDraft), of, minted, exchanged)
        BY <1>0, <3>2, TabFacts, NoDraftOK, FromRecordOK
    <3> QED BY <3>1, <3>3, TabFacts
  <2>4. CASE Exchanges!Adopts(t) /\ D.status \in {"SENDING", "UNCERTAIN"}
    <3>1. draft' = [draft EXCEPT ![t] = Exchanges!FromRecord(record, "UNCERTAIN", Exchanges!NoDraft)]
          /\ owned' = [owned EXCEPT ![t] = {record.key}]
        BY <2>4 DEF Exchanges!Adopts
    <3>2. record.status # "none"
        BY <1>0, <2>4, DurableIs
    <3>3. DraftOK(Exchanges!FromRecord(record, "UNCERTAIN", Exchanges!NoDraft), of, minted, exchanged)
        BY <1>0, <3>2, TabFacts, NoDraftOK, FromRecordOK
    <3>4. record.key \in 1 .. minted
        BY <1>0, <3>2 DEF RecordOK, Has
    <3> QED BY <3>1, <3>3, <3>4, TabFacts
  <2> QED BY <1>0, <2>1, <2>2, <2>3, <2>4, <2>5, DurableIs DEF Exchanges!Load
<1>3. TabOK(draft'[t], owned'[t], flight'[t], reading'[t], of, minted, exchanged, committed)
    BY <1>2, <1>6, RestingTab, IdleOK, IdleReadingOK
<1>4. \A r \in late' : r \in late \/ Has(r.key, r.lines, of, minted)
    BY <1>1, TabFacts DEF Exchanges!Abandoned, FlightOK
<1> QED BY <1>1, <1>3, <1>4, <1>6, MemoryStepSound

\* A step that only moves what a tab reads.
LEMMA ReadingSound ==
    ASSUME ExchangeConstants, NEW of \in Bodies, ExchangeSound(of), NEW t \in Tabs,
           NEW x, ReadingOK(x, exchanged, committed), reading' = [reading EXCEPT ![t] = x],
           UNCHANGED <<draft, owned, flight>>,
           UNCHANGED <<exchanged, elsewhere, committed, permitted, late>>,
           UNCHANGED <<record, mark, broken, minted, refused>>
    PROVE  ExchangeInv'
<1>1. OnlyTab(t) /\ reading'[t] = x
    BY TabFacts DEF OnlyTab
<1>2. TabOK(draft'[t], owned'[t], flight'[t], reading'[t], of, minted, exchanged, committed)
    BY <1>1, TabFacts DEF TabOK
<1> QED BY <1>1, <1>2, MemoryStepSound

\* A step that only moves the draft of a tab with no request out.
LEMMA DraftSound ==
    ASSUME ExchangeConstants, NEW of \in Bodies, ExchangeSound(of), NEW t \in Tabs,
           NEW d, DraftOK(d, of, minted, exchanged), d = draft[t] \/ flight[t].stage = "idle",
           draft' = [draft EXCEPT ![t] = d],
           UNCHANGED <<owned, flight, reading>>,
           UNCHANGED <<exchanged, elsewhere, committed, permitted, late>>,
           UNCHANGED <<record, mark, broken, minted, refused>>
    PROVE  ExchangeInv'
<1>1. OnlyTab(t) /\ draft'[t] = d
    BY TabFacts DEF OnlyTab
<1>2. TabOK(draft'[t], owned'[t], flight'[t], reading'[t], of, minted, exchanged, committed)
    BY <1>1, TabFacts DEF TabOK, FlightOK
<1> QED BY <1>1, <1>2, MemoryStepSound

LEMMA ExchangedOK ==
    ASSUME ExchangeConstants, NEW of, ExchangeSound(of)
    PROVE  exchanged \in Exchanges!Quantities /\ NoMore(exchanged, exchanged)
           /\ DOMAIN exchanged = Items
<1>1. exchanged \in [Items -> 0 .. Sold] /\ Items \in SUBSET Items
    BY DEF ExchangeSound, World
<1>2. exchanged \in Exchanges!Quantities /\ DOMAIN exchanged = Items
    BY <1>1, QuantitiesMake
<1> QED BY <1>1, <1>2 DEF NoMore, ExchangeConstants

LEMMA LookSound ==
    ASSUME ExchangeConstants, NEW of \in Bodies, ExchangeSound(of), NEW t \in Tabs,
           Exchanges!Look(t)
    PROVE  ExchangeInv'
<1> DEFINE x == [stage |-> "found", shown |-> exchanged]
<1>1. reading' = [reading EXCEPT ![t] = x]
      /\ UNCHANGED <<draft, owned, flight>>
      /\ UNCHANGED <<exchanged, elsewhere, committed, permitted, late>>
      /\ UNCHANGED <<record, mark, broken, minted, refused>>
    BY DEF Exchanges!Look, Exchanges!serverVars, Exchanges!diskVars
<1>2. ReadingOK(x, exchanged, committed)
    BY ExchangedOK DEF ReadingOK
<1> HIDE DEF x
<1> QED BY <1>1, <1>2, ReadingSound

LEMMA EditSound ==
    ASSUME ExchangeConstants, NEW of \in Bodies, ExchangeSound(of), NEW t \in Tabs,
           Exchanges!Edit(t)
    PROVE  ExchangeInv'
<1> DEFINE d == draft[t]
           lines(S, qty) == [i \in S |-> [qty |-> qty[i],
                                          before |-> IF i \in DOMAIN d.lines
                                                     THEN d.lines[i].before
                                                     ELSE d.available[i]]]
<1>1. PICK S \in SUBSET (DOMAIN d.lines \cup DOMAIN d.available) :
        \E qty \in [S -> Returns] :
           draft' = [draft EXCEPT ![t] =
              Exchanges!Draft(lines(S, qty), @.available, Exchanges!NoAttempt, @.recovery)]
    BY DEF Exchanges!Edit
<1>2. PICK qty \in [S -> Returns] :
           draft' = [draft EXCEPT ![t] =
              Exchanges!Draft(lines(S, qty), d.available, Exchanges!NoAttempt, d.recovery)]
    BY <1>1
<1> DEFINE new == lines(S, qty)
<1>3. /\ d.lines \in Exchanges!LineSets /\ Based(d.lines, exchanged)
      /\ d.available \in Exchanges!Quantities /\ NoMore(d.available, exchanged)
      /\ d.recovery \in Exchanges!Reasons
      /\ d.attempt.status \in {"none", "REJECTED"}
    BY TabFacts DEF Exchanges!Edit, DraftOK
<1>4. /\ S \in SUBSET Items
      /\ \A i \in DOMAIN d.lines : d.lines[i].before \in 0 .. Sold /\ d.lines[i].before <= exchanged[i]
      /\ \A i \in DOMAIN d.available : d.available[i] \in 0 .. Sold /\ d.available[i] <= exchanged[i]
    BY <1>3, LinesFields, QuantitiesFields DEF Based, NoMore
<1>5. new \in [S -> [qty : Returns, before : 0 .. Sold]] /\ \A i \in S : new[i].before <= exchanged[i]
    BY <1>4
<1> HIDE DEF new
<1>6. new \in Exchanges!LineSets /\ DOMAIN new = S
    BY <1>4, <1>5, LinesMake
<1>7. Based(new, exchanged)
    BY <1>5, <1>6 DEF Based
<1> DEFINE next == Exchanges!Draft(new, d.available, Exchanges!NoAttempt, d.recovery)
<1>8. DraftOK(next, of, minted, exchanged)
    BY <1>3, <1>6, <1>7, DraftMake, NoAttemptOK
<1>9. flight[t].stage = "idle"
    BY <1>3, TabFacts DEF FlightOK
<1>10. draft' = [draft EXCEPT ![t] = next]
    BY <1>2 DEF new
<1>11. /\ UNCHANGED <<owned, flight, reading>>
       /\ UNCHANGED <<exchanged, elsewhere, committed, permitted, late>>
       /\ UNCHANGED <<record, mark, broken, minted, refused>>
    BY DEF Exchanges!Edit, Exchanges!serverVars, Exchanges!diskVars
<1> HIDE DEF next
<1> QED BY <1>8, <1>9, <1>10, <1>11, DraftSound

LEMMA ResetSound ==
    ASSUME ExchangeConstants, NEW of \in Bodies, ExchangeSound(of), NEW t \in Tabs,
           Exchanges!Reset(t)
    PROVE  ExchangeInv'
<1>1. /\ draft' = [draft EXCEPT ![t] = Exchanges!NoDraft] /\ draft[t].attempt.status # "SENDING"
      /\ UNCHANGED <<owned, flight, reading>>
      /\ UNCHANGED <<exchanged, elsewhere, committed, permitted, late>>
      /\ UNCHANGED <<record, mark, broken, minted, refused>>
    BY DEF Exchanges!Reset, Exchanges!serverVars, Exchanges!diskVars
<1>2. flight[t].stage = "idle"
    BY <1>1, TabFacts DEF FlightOK
<1>3. DraftOK(Exchanges!NoDraft, of, minted, exchanged)
    BY NoDraftOK
<1> QED BY <1>1, <1>2, <1>3, DraftSound

\* What an inspection leaves of the draft.
LEMMA InspectedOK ==
    ASSUME ExchangeConstants, NEW of \in Bodies, ExchangeSound(of), NEW t \in Tabs
    PROVE  /\ DraftOK(Exchanges!Inspected(t), of, minted, exchanged)
           /\ Exchanges!Inspected(t) = draft[t] \/ flight[t].stage = "idle"
<1> DEFINE D == Exchanges!Durable
           d == draft[t]
<1>0. RecordOK(record, of, minted, committed) /\ DraftOK(d, of, minted, exchanged)
    BY TabFacts
<1>1. CASE Exchanges!InFlight(t) \/ d.recovery = "UNREADABLE"
    BY <1>0, <1>1 DEF Exchanges!Inspected
<1>2. CASE ~(Exchanges!InFlight(t) \/ d.recovery = "UNREADABLE")
  <2>1. flight[t].stage = "idle"
      BY <1>2 DEF Exchanges!InFlight
  <2>2. CASE D.status = "unreadable"
    <3>1. Exchanges!Inspected(t) = Exchanges!Recovery(d)
        BY <1>2, <2>2 DEF Exchanges!Inspected
    <3>2. DraftOK(Exchanges!Recovery(d), of, minted, exchanged)
        BY <1>0, RecoveryOK
    <3> QED BY <2>1, <3>1, <3>2
  <2>3. CASE D.status \in {"SENDING", "UNCERTAIN"}
    <3>1. record.status \in {"SENDING", "UNCERTAIN", "CONFIRMED"} /\ record.status # "none"
        BY <1>0, <2>3, DurableIs
    <3>2. DraftOK(Exchanges!FromRecord(record, record.status, d), of, minted, exchanged)
        BY <1>0, <3>1, TabFacts, FromRecordOK
    <3>3. Exchanges!Inspected(t) = Exchanges!FromRecord(record, record.status, d)
        BY <1>2, <2>3 DEF Exchanges!Inspected
    <3> QED BY <2>1, <3>2, <3>3
  <2>4. CASE D.status \notin {"unreadable", "SENDING", "UNCERTAIN"}
    <3>1. Exchanges!Inspected(t) = d
        BY <1>2, <2>4 DEF Exchanges!Inspected
    <3> QED BY <1>0, <3>1
  <2> QED BY <2>1, <2>2, <2>3, <2>4
<1> QED BY <1>1, <1>2

LEMMA InspectSound ==
    ASSUME ExchangeConstants, NEW of \in Bodies, ExchangeSound(of), NEW t \in Tabs,
           Exchanges!Inspect(t)
    PROVE  ExchangeInv'
<1>0. /\ UNCHANGED <<owned, flight>>
      /\ UNCHANGED <<exchanged, elsewhere, committed, permitted, late>>
      /\ UNCHANGED <<record, mark, broken, minted, refused>>
    BY DEF Exchanges!Inspect, Exchanges!serverVars, Exchanges!diskVars
<1>1. CASE Exchanges!Refreshable(t)
  <2> DEFINE x == [stage |-> "asked", basis |-> Exchanges!Basis(t)]
  <2>1. reading' = [reading EXCEPT ![t] = x] /\ UNCHANGED draft
      BY <1>1 DEF Exchanges!Inspect
  <2>2. Exchanges!Basis(t).kind = "tombstone" =>
          Exchanges!Basis(t).key = record.key /\ Exchanges!Durable.status = "CONFIRMED"
      BY DEF Exchanges!Basis
  <2>3. Exchanges!Durable.status = "CONFIRMED" => record.key \in DOMAIN committed
      BY TabFacts, DurableIs DEF RecordOK
  <2>4. ReadingOK(x, exchanged, committed)
      BY <2>2, <2>3 DEF ReadingOK
  <2> HIDE DEF x
  <2> QED BY <1>0, <2>1, <2>4, ReadingSound
<1>2. CASE ~Exchanges!Refreshable(t)
  <2>1. draft' = [draft EXCEPT ![t] = Exchanges!Inspected(t)] /\ UNCHANGED reading
      BY <1>2 DEF Exchanges!Inspect
  <2> QED BY <1>0, <2>1, InspectedOK, DraftSound
<1> QED BY <1>1, <1>2

LEMMA ReadAgainSound ==
    ASSUME ExchangeConstants, NEW of \in Bodies, ExchangeSound(of), NEW t \in Tabs,
           Exchanges!ReadAgain(t)
    PROVE  ExchangeInv'
<1>0. /\ UNCHANGED <<draft, owned, flight>>
      /\ UNCHANGED <<exchanged, elsewhere, committed, permitted, late>>
      /\ UNCHANGED <<record, mark, broken, minted, refused>>
    BY DEF Exchanges!ReadAgain, Exchanges!serverVars, Exchanges!diskVars
<1> DEFINE b == reading[t].basis
           x == [stage |-> "read", basis |-> b, shown |-> exchanged]
<1>1. reading[t].stage = "asked"
      /\ (reading' = [reading EXCEPT ![t] = x] \/ reading' = [reading EXCEPT ![t] = Exchanges!Idle])
    BY DEF Exchanges!ReadAgain
<1>2. b.kind = "tombstone" => ShownBy(exchanged, b.key, committed)
  <2> SUFFICES ASSUME b.kind = "tombstone" PROVE ShownBy(exchanged, b.key, committed)
      OBVIOUS
  <2>1. b.key \in DOMAIN committed
      BY <1>1, TabFacts DEF ReadingOK
  <2>2. committed[b.key] \in Exchanges!Quantities
        /\ \A i \in DOMAIN committed[b.key] : committed[b.key][i] <= exchanged[i]
      BY <2>1, TabFacts DEF World
  <2> QED BY <2>1, <2>2, QuantitiesFields, ExchangedOK DEF ShownBy
<1>3. ReadingOK(x, exchanged, committed)
    BY <1>2, ExchangedOK DEF ReadingOK, ShownBy
<1> HIDE DEF x
<1> QED BY <1>0, <1>1, <1>3, IdleReadingOK, ReadingSound

LEMMA StorageEventSound ==
    ASSUME ExchangeConstants, NEW of \in Bodies, ExchangeSound(of), NEW t \in Tabs,
           Exchanges!HandleStorageEvent(t)
    PROVE  ExchangeInv'
<1> DEFINE D == Exchanges!Durable
           d == draft[t]
<1>0. /\ UNCHANGED <<owned, flight, reading>>
      /\ UNCHANGED <<exchanged, elsewhere, committed, permitted, late>>
      /\ UNCHANGED <<record, mark, broken, minted, refused>>
    BY DEF Exchanges!HandleStorageEvent, Exchanges!serverVars, Exchanges!diskVars
<1>1. RecordOK(record, of, minted, committed) /\ DraftOK(d, of, minted, exchanged)
    BY TabFacts
<1>2. PICK new \in {d, Exchanges!Recovery(d), Exchanges!Resolved(d),
                    Exchanges!FromRecord(record, record.status, d)} :
         /\ draft' = [draft EXCEPT ![t] = new]
         /\ new = d \/ flight[t].stage = "idle"
         /\ \/ new = d \/ new = Exchanges!Recovery(d)
            \/ new = Exchanges!Resolved(d) /\ d.open
            \/ new = Exchanges!FromRecord(record, record.status, d)
               /\ D.status \notin {"unreadable", "none"}
  <2>1. CASE ~Exchanges!Listens(t)
      BY <2>1 DEF Exchanges!HandleStorageEvent
  <2>2. CASE Exchanges!Listens(t)
    <3>1. flight[t].stage = "idle"
        BY <2>2 DEF Exchanges!Listens, Exchanges!InFlight
    <3>2. CASE D.status = "unreadable"
        BY <2>2, <3>1, <3>2 DEF Exchanges!HandleStorageEvent
    <3>3. CASE D.status = "none"
        BY <2>2, <3>1, <3>3 DEF Exchanges!HandleStorageEvent, Exchanges!Holds
    <3>4. CASE D.status \notin {"unreadable", "none"}
        BY <2>2, <3>1, <3>4 DEF Exchanges!HandleStorageEvent
    <3> QED BY <3>2, <3>3, <3>4
  <2> QED BY <2>1, <2>2
<1>3. CASE new = d
    BY <1>0, <1>1, <1>2, <1>3, DraftSound
<1>4. CASE new = Exchanges!Recovery(d)
    BY <1>0, <1>1, <1>2, <1>4, RecoveryOK, DraftSound
<1>5. CASE new = Exchanges!Resolved(d) /\ d.open
    BY <1>0, <1>1, <1>2, <1>5, ResolvedOK, DraftSound
<1>6. CASE new = Exchanges!FromRecord(record, record.status, d) /\ D.status \notin {"unreadable", "none"}
  <2>1. record.status \in {"SENDING", "UNCERTAIN", "CONFIRMED"} /\ record.status # "none"
      BY <1>1, <1>6, DurableIs
  <2>2. DraftOK(new, of, minted, exchanged)
      BY <1>1, <1>6, <2>1, TabFacts, FromRecordOK
  <2> QED BY <1>0, <1>2, <2>2, DraftSound
<1> QED BY <1>2, <1>3, <1>4, <1>5, <1>6

-----------------------------------------------------------------------------
(* Steps that raise the mark *)

Rises == DOMAIN mark \subseteq DOMAIN mark' /\ \A i \in DOMAIN mark : mark[i] <= mark'[i]

LEMMA MarkRises ==
    ASSUME ExchangeConstants, NEW of, ExchangeSound(of),
           NEW s \in Exchanges!Quantities, NoMore(s, exchanged),
           mark' = mark \/ mark' = Exchanges!Raised(s)
    PROVE  /\ MarkOK(mark', exchanged) /\ Rises
           /\ \A k \in DOMAIN committed : ShownBy(mark, k, committed) => ShownBy(mark', k, committed)
           /\ mark' = Exchanges!Raised(s) =>
                \A k \in DOMAIN committed : ShownBy(s, k, committed) => ShownBy(mark', k, committed)
<1>1. World(of, minted, exchanged, committed) /\ MarkOK(mark, exchanged)
    BY DEF ExchangeSound, DiskOK
<1>2. /\ \A k \in DOMAIN committed : committed[k] \in Exchanges!Quantities
      /\ \A k \in DOMAIN committed, i \in Items : i \in DOMAIN committed[k] => committed[k][i] \in Nat
      /\ \A i \in DOMAIN mark : mark[i] \in Nat
      /\ \A i \in DOMAIN s : s[i] \in Nat
      /\ \A k \in DOMAIN committed : DOMAIN committed[k] \subseteq Items
    BY <1>1, QuantitiesFields DEF World, MarkOK
<1>3. exchanged \in [Items -> 0 .. Sold]
    BY <1>1 DEF World
<1>4. CASE mark' = mark /\ mark' # Exchanges!Raised(s)
    BY <1>1, <1>2, <1>4 DEF Rises
<1>5. CASE mark' = Exchanges!Raised(s)
  <2>1. /\ MarkOK(mark', exchanged) /\ DOMAIN mark' = DOMAIN mark \cup DOMAIN s
        /\ \A i \in DOMAIN mark : mark[i] <= mark'[i]
        /\ \A i \in DOMAIN s : s[i] <= mark'[i]
      BY <1>1, <1>3, <1>5, Raises
  <2>2. \A i \in DOMAIN mark' : mark'[i] \in Nat
      BY <2>1, QuantitiesFields DEF MarkOK
  <2>3. ASSUME NEW k \in DOMAIN committed, ShownBy(mark, k, committed)
        PROVE  ShownBy(mark', k, committed)
      BY <1>2, <2>1, <2>2, <2>3 DEF ShownBy
  <2>4. ASSUME NEW k \in DOMAIN committed, ShownBy(s, k, committed)
        PROVE  ShownBy(mark', k, committed)
      BY <1>2, <2>1, <2>2, <2>4 DEF ShownBy
  <2> QED BY <2>1, <2>3, <2>4 DEF Rises
<1> QED BY <1>4, <1>5

\* The evidence there is in the record and the mark stays when the mark rises.
LEMMA EvidenceStays ==
    ASSUME NEW of, ExchangeSound(of), MarkOK(mark', exchanged),
           \A k \in DOMAIN committed : ShownBy(mark, k, committed) => ShownBy(mark', k, committed)
    PROVE  DiskOK(record, mark', refused, of, minted, exchanged, committed)
BY DEF ExchangeSound, DiskOK, Evident, ShownBy

LEMMA ExistingOK ==
    ASSUME ExchangeConstants, NEW of \in Bodies, ExchangeSound(of), NEW t \in Tabs
    PROVE  DraftOK(Exchanges!OpenExisting(t), of, minted, exchanged)
<1> DEFINE D == Exchanges!Durable
           none == Exchanges!NoDraft
<1>0. RecordOK(record, of, minted, committed) /\ DraftOK(none, of, minted, exchanged)
    BY TabFacts, NoDraftOK
<1>1. CASE D.status \in {"SENDING", "UNCERTAIN", "CONFIRMED"}
  <2>1. record.status \in {"SENDING", "UNCERTAIN", "CONFIRMED"} /\ record.status # "none"
      BY <1>0, <1>1, DurableIs
  <2>2. DraftOK(Exchanges!FromRecord(record, record.status, none), of, minted, exchanged)
      BY <1>0, <2>1, TabFacts, FromRecordOK
  <2>3. \/ Exchanges!OpenExisting(t) = none
        \/ Exchanges!OpenExisting(t) = Exchanges!FromRecord(record, record.status, none)
      BY <1>1 DEF Exchanges!OpenExisting
  <2> QED BY <1>0, <2>2, <2>3
<1>2. CASE D.status \notin {"SENDING", "UNCERTAIN", "CONFIRMED"}
  <2>1. DraftOK(Exchanges!Recovery(none), of, minted, exchanged)
      BY <1>0, RecoveryOK
  <2>2. \/ Exchanges!OpenExisting(t) = none
        \/ Exchanges!OpenExisting(t) = Exchanges!Recovery(none)
      BY <1>2 DEF Exchanges!OpenExisting
  <2> QED BY <1>0, <2>1, <2>2
<1> QED BY <1>1, <1>2

\* A step that closes what a tab reads, and may raise the mark.
LEMMA ReadClosed ==
    ASSUME ExchangeConstants, NEW of \in Bodies, ExchangeSound(of), NEW t \in Tabs,
           NEW d, DraftOK(d, of, minted, exchanged), d = draft[t] \/ flight[t].stage = "idle",
           OnlyTab(t), draft'[t] = d,
           owned'[t] \subseteq owned[t], flight'[t] = flight[t], reading'[t] = Exchanges!Idle,
           UNCHANGED <<exchanged, elsewhere, committed, permitted, late, broken, minted>>,
           DiskOK(record', mark', refused', of, minted, exchanged, committed)
    PROVE  ExchangeInv'
<1>1. TabOK(draft'[t], owned'[t], flight'[t], reading'[t], of, minted, exchanged, committed)
    BY TabFacts, IdleReadingOK DEF TabOK, FlightOK
<1>2. RestTyped'
    BY DEF ExchangeSound, RestTyped
<1> QED BY <1>1, <1>2, TabStepSound

LEMMA OpenDraftSound ==
    ASSUME ExchangeConstants, NEW of \in Bodies, ExchangeSound(of), NEW t \in Tabs,
           Exchanges!OpenDraft(t)
    PROVE  ExchangeInv' /\ Rises
<1> DEFINE sight == reading[t].shown
<1>1. /\ reading[t].stage = "found" /\ reading' = [reading EXCEPT ![t] = Exchanges!Idle]
      /\ UNCHANGED <<owned, flight, record, refused>>
      /\ UNCHANGED <<exchanged, elsewhere, committed, permitted, late, broken, minted>>
    BY DEF Exchanges!OpenDraft, Exchanges!serverVars
<1>2. sight \in Exchanges!Quantities /\ NoMore(sight, exchanged)
    BY <1>1, TabFacts DEF ReadingOK
<1>3. mark' = mark \/ mark' = Exchanges!Raised(sight)
    BY DEF Exchanges!OpenDraft, Exchanges!RaiseSucceeds, Exchanges!RaiseFails
<1>4. \/ draft' = [draft EXCEPT ![t] = Exchanges!FreshDraft(sight)] /\ ~draft[t].open
      \/ draft' = draft
      \/ draft' = [draft EXCEPT ![t] = Exchanges!OpenExisting(t)] /\ ~draft[t].open
    BY DEF Exchanges!OpenDraft
<1>5. PICK d : /\ draft'[t] = d /\ DraftOK(d, of, minted, exchanged)
               /\ d = draft[t] \/ flight[t].stage = "idle"
  <2>1. ~draft[t].open => flight[t].stage = "idle"
      BY TabFacts DEF FlightOK
  <2>2. DraftOK(Exchanges!FreshDraft(sight), of, minted, exchanged)
      BY <1>2, FreshOK
  <2>3. DraftOK(Exchanges!OpenExisting(t), of, minted, exchanged)
      BY ExistingOK
  <2> QED BY <1>4, <2>1, <2>2, <2>3, TabFacts
<1>6. OnlyTab(t)
    BY <1>1, <1>4, TabFacts DEF OnlyTab
<1>7. /\ MarkOK(mark', exchanged) /\ Rises
      /\ \A k \in DOMAIN committed : ShownBy(mark, k, committed) => ShownBy(mark', k, committed)
    BY <1>2, <1>3, MarkRises
<1>8. DiskOK(record', mark', refused', of, minted, exchanged, committed)
    BY <1>1, <1>7, EvidenceStays
<1>9. owned'[t] \subseteq owned[t] /\ flight'[t] = flight[t] /\ reading'[t] = Exchanges!Idle
    BY <1>1, TabFacts
<1> QED BY <1>1, <1>5, <1>6, <1>7, <1>8, <1>9, ReadClosed

-----------------------------------------------------------------------------
(* Sending *)

LEMMA RefusalOK ==
    ASSUME ExchangeConstants, NEW of \in Bodies, ExchangeSound(of), NEW t \in Tabs,
           draft[t].open
    PROVE  DraftOK(Exchanges!Refusal(t), of, minted, exchanged)
<1> DEFINE D == Exchanges!Durable
           d == draft[t]
<1>0. RecordOK(record, of, minted, committed) /\ DraftOK(d, of, minted, exchanged) /\ d.open
    BY TabFacts
<1>1. /\ "UNREADABLE" \in Exchanges!Reasons /\ "STALE_BASELINE" \in Exchanges!Reasons
    BY DEF Exchanges!Reasons
<1>2. /\ DraftOK(Exchanges!Blocked(d, "UNREADABLE"), of, minted, exchanged)
      /\ DraftOK(Exchanges!Blocked(d, "STALE_BASELINE"), of, minted, exchanged)
      /\ DraftOK(Exchanges!Resolved(d), of, minted, exchanged)
    BY <1>0, <1>1, BlockedOK, ResolvedOK
<1>3. D.status = "CONFIRMED" =>
        DraftOK(Exchanges!FromRecord(record, "CONFIRMED", d), of, minted, exchanged)
    BY <1>0, DurableIs, TabFacts, FromRecordOK
<1>4. \/ Exchanges!Refusal(t) = d
      \/ Exchanges!Refusal(t) = Exchanges!Blocked(d, "UNREADABLE")
      \/ D.status = "CONFIRMED" /\ Exchanges!Refusal(t) = Exchanges!FromRecord(record, "CONFIRMED", d)
      \/ Exchanges!Refusal(t) = Exchanges!Resolved(d)
      \/ Exchanges!Refusal(t) = Exchanges!Blocked(d, "STALE_BASELINE")
  <2>1. CASE ~Exchanges!Sendable(t)
      BY <2>1 DEF Exchanges!Refusal
  <2>2. CASE Exchanges!Sendable(t)
    <3>1. CASE D.status = "unreadable"
        BY <2>2, <3>1 DEF Exchanges!Refusal
    <3>2. CASE D.status = "CONFIRMED"
        BY <2>2, <3>2 DEF Exchanges!Refusal
    <3>3. CASE D.status \in {"SENDING", "UNCERTAIN"}
        BY <2>2, <3>3 DEF Exchanges!Refusal
    <3>4. CASE D.status = "none"
        BY <2>2, <3>4 DEF Exchanges!Refusal
    <3> QED BY <1>0, <3>1, <3>2, <3>3, <3>4, DurableIs
  <2> QED BY <2>1, <2>2
<1> QED BY <1>0, <1>2, <1>3, <1>4

Sends(t, key) == Exchanges!Launches(t, key) \/ Exchanges!Unverified(t, key)

\* The draft, the record and the request of a send, whatever key it is under.
LEMMA LaunchOK ==
    ASSUME NEW of, NEW n, NEW e, NEW c, NEW t \in Tabs, NEW key, Sends(t, key),
           TabOK(draft[t], owned[t], flight[t], reading[t], of, n, e, c),
           draft[t].open, Has(key, draft[t].lines, of, n), UNCHANGED reading,
           DOMAIN draft = Tabs, DOMAIN owned = Tabs, DOMAIN flight = Tabs, DOMAIN reading = Tabs
    PROVE  /\ OnlyTab(t) /\ RecordOK(record', of, n, c)
           /\ record'.status # "none" /\ record'.key = key /\ record'.lines = draft[t].lines
           /\ TabOK(draft'[t], owned'[t], flight'[t], reading'[t], of, n, e, c)
<1> DEFINE d == draft[t]
           a == [status |-> "SENDING", key |-> key, lines |-> d.lines]
           new == Exchanges!Draft(d.lines, d.available, a, d.recovery)
           f == [stage |-> "sent", key |-> key, lines |-> d.lines]
<1>1. /\ DraftOK(d, of, n, e) /\ owned[t] \subseteq 1 .. n /\ ReadingOK(reading[t], e, c)
    BY DEF TabOK
<1>2. /\ record'.status = "SENDING" /\ record'.key = key /\ record'.lines = d.lines
      /\ "SENDING" \in Exchanges!Statuses
    BY DEF Sends, Exchanges!Launches, Exchanges!Unverified, Exchanges!Written, Exchanges!Statuses
<1>3. RecordOK(record', of, n, c)
    BY <1>2 DEF RecordOK
<1>4. AttemptOK(a, of, n) /\ a.status = "SENDING" /\ a.key = key
    BY <1>2, AttemptMake
<1> HIDE DEF a
<1>5. DraftOK(new, of, n, e) /\ new.open /\ new.attempt = a
    BY <1>1, <1>4, DraftMake DEF DraftOK
<1>6. f.stage = "sent" /\ f.key = key /\ f.lines = d.lines /\ "sent" \in Exchanges!Stages
    BY DEF Exchanges!Stages
<1>7. CASE Exchanges!Launches(t, key)
  <2>1. /\ owned' = [owned EXCEPT ![t] = owned[t] \cup {key}]
        /\ draft' = [draft EXCEPT ![t] = new]
        /\ flight' = [flight EXCEPT ![t] = f]
      BY <1>7 DEF Exchanges!Launches, a
  <2> HIDE DEF new, f
  <2>2. FlightOK(f, new, of, n, c)
      BY <1>4, <1>5, <1>6 DEF FlightOK
  <2>3. /\ draft'[t] = new /\ owned'[t] = owned[t] \cup {key} /\ flight'[t] = f
        /\ reading'[t] = reading[t]
      BY <2>1
  <2>4. TabOK(draft'[t], owned'[t], flight'[t], reading'[t], of, n, e, c)
      BY <1>1, <1>5, <2>2, <2>3 DEF TabOK, Has
  <2>5. OnlyTab(t)
      BY <2>1 DEF OnlyTab
  <2> QED BY <1>2, <1>3, <2>4, <2>5
<1>8. CASE Exchanges!Unverified(t, key)
  <2>1. UNCHANGED <<draft, owned, flight>>
      BY <1>8 DEF Exchanges!Unverified
  <2>2. OnlyTab(t) /\ TabOK(draft'[t], owned'[t], flight'[t], reading'[t], of, n, e, c)
      BY <2>1 DEF OnlyTab
  <2> QED BY <1>2, <1>3, <2>2
<1> QED BY <1>7, <1>8 DEF Sends

\* A pending attempt is repeated under its own key.
LEMMA RepeatSound ==
    ASSUME ExchangeConstants, NEW of \in Bodies, ExchangeSound(of), NEW t \in Tabs,
           draft[t].open, Exchanges!Reusable(t), Sends(t, record.key),
           UNCHANGED minted, UNCHANGED <<exchanged, elsewhere, committed, permitted, late>>,
           UNCHANGED <<mark, broken, refused, reading>>
    PROVE  ExchangeInv'
<1>1. RecordOK(record, of, minted, committed) /\ record.status # "none"
      /\ record.lines = draft[t].lines
    BY TabFacts, DurableIs DEF Exchanges!Reusable
<1>2. Has(record.key, draft[t].lines, of, minted)
    BY <1>1 DEF RecordOK
<1>3. /\ OnlyTab(t) /\ RecordOK(record', of, minted, committed)
      /\ record'.status # "none" /\ record'.key = record.key
      /\ TabOK(draft'[t], owned'[t], flight'[t], reading'[t], of, minted, exchanged, committed)
  <2>1. /\ TabOK(draft[t], owned[t], flight[t], reading[t], of, minted, exchanged, committed)
        /\ DOMAIN draft = Tabs /\ DOMAIN owned = Tabs /\ DOMAIN flight = Tabs
        /\ DOMAIN reading = Tabs
      BY TabFacts DEF TabOK
  <2> DEFINE key == record.key
  <2>2. Sends(t, key) /\ Has(key, draft[t].lines, of, minted)
      BY <1>2
  <2> HIDE DEF key
  <2>3. /\ OnlyTab(t) /\ RecordOK(record', of, minted, committed)
        /\ record'.status # "none" /\ record'.key = key
        /\ TabOK(draft'[t], owned'[t], flight'[t], reading'[t], of, minted, exchanged, committed)
      BY <2>1, <2>2, LaunchOK
  <2> QED BY <2>3 DEF key
<1>4. DiskOK(record', mark', refused', of, minted, exchanged, committed)
    BY <1>3, TabFacts DEF DiskOK, Evident
<1>5. RestTyped'
    BY DEF ExchangeSound, RestTyped
<1> QED BY <1>3, <1>4, <1>5, TabStepSound

\* A new key is given the lines of the draft for its body.
LEMMA MintSound ==
    ASSUME ExchangeConstants, NEW of \in Bodies, ExchangeSound(of), NEW t \in Tabs,
           draft[t].open, Exchanges!MayMint(t), minted < MaxExchangeKeys, minted' = minted + 1,
           Sends(t, minted + 1),
           UNCHANGED <<exchanged, elsewhere, committed, permitted, late>>,
           UNCHANGED <<mark, broken, refused, reading>>
    PROVE  ExchangeInv'
<1> DEFINE n == minted + 1
           lines == draft[t].lines
           new == [of EXCEPT ![n] = lines]
<1>1. /\ minted \in Nat /\ n \in Nat /\ n \in 0 .. MaxExchangeKeys
      /\ lines \in Exchanges!LineSets /\ Based(lines, exchanged)
    BY TabFacts DEF World, DraftOK, ExchangeConstants
<1>2. new \in Bodies /\ new[n] = lines /\ \A k \in 1 .. minted : new[k] = of[k]
    BY <1>1 DEF Bodies
<1> HIDE DEF new
<1>3. World(new, n, exchanged, committed)
    BY <1>1, <1>2, TabFacts DEF World
<1>4. Later(of, minted, exchanged, committed, new, n, exchanged, committed)
    BY <1>1, <1>2, TabFacts DEF Later, ExchangeConstants
<1>5. /\ TabOK(draft[t], owned[t], flight[t], reading[t], new, n, exchanged, committed)
      /\ Has(n, lines, new, n)
  <2>1. TabOK(draft[t], owned[t], flight[t], reading[t], of, minted, exchanged, committed)
      BY TabFacts DEF TabOK
  <2>2. TabOK(draft[t], owned[t], flight[t], reading[t], new, n, exchanged, committed)
      BY <1>1, <1>4, <2>1, TabFacts, LaterTab
  <2> QED BY <1>1, <1>2, <2>2 DEF Has
<1>6. /\ OnlyTab(t) /\ RecordOK(record', new, n, committed)
      /\ record'.status # "none" /\ record'.key = n
      /\ TabOK(draft'[t], owned'[t], flight'[t], reading'[t], new, n, exchanged, committed)
  <2>1. DOMAIN draft = Tabs /\ DOMAIN owned = Tabs /\ DOMAIN flight = Tabs /\ DOMAIN reading = Tabs
      BY TabFacts
  <2>2. Sends(t, n) /\ Has(n, draft[t].lines, new, n)
      BY <1>5
  <2> HIDE DEF n
  <2> QED BY <1>5, <2>1, <2>2, LaunchOK
<1>7. record.status = "none"
    BY TabFacts, DurableIs DEF Exchanges!MayMint
<1>8. Evident(record', mark, n, refused, committed)
    BY <1>1, <1>6, <1>7, TabFacts DEF DiskOK, Evident
<1>9. DiskOK(record', mark', refused', new, n, exchanged, committed)
    BY <1>1, <1>6, <1>8, TabFacts DEF DiskOK
<1>10. RestTyped'
    BY DEF ExchangeSound, RestTyped
<1>11. World(new, minted', exchanged', committed')
       /\ Later(of, minted, exchanged, committed, new, minted', exchanged', committed')
    BY <1>3, <1>4
<1>12. /\ TabOK(draft'[t], owned'[t], flight'[t], reading'[t], new, minted', exchanged', committed')
       /\ DiskOK(record', mark', refused', new, minted', exchanged', committed')
    BY <1>6, <1>9
<1> QED BY <1>2, <1>6, <1>10, <1>11, <1>12, StepSound

LEMMA SendSound ==
    ASSUME ExchangeConstants, NEW of \in Bodies, ExchangeSound(of), NEW t \in Tabs,
           Exchanges!Send(t)
    PROVE  ExchangeInv'
<1>1. /\ draft[t].open /\ flight[t].stage = "idle"
      /\ UNCHANGED <<exchanged, elsewhere, committed, permitted, late>>
      /\ UNCHANGED <<mark, broken, refused, reading>>
    BY DEF Exchanges!Send, Exchanges!InFlight, Exchanges!serverVars
<1>2. CASE Exchanges!Reusable(t) /\ Sends(t, record.key) /\ UNCHANGED minted
    BY <1>1, <1>2, RepeatSound
<1>3. CASE /\ Exchanges!MayMint(t) /\ minted < MaxExchangeKeys /\ minted' = minted + 1
           /\ Sends(t, minted + 1)
    BY <1>1, <1>3, MintSound
<1>4. CASE UNCHANGED <<minted, draft, owned, flight, record>>
  <2>1. OnlyTab(t)
        /\ TabOK(draft'[t], owned'[t], flight'[t], reading'[t], of, minted, exchanged, committed)
      BY <1>1, <1>4, TabFacts DEF OnlyTab, TabOK
  <2> QED BY <1>1, <1>4, <2>1, MemoryStepSound
<1>5. CASE draft' = [draft EXCEPT ![t] = Exchanges!Refusal(t)]
           /\ UNCHANGED <<minted, record, owned, flight>>
    BY <1>1, <1>5, RefusalOK, DraftSound
<1> QED BY <1>2, <1>3, <1>4, <1>5 DEF Exchanges!Send, Exchanges!WriteFails, Sends

-----------------------------------------------------------------------------
(* Settling the answer *)

\* What a read must show once the exchange of a key is confirmed is behind the server.
LEMMA WatermarkOK ==
    ASSUME ExchangeConstants, NEW of, NEW n, NEW e, NEW c, World(of, n, e, c), n \in Nat,
           NEW k \in DOMAIN c
    PROVE  /\ Exchanges!Watermark(of[k]) \in Exchanges!Quantities
           /\ NoMore(Exchanges!Watermark(of[k]), e)
<1> DEFINE w == Exchanges!Watermark(of[k])
           S == DOMAIN of[k]
<1>1. of[k] \in Exchanges!LineSets /\ k \in 1 .. n
    BY DEF World, Bodies
<1>2. /\ c[k] \in Exchanges!Quantities /\ DOMAIN c[k] = S
      /\ \A i \in S : of[k][i].before + of[k][i].qty <= c[k][i] /\ c[k][i] <= e[i]
      /\ e \in [Items -> 0 .. Sold]
    BY DEF World
<1>3. /\ S \in SUBSET Items
      /\ \A i \in S : of[k][i].qty \in Nat /\ of[k][i].before \in Nat
    BY <1>1, LinesFields
<1>4. \A i \in S : c[k][i] \in 0 .. Sold /\ e[i] \in 0 .. Sold
    BY <1>2, <1>3, QuantitiesFields
<1>5. w = [i \in S |-> of[k][i].before + of[k][i].qty]
    BY DEF Exchanges!Watermark
<1>6. ASSUME NEW i \in S
      PROVE  of[k][i].before + of[k][i].qty \in 0 .. Sold /\ of[k][i].before + of[k][i].qty <= e[i]
    BY <1>2, <1>3, <1>4 DEF ExchangeConstants
<1>7. w \in [S -> 0 .. Sold] /\ DOMAIN w = S /\ \A i \in S : w[i] <= e[i]
    BY <1>5, <1>6
<1> HIDE DEF w, S
<1> QED BY <1>3, <1>7, QuantitiesMake DEF NoMore, w

\* The record a settled answer leaves.
LEMMA KeptRecordOK ==
    ASSUME NEW of, NEW n, NEW c, NEW key, NEW lines, Has(key, lines, of, n),
           NEW status \in {"UNCERTAIN", "CONFIRMED"}, status = "CONFIRMED" => key \in DOMAIN c,
           NEW r, r.status = status, r.key = key, r.lines = lines
    PROVE  RecordOK(r, of, n, c)
BY DEF RecordOK, Exchanges!Statuses

\* The outcome of a request, and the attempt it is the answer of.
LEMMA OutcomeFacts ==
    ASSUME ExchangeConstants, NEW of, ExchangeSound(of), NEW t \in Tabs,
           flight[t].stage # "idle"
    PROVE  /\ draft[t].open /\ draft[t].attempt.status = "SENDING"
           /\ draft[t].attempt.key = flight[t].key
           /\ Has(flight[t].key, flight[t].lines, of, minted)
           /\ draft[t].attempt.lines = flight[t].lines
           /\ flight[t].stage = "CONFIRMED" => flight[t].key \in DOMAIN committed
BY TabFacts DEF FlightOK, DraftOK, AttemptOK, Has

\* A step that takes the answer of a request into the draft.
LEMMA AnswerTaken ==
    ASSUME ExchangeConstants, NEW of \in Bodies, ExchangeSound(of), NEW t \in Tabs,
           NEW d, DraftOK(d, of, minted, exchanged), draft' = [draft EXCEPT ![t] = d],
           flight' = [flight EXCEPT ![t] = Exchanges!Idle],
           UNCHANGED <<exchanged, elsewhere, committed, permitted, late>>,
           UNCHANGED <<broken, minted, owned, reading>>,
           DiskOK(record', mark', refused', of, minted, exchanged, committed)
    PROVE  ExchangeInv'
<1>1. /\ draft'[t] = d /\ flight'[t] = Exchanges!Idle /\ owned'[t] = owned[t]
      /\ reading'[t] = reading[t] /\ OnlyTab(t)
    BY TabFacts DEF OnlyTab
<1>2. TabOK(draft'[t], owned'[t], flight'[t], reading'[t], of, minted, exchanged, committed)
    BY <1>1, TabFacts, IdleOK, RestingTab
<1>3. RestTyped'
    BY DEF ExchangeSound, RestTyped
<1> QED BY <1>1, <1>2, <1>3, TabStepSound

\* What is still owed evidence after an answer has it in the record or in the mark.
LEMMA SettledEvidence ==
    ASSUME ExchangeConstants, NEW of, ExchangeSound(of), NEW t \in Tabs,
           Exchanges!Settle(t), RecordOK(record', of, minted, committed),
           MarkOK(mark', exchanged),
           \A k \in DOMAIN committed : ShownBy(mark, k, committed) => ShownBy(mark', k, committed)
    PROVE  DiskOK(record', mark', refused', of, minted, exchanged, committed)
<1> DEFINE key == flight[t].key
           outcome == flight[t].stage
           D == Exchanges!Durable
<1>1. /\ outcome \in {"CONFIRMED", "REJECTED", "UNCERTAIN"}
      /\ refused' = refused \cup (IF outcome = "REJECTED" THEN {key} ELSE {})
    BY DEF Exchanges!Settle
<1>2. key \in 1 .. minted /\ Evident(record, mark, minted, refused, committed)
      /\ refused \subseteq 1 .. minted /\ RecordOK(record, of, minted, committed)
    BY <1>1, TabFacts, OutcomeFacts DEF DiskOK, Has
<1>3. ASSUME NEW k \in 1 .. minted \ refused', record.status # "none", record.key = k
      PROVE  record'.status # "none" /\ record'.key = k
  <2>1. CASE record' = record
      BY <1>3, <2>1
  <2>2. CASE record' # record
    <3>1. D.status # "unreadable" /\ ~Exchanges!NotMine(key) /\ Exchanges!Keeps(t, outcome)
        BY <2>2 DEF Exchanges!Settle
    <3>2. D = record /\ D.status \in {"SENDING", "UNCERTAIN", "CONFIRMED"}
        BY <1>2, <1>3, <3>1, DurableIs
    <3>3. k = key
        BY <1>3, <3>1, <3>2 DEF Exchanges!NotMine
    <3>4. outcome # "REJECTED"
        BY <1>1, <3>3
    <3>5. record'.key = key /\ record'.status = outcome
        BY <1>1, <2>2, <3>1, <3>4 DEF Exchanges!Keeps, Exchanges!WriteFails
    <3> QED BY <1>1, <3>3, <3>5
  <2> QED BY <2>1, <2>2
<1>4. Evident(record', mark', minted, refused', committed)
    BY <1>1, <1>2, <1>3 DEF Evident, ShownBy
<1> QED BY <1>1, <1>2, <1>4 DEF DiskOK

LEMMA SettledRecord ==
    ASSUME ExchangeConstants, NEW of \in Bodies, ExchangeSound(of), NEW t \in Tabs,
           Exchanges!Settle(t)
    PROVE  /\ RecordOK(record', of, minted, committed)
           /\ record.status = "CONFIRMED" => record' = record
<1> DEFINE key == flight[t].key
           outcome == flight[t].stage
           D == Exchanges!Durable
<1>1. outcome \in {"CONFIRMED", "REJECTED", "UNCERTAIN"}
    BY DEF Exchanges!Settle
<1>2. /\ Has(key, draft[t].attempt.lines, of, minted) /\ RecordOK(record, of, minted, committed)
      /\ outcome = "CONFIRMED" => key \in DOMAIN committed
    BY <1>1, TabFacts, OutcomeFacts
<1>3. CASE record' = record
    BY <1>2, <1>3
<1>4. CASE record' # record
  <2>1. D.status # "unreadable" /\ ~Exchanges!NotMine(key) /\ Exchanges!Keeps(t, outcome)
      BY <1>4 DEF Exchanges!Settle
  <2>2. D = record /\ record.status # "CONFIRMED"
      BY <1>2, <2>1, DurableIs DEF Exchanges!NotMine
  <2>3. \/ record' = Exchanges!NoAttempt
        \/ /\ outcome \in {"CONFIRMED", "UNCERTAIN"} /\ record'.status = outcome
           /\ record'.key = key /\ record'.lines = draft[t].attempt.lines
      BY <1>4, <2>1 DEF Exchanges!Keeps, Exchanges!WriteFails
  <2>4. RecordOK(Exchanges!NoAttempt, of, minted, committed)
      BY DEF RecordOK, Exchanges!NoAttempt, Exchanges!Statuses
  <2> QED BY <1>2, <2>2, <2>3, <2>4, KeptRecordOK
<1> QED BY <1>3, <1>4

LEMMA SettledDraft ==
    ASSUME ExchangeConstants, NEW of \in Bodies, ExchangeSound(of), NEW t \in Tabs,
           Exchanges!Settle(t)
    PROVE  \E d : DraftOK(d, of, minted, exchanged) /\ draft' = [draft EXCEPT ![t] = d]
<1> DEFINE d == draft[t]
           outcome == flight[t].stage
           D == Exchanges!Durable
<1>1. outcome \in {"CONFIRMED", "REJECTED", "UNCERTAIN"} /\ outcome # "idle"
    BY DEF Exchanges!Settle
<1>2. /\ d.open /\ d.attempt.status # "none" /\ DraftOK(d, of, minted, exchanged)
      /\ RecordOK(record, of, minted, committed)
    BY <1>1, TabFacts, OutcomeFacts
<1>3. CASE D.status = "unreadable"
  <2>1. draft' = [draft EXCEPT ![t] = Exchanges!Recovery(d)]
      BY <1>3 DEF Exchanges!Settle
  <2> QED BY <1>2, <2>1, RecoveryOK
<1>4. CASE D.status # "unreadable" /\ Exchanges!NotMine(flight[t].key)
  <2>1. draft' = [draft EXCEPT ![t] = Exchanges!FromRecord(record, record.status, d)]
      BY <1>4 DEF Exchanges!Settle
  <2>2. record.status \in {"SENDING", "UNCERTAIN", "CONFIRMED"} /\ record.status # "none"
      BY <1>2, <1>4, DurableIs DEF Exchanges!NotMine
  <2>3. DraftOK(Exchanges!FromRecord(record, record.status, d), of, minted, exchanged)
      BY <1>2, <2>2, TabFacts, FromRecordOK
  <2> QED BY <2>1, <2>3
<1>5. CASE D.status # "unreadable" /\ ~Exchanges!NotMine(flight[t].key)
  <2>1. draft' = [draft EXCEPT ![t] = Exchanges!NextState(d, outcome)]
      BY <1>5 DEF Exchanges!Settle
  <2>2. DraftOK(Exchanges!NextState(d, outcome), of, minted, exchanged)
      BY <1>1, <1>2, NextStateOK
  <2> QED BY <2>1, <2>2
<1> QED BY <1>3, <1>4, <1>5

LEMMA SettleSound ==
    ASSUME ExchangeConstants, NEW of \in Bodies, ExchangeSound(of), NEW t \in Tabs,
           Exchanges!Settle(t)
    PROVE  ExchangeInv' /\ Rises
<1> DEFINE outcome == flight[t].stage
           sight == Exchanges!Watermark(draft[t].attempt.lines)
<1>1. /\ outcome \in {"CONFIRMED", "REJECTED", "UNCERTAIN"}
      /\ flight' = [flight EXCEPT ![t] = Exchanges!Idle]
      /\ UNCHANGED <<exchanged, elsewhere, committed, permitted, late>>
      /\ UNCHANGED <<broken, minted, owned, reading>>
    BY DEF Exchanges!Settle, Exchanges!serverVars
<1>2. /\ MarkOK(mark', exchanged) /\ Rises
      /\ \A k \in DOMAIN committed : ShownBy(mark, k, committed) => ShownBy(mark', k, committed)
  <2>1. CASE outcome = "CONFIRMED"
    <3>1. /\ draft[t].attempt.lines = of[flight[t].key] /\ flight[t].key \in DOMAIN committed
        BY <2>1, OutcomeFacts DEF Has
    <3>2. sight \in Exchanges!Quantities /\ NoMore(sight, exchanged)
        BY <3>1, TabFacts, WatermarkOK
    <3>3. mark' = mark \/ mark' = Exchanges!Raised(sight)
        BY <2>1 DEF Exchanges!Settle, Exchanges!Teaches, Exchanges!RaiseSucceeds, Exchanges!RaiseFails
    <3> HIDE DEF sight
    <3> QED BY <3>2, <3>3, MarkRises
  <2>2. CASE outcome # "CONFIRMED"
    <3>1. mark' = mark
        BY <2>2 DEF Exchanges!Settle, Exchanges!Teaches
    <3>2. MarkOK(mark, exchanged) /\ \A i \in DOMAIN mark : mark[i] \in Nat
        BY TabFacts, QuantitiesFields DEF MarkOK
    <3> QED BY <3>1, <3>2 DEF Rises
  <2> QED BY <2>1, <2>2
<1>3. PICK d : DraftOK(d, of, minted, exchanged) /\ draft' = [draft EXCEPT ![t] = d]
    BY SettledDraft
<1>4. DiskOK(record', mark', refused', of, minted, exchanged, committed)
    BY <1>2, SettledRecord, SettledEvidence
<1> QED BY <1>1, <1>2, <1>3, <1>4, AnswerTaken

LEMMA SettleAloneSound ==
    ASSUME ExchangeConstants, NEW of \in Bodies, ExchangeSound(of), NEW t \in Tabs,
           Exchanges!SettleAlone(t)
    PROVE  ExchangeInv'
<1> DEFINE d == draft[t]
           outcome == flight[t].stage
           new == Exchanges!NextState(d, outcome)
<1>1. /\ outcome \in {"CONFIRMED", "REJECTED", "UNCERTAIN"} /\ outcome # "idle"
      /\ flight' = [flight EXCEPT ![t] = Exchanges!Idle] /\ draft' = [draft EXCEPT ![t] = new]
      /\ refused' = refused \cup (IF outcome = "REJECTED" THEN {flight[t].key} ELSE {})
      /\ UNCHANGED <<exchanged, elsewhere, committed, permitted, late>>
      /\ UNCHANGED <<broken, minted, owned, reading>>
      /\ UNCHANGED <<record, mark>>
    BY DEF Exchanges!SettleAlone, Exchanges!serverVars
<1>2. DraftOK(new, of, minted, exchanged)
    BY <1>1, TabFacts, OutcomeFacts, NextStateOK
<1>3. flight[t].key \in 1 .. minted
    BY <1>1, OutcomeFacts DEF Has
<1>4. DiskOK(record', mark', refused', of, minted, exchanged, committed)
    BY <1>1, <1>3, TabFacts DEF DiskOK, Evident
<1> HIDE DEF new
<1> QED BY <1>1, <1>2, <1>4, AnswerTaken

-----------------------------------------------------------------------------
(* Closing a confirmed attempt *)

\* The tombstone goes when the read it was inspected with shows its exchange.
LEMMA ReconciledSound ==
    ASSUME ExchangeConstants, NEW of \in Bodies, ExchangeSound(of), NEW t \in Tabs,
           reading[t].stage = "read", reading' = [reading EXCEPT ![t] = Exchanges!Idle],
           Exchanges!Reconciled(t), UNCHANGED <<broken, minted, refused, flight>>,
           UNCHANGED <<exchanged, elsewhere, committed, permitted, late>>
    PROVE  /\ ExchangeInv' /\ Rises
           /\ record.status = "CONFIRMED" /\ record' # record =>
                record'.status = "none" /\ ShownBy(mark', record.key, committed)
<1> DEFINE sight == reading[t].shown
           D == Exchanges!Durable
           b == reading[t].basis
           none == Exchanges!NoDraft
           fresh == Exchanges!FreshDraft(sight)
<1>1. /\ flight[t].stage = "idle" /\ mark' = Exchanges!Raised(sight)
      /\ Exchanges!SameBasis(b, Exchanges!Basis(t))
      /\ IF D.status = "CONFIRMED" THEN record' = Exchanges!NoAttempt ELSE record' = record
      /\ owned' = [owned EXCEPT ![t] = IF draft[t].attempt.status = "none" THEN owned[t]
                                       ELSE owned[t] \ {draft[t].attempt.key}]
    BY DEF Exchanges!Reconciled, Exchanges!Refreshable, Exchanges!InFlight,
           Exchanges!RaiseSucceeds
<1>2. PICK d \in {none, fresh} : draft' = [draft EXCEPT ![t] = d]
    BY DEF Exchanges!Reconciled
<1>3. /\ sight \in Exchanges!Quantities /\ NoMore(sight, exchanged)
      /\ b.kind = "tombstone" => ShownBy(sight, b.key, committed)
    BY TabFacts DEF ReadingOK
<1>4. DraftOK(none, of, minted, exchanged) /\ DraftOK(fresh, of, minted, exchanged)
    BY <1>3, NoDraftOK, FreshOK
<1> HIDE DEF none, fresh
<1>5. DraftOK(d, of, minted, exchanged)
    BY <1>2, <1>4
<1>6. /\ MarkOK(mark', exchanged) /\ Rises
      /\ \A k \in DOMAIN committed : ShownBy(mark, k, committed) => ShownBy(mark', k, committed)
      /\ \A k \in DOMAIN committed : ShownBy(sight, k, committed) => ShownBy(mark', k, committed)
    BY <1>1, <1>3, MarkRises
<1>7. /\ RecordOK(record, of, minted, committed)
      /\ Evident(record, mark, minted, refused, committed) /\ refused \subseteq 1 .. minted
    BY TabFacts DEF DiskOK
<1>8. D.status = "CONFIRMED" => ShownBy(mark', record.key, committed)
  <2> SUFFICES ASSUME D.status = "CONFIRMED" PROVE ShownBy(mark', record.key, committed)
      OBVIOUS
  <2>1. b.kind = "tombstone" /\ b.key = record.key
      BY <1>1 DEF Exchanges!SameBasis, Exchanges!Basis
  <2> QED BY <1>3, <1>6, <2>1 DEF ShownBy
<1>9. DiskOK(record', mark', refused', of, minted, exchanged, committed)
  <2>1. CASE D.status = "CONFIRMED"
    <3>1. record' = Exchanges!NoAttempt /\ record'.status = "none"
        BY <1>1, <2>1 DEF Exchanges!NoAttempt
    <3>2. RecordOK(record', of, minted, committed)
        BY <3>1 DEF RecordOK, Exchanges!Statuses
    <3>3. Evident(record', mark', minted, refused, committed)
        BY <1>6, <1>7, <1>8, <2>1 DEF Evident, ShownBy
    <3> QED BY <1>6, <1>7, <3>2, <3>3 DEF DiskOK
  <2>2. CASE D.status # "CONFIRMED"
    <3>1. record' = record
        BY <1>1, <2>2
    <3> QED BY <1>6, <3>1, EvidenceStays
  <2> QED BY <2>1, <2>2
<1>10. /\ OnlyTab(t) /\ draft'[t] = d /\ owned'[t] \subseteq owned[t] /\ flight'[t] = flight[t]
       /\ reading'[t] = Exchanges!Idle
    BY <1>1, <1>2, TabFacts DEF OnlyTab
<1>11. ExchangeInv'
    BY <1>1, <1>5, <1>9, <1>10, ReadClosed
<1>12. record.status = "CONFIRMED" /\ record' # record =>
         record'.status = "none" /\ ShownBy(mark', record.key, committed)
    BY <1>1, <1>8 DEF Exchanges!NoAttempt
<1> QED BY <1>6, <1>11, <1>12

LEMMA CloseReadSound ==
    ASSUME ExchangeConstants, NEW of \in Bodies, ExchangeSound(of), NEW t \in Tabs,
           Exchanges!CloseRead(t)
    PROVE  /\ ExchangeInv' /\ Rises
           /\ record.status = "CONFIRMED" /\ record' # record =>
                record'.status = "none" /\ ShownBy(mark', record.key, committed)
<1> DEFINE sight == reading[t].shown
<1>1. /\ reading[t].stage = "read" /\ reading' = [reading EXCEPT ![t] = Exchanges!Idle]
      /\ UNCHANGED <<broken, minted, refused, flight>>
      /\ UNCHANGED <<exchanged, elsewhere, committed, permitted, late>>
    BY DEF Exchanges!CloseRead, Exchanges!serverVars
<1>2. CASE Exchanges!Reconciled(t)
    BY <1>1, <1>2, ReconciledSound
<1>3. CASE ~Exchanges!Reconciled(t)
  <2>1. UNCHANGED <<record, owned>> /\ (mark' = mark \/ mark' = Exchanges!Raised(sight))
      BY <1>3 DEF Exchanges!CloseRead, Exchanges!RaiseSucceeds, Exchanges!RaiseFails,
                  Exchanges!WriteFails
  <2>2. /\ draft' \in {draft, [draft EXCEPT ![t] = Exchanges!Recovery(draft[t])],
                       [draft EXCEPT ![t] = Exchanges!Inspected(t)]}
        /\ draft' = [draft EXCEPT ![t] = Exchanges!Recovery(draft[t])] =>
             draft' = draft \/ draft' = [draft EXCEPT ![t] = Exchanges!Inspected(t)]
             \/ flight[t].stage = "idle"
      BY <1>3 DEF Exchanges!CloseRead, Exchanges!Refreshable, Exchanges!InFlight
  <2>3. DraftOK(Exchanges!Recovery(draft[t]), of, minted, exchanged)
      BY TabFacts, RecoveryOK
  <2>4. PICK d : /\ draft'[t] = d /\ DraftOK(d, of, minted, exchanged)
                 /\ d = draft[t] \/ flight[t].stage = "idle"
      BY <2>2, <2>3, TabFacts, InspectedOK
  <2>5. sight \in Exchanges!Quantities /\ NoMore(sight, exchanged)
      BY <1>1, TabFacts DEF ReadingOK
  <2>6. /\ MarkOK(mark', exchanged) /\ Rises
        /\ \A k \in DOMAIN committed : ShownBy(mark, k, committed) => ShownBy(mark', k, committed)
      BY <2>1, <2>5, MarkRises
  <2>7. DiskOK(record', mark', refused', of, minted, exchanged, committed)
      BY <1>1, <2>1, <2>6, EvidenceStays
  <2>8. /\ OnlyTab(t) /\ owned'[t] \subseteq owned[t] /\ flight'[t] = flight[t]
        /\ reading'[t] = Exchanges!Idle
      BY <1>1, <2>1, <2>2, TabFacts DEF OnlyTab
  <2>9. ExchangeInv'
      BY <1>1, <2>4, <2>7, <2>8, ReadClosed
  <2> QED BY <2>1, <2>6, <2>9
<1> QED BY <1>2, <1>3

-----------------------------------------------------------------------------
(* The server, other devices, and the storage *)

\* A commit makes the server show more, and what a key is committed with never moves again.
LEMMA CommitSound ==
    ASSUME ExchangeConstants, NEW of \in Bodies, World(of, minted, exchanged, committed),
           minted \in Nat, NEW r, Has(r.key, r.lines, of, minted), Exchanges!Commits(r)
    PROVE  /\ World(of, minted, exchanged', committed') /\ r.key \in DOMAIN committed'
           /\ Later(of, minted, exchanged, committed, of, minted, exchanged', committed')
<1> DEFINE k == r.key
           f == r.lines
           sight == [i \in DOMAIN f |-> exchanged'[i]]
<1>1. /\ k \notin DOMAIN committed /\ \A i \in DOMAIN f : exchanged[i] + f[i].qty <= Sold
      /\ exchanged' = [i \in Items |-> exchanged[i] + (IF i \in DOMAIN f THEN f[i].qty ELSE 0)]
      /\ committed' = [j \in DOMAIN committed \cup {k} |-> IF j = k THEN sight ELSE committed[j]]
    BY DEF Exchanges!Commits, Exchanges!Fits, Exchanges!After
<1>2. f = of[k] /\ k \in 1 .. minted /\ f \in Exchanges!LineSets /\ Based(f, exchanged)
    BY BodyOK DEF Has
<1>3. /\ DOMAIN f \in SUBSET Items
      /\ \A i \in DOMAIN f : f[i].qty \in Nat /\ f[i].before \in Nat /\ f[i].before <= exchanged[i]
      /\ exchanged \in [Items -> 0 .. Sold] /\ \A i \in Items : exchanged[i] \in Nat
      /\ Sold \in Nat
    BY <1>2, LinesFields DEF World, Based, ExchangeConstants
<1>4. ASSUME NEW i \in Items
      PROVE  exchanged'[i] \in 0 .. Sold /\ exchanged[i] <= exchanged'[i]
  <2>1. CASE i \in DOMAIN f
      BY <1>1, <1>3, <2>1
  <2>2. CASE i \notin DOMAIN f
      BY <1>1, <1>3, <2>2
  <2> QED BY <2>1, <2>2
<1>5. exchanged' \in [Items -> 0 .. Sold]
    BY <1>1, <1>4
<1>6. \A i \in DOMAIN f : f[i].before + f[i].qty <= exchanged'[i]
    BY <1>1, <1>3
<1>7. DOMAIN sight = DOMAIN f /\ sight \in Exchanges!Quantities
      /\ \A i \in DOMAIN f : sight[i] = exchanged'[i]
  <2>1. sight \in [DOMAIN f -> 0 .. Sold]
      BY <1>3, <1>4
  <2> QED BY <1>3, <2>1, QuantitiesMake
<1> HIDE DEF sight
<1>8. /\ DOMAIN committed' = DOMAIN committed \cup {k} /\ committed'[k] = sight
      /\ \A j \in DOMAIN committed : committed'[j] = committed[j]
    BY <1>1
<1>9. Later(of, minted, exchanged, committed, of, minted, exchanged', committed')
    BY <1>4, <1>8 DEF Later
<1>10. \A j \in 1 .. minted : Based(of[j], exchanged')
  <2> SUFFICES ASSUME NEW j \in 1 .. minted, NEW i \in DOMAIN of[j]
               PROVE  of[j][i].before <= exchanged'[i]
      BY DEF Based
  <2>1. of[j] \in Exchanges!LineSets /\ of[j][i].before <= exchanged[i]
      BY DEF World, Bodies, Based
  <2>2. i \in Items /\ of[j][i].before \in Nat
      BY <2>1, LinesFields
  <2> QED BY <1>3, <1>4, <2>1, <2>2
<1>11. ASSUME NEW j \in DOMAIN committed'
       PROVE  /\ committed'[j] \in Exchanges!Quantities /\ DOMAIN committed'[j] = DOMAIN of[j]
              /\ \A i \in DOMAIN committed'[j] :
                    /\ of[j][i].before + of[j][i].qty <= committed'[j][i]
                    /\ committed'[j][i] <= exchanged'[i]
  <2>1. CASE j = k
    <3>1. \A i \in DOMAIN f : exchanged'[i] <= exchanged'[i]
        BY <1>3, <1>4
    <3> QED BY <1>2, <1>6, <1>7, <1>8, <2>1, <3>1
  <2>2. CASE j # k
    <3>1. j \in DOMAIN committed /\ committed'[j] = committed[j]
        BY <1>8, <2>2
    <3>2. /\ committed[j] \in Exchanges!Quantities /\ DOMAIN committed[j] = DOMAIN of[j]
          /\ \A i \in DOMAIN committed[j] : /\ of[j][i].before + of[j][i].qty <= committed[j][i]
                                            /\ committed[j][i] <= exchanged[i]
        BY <3>1 DEF World
    <3>3. \A i \in DOMAIN committed[j] : i \in Items /\ committed[j][i] \in Nat
        BY <3>2, QuantitiesFields
    <3> QED BY <1>3, <1>4, <3>1, <3>2, <3>3
  <2> QED BY <2>1, <2>2
<1>12. World(of, minted, exchanged', committed')
    BY <1>2, <1>5, <1>8, <1>10, <1>11 DEF World
<1> QED BY <1>8, <1>9, <1>12

\* The answer of a request that is out.
LEMMA AnsweredOK ==
    ASSUME NEW of, NEW n, NEW c, NEW t \in Tabs, FlightOK(flight[t], draft[t], of, n, c),
           DOMAIN flight = Tabs, flight[t].stage = "sent",
           NEW stage \in {"CONFIRMED", "REJECTED", "UNCERTAIN"}, Exchanges!Answered(t, stage),
           stage = "CONFIRMED" => flight[t].key \in DOMAIN c
    PROVE  FlightOK(flight'[t], draft[t], of, n, c)
<1> DEFINE f == [stage |-> stage, key |-> flight[t].key, lines |-> flight[t].lines]
<1>1. flight' = [flight EXCEPT ![t] = f]
    BY DEF Exchanges!Answered
<1>2. flight'[t] = f
    BY <1>1
<1>3. f.stage = stage /\ f.key = flight[t].key /\ f.lines = flight[t].lines
      /\ stage \in Exchanges!Stages
    BY DEF Exchanges!Stages
<1> HIDE DEF f
<1> QED BY <1>2, <1>3 DEF FlightOK

LEMMA GiveUpSound ==
    ASSUME ExchangeConstants, NEW of \in Bodies, ExchangeSound(of), NEW t \in Tabs,
           Exchanges!GiveUp(t)
    PROVE  ExchangeInv'
<1>1. /\ flight[t].stage = "sent" /\ late' = late \cup Exchanges!Abandoned(t)
      /\ Exchanges!Answered(t, "UNCERTAIN")
      /\ UNCHANGED <<minted, exchanged, committed, elsewhere, permitted, broken>>
      /\ UNCHANGED <<record, mark, refused>> /\ UNCHANGED <<draft, owned, reading>>
    BY DEF Exchanges!GiveUp, Exchanges!diskVars
<1>2. FlightOK(flight'[t], draft[t], of, minted, committed)
    BY <1>1, TabFacts, AnsweredOK
<1>3. OnlyTab(t)
    BY <1>1, TabFacts DEF OnlyTab, Exchanges!Answered
<1>4. TabOK(draft'[t], owned'[t], flight'[t], reading'[t], of, minted, exchanged, committed)
    BY <1>1, <1>2, TabFacts DEF TabOK
<1>5. \A r \in late' : r \in late \/ Has(r.key, r.lines, of, minted)
    BY <1>1, TabFacts DEF Exchanges!Abandoned, FlightOK
<1> QED BY <1>1, <1>3, <1>4, <1>5, MemoryStepSound

LEMMA ServeSound ==
    ASSUME ExchangeConstants, NEW of \in Bodies, ExchangeSound(of), NEW t \in Tabs,
           Exchanges!Serve(t)
    PROVE  ExchangeInv'
<1>1. /\ flight[t].stage = "sent"
      /\ UNCHANGED <<elsewhere, permitted, late>> /\ UNCHANGED <<draft, owned, reading>>
      /\ UNCHANGED <<record, mark, broken, minted, refused>>
    BY DEF Exchanges!Serve, Exchanges!diskVars
<1>2. PICK stage \in {"CONFIRMED", "REJECTED", "UNCERTAIN"} :
        /\ Exchanges!Answered(t, stage)
        /\ \/ Exchanges!Commits(flight[t])
           \/ /\ UNCHANGED <<exchanged, committed>>
              /\ stage = "CONFIRMED" => flight[t].key \in DOMAIN committed
    BY DEF Exchanges!Serve, Exchanges!Replays
<1>3. Has(flight[t].key, flight[t].lines, of, minted)
    BY <1>1, OutcomeFacts
<1>4. /\ World(of, minted, exchanged', committed')
      /\ Later(of, minted, exchanged, committed, of, minted, exchanged', committed')
      /\ stage = "CONFIRMED" => flight[t].key \in DOMAIN committed'
  <2>1. CASE Exchanges!Commits(flight[t])
      BY <1>3, <2>1, TabFacts, CommitSound
  <2>2. CASE /\ UNCHANGED <<exchanged, committed>>
             /\ stage = "CONFIRMED" => flight[t].key \in DOMAIN committed
    <3>1. World(of, minted, exchanged', committed')
        BY <2>2, TabFacts
    <3>2. Later(of, minted, exchanged, committed, of, minted, exchanged', committed')
        BY <2>2, TabFacts, LaterSame DEF ExchangeConstants
    <3> QED BY <2>2, <3>1, <3>2
  <2> QED BY <1>2, <2>1, <2>2
<1>5. exchanged' \in [Items -> 0 .. Sold] /\ minted \in Nat /\ exchanged \in [Items -> 0 .. Sold]
    BY <1>4, TabFacts DEF World
<1>6. TabOK(draft[t], owned[t], flight[t], reading[t], of, minted, exchanged', committed')
    BY <1>4, <1>5, LaterTab DEF ExchangeSound, TabsOK
<1>7. FlightOK(flight'[t], draft[t], of, minted, committed')
    BY <1>1, <1>2, <1>4, <1>6, TabFacts, AnsweredOK DEF TabOK
<1>8. TabOK(draft'[t], owned'[t], flight'[t], reading'[t], of, minted', exchanged', committed')
    BY <1>1, <1>6, <1>7 DEF TabOK
<1>9. OnlyTab(t)
    BY <1>1, <1>2, TabFacts DEF OnlyTab, Exchanges!Answered
<1>10. DiskOK(record, mark, refused, of, minted, exchanged', committed')
    BY <1>4, <1>5, LaterDisk DEF ExchangeSound
<1>11. RestTyped'
    BY <1>1 DEF ExchangeSound, RestTyped
<1>12. /\ DiskOK(record', mark', refused', of, minted', exchanged', committed')
       /\ World(of, minted', exchanged', committed')
       /\ Later(of, minted, exchanged, committed, of, minted', exchanged', committed')
    BY <1>1, <1>4, <1>10
<1> QED BY <1>1, <1>8, <1>9, <1>11, <1>12, StepSound

\* A step of the server no tab knows of.
LEMMA ServerStepSound ==
    ASSUME ExchangeConstants, NEW of \in Bodies, ExchangeSound(of),
           World(of, minted, exchanged', committed'),
           Later(of, minted, exchanged, committed, of, minted, exchanged', committed'),
           UNCHANGED <<draft, owned, flight, reading>>, UNCHANGED <<record, mark, minted, refused>>,
           \A r \in late' : r \in late, RestTyped'
    PROVE  ExchangeInv'
<1>1. /\ minted \in Nat /\ exchanged \in [Items -> 0 .. Sold] /\ exchanged' \in [Items -> 0 .. Sold]
    BY DEF ExchangeSound, World, ExchangeConstants
<1>2. ASSUME NEW u \in Tabs
      PROVE  TabOK(draft[u], owned[u], flight[u], reading[u], of, minted, exchanged', committed')
  <2>1. TabOK(draft[u], owned[u], flight[u], reading[u], of, minted, exchanged, committed)
      BY DEF ExchangeSound, TabsOK
  <2> QED BY <1>1, <2>1, LaterTab
<1>3. TabsOK(of)'
    BY <1>2 DEF ExchangeSound, TabsOK
<1>4. DiskOK(record, mark, refused, of, minted, exchanged', committed')
    BY <1>1, LaterDisk DEF ExchangeSound
<1>5. ExchangeSound(of)'
    BY <1>3, <1>4 DEF ExchangeSound
<1> QED BY <1>5 DEF ExchangeInv

LEMMA ServeLateSound ==
    ASSUME ExchangeConstants, NEW of \in Bodies, ExchangeSound(of), NEW r \in late,
           Exchanges!ServeLate(r)
    PROVE  ExchangeInv'
<1>1. /\ late' = late \ {r} /\ UNCHANGED <<elsewhere, permitted, broken>>
      /\ UNCHANGED <<draft, owned, flight, reading>> /\ UNCHANGED <<record, mark, minted, refused>>
      /\ Exchanges!Commits(r) \/ UNCHANGED <<exchanged, committed>>
    BY DEF Exchanges!ServeLate, Exchanges!diskVars, Exchanges!tabVars
<1>2. /\ World(of, minted, exchanged, committed) /\ minted \in Nat
      /\ Has(r.key, r.lines, of, minted) /\ exchanged \in [Items -> 0 .. Sold]
    BY DEF ExchangeSound, World, ExchangeConstants
<1>3. /\ World(of, minted, exchanged', committed')
      /\ Later(of, minted, exchanged, committed, of, minted, exchanged', committed')
  <2>1. CASE Exchanges!Commits(r)
      BY <1>2, <2>1, CommitSound
  <2>2. CASE UNCHANGED <<exchanged, committed>>
    <3>1. Later(of, minted, exchanged, committed, of, minted, exchanged, committed)
        BY <1>2, LaterSame DEF ExchangeConstants
    <3> QED BY <1>2, <2>2, <3>1
  <2> QED BY <1>1, <2>1, <2>2
<1>4. RestTyped'
    BY <1>1 DEF ExchangeSound, RestTyped
<1> QED BY <1>1, <1>3, <1>4, ServerStepSound

LEMMA ElsewhereSound ==
    ASSUME ExchangeConstants, NEW of \in Bodies, ExchangeSound(of), Exchanges!ExchangeElsewhere
    PROVE  ExchangeInv'
<1>1. /\ elsewhere < MaxElsewhere /\ elsewhere' = elsewhere + 1
      /\ UNCHANGED <<committed, permitted, late, broken>>
      /\ UNCHANGED <<draft, owned, flight, reading>> /\ UNCHANGED <<record, mark, minted, refused>>
    BY DEF Exchanges!ExchangeElsewhere, Exchanges!diskVars, Exchanges!tabVars
<1>2. PICK i \in Items : /\ exchanged[i] < Sold
                         /\ exchanged' = [exchanged EXCEPT ![i] = exchanged[i] + 1]
    BY DEF Exchanges!ExchangeElsewhere
<1>3. World(of, minted, exchanged, committed)
    BY DEF ExchangeSound
<1>4. /\ exchanged \in [Items -> 0 .. Sold] /\ Sold \in Nat /\ minted \in Nat
      /\ \A j \in Items : exchanged[j] \in Nat
    BY <1>3 DEF World, ExchangeConstants
<1>5. exchanged' \in [Items -> 0 .. Sold] /\ \A j \in Items : exchanged[j] <= exchanged'[j]
    BY <1>2, <1>4
<1>6. \A j \in Items : exchanged'[j] \in Nat
    BY <1>4, <1>5
<1>7. Later(of, minted, exchanged, committed, of, minted, exchanged', committed')
    BY <1>1, <1>4, <1>5 DEF Later
<1>8. ASSUME NEW k \in 1 .. minted
      PROVE  Based(of[k], exchanged')
  <2>1. of[k] \in Exchanges!LineSets /\ Based(of[k], exchanged)
      BY <1>3, <1>4 DEF World, Bodies
  <2>2. \A j \in DOMAIN of[k] : j \in Items /\ of[k][j].before \in Nat
      BY <2>1, LinesFields
  <2> QED BY <1>4, <1>5, <1>6, <2>1, <2>2 DEF Based
<1>9. ASSUME NEW k \in DOMAIN committed
      PROVE  \A j \in DOMAIN committed[k] : committed[k][j] <= exchanged'[j]
  <2>1. /\ committed[k] \in Exchanges!Quantities
        /\ \A j \in DOMAIN committed[k] : committed[k][j] <= exchanged[j]
      BY <1>3 DEF World
  <2>2. \A j \in DOMAIN committed[k] : j \in Items /\ committed[k][j] \in Nat
      BY <2>1, QuantitiesFields
  <2> QED BY <1>4, <1>5, <1>6, <2>1, <2>2
<1>10. World(of, minted, exchanged', committed')
    BY <1>1, <1>3, <1>5, <1>8, <1>9 DEF World
<1>11. RestTyped'
  <2>1. elsewhere' \in 0 .. MaxElsewhere
      BY <1>1 DEF ExchangeSound, RestTyped, ExchangeConstants
  <2> QED BY <1>1, <2>1 DEF ExchangeSound, RestTyped
<1> QED BY <1>1, <1>7, <1>10, <1>11, ServerStepSound

\* Permissions come and go, texts break and heal, and nothing that is known of the sale moves.
LEMMA OutsideSound ==
    ASSUME ExchangeConstants, NEW of \in Bodies, ExchangeSound(of),
           Exchanges!ChangePermission \/ \E part \in {"attempt", "mark"} : Exchanges!StorageBreaks(part)
    PROVE  ExchangeInv'
<1>1. /\ UNCHANGED <<draft, owned, flight, reading>> /\ UNCHANGED <<record, mark, minted, refused>>
      /\ UNCHANGED <<exchanged, committed, late, elsewhere>>
    BY DEF Exchanges!ChangePermission, Exchanges!StorageBreaks, Exchanges!diskVars,
           Exchanges!tabVars, Exchanges!serverVars
<1>2. broken' \subseteq {"attempt", "mark"}
    BY DEF Exchanges!ChangePermission, Exchanges!StorageBreaks, Exchanges!diskVars, ExchangeSound,
           RestTyped
<1>3. permitted' \in BOOLEAN
    BY Zenon DEF Exchanges!ChangePermission, Exchanges!StorageBreaks, Exchanges!serverVars,
                 ExchangeSound, RestTyped
<1>4. World(of, minted, exchanged, committed) /\ RestTyped'
    BY <1>1, <1>2, <1>3 DEF ExchangeSound, RestTyped
<1>5. World(of, minted, exchanged', committed')
    BY <1>1, <1>4
<1>6. Later(of, minted, exchanged, committed, of, minted, exchanged', committed')
    BY <1>1, <1>4, LaterSame DEF World, ExchangeConstants
<1> QED BY <1>1, <1>4, <1>5, <1>6, ServerStepSound

-----------------------------------------------------------------------------
(* The invariant *)

LEMMA ExchangeInit == ASSUME ExchangeConstants PROVE Exchanges!Init => ExchangeInv
<1> SUFFICES ASSUME Exchanges!Init PROVE ExchangeInv
    OBVIOUS
<1> DEFINE of == [k \in Nat |-> Exchanges!NoLines]
<1>1. /\ exchanged \in [Items -> {0}] /\ elsewhere = 0 /\ committed = Exchanges!NoLines
      /\ permitted = TRUE /\ late = {} /\ record = Exchanges!NoAttempt
      /\ mark = Exchanges!NoLines /\ broken = {} /\ minted = 0 /\ refused = {}
      /\ draft = [t \in Tabs |-> Exchanges!NoDraft] /\ owned = [t \in Tabs |-> {}]
      /\ flight = [t \in Tabs |-> Exchanges!Idle] /\ reading = [t \in Tabs |-> Exchanges!Idle]
    BY DEF Exchanges!Init
<1>2. of \in Bodies
    BY NoLinesOK DEF Bodies
<1> HIDE DEF of
<1>3. World(of, minted, exchanged, committed)
    BY <1>1, <1>2, NoLinesOK DEF World, ExchangeConstants
<1>4. ASSUME NEW t \in Tabs
      PROVE  TabOK(draft[t], owned[t], flight[t], reading[t], of, minted, exchanged, committed)
    BY <1>1, NoDraftOK, IdleOK, IdleReadingOK, RestingTab
<1>5. TabsOK(of)
    BY <1>1, <1>4 DEF TabsOK
<1>6. MarkOK(mark, exchanged)
    BY <1>1, NoLinesOK DEF MarkOK
<1>7. RecordOK(record, of, minted, committed)
    BY <1>1 DEF RecordOK, Exchanges!NoAttempt, Exchanges!Statuses
<1>8. DiskOK(record, mark, refused, of, minted, exchanged, committed)
    BY <1>1, <1>6, <1>7 DEF DiskOK, Evident
<1>9. RestTyped
    BY <1>1 DEF RestTyped, ExchangeConstants
<1>10. ExchangeSound(of)
    BY <1>1, <1>3, <1>5, <1>8, <1>9 DEF ExchangeSound
<1> QED BY <1>2, <1>10 DEF ExchangeInv

LEMMA ExchangeStep ==
    ASSUME ExchangeConstants, ExchangeInv, Exchanges!Next
    PROVE  ExchangeInv'
<1> PICK of \in Bodies : ExchangeSound(of)
    BY DEF ExchangeInv
<1>1. ASSUME NEW t \in Tabs, Exchanges!TabStep(t)
      PROVE  ExchangeInv'
    BY <1>1, LoadSound, LookSound, OpenDraftSound, EditSound, ResetSound, SendSound, ServeSound,
       GiveUpSound, SettleSound, SettleAloneSound, InspectSound, ReadAgainSound, CloseReadSound,
       StorageEventSound DEF Exchanges!TabStep
<1>2. ASSUME NEW r \in late, Exchanges!ServeLate(r)
      PROVE  ExchangeInv'
    BY <1>2, ServeLateSound
<1> QED BY <1>1, <1>2, ElsewhereSound, OutsideSound DEF Exchanges!Next

LEMMA ExchangeStutter ==
    ASSUME ExchangeInv, UNCHANGED Exchanges!vars PROVE ExchangeInv'
BY DEF ExchangeInv, ExchangeSound, TabsOK, RestTyped, Exchanges!vars, Exchanges!serverVars,
       Exchanges!diskVars, Exchanges!tabVars

\* What the tabs and the record say of the keys is true of them, at every moment.
THEOREM ExchangeAlwaysSound == ASSUME ExchangeConstants PROVE Exchanges!Spec => []ExchangeInv
<1>1. Exchanges!Init => ExchangeInv
    BY ExchangeInit
<1>2. ExchangeInv /\ [Exchanges!Next]_(Exchanges!vars) => ExchangeInv'
    BY ExchangeStep, ExchangeStutter
<1> QED BY <1>1, <1>2, PTL DEF Exchanges!Spec

-----------------------------------------------------------------------------
(* What follows from it *)

\* Nothing a browser knows of an exchange is lost before it is safe to forget: the key is in the
\* record, or was refused for good, or the mark shows what it committed (persistAttempt, settle,
\* raiseMark and closeFreshRead of exchange-draft-store.ts), whatever fails or reloads.
THEOREM EvidenceAlwaysKept ==
    ASSUME ExchangeConstants PROVE Exchanges!Spec => []EvidenceKept
<1>1. ExchangeInv => EvidenceKept
    BY DEF EvidenceKept, ExchangeInv, ExchangeSound, DiskOK, Evident, ShownBy, Exchanges!EvidenceKept,
           Exchanges!Show
<1> QED BY <1>1, ExchangeAlwaysSound, PTL

\* A key is never sent with two bodies, by any tab, before or after a reload.
THEOREM ExchangeAlwaysOneBodyPerKey ==
    ASSUME ExchangeConstants PROVE Exchanges!Spec => []OneBodyPerKey
<1>1. ASSUME ExchangeInv PROVE OneBodyPerKey
  <2> DEFINE sent == late \cup {flight[t] : t \in {u \in Tabs : Exchanges!InFlight(u)}}
                     \cup (IF record.status = "none" THEN {} ELSE {record})
  <2>1. PICK of : ExchangeSound(of)
      BY <1>1 DEF ExchangeInv
  <2>2. ASSUME NEW r \in sent PROVE r.lines = of[r.key]
    <3>1. CASE r \in late
        BY <2>1, <3>1 DEF ExchangeSound, Has
    <3>2. CASE r \in {flight[t] : t \in {u \in Tabs : Exchanges!InFlight(u)}}
        BY <2>1, <3>2 DEF ExchangeSound, TabsOK, TabOK, FlightOK, Has, Exchanges!InFlight
    <3>3. CASE r = record /\ record.status # "none"
        BY <2>1, <3>3 DEF ExchangeSound, DiskOK, RecordOK, Has
    <3> QED BY <2>2, <3>1, <3>2, <3>3
  <2>3. \A a, b \in sent : a.key = b.key => a.lines = b.lines
      BY <2>2
  <2> QED BY <2>3 DEF Exchanges!OneBodyPerKey, OneBodyPerKey
<1>2. ExchangeInv => OneBodyPerKey
    BY <1>1
<1> QED BY <1>2, ExchangeAlwaysSound, PTL

\* Nothing a tab does while its request is out takes the attempt from under the answer.
THEOREM AnswerAlwaysFindsItsDraft ==
    ASSUME ExchangeConstants PROVE Exchanges!Spec => []AnswerFindsItsDraft
<1>1. ExchangeInv => AnswerFindsItsDraft
    BY DEF AnswerFindsItsDraft, ExchangeInv, ExchangeSound, TabsOK, TabOK, FlightOK, Exchanges!AnswerFindsItsDraft,
           Exchanges!InFlight, Exchanges!Holds
<1> QED BY <1>1, ExchangeAlwaysSound, PTL

\* The mark never passes what the server would show, so a sale can always be exchanged again.
THEOREM MarkAlwaysBehindServer ==
    ASSUME ExchangeConstants PROVE Exchanges!Spec => []Exchanges!MarkBehindServer
<1>1. ExchangeInv => Exchanges!MarkBehindServer
    BY DEF ExchangeInv, ExchangeSound, DiskOK, MarkOK, NoMore, Exchanges!MarkBehindServer
<1> QED BY <1>1, ExchangeAlwaysSound, PTL

LEMMA MarkStep ==
    ASSUME ExchangeConstants, ExchangeInv, Exchanges!Next
    PROVE  Rises
<1> PICK of \in Bodies : ExchangeSound(of)
    BY DEF ExchangeInv
<1>1. CASE mark' = mark
  <2>1. \A i \in DOMAIN mark : mark[i] \in Nat
      BY QuantitiesFields DEF ExchangeSound, DiskOK, MarkOK
  <2> QED BY <1>1, <2>1 DEF Rises
<1>2. CASE mark' # mark
  <2>1. \A r \in late : ~Exchanges!ServeLate(r)
      BY <1>2 DEF Exchanges!ServeLate, Exchanges!diskVars
  <2>2. ~Exchanges!ExchangeElsewhere /\ ~Exchanges!ChangePermission
      BY <1>2 DEF Exchanges!ExchangeElsewhere, Exchanges!ChangePermission, Exchanges!diskVars
  <2>3. \A part \in {"attempt", "mark"} : ~Exchanges!StorageBreaks(part)
      BY <1>2 DEF Exchanges!StorageBreaks
  <2>4. PICK t \in Tabs : Exchanges!TabStep(t)
      BY <2>1, <2>2, <2>3 DEF Exchanges!Next
  <2>5. /\ ~Exchanges!Load(t) /\ ~Exchanges!Look(t) /\ ~Exchanges!Edit(t) /\ ~Exchanges!Reset(t)
        /\ ~Exchanges!Serve(t) /\ ~Exchanges!GiveUp(t) /\ ~Exchanges!Inspect(t)
        /\ ~Exchanges!ReadAgain(t) /\ ~Exchanges!HandleStorageEvent(t)
      BY <1>2 DEF Exchanges!Load, Exchanges!Look, Exchanges!Edit, Exchanges!Reset,
                  Exchanges!Serve, Exchanges!GiveUp, Exchanges!Inspect, Exchanges!ReadAgain,
                  Exchanges!HandleStorageEvent, Exchanges!diskVars
  <2>6. ~Exchanges!Send(t) /\ ~Exchanges!SettleAlone(t)
      BY <1>2 DEF Exchanges!Send, Exchanges!SettleAlone
  <2>7. Exchanges!OpenDraft(t) \/ Exchanges!Settle(t) \/ Exchanges!CloseRead(t)
      BY <2>4, <2>5, <2>6 DEF Exchanges!TabStep
  <2> QED BY <2>7, OpenDraftSound, SettleSound, CloseReadSound
<1> QED BY <1>1, <1>2

\* The mark only rises, whichever tab raises it and whatever it had read.
THEOREM MarkAlwaysRises ==
    ASSUME ExchangeConstants PROVE Exchanges!Spec => Exchanges!MarkNeverLowers
<1>1. ExchangeInv /\ [Exchanges!Next]_(Exchanges!vars) =>
        [/\ DOMAIN mark \subseteq DOMAIN mark'
         /\ \A i \in DOMAIN mark : mark[i] <= mark'[i]]_(Exchanges!vars)
    BY MarkStep DEF Rises
<1> QED BY <1>1, ExchangeAlwaysSound, PTL DEF Exchanges!Spec, Exchanges!MarkNeverLowers

\* Only sending an attempt of its own generates a key.
LEMMA MintedBySend ==
    ASSUME Exchanges!Next, minted' # minted
    PROVE  \E t \in Tabs : Exchanges!MayMint(t) /\ Sends(t, minted + 1) /\ draft[t].open
<1>1. \A r \in late : ~Exchanges!ServeLate(r)
    BY DEF Exchanges!ServeLate, Exchanges!diskVars
<1>2. ~Exchanges!ExchangeElsewhere /\ ~Exchanges!ChangePermission
    BY DEF Exchanges!ExchangeElsewhere, Exchanges!ChangePermission, Exchanges!diskVars
<1>3. \A part \in {"attempt", "mark"} : ~Exchanges!StorageBreaks(part)
    BY DEF Exchanges!StorageBreaks
<1>4. PICK t \in Tabs : Exchanges!TabStep(t)
    BY <1>1, <1>2, <1>3 DEF Exchanges!Next
<1>5. /\ ~Exchanges!Load(t) /\ ~Exchanges!Look(t) /\ ~Exchanges!Edit(t) /\ ~Exchanges!Reset(t)
      /\ ~Exchanges!Serve(t) /\ ~Exchanges!GiveUp(t) /\ ~Exchanges!Inspect(t)
      /\ ~Exchanges!ReadAgain(t) /\ ~Exchanges!HandleStorageEvent(t)
    BY DEF Exchanges!Load, Exchanges!Look, Exchanges!Edit, Exchanges!Reset, Exchanges!Serve,
           Exchanges!GiveUp, Exchanges!Inspect, Exchanges!ReadAgain,
           Exchanges!HandleStorageEvent, Exchanges!diskVars
<1>6. /\ ~Exchanges!OpenDraft(t) /\ ~Exchanges!Settle(t) /\ ~Exchanges!SettleAlone(t)
      /\ ~Exchanges!CloseRead(t)
    BY DEF Exchanges!OpenDraft, Exchanges!Settle, Exchanges!SettleAlone, Exchanges!CloseRead
<1>7. Exchanges!Send(t)
    BY <1>4, <1>5, <1>6 DEF Exchanges!TabStep
<1> QED BY <1>7 DEF Exchanges!Send, Sends

LEMMA MintStep ==
    ASSUME ExchangeConstants, ExchangeInv, Exchanges!Next, minted' # minted,
           NEW k \in 1 .. minted \ refused
    PROVE  k \in DOMAIN committed /\ Exchanges!Show(Exchanges!Baseline(record'.lines), k)
<1> PICK of \in Bodies : ExchangeSound(of)
    BY DEF ExchangeInv
<1>1. PICK t \in Tabs : Exchanges!MayMint(t) /\ Sends(t, minted + 1) /\ draft[t].open
    BY MintedBySend
<1> DEFINE lines == draft[t].lines
           b == Exchanges!Baseline(lines)
<1>2. /\ record.status = "none" /\ record'.lines = lines /\ ~Exchanges!OlderThan(b, mark)
    BY <1>1, TabFacts, DurableIs DEF Exchanges!MayMint, Sends, Exchanges!Launches,
       Exchanges!Unverified, Exchanges!Written
<1>3. ShownBy(mark, k, committed)
    BY <1>2, TabFacts DEF DiskOK, Evident
<1>4. /\ committed[k] \in Exchanges!Quantities /\ mark \in Exchanges!Quantities
      /\ k \in DOMAIN committed
    BY <1>3, TabFacts DEF ShownBy, World, MarkOK
<1>5. b = [i \in DOMAIN lines |-> lines[i].before] /\ DOMAIN b = DOMAIN lines
    BY DEF Exchanges!Baseline
<1>6. \A i \in DOMAIN lines : lines[i].before \in Nat
    BY <1>1, TabFacts, LinesFields DEF DraftOK
<1>7. /\ \A i \in DOMAIN committed[k] : committed[k][i] \in Nat
      /\ \A i \in DOMAIN mark : mark[i] \in Nat
      /\ \A i \in DOMAIN b : b[i] \in Nat
    BY <1>4, <1>5, <1>6, QuantitiesFields
<1> HIDE DEF b
<1>8. \A i \in DOMAIN b \cap DOMAIN mark : ~(b[i] < mark[i])
    BY <1>2 DEF Exchanges!OlderThan
<1>9. Exchanges!Show(b, k)
    BY <1>3, <1>7, <1>8 DEF ShownBy, Exchanges!Show
<1> QED BY <1>2, <1>4, <1>9 DEF b

\* A key is generated only when every earlier one is settled: refused, or confirmed and shown by
\* the baseline of the new exchange (prepare), however stale the tab that sends it is.
THEOREM NewKeyAlwaysKnowsTheOld ==
    ASSUME ExchangeConstants PROVE Exchanges!Spec => NewKeyKnowsTheOld
<1>1. ExchangeInv /\ [Exchanges!Next]_(Exchanges!vars) =>
        [minted' # minted =>
           \A k \in 1 .. minted \ refused :
              k \in DOMAIN committed /\ Exchanges!Show(Exchanges!Baseline(record'.lines), k)
        ]_(Exchanges!vars)
  <2> SUFFICES ASSUME ExchangeInv, Exchanges!Next, minted' # minted,
                      NEW k \in 1 .. minted \ refused
               PROVE  k \in DOMAIN committed /\ Exchanges!Show(Exchanges!Baseline(record'.lines), k)
      OBVIOUS
  <2> QED BY MintStep
<1> QED BY <1>1, ExchangeAlwaysSound, PTL
    DEF Exchanges!Spec, Exchanges!NewKeyKnowsTheOld, NewKeyKnowsTheOld

LEMMA TombstoneStep ==
    ASSUME ExchangeConstants, ExchangeInv, Exchanges!Next, record.status = "CONFIRMED",
           record' # record
    PROVE  record'.status = "none" /\ ShownBy(mark', record.key, committed)
<1> PICK of \in Bodies : ExchangeSound(of)
    BY DEF ExchangeInv
<1>1. \A r \in late : ~Exchanges!ServeLate(r)
    BY DEF Exchanges!ServeLate, Exchanges!diskVars
<1>2. ~Exchanges!ExchangeElsewhere /\ ~Exchanges!ChangePermission
    BY DEF Exchanges!ExchangeElsewhere, Exchanges!ChangePermission, Exchanges!diskVars
<1>3. \A part \in {"attempt", "mark"} : ~Exchanges!StorageBreaks(part)
    BY DEF Exchanges!StorageBreaks
<1>4. PICK t \in Tabs : Exchanges!TabStep(t)
    BY <1>1, <1>2, <1>3 DEF Exchanges!Next
<1>5. /\ ~Exchanges!Load(t) /\ ~Exchanges!Look(t) /\ ~Exchanges!Edit(t) /\ ~Exchanges!Reset(t)
      /\ ~Exchanges!Serve(t) /\ ~Exchanges!GiveUp(t) /\ ~Exchanges!Inspect(t)
      /\ ~Exchanges!ReadAgain(t) /\ ~Exchanges!HandleStorageEvent(t)
    BY DEF Exchanges!Load, Exchanges!Look, Exchanges!Edit, Exchanges!Reset, Exchanges!Serve,
           Exchanges!GiveUp, Exchanges!Inspect, Exchanges!ReadAgain,
           Exchanges!HandleStorageEvent, Exchanges!diskVars
<1>6. ~Exchanges!OpenDraft(t) /\ ~Exchanges!SettleAlone(t)
    BY DEF Exchanges!OpenDraft, Exchanges!SettleAlone
<1>7. ~Exchanges!Settle(t)
    BY SettledRecord
<1>8. ~Exchanges!Send(t)
  <2>1. RecordOK(record, of, minted, committed)
      BY TabFacts
  <2>2. ~Exchanges!Reusable(t) /\ ~Exchanges!MayMint(t)
      BY <2>1, DurableIs DEF Exchanges!Reusable, Exchanges!MayMint
  <2> QED BY <2>2 DEF Exchanges!Send
<1>9. Exchanges!CloseRead(t)
    BY <1>4, <1>5, <1>6, <1>7, <1>8 DEF Exchanges!TabStep
<1> QED BY <1>9, CloseReadSound

\* A tombstone is only taken away, and only after the mark shows its exchange: no late answer,
\* no other key and no other tab writes over it (settleLocked, closeFreshRead).
THEOREM TombstoneAlwaysLeavesProven ==
    ASSUME ExchangeConstants PROVE Exchanges!Spec => Exchanges!TombstoneLeavesProven
<1>1. ExchangeInv /\ [Exchanges!Next]_(Exchanges!vars) =>
        [record.status = "CONFIRMED" /\ record' # record =>
           /\ record'.status = "none"
           /\ \A i \in DOMAIN committed[record.key] :
                 i \in DOMAIN mark' /\ mark'[i] >= committed[record.key][i]]_(Exchanges!vars)
  <2> SUFFICES ASSUME ExchangeInv, Exchanges!Next, record.status = "CONFIRMED", record' # record
               PROVE  /\ record'.status = "none"
                      /\ \A i \in DOMAIN committed[record.key] :
                            i \in DOMAIN mark' /\ mark'[i] >= committed[record.key][i]
      BY DEF Exchanges!vars, Exchanges!diskVars
  <2> QED BY TombstoneStep DEF ShownBy
<1> QED BY <1>1, ExchangeAlwaysSound, PTL DEF Exchanges!Spec, Exchanges!TombstoneLeavesProven

-----------------------------------------------------------------------------
(* Types *)

ExchangeTyped ==
    /\ ExchangeInv
    /\ late \subseteq [key : Exchanges!Keys, lines : Exchanges!LineSets]
    /\ owned \in [Tabs -> SUBSET Exchanges!Keys]

\* What a tab abandons is a request, and what it owns are keys.
LEMMA LateMoves ==
    ASSUME Exchanges!Next
    PROVE  late' \subseteq late \cup UNION {Exchanges!Abandoned(t) : t \in Tabs}
<1>1. ASSUME NEW t \in Tabs, Exchanges!TabStep(t)
      PROVE  late' = late \/ late' = late \cup Exchanges!Abandoned(t)
    BY <1>1 DEF Exchanges!TabStep, Exchanges!Load, Exchanges!Look, Exchanges!OpenDraft,
       Exchanges!Edit, Exchanges!Reset, Exchanges!Send, Exchanges!Serve, Exchanges!GiveUp,
       Exchanges!Settle, Exchanges!SettleAlone, Exchanges!Inspect, Exchanges!ReadAgain,
       Exchanges!CloseRead, Exchanges!HandleStorageEvent, Exchanges!serverVars
<1>2. ASSUME ~(\E t \in Tabs : Exchanges!TabStep(t))
      PROVE  late' \subseteq late
    BY <1>2 DEF Exchanges!Next, Exchanges!ServeLate, Exchanges!ExchangeElsewhere,
       Exchanges!ChangePermission, Exchanges!StorageBreaks, Exchanges!serverVars
<1> QED BY <1>1, <1>2

LEMMA OwnedMoves ==
    ASSUME ExchangeInv, Exchanges!Next
    PROVE  owned' = owned \/ \E t \in Tabs : \E o : owned' = [owned EXCEPT ![t] = o]
<1>1. ASSUME NEW t \in Tabs, Exchanges!TabStep(t)
      PROVE  owned' = owned \/ \E o : owned' = [owned EXCEPT ![t] = o]
  <2>1. CASE Exchanges!Load(t)
    <3>1. PICK of : ExchangeSound(of)
        BY DEF ExchangeInv
    <3>2. Exchanges!Durable.status \in {"none", "unreadable", "SENDING", "UNCERTAIN", "CONFIRMED"}
        BY <3>1, DurableIs DEF ExchangeSound, DiskOK
    <3> QED BY <2>1, <3>2 DEF Exchanges!Load, Exchanges!Adopts, Exchanges!Forgets
  <2>2. CASE ~Exchanges!Load(t)
      BY <1>1, <2>2 DEF Exchanges!TabStep, Exchanges!Look, Exchanges!OpenDraft,
         Exchanges!Edit, Exchanges!Reset, Exchanges!Send, Exchanges!Launches,
         Exchanges!Unverified, Exchanges!Serve,
         Exchanges!GiveUp, Exchanges!Settle, Exchanges!SettleAlone, Exchanges!Inspect,
         Exchanges!ReadAgain, Exchanges!CloseRead, Exchanges!Reconciled,
         Exchanges!HandleStorageEvent
  <2> QED BY <2>1, <2>2
<1>2. ASSUME ~(\E t \in Tabs : Exchanges!TabStep(t))
      PROVE  owned' = owned
    BY <1>2 DEF Exchanges!Next, Exchanges!ServeLate, Exchanges!ExchangeElsewhere,
       Exchanges!ChangePermission, Exchanges!StorageBreaks, Exchanges!tabVars
<1> QED BY <1>1, <1>2

LEMMA TypedStep ==
    ASSUME ExchangeConstants, ExchangeTyped, [Exchanges!Next]_(Exchanges!vars)
    PROVE  ExchangeTyped'
<1>1. CASE UNCHANGED Exchanges!vars
    BY <1>1, ExchangeStutter DEF ExchangeTyped, Exchanges!vars, Exchanges!serverVars,
       Exchanges!tabVars
<1>2. CASE Exchanges!Next
  <2>1. ExchangeInv'
      BY <1>2, ExchangeStep DEF ExchangeTyped
  <2>2. PICK of \in Bodies : ExchangeSound(of)
      BY DEF ExchangeTyped, ExchangeInv
  <2>3. ASSUME NEW t \in Tabs, NEW r \in Exchanges!Abandoned(t)
        PROVE  r \in [key : Exchanges!Keys, lines : Exchanges!LineSets]
    <3>1. r = [key |-> flight[t].key, lines |-> flight[t].lines] /\ flight[t].stage = "sent"
        BY <2>3 DEF Exchanges!Abandoned
    <3>2. Has(flight[t].key, flight[t].lines, of, minted)
        BY <2>2, <3>1, TabFacts DEF FlightOK
    <3>3. flight[t].key \in Exchanges!Keys /\ flight[t].lines \in Exchanges!LineSets
        BY <2>2, <3>2, TabFacts, BodyOK DEF Has, World, Exchanges!Keys, ExchangeConstants
    <3> QED BY <3>1, <3>3
  <2>4. late' \subseteq [key : Exchanges!Keys, lines : Exchanges!LineSets]
      BY <1>2, <2>3, LateMoves DEF ExchangeTyped
  <2>5. /\ DOMAIN owned' = Tabs
        /\ \A t \in Tabs : owned'[t] \in SUBSET Exchanges!Keys
      BY <2>1 DEF ExchangeInv, ExchangeSound, TabsOK, TabOK, World, Exchanges!Keys,
         ExchangeConstants
  <2>6. owned' \in [Tabs -> SUBSET Exchanges!Keys]
      BY <1>2, <2>5, OwnedMoves DEF ExchangeTyped
  <2> QED BY <2>1, <2>4, <2>6 DEF ExchangeTyped
<1> QED BY <1>1, <1>2

\* The storage, the server and every tab keep their shape, for any number of tabs, items, units
\* and keys, and whatever fails.
THEOREM ExchangeTypeCorrect ==
    ASSUME ExchangeConstants PROVE Exchanges!Spec => []Exchanges!TypeOK
<1>1. Exchanges!Init => ExchangeTyped
    BY ExchangeInit DEF ExchangeTyped, Exchanges!Init
<1>2. ExchangeTyped /\ [Exchanges!Next]_(Exchanges!vars) => ExchangeTyped'
    BY TypedStep
<1>3. ASSUME ExchangeTyped PROVE Exchanges!TypeOK
  <2>1. PICK of \in Bodies : ExchangeSound(of)
      BY <1>3 DEF ExchangeTyped, ExchangeInv
  <2>2. /\ World(of, minted, exchanged, committed) /\ RestTyped
        /\ DiskOK(record, mark, refused, of, minted, exchanged, committed) /\ TabsOK(of)
      BY <2>1 DEF ExchangeSound
  <2>3. record.status # "none" => record.key \in 1 .. minted /\ record.lines \in Exchanges!LineSets
      BY <2>2, BodyOK DEF DiskOK, RecordOK, Has, World, ExchangeConstants
  <2>4. ASSUME NEW t \in Tabs
        PROVE  /\ flight[t].stage \in Exchanges!Stages
               /\ reading[t].stage \in {"idle", "found", "asked", "read"}
               /\ draft[t].open =>
                    /\ draft[t].lines \in Exchanges!LineSets
                    /\ draft[t].available \in Exchanges!Quantities
                    /\ draft[t].attempt.status \in Exchanges!Statuses
                    /\ draft[t].recovery \in Exchanges!Reasons
      BY <2>1, TabFacts DEF FlightOK, ReadingOK, DraftOK, AttemptOK
  <2>5. permitted \in BOOLEAN
      BY Zenon, <2>2 DEF RestTyped
  <2>6. /\ exchanged \in [Items -> 0 .. Sold] /\ elsewhere \in 0 .. MaxElsewhere
        /\ DOMAIN committed \subseteq 1 .. minted
        /\ \A k \in DOMAIN committed : committed[k] \in Exchanges!Quantities
        /\ record.status \in Exchanges!Statuses \ {"REJECTED"}
        /\ mark \in Exchanges!Quantities /\ broken \subseteq {"attempt", "mark"}
        /\ minted \in 0 .. MaxExchangeKeys /\ refused \subseteq 1 .. minted
      BY <2>2 DEF World, RestTyped, DiskOK, RecordOK, MarkOK
  <2>7. late \subseteq [key : Exchanges!Keys, lines : Exchanges!LineSets]
        /\ owned \in [Tabs -> SUBSET Exchanges!Keys]
      BY <1>3 DEF ExchangeTyped
  <2> QED BY <2>3, <2>4, <2>5, <2>6, <2>7, Zenon DEF Exchanges!TypeOK
<1>4. ExchangeTyped => Exchanges!TypeOK
    BY <1>3
<1> QED BY <1>1, <1>2, <1>4, PTL DEF Exchanges!Spec
=============================================================================
