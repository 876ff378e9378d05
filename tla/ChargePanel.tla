---------------------------- MODULE ChargePanel ----------------------------
(***************************************************************************)
(* The cashier's side of the proportional checkout: the charge panel       *)
(* (ProportionalChargePanel.tsx), the attempts and the set of sales in     *)
(* flight that the page keeps when the panel of a sale goes away           *)
(* (page.tsx), and what it sends (checkout-quote.ts).                      *)
(*                                                                         *)
(* The server is what the panel may rely on, as Checkout models it: a      *)
(* reservation is answered again for the key it has, quoted before it is   *)
(* written, and a sale has one open attempt.  A request may be lost, its   *)
(* answer too, and it may be served after the browser gave it up.          *)
(*                                                                         *)
(* A draft stands for the composition of the payment, a price for what the *)
(* server quotes for it, a cash session for the session and its branch.    *)
(* beginCheckout and its relatives in checkout-quote.ts are not used by    *)
(* the app and left out.                                                   *)
(***************************************************************************)
EXTENDS Naturals

CONSTANTS
    Sales, Sessions, Drafts, Prices,
    MaxKeys,        \* bound: keys minted
    Faults,         \* of "lost" (request or answer), "late" (served after the browser gave up),
                    \* "reload" (of the page), "switch" (to another mode and back)
    None

VARIABLES
    shown,          \* the sale whose panel is mounted and the cash session, or None
    panel,          \* the mounted panel: draft, quote, quoteLoading, and the quotes asked for
    attempts,       \* page: checkoutAttempts
    inFlight,       \* page: checkoutInFlight
    keys,           \* keys minted since the page was first loaded; how many of them by a workspace
                    \* that is gone (history: no action reads it)
    net,            \* requests under way, by the page, by one that is gone but still runs, or
                    \* awaited by nobody, and answers to those awaited
    server          \* price of each sale, what each key holds there

vars == <<shown, panel, attempts, inFlight, keys, net, server>>

Keys == 1 .. MaxKeys
NoAttempt == [phase |-> "none", state |-> "PENDING", key |-> 0, body |-> None]
Nothing == [sale |-> None, state |-> "none", body |-> None]
NoQuote == [draft |-> None, price |-> None]

Initial == CHOOSE d \in Drafts : TRUE

\* A panel just mounted: INITIAL_DRAFT; its effect asks for a quote when there is a session.
Mounted(session, confirmed) ==
    LET asks == session # None /\ ~confirmed
    IN [draft |-> Initial, quote |-> NoQuote, loading |-> asks,
        asked |-> IF asks THEN {[draft |-> Initial, latest |-> TRUE]} ELSE {}]

Init ==
    /\ shown = [sale |-> None, session |-> None]
    /\ panel = Mounted(None, FALSE)
    /\ attempts = [s \in Sales |-> NoAttempt] /\ inFlight = {} /\ net = {}
    /\ keys = [minted |-> 0, left |-> 0]
    /\ \E price \in [Sales -> Prices] :
          server = [price |-> price, held |-> [k \in Keys |-> Nothing]]

-----------------------------------------------------------------------------
(* The quote on the screen *)

Confirmed(s) == s # None /\ attempts[s].state = "CONFIRMED"

Older(asked) == {[draft |-> q.draft, latest |-> FALSE] : q \in asked}

\* What the quote effect makes of a change of draft, session, outcome or quoteEpoch.
Requoted(p, draft, session, confirmed) ==
    IF session = None \/ confirmed
    THEN [draft |-> draft, quote |-> NoQuote, loading |-> FALSE, asked |-> Older(p.asked)]
    ELSE [draft |-> draft, quote |-> p.quote, loading |-> TRUE,
          asked |-> Older(p.asked) \cup {[draft |-> draft, latest |-> TRUE]}]

Select(s) ==
    /\ s # shown.sale
    /\ shown' = [shown EXCEPT !.sale = s]
    /\ panel' = Mounted(IF s = None THEN None ELSE shown.session, Confirmed(s))
    /\ UNCHANGED <<attempts, inFlight, keys, net, server>>

\* A register is opened, closed or changed with its branch.
ChangeSession(c) ==
    /\ c # shown.session
    /\ shown' = [shown EXCEPT !.session = c]
    /\ panel' = IF shown.sale = None \/ (c # None /\ shown.session # None) THEN panel
                ELSE Requoted(panel, panel.draft, c, Confirmed(shown.sale))
    /\ UNCHANGED <<attempts, inFlight, keys, net, server>>

\* updateTender, switchMode, changeBalanceMethod: only while there is no attempt.
Edit(d) ==
    /\ shown.sale # None /\ attempts[shown.sale].phase = "none" /\ d # panel.draft
    /\ panel' = Requoted(panel, d, shown.session, FALSE)
    /\ UNCHANGED <<shown, attempts, inFlight, keys, net, server>>

\* Not the code: any answer is shown.
AnyAnswer(q) == TRUE

IsLatest(q) == q.latest

\* An answer that is no longer of the panel's composition is dropped.
QuoteAnswered(q, answered) ==
    /\ q \in panel.asked
    /\ panel' =
         IF IsLatest(q)
         THEN [draft |-> panel.draft, loading |-> FALSE, asked |-> panel.asked \ {q},
               quote |-> IF answered
                         THEN [draft |-> q.draft, price |-> server.price[shown.sale]]
                         ELSE NoQuote]
         ELSE [panel EXCEPT !.asked = @ \ {q}]
    /\ UNCHANGED <<shown, attempts, inFlight, keys, net, server>>

-----------------------------------------------------------------------------
(* Sending *)

Request(kind, s, key, body) ==
    [kind |-> kind, sale |-> s, key |-> key, body |-> body, reply |-> "none", by |-> "page"]

\* Not the code: the sales in flight are forgotten with the panel that sent them.
Unguarded(s) == FALSE

Locked(s) == s \in inFlight

QuoteMatchesDraft == panel.quote # NoQuote /\ panel.quote.draft = panel.draft

\* buildReservationRequest: the totals of the quote, the tenders of the draft, the session.
ReservationBody ==
    [draft |-> panel.draft, price |-> panel.quote.price, session |-> shown.session]

\* buildConfirmationRequest: the evidence of the draft that was reserved, not of the one shown.
ConfirmationBody(m) == m.body

\* confirm(): the attempt is recorded before the network is touched.
Confirm ==
    LET s == shown.sale
        key == keys.minted + 1
        body == ReservationBody
    IN /\ s # None /\ shown.session # None /\ attempts[s].phase = "none"
       /\ QuoteMatchesDraft /\ ~panel.loading
       /\ ~Locked(s) /\ key \in Keys
       /\ keys' = [keys EXCEPT !.minted = key]
       /\ attempts' = [attempts EXCEPT ![s] = [phase |-> "RESERVATION", state |-> "PENDING",
                                               key |-> key, body |-> body]]
       /\ inFlight' = inFlight \cup {s}
       /\ net' = net \cup {Request("reserve", s, key, body)}
       /\ UNCHANGED <<shown, panel, server>>

RetriedBody(s) == attempts[s].body

\* retry(): the same key and the same body, from the session the attempt was born in.
Retry ==
    LET s == shown.sale
        a == attempts[s]
    IN /\ s # None /\ a.phase # "none" /\ a.state = "UNCERTAIN"
       /\ shown.session = a.body.session /\ ~Locked(s)
       /\ inFlight' = inFlight \cup {s}
       /\ net' = net \cup {Request(IF a.phase = "RESERVATION" THEN "reserve" ELSE "confirm",
                                   s, a.key, RetriedBody(s))}
       /\ UNCHANGED <<shown, panel, attempts, keys, server>>

-----------------------------------------------------------------------------
(* Answers *)

Started(m, phase, state) == [phase |-> phase, state |-> state, key |-> m.key, body |-> m.body]

Discards(reply) == reply = "changed"

Landed(m) == net \ {m}

\* The sale is shown with a quote of before: the panel lets it go and asks again.
Dropped(m) ==
    IF shown.sale = m.sale
    THEN Requoted([panel EXCEPT !.quote = NoQuote], panel.draft, shown.session, FALSE)
    ELSE panel

\* sendReservation.  What it writes is of the attempt it was started with.
ReservationAnswered(m, reply, rest) ==
    CASE reply = "ok" ->
           /\ attempts' = [attempts EXCEPT ![m.sale] = Started(m, "CONFIRMATION", "PENDING")]
           /\ net' = rest \cup {Request("confirm", m.sale, m.key, ConfirmationBody(m))}
           /\ UNCHANGED <<panel, inFlight>>
      [] reply # "ok" /\ Discards(reply) ->
           /\ attempts' = [attempts EXCEPT ![m.sale] = NoAttempt]
           /\ panel' = Dropped(m) /\ inFlight' = inFlight \ {m.sale} /\ net' = rest
      [] OTHER ->
           /\ attempts' = [attempts EXCEPT ![m.sale] = Started(m, "RESERVATION", "UNCERTAIN")]
           /\ inFlight' = inFlight \ {m.sale} /\ net' = rest
           /\ UNCHANGED panel

\* Not the code: the lock is released only when the charge went through.
ReleasedWhenConfirmed(m, reply) == IF reply = "ok" THEN inFlight \ {m.sale} ELSE inFlight

\* finally.
Released(m, reply) == inFlight \ {m.sale}

\* sendConfirmation.
ConfirmationAnswered(m, reply, rest) ==
    /\ attempts' = [attempts EXCEPT ![m.sale] =
         Started(m, "CONFIRMATION", IF reply = "ok" THEN "CONFIRMED" ELSE "UNCERTAIN")]
    /\ inFlight' = Released(m, reply) /\ net' = rest
    /\ panel' = IF reply = "ok" /\ shown.sale = m.sale
                THEN Requoted(panel, panel.draft, shown.session, TRUE) ELSE panel

Answered(m, reply, rest) ==
    IF m.kind = "reserve" THEN ReservationAnswered(m, reply, rest)
                          ELSE ConfirmationAnswered(m, reply, rest)

\* The functions of a workspace that was left go on: what they set is lost, what they send is not.
AnsweredLater(m, reply, rest) ==
    /\ net' = IF m.kind = "reserve" /\ reply = "ok"
              THEN rest \cup {[Request("confirm", m.sale, m.key, ConfirmationBody(m)) EXCEPT !.by = "gone"]}
              ELSE rest
    /\ UNCHANGED <<panel, attempts, inFlight>>

Handled(m, reply, rest) ==
    \/ m.by = "page" /\ Answered(m, reply, rest)
    \/ m.by = "gone" /\ AnsweredLater(m, reply, rest)

Receive(m) ==
    /\ m.reply # "none"
    /\ Handled(m, m.reply, Landed(m))
    /\ UNCHANGED <<shown, keys, server>>

\* The browser gives up: nothing tells whether the request was, or will be, served.
GiveUp(m, late) ==
    /\ "lost" \in Faults
    /\ late => "late" \in Faults /\ m.reply = "none"
    /\ Handled(m, "failed", IF late THEN Landed(m) \cup {[m EXCEPT !.by = "nobody"]}
                                    ELSE Landed(m))
    /\ UNCHANGED <<shown, keys, server>>

\* Attempts and locks are state of the cashier's workspace, and go with it.
Forgotten ==
    /\ attempts' = [s \in Sales |-> NoAttempt] /\ inFlight' = {}
    /\ shown' = [sale |-> None, session |-> None]
    /\ panel' = Mounted(None, FALSE)
    /\ keys' = [keys EXCEPT !.left = keys.minted]
    /\ UNCHANGED server

\* Requests already sent go on.
Reload ==
    /\ "reload" \in Faults
    /\ Forgotten
    /\ net' = {[m EXCEPT !.by = "nobody"] : m \in {n \in net : n.reply = "none"}}

\* Another mode unmounts the cashier's workspace; coming back mounts a new one.
Switch ==
    /\ "switch" \in Faults
    /\ Forgotten
    /\ net' = {[m EXCEPT !.by = IF @ = "page" THEN "gone" ELSE @] : m \in net}

-----------------------------------------------------------------------------
(* The server, which Checkout models in full *)

OpenKeys(s) == {k \in Keys : server.held[k].sale = s /\ server.held[k].state \in {"RESERVED", "REJECTED"}}
Settled(s) == \E k \in Keys : server.held[k].sale = s /\ server.held[k].state = "CONFIRMED"

Reply(m, reply) == net' = Landed(m) \cup (IF m.by # "nobody" THEN {[m EXCEPT !.reply = reply]} ELSE {})

\* The key first, then the sale, then the quote, all before the first write; a permission that is
\* gone, a drawer that was closed, a charge that is claimed and the like refuse it too.
ServeReservation(m) ==
    LET h == server.held[m.key]
        known == h.state # "none"
        changed == server.price[m.sale] # m.body.price
    IN \/ known /\ h.body = m.body /\ Reply(m, "ok") /\ UNCHANGED server
       \/ Reply(m, "refused") /\ UNCHANGED server
       \/ /\ ~known /\ OpenKeys(m.sale) = {} /\ ~Settled(m.sale)
          /\ Reply(m, IF changed THEN "changed" ELSE "ok")
          /\ server' = IF changed THEN server
               ELSE [server EXCEPT !.held[m.key] =
                       [sale |-> m.sale, state |-> "RESERVED", body |-> m.body]]

\* A confirmation may be rejected for good, as when the drawer was closed, or refused as if it had
\* not come.
ServeConfirmation(m) ==
    \/ Reply(m, "refused") /\ UNCHANGED server
    \/ \E state \in {"CONFIRMED", "REJECTED"} :
          LET h == server.held[m.key]
              now == IF h.state = "RESERVED" THEN state ELSE h.state
          IN /\ server' = [server EXCEPT !.held[m.key].state = now]
             /\ Reply(m, IF now = "CONFIRMED" THEN "ok" ELSE "refused")

Serve(m) ==
    /\ m.reply = "none"
    /\ IF m.kind = "reserve" THEN ServeReservation(m) ELSE ServeConfirmation(m)
    /\ UNCHANGED <<shown, panel, attempts, inFlight, keys>>

\* Whoever reserved, or a supervisor, closes the attempt.
Close(k) ==
    /\ server.held[k].state \in {"RESERVED", "REJECTED"}
    /\ server' = [server EXCEPT !.held[k].state = "CLOSED"]
    /\ UNCHANGED <<shown, panel, attempts, inFlight, keys, net>>

\* The sale is corrected, or the surcharge of a method changed.
Reprice(s, price) ==
    /\ price # server.price[s]
    /\ server' = [server EXCEPT !.price[s] = price]
    /\ UNCHANGED <<shown, panel, attempts, inFlight, keys, net>>

-----------------------------------------------------------------------------
Cashier ==
    \/ \E s \in Sales \cup {None} : Select(s)
    \/ \E c \in Sessions \cup {None} : ChangeSession(c)
    \/ \E d \in Drafts : Edit(d)
    \/ Confirm \/ Retry \/ Reload \/ Switch

Network ==
    \/ \E q \in panel.asked, answered \in BOOLEAN : QuoteAnswered(q, answered)
    \/ \E m \in net : Receive(m) \/ Serve(m) \/ \E late \in BOOLEAN : GiveUp(m, late)

Elsewhere ==
    \/ \E k \in Keys : Close(k)
    \/ \E s \in Sales, price \in Prices : Reprice(s, price)

Next == Cashier \/ Network \/ Elsewhere

Spec == Init /\ [][Next]_vars

\* Every request is served or given up, and every answer is handled.
Progress(s) == \E m \in net : m.sale = s /\ (Receive(m) \/ Serve(m))
Fairness == \A s \in Sales : WF_vars(Progress(s))

-----------------------------------------------------------------------------
(* Properties *)

Body == [draft: Drafts, price: Prices, session: Sessions]
Quotes == {NoQuote} \cup [draft: Drafts, price: Prices]
Panels ==
    [draft: Drafts, quote: Quotes, loading: BOOLEAN, asked: SUBSET [draft: Drafts, latest: BOOLEAN]]
Attempts ==
    {NoAttempt} \cup [phase: {"RESERVATION", "CONFIRMATION"}, key: Keys, body: Body,
                      state: {"PENDING", "UNCERTAIN", "CONFIRMED"}]
Requests ==
    [kind: {"reserve", "confirm"}, sale: Sales, key: Keys, body: Body,
     reply: {"none", "ok", "changed", "refused"}, by: {"page", "gone", "nobody"}]
Holdings ==
    {Nothing} \cup [sale: Sales, body: Body,
                    state: {"RESERVED", "REJECTED", "CONFIRMED", "CLOSED"}]

\* Everything has its shape, and a panel loads while its latest question is unanswered.
TypeOK ==
    /\ shown \in [sale: Sales \cup {None}, session: Sessions \cup {None}]
    /\ panel \in Panels
    /\ panel.loading <=> \E q \in panel.asked : q.latest
    /\ attempts \in [Sales -> Attempts] /\ inFlight \subseteq Sales
    /\ keys \in [minted: 0 .. MaxKeys, left: 0 .. MaxKeys] /\ keys.left <= keys.minted
    /\ net \subseteq Requests
    /\ server \in [price: [Sales -> Prices], held: [Keys -> Holdings]]

\* The total on the screen is of the composition on the screen, however late the answers to
\* earlier compositions come.
QuoteOfDraft == panel.quote # NoQuote /\ ~panel.loading => panel.quote.draft = panel.draft

\* A sale has at most one operation under way, also when its panel was left and opened again in
\* the middle of one.
OneOperation ==
    \A m, n \in net : m.by = "page" /\ n.by = "page" /\ m.sale = n.sale => m = n

\* A key is only ever sent with one body, so that a retry is answered with what the first
\* request did.
OneBodyPerKey ==
    /\ \A m, n \in net : m.key = n.key => m.body = n.body
    /\ \A m \in net : server.held[m.key].state # "none" => server.held[m.key].body = m.body

\* What the screen says was charged was: the server holds the confirmed attempt of the key, of
\* that sale and with the body that was sent.
ChargedIsCharged ==
    \A s \in Sales : attempts[s].state = "CONFIRMED" =>
        server.held[attempts[s].key] =
            [sale |-> s, state |-> "CONFIRMED", body |-> attempts[s].body]

\* A charge is made, or asked for, under a key.
AskedToCharge(s, k) == \E m \in net : m.kind = "confirm" /\ m.sale = s /\ m.key = k
ChargeMade(s, k) == server.held[k].sale = s /\ server.held[k].state = "CONFIRMED"

\* Whatever was charged for a sale, or may be by a request that no one waits for any more, the
\* workspace that asked for it knows: the sale stays at the confirmation of that key and body,
\* and cannot be charged again under another.
ChargeIsKnown ==
    \A s \in Sales, k \in keys.left + 1 .. keys.minted :
        /\ AskedToCharge(s, k) \/ ChargeMade(s, k) =>
              attempts[s].phase = "CONFIRMATION" /\ attempts[s].key = k
        /\ ChargeMade(s, k) => attempts[s].body = server.held[k].body

\* A key that no sale has, of those minted since the workspace was mounted, was discarded: nothing
\* is held under it.
DiscardLeavesNothing ==
    \A k \in keys.left + 1 .. keys.minted :
        (\A s \in Sales : attempts[s].key # k) => server.held[k].state = "none"

\* While the server holds an open attempt of a key minted here, the page still knows the key.
NothingForgotten ==
    \A s \in Sales, k \in Keys : k \in OpenKeys(s) => attempts[s].key = k

\* A sale does not stay locked: what was started ends, and the cashier can go on.
LockReleased == \A s \in Sales : s \in inFlight ~> s \notin inFlight
=============================================================================
