# A verification of the mona-jacinta point of sale

The repository is a point of sale for a chain of clothing shops: a TypeScript API (`src/api`, Express,
Prisma, PostgreSQL, Socket.IO), its web client (`src/client`), a back office and operation tools. This
directory holds TLA+ models of the parts where mistakes cost stock, money or access (the API, the triggers
of its database, the screens a cashier works with, the catalog import), the TLC runs that check them on
small instances, and theorems about them that TLAPS checks for every value of the constants.

## 1. The system

One API process (several are possible) serves salons, cashiers, warehouses and the office. Durable state is
in PostgreSQL, and every operation that changes it is one interactive transaction; the browser keeps what
it has asked for and not been answered, in memory and in `localStorage`. The components, under
`src/api/src/modules` unless said otherwise:

| Component | State it keeps | Operations | Talks to |
|---|---|---|---|
| sale lifecycle (`sales/`) | `Sale`, `SaleItem`, `StockReservation`, `SaleNumberCounter` | create a draft, add / update / remove an item, send to the cashier, correct, cancel, complete | inventory (holds), payments |
| inventory (`inventory/`) | `Inventory` (`physical`, `reserved`), `StockMovement` | initial load, adjustment, availability | sale lifecycle, void and exchange |
| fixed-total payments (`payments/payments.service.ts`) | `SalePayment`, `CashMovement` | register a payment | sale, cash drawer |
| proportional checkout (`payments/checkout-*.ts`, `external-collections.service.ts`) | `CheckoutAttempt` with its sealed tenders and declarations, `ExternalCollection`, `SaleCheckout` | T-R reserve, T-RR recover, T-C confirm, T-X close, T-F refund, T-S recover the stock | sale, pricing, cash drawer, the card terminal and the bank |
| void and exchange (`sales/sale-void.service.ts`, `sale-exchange.service.ts`) | `SaleVoid`, `SaleExchange`, their stock and cash movements | void a paid sale, exchange lines of a completed one | inventory, cash drawer, post-sale guards |
| cash drawer (`cash/`) | `CashSession`, `CashMovement` | open, close with reconciliation, withdraw, spend, reverse | payments, void |
| pricing and wholesale (`pricing/`, `sales/wholesale-authorization.service.ts`) | `CompanyPricingConfig`, `Sale.priceMode` and its confirmation | quote, change prices and adjustments, activate and confirm wholesale | checkout, drafts |
| post-sale guards (`api/prisma/migrations/2026102613*` to `15*`) | triggers, `SalePostSaleGuard` | exclude a void and an exchange of one sale | void and exchange |
| accounts and sessions (`auth/`, `backoffice/`, `realtime/`) | `User`, credentials epoch, live sockets | log in, create, deactivate, reset, assign, revoke | every route |
| http server, reservation sweeper (`server.ts`, `sales/reservation-sweeper.ts`) | the process, a timer | readiness gate, sweeps, shutdown | sale lifecycle |
| exchange drafts (`client/src/app/exchange-draft-store.ts`, `ExchangeWorkspace.tsx`) | the draft and its attempt in `localStorage` | prepare, send, settle, reload, listen to other tabs | void and exchange |
| cashier's workspace (`client/src/app/page.tsx`, `ProportionalChargePanel.tsx`) | quotes, attempts, what is shown of the register | quote, reserve, confirm, open, close, withdraw | checkout, cash drawer |
| catalog import (`scripts/database/pilot-local1-catalog-import.mjs`) | authorization file, provenance record | check, execute, verify | catalog, inventory |
| permissions, audit, back office client, seeds, scripts and CI | | | |

Components meet through rows they share. A sale that is sent to the cashier turns lines into holds and
raises `Inventory.reserved`; a payment or a confirmed checkout makes it PAID and then COMPLETED, which
turns holds into `SALE` stock movements; a void or an exchange reads those movements back. A checkout
attempt reads the sale, the pricing and the drawer when it is reserved, and again when it is confirmed,
minutes later, after a card terminal that no transaction can undo has charged the customer. The browser
learns of all this by answers that may be late, lost or overtaken.

### What is hard in it

* **Reads before a transaction.** The draft handlers check status, availability and prices with plain
  reads and write in a later transaction; everything may change between.
* **One fact kept twice.** `Inventory.reserved` and the ACTIVE reservations; `Inventory.physical` and the
  sum of stock movements; `Sale.total`, the lines and the payments; a collection's claim and the plan of
  the attempt that claims it. Each operation updates both sides with code of its own.
* **Money outside.** A charge on the terminal happens between two requests; the confirmation may be late,
  rejected, repeated or never arrive, and the customer must neither lose the money nor pay twice.
* **A plan that ages.** A sealed plan stays valid while lines are corrected, prices change, the sale is
  cancelled and the drawer is counted.
* **Things done afterwards.** Voids and exchanges, several of them, computed from what earlier ones wrote.
* **Transactions that wait.** A snapshot is older than the row lock it waits for; the services and the
  triggers rely on isolation levels, on rows updated only to be seen, and on PostgreSQL's aborts.
* **Answers out of order.** The screen replaces what it shows by what an older request was answered; a
  lost answer says nothing about what the server did; two tabs share one durable draft.
* **Replays.** Every money operation may arrive twice.

`PROJECT.json` lists each of these at the line where it bites, with the property that covers it, or why
none does.

### What makes each component correct

* *Sale and stock*: nothing is promised twice; a sale that waits or is paid holds exactly its lines;
  counters equal what they count; money never exceeds the total and freezes what it paid for; a paid sale
  can always be delivered; movements tell the whole story; an exchange keeps the customer's value.
* *Checkout*: one open attempt per sale; a sale is settled once, for its lines, with every charge made
  for it; no charge is forgotten, recorded twice, applied and refunded; answers given stay given.
* *Cash drawer*: an open session can always be reconciled; a closed one never changes; nothing leaves
  that is not there; a movement is reversed once.
* *Pricing*: a sale has one price mode; a wholesale sale is charged as it was confirmed; shares add up to
  the amount and stay within a unit of the exact share.
* *Guards*: no sale has both a void and an exchange.
* *Accounts*: an owner is always left; a credential that was replaced never works again; a socket of an
  account that changed dies.
* *Process*: while it is not stopped there is always a next sweep; a process that was told to stop ends.
* *Browser*: the quote on the screen is the draft's; one key never carries two bodies; whatever
  was charged, or may be, is known by the workspace that asked for it; what the browser knows of an exchange is
  kept until it is safe to forget.
* *Import*: the catalog is created by one run or not at all, and the tool tells the truth about it.

## 2. The modules

| Module | What it is |
|---|---|
| `StockPromise` | abstract: every unit is free, held for one sale or with one customer |
| `SaleStock`, `SaleStockProofs` | sale lifecycle, inventory, payments, completion, void and exchange of one branch |
| `ChargePromise` | abstract: every charge made outside is taken, owed, kept for a settled sale or returned |
| `SaleCharges` | abstract: the operations on attempts and collections, one after the other |
| `Checkout`, `CheckoutProofs` | the charge reservation of a sale that waits at the cashier |
| `DrawerBooks` | abstract: the cash of one session, what it expects when it is counted, and the exits that may be put back |
| `CashDrawer`, `CashDrawerProofs` | the sessions and movements of one register, with the payments and voids that use it |
| `SalePricing` | what one sale charges for its lines: edits, price modes, wholesale |
| `ProportionalQuote` | the engine of the proportional checkout, as operators, against its promises |
| `PricingProofs` | theorems about `SalePricing` and `ProportionalQuote` |
| `PostSaleGuard` | the triggers of voids and exchanges, over transactions |
| `ReservationRace` | T-R, T-RR, T-X, T-C and T-F of one sale as transactions |
| `DrawerRace` | incomes, exits, reversals and the count of one session as transactions |
| `Races`, `DatabaseProofs` | the three of them side by side; their theorems |
| `Accounts`, `AccountsProofs` | accounts, passwords, tokens, roles and sockets under concurrent requests |
| `Server`, `PilotImport`, `ProcessProofs` | the life of the API process; runs of the import tool; their theorems |
| `ExchangeDraft`, `ExchangeTabs` | the durable draft of an exchange in the tabs of a browser; its instance |
| `ChargePanel`, `RegisterScreen`, `CashierScreens` | the charge panel; the register on the screen; both side by side |
| `ClientProofs` | theorems about `RegisterScreen`, `ChargePanel` and `ExchangeDraft` |
| `MCSaleStock`, `MCCheckout`, `MCDatabase`, `MCAccounts`, `MCPrices`, `MCBrowser`, `MCProgress` | instances for TLC, one per group of runs |

`Races`, `CashierScreens` and `ExchangeTabs` give the instanced modules variables of their own and name
the properties that the runs check and the theorems state, so that both speak of one definition.

### SaleStock and the code

Every operation is one Serializable transaction, or a Read Committed one, that takes the `Sale` row
`FOR UPDATE` first, then reservations, then inventory rows in id order; so an operation is one action.
What a handler does before its transaction is an action of its own: `PrepareAddItem`,
`PrepareUpdateItem` and `PrepareRemoveItem` read and validate, `WriteItem` or `RefuseItem` run later with
what was read (`request`, one per client). `SendToCashier` is `reserveInTransaction`, `CorrectPendingSale`
`correctPendingSale`, `CancelSale` `cancelSale`, `RegisterPayment` the inner `attempt` of
`payments.service.ts` (which completes nothing itself), `CompleteSale` `finalizePaidSaleInTransaction`, and
`Checkout` the effect of a confirmed T-C on the sale and its stock. `VoidPaidSale`, `VoidCompletedSale`,
`ExchangeSale`, `LoadInitialStock` and `AdjustStock` are the handlers of those names. Variables are columns:
`hold` is the sale's ACTIVE `StockReservation` rows; `sold`, `restored`, `returned` and `replaced` are the sums
of its `SALE`, `SALE_VOID`, `SALE_EXCHANGE_IN` and `SALE_EXCHANGE_OUT` movements; `loaded` is the sum of the
rest. A guard that the code answers with an error is a conjunct; an error leaves no trace.

Abstractions: one branch (no operation crosses branches); one line per variant, as the code keeps it;
catalog prices do not change, while the code compares the historical unit price of an exchanged line with
today's price of its replacement; permissions and audit rows are left out; the widths of the BIGINT columns are `MaxPhysical`
and `MaxQuantity`. `ExchangeSale` also asks that no more than `MaxQuantity` units of a variant were replaced in one
sale: a bound, which the code does not have, on sales whose exchanges would otherwise go on for ever.
Holds never expire: `NORMAL_SALE_HOLD_EXPIRES_BY_CLOCK` is `false`
(`sales/reservation-holds.ts`), so the sweeper releases nothing.

### Checkout and the code

`attempt[k]` is the `CheckoutAttempt` of reserve key `k` with its sealed tenders; `state` and `declared` its
status and `declaredAt`. A charge is named by its attempt and its method, since a plan has one tender per
method: `charged[c]` is what happened outside, and `collected[c]` and `claim[c]` are the
`ExternalCollection` row. `Reserve` is T-R (`reserveOnce`), `Recover` T-RR (`recoverOnce`), `Confirm` and `Reject`
the two commits of T-C (`confirmAttempt`), `Close` T-X (`closeOnce`), `Refund` T-F; `CancelSale`, `CorrectSale`,
`ChangePricing`, `OpenSession` and `CloseSession` are the operations of other components that change what
an attempt depends on. `ChargeOutside` is the environment. Operations that refuse leave no trace, and a
replay answers from the stored attempt, so both are stuttering; in particular a confirmation whose sealed
prices no longer match, or whose reference is already recorded, changes nothing, while a sale, collection
or session that is gone commits a rejection.

Abstractions: the lines of a sale are one value with a full price per method and pricing configuration,
because the attempt seals just those prices; the quote keeps the code's arithmetic (product of full
prices, half-up rounding, at least one peso left, at most three tenders) in whole pesos; allocation over
lines, change in cash and institution of a transfer do not feed back. The holds of the sale always cover it while it
waits: that is `HoldsCoverLines`, proved for `SaleStock`, and is why the stock errors of T-R and T-C, and
the stock recovery T-S, are left out. The person who confirms or closes tells the truth about what was
charged, and charges only while the attempt is RESERVED, as the screen offers it. A void or an exchange of the
settled sale is not in this module (`SaleStock`, `CashDrawer` and `PostSaleGuard` have them), so what it says of a
settlement, that its payments are the sealed tenders and its answers are final, it says up to then.

### CashDrawer and the code

`status`, `starting` and `books` (`expectedCash`, `difference`) are the columns of `CashSession`, `movements` the
`CashMovement` rows, `payments` the `SalePayment` rows in cash. `OpenSession`, `CloseSession`, `RegisterMovement` and
`ReverseMovement` are the handlers of `cash.service.ts`; `Reconciles` and `Projects` are its pure functions
`reconcileCashSession` and `projectExpectedCash`, check by check, so that a session which the code would refuse
to close is one in which `Reconciles` is false. `RegisterPayment`, `ConfirmCheckout` and `VoidSale` are what three
other services do to the drawer. Each is one Serializable transaction under the lock of the session row, hence one
action. A repeated request finds the row of its key and writes nothing, so a repetition is a stuttering step, and a
key that is reused with other contents is refused.

Abstractions: a movement is its columns, since the unique indexes (session and key, payment taken in,
movement reversed, payment refunded) leave no two equal rows; `link` stands for the three link columns, of which
a row fills one at most; only cash is kept, so a confirmed checkout pays any part of the price in cash and an external
refund is no step; PAID and COMPLETED are one status; whether a sale may be paid or voided otherwise (holds,
exchanges) is in `SaleStock`. `MaxCash` is the width of the BIGINT columns. Sums are cardinalities of sets of pesos.

### SalePricing and the code

One sale. Every transaction takes the `Sale` row first and keeps it to the end, so it is one action; adding
or updating an item reads the sale and the variant's prices before its transaction (`Prepare`), which writes
or refuses later (`AddItem`, `UpdateItem`, `RefuseItem`). Catalog prices and the company's adjustments change at
any time. An update in flight names the row of its line, so `RemoveItem` makes it find nothing. Activation and
the price modes are the seller's (`sales.service.ts`), the confirmation is another person's
(`wholesale-authorization.service.ts`) and a correction clears it. `confirmedLines` remembers what was
confirmed, which the code does not keep: it is there for the property. Abstractions: a line is the variant's;
stock is `SaleStock`'s and the settlement `Checkout`'s; the wholesale code is right, since a wrong one changes
nothing; the modes with an adjustment that no cash payment fits are one (`CARD`).

### ProportionalQuote and the code

`computeProportionalQuote` and what it calls, as operators in the code's order: the full price per method,
rounded half up per unit; the balance; the cases in which it refuses; and the largest-remainder allocation of
each method's amount over lines, in pesos or in centavos. A behaviour asks for one quote, of any number of lines
and of fixed tenders. `QuoteRight` is what the code promises of it: it adds up, each line pays within a unit of its exact share, the order of the
lines decides nothing, one method alone pays its full price, and a mixed total lies between the methods'.

### PostSaleGuard, ReservationRace, DrawerRace and the code

The other modules take an operation as one action. These three say why: a writer is a transaction that
takes its snapshot with its first statement, waits for the row of the sale or of the session, writes, and
commits or aborts. In `PostSaleGuard` the triggers and the claim row (with the migration that adds it, which
waits for the writers and fails on a sale that already conflicts) keep a void and an exchange apart at any
isolation level. In `ReservationRace`, T-R, T-X and T-F run READ COMMITTED, T-RR and T-C SERIALIZABLE, as
their services ask; the unique index on open attempts, an attempt's own version and PostgreSQL's conflict
detection are left out, so nothing rests on them: what protects the sale is that whoever changes what
others decide on updates the row they wait for. A confirmed attempt keeps the collections it claimed, and T-C
records its new charge as APPLIED at once (`checkout.service.ts`:898 to 923). `DrawerRace` is the opposite case: only the count updates the
session's row, so a transaction that waited reads movements as they were before it waited, and the books rest
on all writers being SERIALIZABLE and PostgreSQL aborting one of two that missed each other (`Conflict`,
external). The comment in `closeSession` (`cash.service.ts`:376) credits the row lock.

`SaleCharges` and `DrawerBooks` close the circle: they are what the modules of whole operations and the modules
of overlapping transactions have in common. The commits of `ReservationRace` are operations of `SaleCharges` on
the one sale, and so are the operations of `Checkout`; the commits of `DrawerRace` are operations of `DrawerBooks`,
and so is, for each session, what the operations of `CashDrawer` do to it. So taking an operation on charges or on the
drawer as one action leaves out nothing that the races could add to what these specifications speak of.

### Accounts and the code

A request is authorized when it arrives, may queue for the advisory lock of the last owner (`TakeGuard`),
then for the row of its target (`LockTarget`), where it is decided; it commits, and disconnects the sockets
afterwards. `Restart` kills the process at any of these points. The n-th password is the number n; `changes`
are the audit rows of an account; `told` are the answered deactivations. A socket's handshake reads the account
and joins its room later. Abstractions: an operational role with its locations is STAFF; names, e-mails, expiry
of tokens and the rate limiter are left out; the wait of a creation on the unique index is that of its target.

### Server and PilotImport and the code

`Server` is `server.ts` with the sweeper's chained timer: the gate is awaited before `listen`, a signal starts
the shutdown (stop the sweeper, close, disconnect, exit) under a deadline. Sweeps and requests may fail or
last for ever. `PilotImport` is a run of the tool: it checks the authorization, consumes it by an exclusive
create, and writes in one transaction under the maintenance lock, each step reading what is committed by then;
it may crash anywhere, its COMMIT may take effect unanswered, and the shop sells and edits meanwhile. The shop's
three steps are what its handlers can do to the rows the tool reads, and more: a sale of any row at any time.

### ExchangeDraft and the code

`record` and `mark` are the two `localStorage` keys, `flight[t]` a tab's send from the click to the settled
answer (the wait for the Web Lock included), `reading[t]` its read of the exchangeable sales. What runs under
the Web Lock is one action; a storage event is handled at any later time. `Faults` says what may go wrong: a
request commits after its tab is gone, `setItem` or `getItem` throws or finds broken text, the lock cannot be
taken, the permission comes and goes. `Load` is `ensureLoaded`, which may fail to enumerate the storage and then has
no draft at all (`Forgets`); `Send` is `prepare`, which writes the record, reads it back and sends nothing if it
cannot (`Unverified`). One user, one sale that stays COMPLETED.

### ChargePanel, RegisterScreen and the code

`ChargePanel` is `ProportionalChargePanel.tsx` with the attempts and locks of `page.tsx`: one attempt per sale,
locked while its request is out, over a network that loses, delays and serves requests after they were given up. A
reservation refused because the quote changed is discarded; any other refusal leaves the attempt UNCERTAIN until the
page is reloaded, as the code has it. `keys` remembers how many keys were minted by workspaces that are gone, for the
properties; no action reads it.
`RegisterScreen` is the register of `page.tsx`: reads, opens, closes in two steps (`CLOSES_IN_FLIGHT` outlives
the workspace) and exits whose key is kept over a lost answer. The `calls` under way carry what makes an
answer stale (`fresh`). The server of both is a summary of the handlers that `Checkout` and `CashDrawer` model:
what a key holds, whether a sale has an open attempt, whether a register is open. Where a handler refuses for a
reason the summary has no state for (a permission, a claimed collection, an amount), it may refuse at any time.

## 3. The runs

Twelve runs: seven pass, and five show a disagreement between the code and what its own text says. Each passing
run takes about three and a half minutes at most on two workers. A run that puts several questions to one system picks a
*scenario* (or, in the modules that put several systems side by side, a *subject*) at the start of every
behaviour, so the questions share a run and not a state space: the others stay as they began.

| Run | Instance | Distinct states | What it shows |
|---|---|---|---|
| `sales` | two sales (one proportional), three variants (one dearer), two clients, two exchange keys, quantities and stock up to 2; scenarios *compete*, *edits*, *exchanges* | 188,177 | sales cannot take each other's stock, late edits break neither holds nor money, exchanges and voids conserve value; `StockPromise` is kept |
| `charge_sales` | two sales, three attempts, two sessions, two references; scenarios *retries*, *two sales* | 850,279 | a sale is paid once; no charge is forgotten, doubled or recorded twice, whatever failed; `ChargePromise` is kept |
| `database` | drawer: two sessions, two sales (one costs all a column holds), three keys; guards: three writers; drawer race: four transactions; charge race: five, three at a time | 708,686 | an open drawer can be counted and a counted one stays; no sale is both voided and exchanged; transactions that overlap do what `DrawerBooks` and `SaleCharges` do one step after the other |
| `accounts` | two owners, an administrator, a clerk, two clients, a socket, two keys, a clock that steps back; scenarios *owners*, *credentials*, *repeats*, *sockets* | 331,871 | an owner is left, old tokens are dead, sockets of a changed account die |
| `prices` | two variants, four price lists (one refused), two cashiers; the engine over up to three lines and three methods; a charge of one sale, two attempts, card, transfer and cash, two pricings, two contents | 2,087,184 | one price mode, wholesale charged as confirmed, quotes right; a proportional sale pays for its lines at sealed prices, while they change |
| `browser` | panel: one sale, two compositions, two prices, two sessions, two keys; register: two branches, or one left while calls are out; exchange: two tabs, one or two items, two keys, another device; scenarios *faulty*, *sessions*, *leaving*, *branched*, *moded*, *late*, *items*, *shared*, *broken* | 1,369,084 | the quote shown is the draft's, what was charged is known, one close at a time, late reads never win; nothing a browser knows of an exchange is lost, no key has two bodies, answers find their draft |
| `progress` | the import with two runs, the process, two owners, the register, the panel that loses requests, under fairness | 102,326 | sweeps keep coming, an open process ends, locks come back, screens unlock; the import's safety |
| `accounts_handshake` | the scenario *sockets* | violation | a socket joins its room after its account changed |
| `server_early` | the process alone | violation | a signal during the gate leaves a process that nothing ends |
| `panel_switch` | one attempt, the mode tabs | violation | visiting another mode forgets an attempt the server holds |
| `panel_discard` | the scenario *faulty* | violation | a key that the panel discarded is reserved on the server by a late request |
| `exchange_refused` | one tab, a permission that comes and goes | violation | a 403 frees the draft of an exchange that did commit, and the next send has a new key |

**Why these bounds.** The invariants of `SaleStock` relate one sale with one inventory row, two sales over one
row, or the variants of one sale; quantities up to two let a partial step differ from a whole one, and a third,
dearer variant makes some exchanges refused. The longest chain in an attempt's life is charge, fail, close, claim
in a second attempt, fail, release, claim in a third: three attempts; two sessions let one close before a
confirmation. In `MCPrices` a shirt and a dress cost the same in cash and differ on the card, and a shirt
under one configuration costs on the card what a dress does under the other, so a plan can look right for the
wrong reason. Two references are enough to collide. A suit costs `MaxCash`, so two sales, or a sale and the
opening amount, pass the width of a column; three keys let an exit, its reversal and a further exit meet. Two
transactions that miss each other need a third that commits between them. Two owners who demote each other are
the shortest way to lose the last one; a clock of two instants can step back. Two tabs and two keys are what an
overwritten record needs, and a third key would find what the second found;
both tabs have a request out at once only in *shared* and one tab at a time sends in *late* and *items*; units are exchanged one by one, of two.
A panel with two compositions needs one session and one with two sessions needs one composition, since a body is
the same in either or it is not. In the engine `PESO` is 10 and
`WHOLE_BPS` 100 (as `BASIS_POINTS` is in `SalePricing`), which scales the code's 100 and 10000; up to two tenders
(`MaxTenders`) are fixed beside the balance; prices and amounts are chosen to leave remainders, ties and balances
below a peso. The theorems of section 4 cover every safety property, so there the bounds only have to be large
enough to find a mistake; only liveness rests on them.

**Symmetry.** The cfgs name sets of model values no definition tells apart (keys, clients, variants of one
price, tabs, owners). Liveness is checked without symmetry: `progress`, and `database` for its many identities,
use them in one order instead.

**What may stop.** `CHECK_DEADLOCK FALSE` is set where the system may really be at rest: keys, references and
sessions are used up (`charge_sales`, `database`, `prices`), a quote was answered (`prices`), the process has
ended or the authorizations are spent (`progress`, `server_early`). The other runs check for deadlock.

**Fairness.** No cashier is obliged to confirm and no supervisor to close, so nothing about people is fair:
what would be liveness there is stated as `NeverStranded` (the operation that must be possible is possible).
`Server`: the gate answers, timers fire, a sweep and the deadline end, `process.exit` exits; requests and signals
need not. `Accounts`: a request that waits for a lock gets it (PostgreSQL grants locks in order, hence strong
fairness of taking them), and one that holds it finishes or its process dies. `PilotImport`: a run that executes
goes on, fails or dies, and PostgreSQL decides a transaction whose client is gone. `RegisterScreen` and
`ChargePanel`: a call that is out is answered or fails, as the client's timeouts make sure.

**Properties against mutants.** For each property of each passing run `PROJECT.json` names a mutation of a
modelled definition, a plausible bug (the definitions marked "Not the code"), under which TLC finds the property
violated.

**Findings.** Five runs expect a violation; `PROJECT.json` quotes the text each contradicts.
`accounts_handshake` (`socket.ts`:98): a handshake joins the room of its account after awaiting what it read, and
the disconnect that follows a change reaches only the sockets in the room. `server_early` (`server.ts`:36): a signal
during the readiness gate shuts down a server that then listens. `panel_switch` (`page.tsx`:1344): the state said
never to be discarded belongs to a workspace that the mode tabs unmount. `panel_discard`
(`ProportionalChargePanel.tsx`:649 beside the comment at 646): a reservation refused because the quote changed is
taken to have left nothing under its key, and the key is discarded; but the refused request may be the retry of one
that was given up, which reserves under that key when it is served late and the price is again the old one. The sale
then has an open attempt the panel does not know, and a new key is refused until somebody closes it. It is a
reservation only: that no *charge* gets lost this way is `ChargeIsKnown`, which holds. `exchange_refused`
(`exchange-draft-store.ts`:341): the permission is checked before the stored exchange is looked up, so a 403 on the
retry of an exchange that did commit frees the draft for another key; `EvidenceKept` and `NewKeyKnowsTheOld` take a
refused key as the code does, for one that did nothing.

Seen while modelling, and without a run of its own: the mode tabs are not disabled while an exit's answer is missing,
so its retry gets another key (`page.tsx`:2161 beside 1325). `OneClosePerSession` is about closes only; for exits
there is the theorem `ExitsKeepTheirKey` below, which assumes that the mode tabs are not used.

## 4. The theorems

Eight modules prove every safety property the passing runs check, for every value of the constants, and some
that no run checks. What is assumed of a constant is the
named assumption of its module, or, where a module is instanced, the hypothesis of the theorem
(`DrawerAssumptions`, `PanelConstants`, `ExchangeConstants`: sets that are finite where they are summed, natural
bounds, a `None` that is nothing else). Each module has one inductive invariant per system, and its theorems follow.

**`SaleStockProofs`** (finite sets of sales and variants, natural bounds, positive prices)

* `ReservedAlwaysHeld`, `NeverOversold`, `HoldsAlwaysCover`, `NeverStrandedAlways` from `HoldInv`, which is
  `TypeOK /\ HoldsCoverLines /\ ReservedIsHeld /\ NoOversell`. None of the three is inductive alone: that
  `reserved` stays non-negative and counts the holds needs each sale to hold exactly its lines, and a delivery
  keeps `reserved <= physical` only if it lowers both by what the sale held.
* `TypeCorrect`, `NumbersAlwaysUnique`, `MoneyAlwaysMatches`, `MovementsAlwaysMatch`; `PaidContentAlwaysFrozen`, an
  action property, from `MoneyInv`; `UnitsAlwaysConserved`, from the movements and the holds together.
* `CustomerAlwaysKeepsValue`: the worth of what a customer holds is that of what was bought, through any
  exchanges. An exchange is refused unless the worth of the replacements equals that of the returns, but what it
  returns is drawn unit by unit from several lines; `DemandWorth` numbers the draws, so that both sides are sets of
  pesos of one size, and `WorthKept` carries it over to the movements.
* `PromiseKept`: `SaleStock` implements `StockPromise`, one lemma per group of actions.

Sums are cardinalities of sets of units or pesos, so that the library's theorems about finite sets apply;
`SumSplit`, `SumChange` and `SumAtLeast` are the lemmas everything else cites.

**`CheckoutProofs`** (any sales, keys, methods, prices and sessions; `ChargeInv`)

* `OneCashierAtATime`, `PaidOnceAlways`, `ClaimsAlwaysHeld`, `MoneyNeverForgotten`, `NoDoubleChargeEver`: five
  invariants that are proved together because each needs the others. A settlement leaves no charge behind
  only because the plan of an open attempt holds every unapplied collection of its sale (`NothingLeftOut`),
  which holds because another attempt that could create one would have to be open too (`OneOpenAttempt`).
  The rest of `ChargeInv` says where charges come from (`ChargesPlanned`), that collections stay with the sale
  that originated them (`ClaimsOfSale`), what applied them (`AppliedBySettlement`), and that a settled sale is not
  being charged (`SettledIsClosed`).
* `ReferenceOnceAlways`, `AnswersAlwaysFinal` and `ClosedSessionAlwaysFrozen`, from it.
* `AlwaysPaysForItsLines`: the amounts an attempt sealed stay a quote of the prices it sealed (`SealedQuote`), and a
  confirmation finds those prices still to be the sale's (`SettledPrices`), so what was paid is the quote of the
  lines the sale has. The quote is a product over the methods with a fixed amount, which the proof never expands.
  The run `prices` checks it of the instance of `Checkout` in `MCPrices`, where prices and lines change.
* `ChargePromiseKept`: `Checkout` implements `ChargePromise`; `PromiseSettle` is the step that matters, where the
  tenders of a plan turn out to be exactly the money taken or owed for the sale.
* `SaleChargesKept`: `Checkout` implements `SaleCharges`: each operation on attempts and collections, with all it
  checks of prices, sessions, evidence and references, is one operation there. What the code reads of the claims of
  one attempt is by `ChargeInv` all that is left of the sale.

**`CashDrawerProofs`** (any sessions, sales, prices, keys and width of the columns; `DrawerInv`)

* `TypeCorrect`, `OneMovementPerKeyAlways`, `RefundsAlwaysFollowVoids`, `DrawerAlwaysHoldsCash`,
  `OpenSessionAlwaysReconciles`, `BooksAlwaysRight` and `ClosedSessionAlwaysStays`. The core of the invariant,
  `SessionInv`, says of one session what the code checks only when the session is counted: `Sound`, the
  reconciliation without its overflow checks, holds from the moment the session is open, so the count cannot fail
  later. Two facts beyond the session are needed: a payment id is used once, and refunds are exactly those of
  voided sales. No finiteness is assumed: that the rows are finitely many is part of the invariant.
* `SessionKeepsBooks`: every session, over all its rows and the steps of the others, implements `DrawerBooks`. An exit
  and its reversal are known by their keys (`ExitsKeyed`), which is what makes a reversal put back an exit of its own
  session that nobody put back before. TLC agreed on a small instance before the proof.

**`DatabaseProofs`** (any number of transactions)

* `NeverBothAlways`, `ClaimAlwaysTellsRows` from `GuardInv`: what a writer that has claimed found in the claim stays
  as long as it holds the sale, and a writer that wrote without a claim holds the migration up.
* `AlwaysOneOpenAttempt`, `PlanAlwaysHoldsCollections`, `SettledAlwaysLeavesNothing`, `AlwaysResolvedForGood` from
  `ChargesInv`: what a transaction saw of the sale is what is there, but for refunds, as long as the row has not
  been updated (`SnapshotSound`), and what it decided on is still so when it commits.
* `ChargesAlwaysAtomic`: the transactions of a charge implement `SaleCharges`, whatever their number and however
  they overlap. One lemma per kind of commit (`AtomicReserve`, `AtomicClose`, `AtomicRefund`, `AtomicConfirm`) turns
  what the transaction decided on an old snapshot into what is there at its commit.
* `DrawerAlwaysAtomic`: the transactions of a drawer implement `DrawerBooks`. Beside `DrawerInv` it needs `UndoInv`:
  a reversal names a committed exit of the same amount, and one that has written finds no committed reversal of
  that exit; without it a reversal could return what was never taken, or twice.
* `CountNeverMisses`, `DrawerAlwaysHoldsCash` from `DrawerInv`: a count reads the row and every movement, so with a
  movement it did not see it would be one of two that missed each other, and a transaction can have missed only
  incomes (`MissedOnlyIncomes`).

**`AccountsProofs`** (`AccountsInv`, with `CommitIsSane`: what was decided under the lock still holds at the commit)

* `OwnerAlwaysLeft`, `TokenAlwaysOfCurrentPassword`, `OneChangeAlways`, `SocketsOfOldAlwaysDie`,
  `PrivilegeAlwaysByOwner`, `DeactivatedOnceAlways`, `TypeCorrect`.

**`PricingProofs`**

* Of a sale, from `PricingInv` (its shape, one price mode, edits in flight that are fresh, and confirmations and
  payments that stand for the lines): `AlwaysOnePriceMode`, `AlwaysChargedAsConfirmed`, and
  `FrozenOnceChargedAlways`: the database trigger that forbids such a change never has to. With finitely many
  variants, `TypeCorrect`, and that a sale is never paid more than its total.
* Of the engine, `QuoteAlwaysRight`: every promise of a quote, for any lines, prices, adjustments and tenders.
  `QuoteAssumption` asks what the code refuses otherwise (`proportional-checkout.ts`:121, 203, 231, and the bounds of
  migration 20261006120000): positive quantities, prices and fixed amounts, adjustments that are not negative and
  a sale that has each item once; and that a peso is an even number of centavos, which the bound of half a
  peso needs.
  1. Sums and products over lines and methods are folds in an order that TLA+ does not fix. `FoldTaken` shows that
     any element may be taken first, `SumTaken`, `SumSwap` and `SumRenamed` follow. What would be an induction over
     the set is an argument about the least set that breaks the claim, which needs only the library's theorem
     about well-founded relations, instantiated at strict inclusion.
  2. `RoundedPeso` bounds what rounding half up to a peso moves. `LargestRemainders`: the residue left by rounding
     shares down is at most the number of lines with a remainder, and ranks are all different, so giving a unit to
     each of the first lines adds up to the amount and moves no share by a whole unit (`OneShare`).
  3. `FixedAgainst` and `BlendedPrice` compare what was fixed with the price of its method, so a total outside the
     methods' prices by more than half a peso is a contradiction (`BetweenMethodsHolds`).
  4. `OrderFreeHolds` reads the sale backwards and shows by `MirroredShares` that each step of the engine gives every
     line what it had, since ties between remainders are broken by weight, sku and item, never by place.

**`ProcessProofs`** `DatabaseAlwaysOutlivesSweeps` and `CleanExitNeverCuts` of `Server`; `AlwaysCreatedAtOnce`,
`VerdictAlwaysTrue`, `AlwaysOneRunPerAuthorization` and `NeverOverwritten` of `PilotImport`, from `ImportInv`: what
a run has written is not visible before its commit, and a commit finds either nothing or its own rows.

**`ClientProofs`**

* The register, from `RegisterInv`: a fresh call is of the branch shown, one fresh read is out at a time, and what
  it was answered is not older than what is shown, since whatever shows something newer makes it stale.
  `AlwaysOneClosePerSession`, `AlwaysOfItsBranch`, `AlwaysConfirmsTheShown`, `ReadsNeverTakeBack`, and
  `ExitsKeepTheirKey` for a user who stays in the workspace.
* The panel, from `CashierInv`: there is an assignment of one sale and one body to every key such that the network,
  the page and the server agree with it, and an answer tells what the server holds and never takes back.
  `QuoteAlwaysOfDraft`, `AlwaysOneOperation`, `AlwaysOneBodyPerKey`, `ChargedAlwaysIsCharged`. `ChargeAlwaysKnown`
  needs `KnownInv` besides: a key whose charge was asked for, or made, since the workspace was mounted is the key of
  its sale's attempt, at the confirmation, where nothing discards it. It holds of a discarded reservation too, since
  nobody waits for the answer to its late request and so nobody confirms it.
* The exchange, from `ExchangeInv`: every key has one body, the units the server took back and its commits only
  grow, and every key not refused is in the record or shown by the mark. So what was sound before a step of another
  tab stays sound, and each action answers for one tab, the record and the mark. `EvidenceAlwaysKept`,
  `ExchangeAlwaysOneBodyPerKey`, `AnswerAlwaysFindsItsDraft`, `NewKeyAlwaysKnowsTheOld`, `MarkAlwaysBehindServer`,
  `MarkAlwaysRises`, `TombstoneAlwaysLeavesProven`.

Types are proved, not checked by runs, of every module above but `Checkout`: its invariant holds what the proofs
need, and the rest of `TypeOK` says that sums are natural numbers.

**Only model-checked.** The four liveness properties of `progress` (`SweepsKeepComing`, `OpenProcessEnds`,
`LocksComeBack`, `ScreensComeBack`): fairness and ENABLED are out of the prover's reach. The five violations of
section 3 are counterexamples, which TLC shows.

## 5. Not modelled, and the plan

Not modelled: permissions and role scopes (a decision over grants, no state of its own; who may manage whom is in
`Accounts`), audit (append-only, never read back), the back office client (forms over the API), seeds, scripts
and CI (one-off). Partly modelled, with what is left out: sale lifecycle and inventory (listing, search, the replay
of a stored answer), fixed-total payments and void and exchange (permissions, response formats), proportional
checkout (allocation rows, institutions, T-S), accounts (e-mail, names, rate limiter), catalog and organization (all
but the price change: single-row operations), the server (routing, parsing), the cashier's workspace (the queue,
the fixed-total form, the seller's and the warehouse's screens).

The modules map some 9 % of the lines of implementation: most of the rest is markup, presentation, scripts and
single-row operations, where a state machine would repeat the code.

Three hazards have no property, for a reason `PROJECT.json` gives: a wholesale confirmation names no version of the
sale (`sales.service.ts`:367), the initial load of stock has no key (`initial-stock.service.ts`:60), and an attempt
whose charge carries a recorded reference can be neither confirmed nor closed as charged (`checkout.service.ts`:766).

The plan from here:

1. The migrations that guard `CheckoutAttempt` (immutable plans, transitions), as `PostSaleGuard` does for voids.
2. The server's ledger of an exchange, under which `ExchangeDraft` would implement a promise of its own.
3. The seller's and the warehouse's workspaces, over the draft operations of `SaleStock`.
4. `TypeOK` of `Checkout`, with the lemmas on sums of `PricingProofs`, and the prices of `Checkout` as quotes of
   `ProportionalQuote`.
