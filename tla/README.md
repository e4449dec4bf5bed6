# A TLA+ model of the AmmuNation rental system

Specifications of the equipment-rental system of this repository: a NestJS backend
over PostgreSQL (through Prisma) with a BullMQ queue on Redis, and the React web
client and the Flutter app over it. The modules follow the handlers of the backend
and of the clients step by step; TLC checks them on small instances, and TLAPS
proves the main results for every value of the constants. All source paths are
relative to the root of the repository.

- [1. Inventory of the system](#1-inventory-of-the-system)
- [2. How the code is modelled](#2-how-the-code-is-modelled)
- [3. Modules](#3-modules)
- [4. Runs](#4-runs)
- [5. Proofs](#5-proofs)
- [6. Where the code disagrees with what is said of it](#6-where-the-code-disagrees-with-what-is-said-of-it)
- [7. Not modelled](#7-not-modelled)
- [8. What could follow](#8-what-could-follow)
- [9. Running the checks](#9-running-the-checks)

## 1. Inventory of the system

| Component | State | Operations that change it | Correct when |
|---|---|---|---|
| Reservations (`backend/src/reservations`) | `Reservation`, `ReservationItem` rows; a ten-minute interval timer | `create`, `updateStatus`, the sweep `checkUpcomingAndExpiredReservations` | statuses follow the state machine, overdue bookings are cancelled in the end, nobody is told of a change that was not stored, the price is what was agreed |
| Inventory (`backend/src/inventory`) | `Product.totalStock`, `InventoryLog` | `createLog` | stock and log agree, stock does not fall below zero |
| Products (`backend/src/products`) | `Product` rows | `create`, `update`, `remove` | one row per SKU, no row that others refer to disappears |
| Payments (`backend/src/payments`) | `Payment` rows; the mock gateway's Map of intents in memory | `processPayment`, `refundPayment`, gateway create, confirm and refund | one settlement per reservation, one refund per payment, the ledger is true and complete |
| Notifications (`backend/src/notifications`) | `Notification` rows, the Redis queue | the four `notify…` calls, `addEmail`, `addPush`, read marks, the worker | each message goes out once, or as often as faults made it; the feed does not need Redis |
| Activity (`backend/src/activity`) | `ActivityLog` rows | `record` | fail-soft, and true |
| Uploads (`backend/src/uploads`) | `Upload` rows, files on disk | `create`, `review` | each row has its file, each file its row; the review on show is the one made |
| Auth (`backend/src/auth`) | `User` rows, signed tokens | `register`, `createUser`, `login`, `refreshToken`, `forgotPassword`, `updateProfile`, `changePassword` | unique addresses, no account above CUSTOMER that nobody provisioned, every pair of tokens goes back to a registration or login |
| Users, dashboard, categories | none of their own | none: they read | figures agree with the tables |
| Session (`frontend/src/services/api.ts`, `App.tsx`) | token pair in the browser's storage, one refresh promise per tab | request and replay, refresh, restore, sign-in, sign-out | one refresh at a time; two sessions do not mix |
| Header feed (`Header.tsx`) | a copy of feed and tally, a one-minute timer | poll, mark one, mark all | never more or other than the rows of its user; agrees with the table in the end |
| List pages (`ReservationsPage`, `EquipmentPage`, `PaymentsPage`, `CustomersPage`) | tab, search, page number, rows of the last answer | tabs, search with delay, pager, row actions | the rows on show are those asked for; the buttons on them work |
| Booking and checkout (`EquipmentPage`, `PaymentsPage`) | dialogs, list of outstanding balances, message | quote, submit, pay | what is quoted is charged, what is paid covers it |
| Warehouse (`InventoryPage`) | products and movements of the load that landed last, one dialog | load, move | what it shows explains itself, its guard mirrors the server's |
| Dashboard (`DashboardOverview`) | the answers of the load that landed last | load, quick actions | no figure contradicts the tables or another figure |
| Mobile app (`mobile/lib`) | tokens in secure storage, the polled feed, the alerted ids | request and replay, refresh, poll, mark read, logout | one banner per notification, nothing of the former user after a logout |

**How they interact.** The clients call the backend over HTTP. Handlers of one
Node process share no memory but the gateway's Map; they share the database.
`updateStatus` and the sweep call the notification producer, which first writes
the feed row (fail-soft) and then adds a job to the queue (which may throw); a
worker in the same process takes the jobs. Writing handlers end with
`ActivityService.record`, which is fail-soft. Bookings refer to products and
payments to reservations by foreign keys. Nothing else ties the tables: a payment
does not ask for the reservation's status, a cancellation does not ask for
payments, a booking takes no stock. The pages load copies with plain queries that
are neither cancelled nor numbered, and act on the copies.

**What is hard.** No handler that checks and then writes does both in one
statement or takes a lock, so any two of them can interleave between the check and
the write; the database saves only what its unique indexes and foreign keys cover.
The sweep holds a list of rows over many awaits and can overlap itself. A handler
has several writes and may stop after any of them, by a restart, a database error
or an unreachable queue, and no retry follows. The queue hands a job out again
when its worker died. On the client, answers overtake each other, tabs share one
storage without telling each other, and a page goes on offering what was true when
it loaded. What keeps a button from being pressed twice belongs to a dialog that
can be closed meanwhile, or is not there, so requests and loads of one page
overlap; and a request may be stored and still come back as an error.
`PROJECT.json` lists these hazards line by line, with the properties that watch
them.

## 2. How the code is modelled

- *Steps.* A handler runs alone between two `await`s, so each action is one such
  stretch: usually one query with the checks on its result. What it keeps over an
  `await` is in its record in `call`, `sweep`, `fetches` or `poll`. The steps of
  handlers interleave freely. In the browser, the answer to a refresh and the
  resumption of the requests that wait for it are microtasks of one turn and one
  step.
- *Refusals.* A 4xx answer changes nothing, so it is the absence of a step, except
  on the pages, where the refusal is what the property is about.
- *Lost answers.* A request that fails may have been stored: `updateStatus` throws
  after its update when a job cannot be queued, and a connection may break on the
  way back. On the pages (`Fails` of ListPage, `Lost` of StockPage, `PayLost` of
  Rental, `QuickStored` of Reports) the client then takes an error from a server
  that has made the change or goes on to make it.
- *Database.* A query is atomic. A Prisma `$transaction` is one step when its
  statements cannot be told apart from outside. The unique indexes and the foreign
  keys are guards of the writes, and their failure ends the request.
- *Queue.* BullMQ is outside the repository and is modelled from the options with
  which the code registers it: jobs in order, one worker, a job of a dead worker
  stalls and is handed out again as often as the stall limit allows. The
  processor's handlers cannot throw, so the three attempts of a job are never
  used.
- *Faults*, each bounded by `MaxFaults`, `MaxUpsets` or `MaxEvents`: a restart
  (requests in progress and the Map are lost; tables, files and queue stay), a
  query that throws, Redis away, a request or its answer lost on the network.
- *Data.* Texts are left out, and amounts where nothing compares them; in `Rental`
  and `Reports` prices are whole numbers (the code's are floating-point products
  of decimals with two places). Identifiers are model values. The logs of
  `Reservations` are sets, so repeats of one message are not told apart there;
  `Notifications` counts them.
- *History variables* (`reached`, `captured`, `returned`, `opening`,
  `overwritten`, `spent`, `crossed`, `decided`, `had`, `made`, `granted`, `torn`,
  `moved`, `behind`, `blind`, `kept`, `before`, `foretold`, `told`, …) record what
  happened for the properties; no guard reads them. Each module says in its
  declaration which ones they are.
- *Mutants.* Operators with an underscore in their name are wrong versions of the
  operator that follows. No specification uses them; they are there to show that
  each property can fail.

## 3. Modules

### The backend

**ReservationStatus** has the status enum and the transition relation of
`validateStatusTransition`, including its early return for the present status.
**ReservationLifecycle** is the abstract specification of the reservation table:
a row is booked once and then moves. With `Serial` the moves start from the
present status, as the documentation has it; without, from any status that the
row has had.

**Requests** has what the services share, the slots of the requests in progress
and the bound of the faults; **Parties** has the users and the reservations that
bookings, payments and documents refer to.

**Reservations** is the service. `status` and `reason` are the columns, `audit`,
`feed` and `jobs` the three places where a change is told, `call` and `sweep` the
handlers in progress.

| Code (`reservations.service.ts`) | Actions |
|---|---|
| `create` | `CreateBegin` (date checks, fresh id), `CreateInsert`, `RecordActivity` |
| `updateStatus` | `UpdateRead` (404, 403 and 400 checks), `UpdateWrite`, `RecordActivity`, `PersistDecision`, `EnqueueDecision` or `EnqueueDecisionFails` |
| the sweep | `SweepBegin` (first query), `Remind` and `RemindEnqueue` per row, `FindExpired` (second query, with the instant of the first), `CancelExpired`, `ExpiredFeed` and `ExpiredEnqueue` per row, `SweepEnd` or `SweepEnqueueFails` |
| environment | `Tick`, `Crash`, `CallQueryFails`, `SweepQueryFails`, `QueueFails`, `QueueRecovers` |

`Overlap = FALSE` lets a handler begin only when none is in progress. It is not
how the process runs; it separates what the code gets wrong by racing from what
it gets wrong anyway.

**Inventory** has the product table and the stock movements: `MoveRead`,
`MoveCommit` and `MoveRecord` are `createLog`; `CreateCheck`/`CreateInsert`,
`UpdateCheck`/`UpdateStore` and `RemoveCheck`/`RemoveDelete` are the three writes
of `ProductsService`; `Book` is the foreign key that a new booking takes. Log
rows are never changed, so the log is kept as the signed sum per product (`net`)
and the set of its products and actions.

**PaymentLedger** is the abstract specification of the payment table: a row is
settled once, as PAID or FAILED, and a PAID one may be refunded; with `Exclusive`
a reservation with a PAID payment gets no other. **Payments** is
`PaymentsService` over `MockStripeGateway`: `PayRead`, `CreateIntent`,
`ConfirmIntent`, `StoreOutcome`, `RecordPayment`; `RefundRead`, `GatewayRefund`,
`MarkRefunded`, `RecordRefund`; `QueryFails` and `Restart`. A row is named by its
transaction id. `captured` and `returned` record what the gateway was told,
beyond its own memory.

**Outbox** is what a queue promises: a message it accepted goes out or is given
up. **Notifications** is the producer (`Persist`, `Enqueue`, `EnqueueFails`), the
processor (`Process`, by kind and channel) and the queue around it (`TakeJob`,
`Complete`, `CompleteFails`, `RecoverStalled`, `WorkerRestart`). The message
counts as sent when the handler has run, so a restart before `Complete` sends it
twice.

**Uploads** is `UploadsService` with the storage driver: `UploadBegin`, `PutFile`,
`InsertRow`, `RecordUpload`; `ReviewRead`, `ReviewStore`, `RecordReview`; the
listing and the download are operators (`Listed`, `Downloads`), and so is the
verification status that `UsersService` derives (`VerificationStatus`).

**Accounts** is `AuthService` with its guards: registration by oneself and by an
admin share `InsertUser` after different checks, `LoginRead` and `RefreshRead`
lead to `Grant`, and a profile or password change is a check and a store.
`ForgotPassword`, open to anyone, leads to `Grant`, too: its token is signed with
the secret of the access tokens, so it admits requests (`SignedIn`) as they do,
but it is no refresh token (`Refreshable`). No token expires in this module. The
unique index is on the address as it is stored; `Lower` is what the service makes
of it.

### The web client

**WebSession** is `services/api.ts` and the session part of `App.tsx` in several
tabs of one browser. `Send`, `Answered`, `Unauthorized`, `Refreshes`, `Refreshed`,
`Rejected`, `Fails` and the `Refresh…` actions are the request with its single
replay and the shared refresh; `Load` restores a session, `Submit`, `SignedIn` and
`SignOut` open and close one; `ExpireAccess` and `ExpireRefresh` are the back
end's clock.

**HeaderFeed** extends Notifications with the bell: `StartPoll`, `ReadList`,
`ReadTally` and `PollAnswered` are one poll (two queries, then the answer, in any
order with other polls), `PressMarkAll`, `PressOpen`, `MarkStored` and `MarkFails`
the marks.

**ListPage** is the four list pages at once, by the view that is mounted: `Open`,
`SelectTab`, `Type` and `TimerFires` (the search with its delay), `ClearFilters`,
`Turn`, the fetch with its count and its rows (`Count`, `FindMany`, `Arrives`,
`FetchFails`), the detail dialog, and a row action (`Click`, `Handled` or
`Fails`, `Returns`). After a success (`RefetchAfter`) it fetches again with the
query of the render it was in; after an error, stored or not, it does not.

**StockPage** puts the warehouse page over Inventory. Loads are numbered. Each has
its two queries (`ReadRows`, `ReadLogs`) and lands (`ShowBoth`) or fails
(`LoadFails`) when it will: what the page shows is the load that landed last,
older or newer. The catalogue is one page of `PageLimit` products. `OpenAction`,
`ChooseQuantity` and `CloseAction` are the dialog, which carries the row it was
opened on, its guard (`ExceedsStock`) and its projection (`Projected`).
`submitting` belongs to the dialog, and the dialog can be closed while it is busy,
so `Submit` may put several requests of the page out at a time (`sent`, one to a
slot). Each goes through the steps of `createLog` (`Accepted`, `Stored`, `Done`)
or comes back as an error (`Refused`, `Failed`, `Lost`, `Cut`); `Done` closes
whichever dialog is open (`DialogAfter`) and begins another load (`Reload`).

### The mobile app

**MobileApp** is `AuthProvider` and `NotificationProvider` over `ApiService`. A
request (`Served`, `Breaks`) that meets a 401 refreshes and replays on its own
(`Unauthorized`, `Refreshed`, `Replays`, `RefreshFails`). `Restore` and `Restored`
are the start of the app, `Submit`, `LoginAnswered`, `SavesTokens` and `SignedIn`
a login, `Logout`, `ClearAll` and `LoggedOut` a sign-out, with the storage calls
as steps. `PrefsLoaded` is the end of `_init`; `Sync`, `SyncArrives` and
`BannerShown` are a poll, whose loop stops at each banner; `Mark` and
`MarkAnswered` the read marks; `Start` kills the app and starts it again. The
causes by which sessions or lists can get mixed are in `crossed`, and each
property names those it suffers from: a refresh that outlived its session
(`outlived`), a poll that did (`leftover`), a second sign-out that meets the next
login (`late`), ids that were read after they were used (`reloaded`) or not yet
saved at a kill (`cut`).

### Composed of both

**Rental** follows a hire from the booking dialog over `create` to the checkout:
`OpenDialog`, `ChooseDates`, `ChooseQuantity` and `Submit` quote from the
catalogue as loaded; `CheckDates`, `ReadLine` per item and `Insert` price it from
the catalogue as it is; `ReadOwed`, `ShowOwed`, `LateAnswer` and `OwedFails` keep
the list of what is outstanding. `OpenCheckout` and `CloseCheckout` are the
checkout dialog. `submitting` belongs to it, so a payment may begin (`PayBegin`)
while others are out: `pays` has one record for each of them, which says how far
the server is (`PayCheck`, `PayStore`) and who waits for it: the dialog, the page
whose dialog was closed, or nobody, once the page was left (`GoTo`; opened again,
it is another page). `PaySucceeds` closes the dialog that is open and shows a
message, and the message asks for the list anew (`Reask`), but only if its text is
not the one on show (`RunsAgain`), which stays until a timer (`TimerFires`) takes
it down. After `PayEnds` (a decline or a refusal) and `PayLost` (the answer is
lost, and the server goes on) the page does not ask. `Edit`, `Decide`, `Sweep`,
`Refund` and `Tick` go on meanwhile. `Submit` is the dialog's one-line request;
`SendRequest` is any body that the API takes, with several lines and any dates.

**Reports** has the screens whose figures come from several queries, answered at
different moments: the dashboard of each role, the till of the payments page, the
customer directory, each with its fallbacks when a query fails. `Answer` and
`Fail` fill a screen query by query, `Book`, `Move`, `Pay`, `Refund` and `Restock`
are the tables that move on meanwhile (at most `MaxWrites` times for one load),
and lists and catalogue are cut at `ListCap` rows, as the API does, while the
server's figures are not. A quick action of the dashboard (`QuickClick`,
`QuickStored` or `QuickFails`, `QuickDone` or `QuickAlert`) loads again after a
success, whatever is still out. A behaviour follows the answers of one load
(`followed`, any of them); of the others it knows when they begin and land
(`LoadAgain`, `OtherLands`). The ranking by units leaves ties in any order, as the
database does.

**Trends** has the two figures that depend on the calendar, the reservations of
the last days and the revenue of one period against the one before.

### Instances

**MCReservations**, **MCPayments** and **MCWebSession** are instances of one module
each. The others put several into one run, where the
variable `part` says which one a behaviour is about and the rest stays as it
began: **MCSerial** (Reservations, Inventory and Payments with one handler at a
time), **MCLiveness** (sweep, worker, bell), **MCListPage** (ListPage, MobileApp)
and **MCServices** (Payments, Uploads, Accounts, Reports, Trends). These parts
share no variable, so the union checks exactly what separate runs would.
**MCStockPage** has three parts over the one product table of Inventory: the
service alone, with the page at rest; the page beside the requests of others; and
a hasty operator, whose movements and loads overlap (`FewCalls` bounds the last
two). **MCRental** has three, too: the booking of a hire; a hire that is paid while
staff and clock go on; and two hires of one price, for messages that repeat, with
payments that overlap.

## 4. Runs

| Run | Instance | Shows |
|---|---|---|
| `res_race` | 1 booking, 2 request slots, 1 sweep, 4 requests in all, 1 fault | `HandlersActOnHistory`, `CustodyChain`, `ExpiredWasDue`, `AnnouncedWasStored`, `DecisionsAnnounced` hold under any interleaving, and the table refines the weak lifecycle (`FollowsLifecycle`) |
| `serial_all` | 2 bookings, 1 seeded product and 1 new, 3 payments of the 2 bookings; one handler at a time, 4 requests of a service in all, 2 faults | the documented rules that overlapping handlers break: `TerminalIsFinal`, `NonNegativeStock`, `SettledOnce` |
| `live_all` | sweep: 2 bookings, 1 request slot, 2 faults; worker: 2 messages, 2 faults, 1 stall; bell: 2 messages, 2 polls, 1 fault | `ExpiryHappens`, `DeliversOrGivesUp`, `BellCatchesUp`, and `RepeatsBounded` |
| `stock_all` | 2 slots, 2 products. Service: 3 requests, 1 restart; page: 2 requests, at most one of them its own at a time, receipts, damage or maintenance, 2 loads, 1 restart; hasty: 2 receipts or releases of the page, 3 loads, lost answers | `LedgerExplainsStock`; how far the guard can fail (`OversellBounded`); the page's guard refuses what the server would (`RefusedOnlyIfStale`); its rows, log and promised level agree, and its own movements show (`PageTruthful`) |
| `rental_all` | 2 products, 5 bodies, 3 zones (−14 h, UTC, +14 h), 1 instant on each side of midnight, 1 edit, 1 booking or the till of 1 or 2 hires, 2 payments (in the till of 2 hires out at once, and 1 refund there), 1 fault | `PricedFairly`, `BookingRulesHold`, `PaymentsOffered` |
| `services_all` | payments: 2 slots, 3 ids, 1 fault; documents: 2, with 3 reviews; accounts: 3 ids, 3 spellings of addresses, 3 requests; screens: 4 reservations, 4 products, lists of 3, 4 tables, 1 write, 3 loads; figures: 2 reservations, 3 zones | `LedgerBacked`, `DuplicatesBounded`, `NothingLost`, `FollowsLedger`; `FilesMatchRows`, `ReviewsHold`; `AddressesUnique`, `SessionsEarned`; `ScreensAgree`; `FiguresTile` |
| `session_all` | 2 users, 2 tabs, 2 requests of one of them, 2 sign-ins, 2 requests in all, 1 network error | `SessionsKeptApart`: whose session a tab shows and uses; `RestoringEnds` |
| `pages_all` | pages: 4 views, 2 rows, pages of 1, an admin and a customer, 3 fetches, 1 action, 1 change elsewhere, failing fetch or failing action; app: 2 users, 3 notifications, 3 sign-ins, restarts, marks and faults together | `PagesRest`: a page at rest shows what was asked for, or says why not; `ButtonsHold`: the service does what a button offers; `AppTruthful`: session, list and banners of the app belong to one user, but for named causes |
| `res_violation_terminal` | 2 slots, 1 sweep, no fault | a terminal status is left (section 6) |
| `pay_violation_settled` | 1 reservation, 2 payments, no fault | two settlements of one reservation (section 6) |
| `rental_violation_quote` | as `rental_all` | a hire is charged as a day less than it was quoted (section 6) |
| `rental_violation_today` | as `rental_all` | a booking for today is cancelled by the next sweep (section 6) |

Each module's types are checked too, by name or inside the property of its part,
but those of Notifications, which are proved (`NotesTyped`), and of HeaderFeed,
which are part of the proved `BellInv`.

**Bounds and why they are enough.** The races need two handlers on one row, so two
request slots and a sweep on one booking reach all of them; a second booking
matters where the sweep's list does, in `serial_all` and `live_all`. Four requests
let a booking be made, decided, and then decided again by two that overlap. The
clock of Reservations (`DayLength = 2`) passes the start of the rental, and in the
longer runs its end and the reminder window. One fault at every point shows what a
stop leaves behind; liveness takes two, so that a sweep can be cut short twice. In
Inventory quantities 1 and 2 against a stock of 2 give a deduction that takes all,
one that fits, and a pair that does not. In Payments three ids are two that race
and one that finds a row already there. In StockPage a `PageLimit` of 1 below two
products cuts the catalogue; three loads are the first and one for each of two
movements, which is enough for an older one to land last. In Rental two payments
are two of one hire or one of each of two, and the amounts of the two hires agree
so that the second message repeats the first; a tick is two hours, so that a day
can be cut (a hire of a day and a half), and the zones are the widest there are;
the bodies name a product twice, ask for more than the stock, start today,
yesterday, and end on the day they start. In WebSession two requests of one tab
meet a 401 together, and the second tab is the one that signs in or out meanwhile;
two sign-ins are two sessions. In Reports `ListCap` is 3 below four reservations
and four products, so both lists are whole in some tables and cut in others, and
three loads let the followed one be overtaken on either side. In ListPage two rows
on pages of one make a second page that empties when a row leaves the filter;
tables that neither the mounted page nor a change on its way meets rest meanwhile
(`Watched`); and three fetches are one that is overtaken and the refetch of an
action. In MobileApp three events are, for instance, two sign-ins and the token
that expires between them; two rows of one user and one of another are a loop with
two banners and a banner for the wrong user. The properties were tried once with
four events, too. The slots of `Calls` have no order and no definition names one,
so `res_race`, `stock_all` and `services_all` take them up to symmetry, as
`rental_all` does the payments of `Charges` and `services_all` the ids of
`Intents`, too (these runs check no liveness). The
counters bounded are `MaxNow`, `MaxCalls`, `MaxStockCalls`, `MaxFaults`,
`MaxBreaks`, `MaxStalls`, `MaxReviews`, `MaxLogins`, `MaxFetches`, `MaxActs`,
`MaxUpsets`, `MaxEvents`, `MaxEdits`, `MaxBookings`, `MaxPayments`, `MaxWrites`
and `MaxLoads`; `Intents`, `Instants` and `Charges` are finite sets. The deadlock
check is on in the runs of Reservations and off where the bounded requests, once
used up, really leave nothing to do.

**Fairness.** `live_all` and `session_all` alone assume any.

- `ExpiryHappens`: weak fairness of every handler's next step (the event loop
  resumes what an `await` has completed), of `SweepBegin` (the interval timer fires
  again and again), of `Tick` (time passes) and of `QueueRecovers` (Redis comes
  back; without it a sweep with a reminder to send would never get further). A
  queue failure ends a sweep before it reaches the expired rows, so the property
  needs that sweeps are repeated.
- `DeliversOrGivesUp`: the worker takes, handles and completes jobs, and the
  queue's stall check runs, as BullMQ does by itself.
- `BellCatchesUp`: the interval of the bell fires, and requests are answered or
  fail in the end.
- `RestoringEnds`: requests of a restore and the refresh they wait for are answered
  or fail in the end, as `fetch` promises.

No request that a user may send is fair (nobody has to send any), and no fault is;
there are finitely many.

## 5. Proofs

TLAPS checks every theorem for any constants that satisfy the assumption named in
the component's module: any ids, users, catalogues, numbers of handlers and
faults. `PROJECT.json` lists them with the properties they state.

**Reservations** (`ReservationsProofs`). None of the properties is inductive on
its own. The inductive invariant is `TypeOK` with `HandlersActOnHistory`: each
row's status is in its history, no two bookings in progress share an id, and what
a handler carries is a status that its row has had, with a legal move from there
(`CallKnows`), or a row that was due when the sweep looked (`SweepKnows`). From it
follow `LifecycleImplemented` (every step maps to a `Book`, a `Move` or a stutter
of ReservationLifecycle), `CustodyHolds` by way of what the same module proves of
the abstract specification (`LifecycleKeepsCustody`), `ReasonCorrect`,
`AnnouncementsCorrect` and `ExpiryIsDue`, which says of the notices what
`ExpiredWasDue` does and of the column that a step of the sweep cancels only what
has been PENDING and is past its start (`SweepCancelsOverdue`). `NoDecisionLost`
needs one more invariant, that as long as no fault has happened whatever a
decision still has to be told is owed by a handler in progress. Without overlap
`SnapshotsHold` strengthens the invariant: at most one handler is in progress, so
the status it carries is the present one. That makes the refinement map to the
serial lifecycle, whence `TerminalWithoutOverlap`, and with the role check that a
request carries (`MayCancel`) `CancelsWithoutOverlap`. With overlap the same check
still gives `CustomersCancelTheirOwn`: whatever a customer's update meets, it
cancels a booking of his own, and one that has been PENDING; only that it still is
so is lost.

**Inventory.** The inductive invariant is `InventoryTypeOK`, `CatalogueConsistent`
and `RequestsConsistent`; `LedgerCorrect` needs it because a new product must
start with an empty log. `StockWithoutOverlap` assumes a single request slot: the
guard that was checked still holds at the write. `OversellIsBounded` holds for any
finite set of slots. Its invariant keeps, for each product, the set of deductions
that passed the guard and are not yet committed, and bounds the stock from below
by the number of the others; the cardinalities come from the library's theorems.

**The warehouse page** (in `InventoryProofs`). `PageRefines` says that every step
of the page is a step or a stutter of Inventory, so all of the above holds under
the page, too. `PageInv` adds what is known of each load: its rows are those of
the table for the products that have not changed since (`RowsKept`), or of
products that are gone (`RowsKnown`), and its log explains its rows but where
something moved between the two queries (`LoadExplained`); dialog and requests
hold the row of a load that has landed, as that load had it (`CopiesAgree`).
`GuardMirrored` and `PageTellsTheTruth` follow; the latter needs `LedgerCorrect`,
because the page reads the level from the rows and its history from the log. That
own movements show rests on `BlindOlder`: a load without a movement that the page
was told of began before it was told, hence before the load that was asked for
last. When an older load lands last the page may well hide its own movement, and
the property says so by its premise.

**Payments** (`ServicesProofs`, as are the next two). `Sound` is `LedgerBacked`,
`AuditTruthful` and `RequestsKnow`: a request in progress owns its transaction id,
and what it is about to store or audit did happen. `LedgerImplemented` is the
refinement to PaymentLedger: storing an outcome is `Settle`, marking a row is
`Refund`, or a stutter when an overlapping refund was first. With one request slot
`ChecksStillHold` makes the same map lead to the exclusive ledger, whence
`SettledWithoutOverlap`, and `RefundsWithoutOverlap`. `NothingIsLost` rests on
`AllTold`: short of a fault, every intent is told of by its row and its audit
entry, or by a request on its way to write them. `SettlementsBounded` gives each
PAID payment of a reservation a slot of its own, so there are at most as many as
slots, of which it assumes a finite set.

**Documents and accounts.** `UploadsInv` adds three facts to
what the run checks: a row has its file (`RowsHaveFiles`), the log is true and
follows what was decided unless a request still has to write it (`LogIsTrue`,
`LogFollows`), and the files without a row that no upload in progress will claim
number at most the slots times the faults (`LeftByFaults`), because one restart
cuts off at most one upload per slot. `AccountsInv` is the types, what a request
in progress knows of the accounts it acts for (`AccountsKnow`), one account to an
address (`OneEach`, which rests on the unique index where the checks overlap), who
may be more than a customer, and that every pair of tokens goes back to a
registration or a password, and every entry of the log to a login. The token of
`forgotPassword` is the one exception that `SessionsAreEarned` names: it may admit
a request of an account that nobody has logged in to, and is never refreshed.

**Notifications.** `IInv` is `NotesTypeOK` and `Accounted`, which ties the number
of times a mail went out to the state of its job, its stalls and the faults.
`FaultsPayForRepeats` and `TalliesFitJobs` follow, and `OutboxImplemented`, the
safety half of the refinement to Outbox.

**The bell** (in `ServicesProofs`). That it agrees with the table in the end is
liveness and stays with TLC; `BellIsHonest` is what holds at every moment, however
answers overtake each other and whatever fails: it shows rows of its user alone,
none as read that is not, counts no more rows than there are, and its marks reach
the rows of its own user alone. The invariant `BellInv` says the same of every
answer on its way (`PollKnows`), besides the types. It is inductive because rows
only ever grow (`RowsGrow`): none goes away and none that is read becomes unread,
so an honest copy stays honest as it ages (`HonestKept`, `OwnGrows`). It assumes
that the calls are finitely many, for their rows to have a count.

**WebSession.** `SessionsKeptApart` has five parts that support each other.
`OneSession` says that, as long as none of the causes that mix sessions has
happened, one user can be named to whom everything in the browser belongs: the
pair in the storage, what every tab shows, every request in flight and every
refresh. It needs `RestoresAlone` (a tab that restores a session does nothing
else) for the step in which a restore shows its user. `FlightsOutlive` (a refresh
in flight while the storage is empty outlived a session) carries
`NothingLeftBehind`; `UseHasSession`, `ShownHasSession` extended to tabs that
restore, carries that one; `SpentIsInFlight` carries `SpentOnce`.

**Rental.** `IInv` has seven parts: the page and its dialog (`PageHolds`); the
request in progress (`CallHolds`), whose running total is the price of the lines
read so far and is still what the dialog promised while nobody edits the catalogue;
the stored bookings, whose totals are sums of what was read (`BooksHold`); the
lists, loaded or on their way (`OffersHold`); the payments under way (`PaysHold`)
and stored (`PaymentsHold`, by `Covers`); and what the page has reported as paid
(`ToldHolds`). The last one carries `OffersAreDue`: a message that is shown has a
timer, and without a message neither the list nor an answer about to be shown has
anything that was reported. A repeated message does not ask again, but the one that
it repeats is still on show then, and when a timer takes it down the page does. The
totals and demands are sums over sets.

**Sums** (`Sums`). The community modules define a sum by recursion over finite
sets, and the library's induction theorems cannot be instantiated here. The
well-foundedness of the natural numbers, a theorem of the library without an
operator parameter, gives each non-empty set of numbers a least element, hence an
induction principle over sets of numbers, and over the parts of a finite set
(`PartInduction`). From these come that a sum exists and is a whole number
(`SumExists`, `SumOfNats`), that it can be taken apart at any element
(`SumSplits`), over two sets that share none (`SumOfUnion`) and by the values of a
key (`SumByKey`), that a sum of ones is a cardinality, and how far a sum or a size
moves when one element does (`SumNear`, `SumChanges`, `SizeNear`). Rental and the
figures rest on them.

**The list pages** (`ClientProofs`). `PagesInv` follows an answer from the query
to the screen: the last fetch asked for carries the query of the page
(`LastIsAsked`); the total and the rows of a fetch or of the screen are what its
table selects as long as that table does not change (`CopiesCurrent`), and the
rows hold the status stored unless another's change, an own one whose refetch is
to come, or one that was stored but came back as an error has touched them
(`LastIsFresh`). `PagesComeToRest` needs that a page
within the list has a row (`PageNotEmpty`): each position of a finite set of
numbers is taken by one of them (`PositionTaken`), which takes a least, a greatest
element and a quotient, all from the well-foundedness of the natural numbers as in
`Sums`. `ButtonsAreTrue` follows from the same invariant.

**The mobile app** (`ClientProofs`). `AppInv` has nine parts. `TokensFollow` and
`Restoring` say whose tokens are stored, sent and restored; `FeedIsReset`,
`SyncIsOwn` and `ListFollows` whose rows a poll brings and the list keeps;
`AnnouncedToItsUser`, `BaseIsKnown` and `RungIsKnown` whose banners were shown and
which ids are remembered after them, also over a restart. Each holds unless one of
the causes in `crossed` has occurred that the property names, and those are the
only exceptions that `AppIsTruthful` makes.

**The figures of the trend** (`ReportsProofs`). `FiguresAddUp` needs the invariant
that no reservation is younger than the clock, and arithmetic of days: a quotient
places an instant between two midnights (`Quotient`, `QuotientGrows`), so on a
server in UTC the buckets are the days of the window and each reservation of them
falls into one. Counts and revenue per bucket then add up by `SumByKey`. In any
other zone the same arithmetic leaves one UTC date over, the one after the last
bucket.

**The screens** (`ReportsProofs`). `ScreensAgree` speaks of pages that are
complete; to get there one has to say what each single answer is worth while the
others are still out. `AnswersNear` does, for any tables and prices: with `writes`
changes since the page began to load, a count is off by at most `writes`, a sum of
prices by `writes` times the largest price, a set of products by `writes` products
(`FiguresNear`, `StockNear`, `TillNear`, `SpendNear`, `ProfileNear`,
`RankingNear`). Two answers of one page are compared directly as well (the till's
tabs with its rows, the summary's requests with those of the list): by way of the
tables they could be twice as far apart, and the properties promise once.
`ListNear` and the catalogue of `StockNear` hold only of an answer that is not
cut, because a row that a full page pushes out is no change; of a cut one they
keep that it never shows more than there is. `FailuresTogether` says which figures
fall back at the same time. `OwnActionsNear` says that no load that was asked for
after a quick action lists its row as pending. Each step changes one row or one
stock, begins the followed load, or hears answers or failures (`ThreeCases`), and
a change of one row moves every sum and size by one term (`RowsNear`), which is
where `Sums` comes in. `AnswersStayNear` is the invariant, `ScreensNeverDisagree`
the property. The ranking is a bijection from ranks to products, so its proof
needs no theory of sorting: what is left out ranks behind what is listed.

**Theorems about properties that no run names.** What `CancelsWithoutOverlap`,
`CustomersCancelTheirOwn`, `ReasonCorrect`, `RefundsWithoutOverlap`,
`BellIsHonest` and the second half of `ExpiryIsDue` state was tried with TLC
first, on the instances of `serial_all`, `res_race` and `live_all`; no
configuration keeps it, as the theorems say more.

**Model-checked only.**

- What is about fairness: `ExpiryHappens`, `DeliversOrGivesUp`, `BellCatchesUp`,
  `RestoringEnds`. The prover has no rule for the fairness of actions.
- The disagreements of section 6 are counterexamples and need no proof.

## 6. Where the code disagrees with what is said of it

| Run | What is said | What the code does |
|---|---|---|
| `res_violation_terminal` | `README.md:119`: RETURNED, REJECTED and CANCELLED are terminal | the update in `updateStatus` (`reservations.service.ts:177`) names the row by id alone, so the later of two overlapping writers takes it out of a terminal status |
| `pay_violation_settled` | `payments.service.ts:6`: prevents duplicate settlement | the check (line 61) is separated from the insert by the gateway calls, and no index backs it |
| `rental_violation_quote` | `EquipmentPage.tsx:513`: the pickup day counts, so that a same-day return is one day | the server charges the difference of the dates (`reservations.service.ts:67`), a day less, and refuses a same-day return |
| `rental_violation_today` | `reservations.service.ts:54`: today must not be refused, as it would be if the date were compared with the present instant | the sweep (line 261) makes that comparison and cancels a booking for today within minutes |

Rules that hold with one handler at a time, by a theorem or `serial_all`, and fail
when handlers overlap, for the same reason as the first two: the stock does not
fall below zero (`README.md:125`, `StockWithoutOverlap`; `OversellBounded` says how
far it can), customers cancel only PENDING bookings (`README.md:120`,
`CancelsWithoutOverlap`), only PAID payments are refunded
(`payments.service.ts:158`, `RefundsWithoutOverlap`). The comment at
`payment.gateway.ts:79`, that the `Payment` table is the durable record of every
payment, holds until a stop between the confirmation and the insert
(`payments.service.ts:113`): `NothingLost` is stated short of a fault for that
reason.

What the properties had to leave room for, and a reader of the code may want to
know:

- "Net" on the payments page subtracts refunds from a sum that never had them
  (`PaymentsPage.tsx:135-138`); `TillBalances` relates the two figures, not their
  difference.
- A refunded reservation is listed as outstanding again.
- Utilisation may exceed 100 %: the units rented are those of the bookings, which
  take no stock.
- Mark-all-read marks rows that the bell never showed, and a first poll that fails
  shows that there is nothing to read.
- Loads of the dashboard overlap after a quick action, and the last answer wins, be
  it that of an older load: only the load that was asked for last is held to leave
  out what was decided (`OwnActionsShow`). On the warehouse page loads overlap as
  well, and an older one that lands last hides the page's own movement
  (`OwnMovesShow` has the same premise).
- The dashboard and the warehouse page ask for 100 products: with more, "optimal"
  speaks of those 100 only, while the server's figures count all.
- A change that was stored but came back as an error is not followed by a refetch,
  neither on the reservations page nor on the payments page, and a payment whose
  answer was lost leaves its reservation on offer.
- A payment that ends after its page was left updates nothing, though the page may
  be open again; and two payments whose messages read alike, within the time that a
  message stays, fetch the balances once, and again when the message goes.
- `forgotPassword` gives anyone who names an address a token that is signed as an
  access token is; `SessionsEarned` keeps it apart from the pairs of a session.
- The success of a dialog closes whichever dialog is open by then.
- On a server whose clock is not UTC the trend leaves out the latest UTC date.
- Each sweep sends its reminders anew.
- The app refreshes for any request but those under `/auth/`
  (`api_service.dart:49`), and it restores a session with `/auth/me`: a start with
  an access token older than its fifteen minutes clears the session, although the
  refresh token is good for seven days (`AuthProvider` is to restore the "previous
  session"). So does a start without a network.
- In the app each failing request refreshes for itself, and one that does not get
  through signs the user out of the session that another one has just renewed.
- A poll in flight at the logout fills the list and the ids of the next user, for
  whom `reset` was to leave "a clean baseline" (`notification_provider.dart:171`).
- The first row that a user with an empty feed gets is taken for the baseline and
  raises no banner (lines 95-97, against line 83).

## 7. Not modelled

- The screens of the mobile app: widgets over the requests that Reservations and
  Rental have. Its secure storage holds one pair of tokens in the model, so a
  sign-out between the two writes, and the vault of the web build whose values may
  fail to decrypt, are left out; the unread tally is that of the list, and the caps
  of 50 rows and 200 ids are not reached.
- Queries without writes whose figures no other figure can contradict: categories,
  the activity page, the counts in the sidebar.
- The settings forms, the product form and the document panel: forms over requests
  that Accounts, Inventory and Uploads have.
- Hashing, token signing and verification, path resolution, validation decorators:
  checks of input without a protocol.
- Floating-point rounding of prices.
- Bootstrap, provisioning, collections and scripts.
- Several backend processes. The deployment starts one. More would add
  interleavings that the model has already, and one gateway Map for each process.

## 8. What could follow

1. Reminders counted per sweep, once it is decided how often one should be sent.
2. Several backend processes, should the deployment ever start more than one.

## 9. Running the checks

    tlc -config MCReservations_race.cfg MCReservations
    tlapm ReservationsProofs.tla

The configuration of a run is named after its MC module and the part of the run's
name after the first underscore; that of a violation after the component.
