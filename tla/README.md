# TilePoint in TLA+

TilePoint is a point-of-sale and inventory system for several branches: a React
client that keeps working when the network does not, and a Node server that keeps
working when MySQL does not. These modules model the way of a sale: from the basket
at the till, through the stock and shift records of the terminal, the outbox of the
browser, the server's handlers, cache and degraded store, to the other terminals;
and the sessions under which all of it happens. TLC checks them on small instances,
and TLAPS proves their safety properties for every instance.

Paths below are relative to the repository.

## 1. Inventory

| Part | State | Operations | What is hard about it |
|---|---|---|---|
| Point of sale page, `PosModule.tsx`, `AppContext` | cart, parked sales, `isCheckingOut` | fill, hold, resume, cancel, checkout, leave | a checkout awaits twice and goes on with the values of the click |
| Sales, stock and shifts, `useDbOperationsModule.ts` | sales, movements, stock rows, shifts, optimistic stock, balances | checkout, void, restore, open and close shifts, documents, product edits, imports | two books of the same stock; counters beside the records they count |
| Transaction outbox, `src/services/transactionOutboxService.ts` | `items`, `isProcessing`, one debounced timer, a localStorage key | enqueue, flush, retry, remove, clear, save, load | flush awaits the network once per record while the user, the timer, reloads and logins go on |
| Client sync, `useDbSyncModule.ts` | all collections | hydrate, poll | responses are lost, late, and older than what the terminal did meanwhile |
| Write routes, `src/server/routes/dbRoutes.js`, `routes/db/*.js` | none | `/transaction`, `/delta`, `/sales`, sync batches | a connection error may come before or after the commit; repeated requests are executed again |
| Full-database cache, `dbHelpers.js` | `cachedFullDb`, `isDbCacheDirty` | read, invalidate, write | the tables are read one by one between commits and invalidations |
| Degraded store, `src/server/db/degradedStore.js` | `isMysqlActive`, `degradedWriteQueue`, a log file | queue, evict, append, rewrite, load, check, recover, replay | replays await once per write, may overlap, and end by overwriting the queue |
| Replay handler and MySQL writers, `dbHelpers.js` | none | one branch per type of queued write | not every type has a branch; a replay repeats writes |
| Session store, `authService.js`, `authMiddleware.js` | the `active_sessions` table | login, check, renew, refresh, logout, prune, purge at boot | a save is four queries, and another login may come between any two |
| Sign-in of the browser, `useDbAuthModule.ts` | token, user, expiry | login, logout, `safeApiFetch` | drops the token in the middle of a flush |
| CDC delta sync, sync worker | watermarks, hashes | hash, delta, merge | nobody uses them |
| Sockets, backups, AlaSQL engine, service worker, other pages, scripts | connections, files, caches | I/O and presentation | little of their own |

How they interact: an operation of the client changes React state and enqueues a
package in the outbox. The outbox sends it to `POST /api/db/transaction`. The
server executes it in MySQL or, in degraded mode, queues it, and answers with
success in both cases. After the outage the degraded store replays the queue.
Clients learn of a change from a socket pulse or by polling: they read the database
through the cache and replace what they have, except for sales that are still in
their outbox and for stock rows with an optimistic entry of the last minute.

What makes each part correct:

- point of sale: one basket becomes one sale; stock rows and movements agree; drawers
  agree with their reports; credit stays within its limit and is not forgiven;
- outbox: nothing enqueued is forgotten, only executed transactions count as
  delivered, failures keep the order, nothing locks it, what is open gets sent;
- terminals: no repeated or late request counts a sale twice, voids stand, a
  terminal's own sale does not vanish, and every sale reaches every terminal;
- cache: what is served as clean is not older than the last invalidation;
- degraded store: the log is the queue, an acknowledged write is in MySQL or in the
  queue, a replay ends with the newest write of every row, the queue drains;
- sessions: at most one per user, the newest one wins, an ended one stays ended.

`PROJECT.json` lists all parts with their status, and the hazards at their lines.

## 2. Modules

| Module | What it holds |
|---|---|
| `DurableQueue` | what a queue between a writer and a database promises, with the proof that its steps keep it |
| `Outbox`, `OutboxProofs` | the transaction outbox, its user, its network and the server as it sees them; implements `DurableQueue` |
| `DegradedStore`, `DegradedStoreProofs` | queue, log, replays, restarts and the routes that write; implements `DurableQueue` |
| `StockLedger` | stock rows, movements and optimistic entries of one tile, and the two operations that change them |
| `Register` | baskets, checkouts, shifts, voids and credit of one terminal, over `StockLedger` |
| `Logistics` | manual entries, product edits, imports, damage logs, transfers and purchase orders, over `StockLedger` |
| `Store`, `StoreProofs` | the composition of the three, their properties and proofs |
| `DbCache` | the server's cache of the whole database |
| `Terminals`, `TerminalsProofs` | several terminals, their outboxes, the handlers and the polls, over `DbCache` |
| `Sessions`, `SessionsProofs` | the sessions of one user, query by query |
| `Sums` | theorems about finite sets and the sum of a function over one, used by `StoreProofs` |
| `MC*` | model values, instances and constraints for TLC |

A *history variable* appears in properties only and changes nothing. The modules use
them in one way: the code has ways to break a promise that are known and cannot be
ruled out, so a history variable names them (`mishaps`, `odd`, `slipped`,
`disturbed`, `strayed`, `aside`, `stale`, `standing`, `revived`), and the property says
that they are the *only* ones. Such a property does not catch the outcome it exempts:
it shows that no other interleaving has it. Where the repository promises more than
that, a violation run or section 6 says so, and each hazard in `PROJECT.json` says
which part of it a property covers.

### Outbox

A record is a position of `rec`, in the order of creation. `createdAt`, `queueId` and
the place in the array all follow that order, so the array `items` is a set of
positions. A record that left the array while a flush holds it keeps its entry, as the
JavaScript object does. (Two records enqueued within one millisecond tie in
`createdAt`; the sort is stable, so they keep the order of the array.)

JavaScript runs to completion between two awaits, and an action is such a stretch.
`StartFlush` is `flush()` up to the first `fetch`. The replies are the five ways a
`fetch` settles, each up to the next await or to the end of `flush()`: a rejected
record (400, 422) goes on to the next `fetch` in the same step, a success first
awaits the delay of 60 ms, all others end the flush. Every path saves before it
yields; successive saves of one stretch are one save of its last values. Where the
code awaits the body of a refusal before it sets the status, the two awaits are one:
nothing changes between them, so it is as if the `fetch` had settled later.

`wire` and `accepted` are the server's side: a request is executed, at once or after
the client gave it up, or it is refused. `discarded` and `lossy` are history
variables; they appear in properties only.

`DbContext` wires the service to `safeApiFetch`, which turns a network failure into a
503. `TransientReply` therefore also stands for a lost connection; `NetworkError` is
the `catch` branch, which the default `window.fetch` takes. `Initialize` is part of
login, logout and of a dropped token, because the mount effect runs again whenever
`getAuthHeaders` changes.

Bounds: `MaxEnqueue` calls of `enqueue`; `RetryBound` on the retry count, which
exceptions raise without limit. `StorageCap`, `CompletedCap` and `MaxRetries` are the
code's 100, 50 and 20, scaled down. `Faults` selects what may go wrong in a run.

`ImplementsDurableQueue` maps the outbox to `DurableQueue`: entrusted are the records
created, held is the array `items`, done is what the server executed, excused is what
the user removed or a newer record replaced. A save that fails or is cut off is the
fault the queue does not survive.

### DegradedStore

`queue` and `wal` are `degradedWriteQueue` and the lines of the log file. A replay is
the rest of its copy of the queue, `todo[s]`; slots exist because a recovery starts a
replay whether or not another one is running. A handler that writes to MySQL is in
`direct` from its first await to its last, and in `committed` once MySQL has
committed, so that a connection error can hit it before or after the commit.
`Packages` and `Unhandled` are the types of writes that the code treats differently.

`mishaps` is a history variable that names what went wrong so far: an eviction, a
write queued or a replay started during a replay, a replay cut off, an unknown type, a
query error, a direct write that overtook a queued one, a file error. The safety
properties say that these are the *only* ways to lose a write or to end with an old
row: each is stated for the histories without the mishaps that break it. The
violation runs show what three of them do.

Bounds: `MaxDrops` connection errors, `MaxCrashes` restarts, the number of slots.
`Cap` is the code's 10000.

`ImplementsDurableQueue` maps it the same way: entrusted is what was acknowledged, held is
the queue, done is what MySQL has committed, and a mishap that loses writes ends the
promise. Nobody gives up an entry.

### StockLedger, Register, Logistics, Store

One tile is followed, because operations on several tiles do the same to each. `Post`
changes stock row and movements together, `SetRows` the rows alone. Four things put
the two apart, all in `odd`: the row stops at zero while the movement carries the whole
deduction; a sale's movement is filed for the cashier's assigned branch while the stock
leaves the branch the page sells from; a user without a branch corrects a product, whose
movement names no branch while the row of "B1" changes; and an import sets rows
without any movement.

`clientCheckout` awaits a delay and a question to the server. `BeginCheckout` is its
part up to the first await; a *flight* holds what its closure captured: the shift, the
stock row, the balance, the number of sales known. `Abandon`, `Duplicate` and `Record`
are its three ends. Between them the user may park, resume and cancel baskets, close
the shift, void, pay, or leave the page; on another mount of the page the checkout is
an *orphan*, whose `isCheckingOut` the new page does not see. A basket is a number,
`where[k]` is its place, and its total is its units.

A sale carries `during`, the shifts whose window it falls in, because
`getShiftReportStats` finds a shift's sales by id *or* by cashier, branch and time.
`Void` takes the counter of the user's own shift down and no other; `Restore` clears
the flag and nothing else. `disturbed` names the shifts whose sales changed behind
their counters. `AutoClose` ends the windows of the shifts it closes at midnight of the day
they were opened: sales made after that leave their reports, by any cut the clock
allows.

`CreditAllows` compares with the balance of the click and `BalanceAfter` adds to the
balance of now. What keeps the sum within the limit is `isCheckingOut`, which is lost
when the page is left; `strayed` says that this happened in a credit checkout.

`Logistics` has each operation as its page calls it: `ConfirmReceipt` therefore never
reaches the stock row (section 6). Transfers move from any status to any other, as the
exported operation does. `EditProduct` changes the row of the signed-in user's branch,
which only `Store` knows (`EditStep`). An import awaits between the click and
`importProducts`, whose closure has the rows of the click: `BeginImport` takes them,
`EndImport` writes them all back, so that what was sold meanwhile is in stock again.

Bounds: `MaxSales`, `MaxShifts`, `MaxFlights`, `MaxRestored`, `MaxDocs`, `Payments`,
`Quantities`.

### DbCache and Terminals

`DbCache` cuts `readFullDatabase` at its queries: `StartRead` finds the cache dirty,
`ReadTable` is one answer, `FinishRead` installs the result whatever happened since. A
commit and the invalidation after it are two steps of the handler, and `unnoted` holds
the handlers between them.

`Terminals` has, for each browser, the sales as it knows them, its stock row, the
optimistic entry, a checkout under way, what the last poll left in localStorage, and
an outbox with every status a package can have. Checkouts and voids have one priority,
so packages are in the order of their creation. `Send` takes the first that is pending
or failed: a package that a 401 or 403 left `processing` and a dead letter are not in
the list of a flush, and later ones go out before them. A dead letter that the user puts
back is `again`: a flush that is running may or may not have it in its list. `Refuse` is
the refusal of the awaited request (401, 403, 400, 422), `Fail` gives an attempt up while
the request is still on the wire, at the retry limit for good, `Retry` is the panel's
button, `Reload` makes processing packages pending and puts list and row back to what
the last poll stored. `aside` names the sales whose checkout was refused or
dead-lettered: for these, and only these, a void may overtake its checkout (section 6).

`Execute` is the transaction of a handler, `Note` its invalidation and its answer, which
may be lost. The sale log of a checkout is a request of its own, outside the outbox. A
package carries the absolute stock of its render, and the server writes it over the
row: this is what the code does, and `NoSaleCountedTwice` says what follows from it. (The
opposite, that two registers selling at once count both sales, does not hold: see the
hazards.)

Bounds: `MaxSales`, and `MaxTries` attempts per package.

### Sessions

Sessions are numbered in the order of their logins. `saving[q]` is what request `q`
has left of `saveActiveSessionRecord`: delete the user's other rows (`Prune`), look
for its own (`Look`), update or insert (`Update`, `Insert`). A save is `late` once
another request's delete has covered its session; a row written by a late save is in
`revived`. `lastActive` is a time in seconds, the fraction cut off, so that the order of
`getActiveSessionsList` has ties. Outages make every query fail in its own way.
`Refresh` is `POST /refresh`: any valid token of the user, of whichever session, has
the user's first row saved with a later expiry, even if that row has expired. A restart
ends all saves, and some awaits after the server listens `Purge` empties the table,
unless MySQL does not answer.
`Store` leaves open whether the saved row is expired afterwards: a renewal writes back
the expiry it read, a refresh a later one.

Statements name a session or a user, so users do not meet, and one is enough.

Bounds: `MaxSessions` logins, `MaxClock` seconds, `MaxOutages`.

## 3. Runs

| Run | Specification | What it shows | Result |
|---|---|---|---|
| `outbox` | `FairSpec` | nothing is lost unless a save failed or was cut off; storage equals memory at every await, up to the cap; neither list exceeds its cap; records of one priority leave in the order they were enqueued; a completed record was executed; `isProcessing` is always reset; every step is one of `DurableQueue` | passes, 806 thousand states, 2 min |
| `outbox_order` | `Spec` | no request overtakes a failed record; what a flush sends is open although its snapshot is old; storage holds the newest of what memory holds; without a 401 or 403 only the record under way is marked as processing | passes, 3.5 million states, 2 min |
| `outbox_auth` | `Spec` | a 401 leaves its record marked as processing | violated, as it is in the code |
| `outbox_wakeup` | `FairSpec` | a record enqueued during a flush is never sent, with no fault at all | violated, as it is in the code |
| `degraded` | `Spec` | the log holds the queue, losses have a named cause, rows end with their newest write, an active server replays; every step is one of `DurableQueue` | passes, 1.5 million states |
| `degraded_drain` | `FairSpec` | the queue drains | passes, 163 thousand states |
| `degraded_cutoff` | `Spec` | a connection error during a replay drops the rest of the queue | violated, as it is in the code |
| `degraded_overlap` | `Spec` | a write buffered during a replay is dropped at its end | violated, as it is in the code |
| `degraded_unknown` | `Spec` | three types of writes are dropped by the replay | violated, as it is in the code |
| `store` | `Spec` | baskets are sold once; movements, sales, drawers and credit agree with the stock, the reports and the balance, but for named histories | passes, 323 thousand states, 2 min |
| `terminals` | `FairSpec` | no sale is counted twice, voids stand, a clean cache is fresh, a terminal keeps its own sales, a poll behind the last invalidation brings it up to date, and it learns of all other sales in the end | passes, 413 thousand states, 3 min |
| `sessions` | `Spec` | ended sessions stay ended, one session per user, the newest wins, unless a delete overtook a save | passes, 815 thousand states, 1 min |

Why the bounds are enough to be interesting. `outbox` has two records and a storage
limit of one, so that the limit is hit, and two retries, so that a record reaches the
dead letters. Its two records have the same priority, as a checkout and a void do, so
that their order is that of their creation. `outbox_order` has three records of two keys
and both priorities: a record is replaced while a flush holds it, and one is enqueued
with a higher priority while another waits for its retry. It has reloads and room for
one record in storage, so that a reload forgets records, and no save throws, so that what
is left must be the newest. `degraded` has three writes and a queue of two, so
that evictions happen; two writes share a row, so that order matters; two connection
errors and a restart give a replay that is interrupted, restarted and overlapped.
`degraded_drain` needs one slot per recovery that two errors and one restart allow,
which makes its three slots no restriction; in `degraded` a third replay at the same
time is cut off by the bound.

`store` has a cashier at home in the branch that sells, an owner without a branch, a
basket that takes the whole credit limit, two checkouts at a time and two shifts: a
basket is parked and paid during its own checkout, a checkout outlives its shift, a sale
is voided from another shift, the page is left in the middle of a credit checkout, an
import is under way while a sale is made, the owner corrects a product. The constraint
`Budget` of `MCStore` keeps these extras from multiplying: beyond one basket, shift and
checkout, a history has one kind of extra, or the second basket together with the second
shift; documents come with at most one sale. It cuts histories off, it checks safety
only, and the proofs need no such bound.

`terminals` has two terminals, one reader besides the cached answers, two sales, two
attempts per package. `Budget` of `MCTerminals` allows two sales whose packages are each
sent once, or one sale with two of: a void, a checkout that failed, was refused,
interrupted by a reload, or whose request is late; two of them only while the other
terminal's outbox is empty. So a checkout is refused, its void sent, the page reloaded
and the checkout executed. Only steps of the user, the outbox and of failures leave the
constraint, and none of them has fairness, so that no fair behaviour is cut off by an
obligation it could not meet: the liveness result is about every behaviour within it.

`sessions` has three logins, two requests at a time and a two-second clock, so that
rows tie and a request of the first session meets the logins of the second and third.
Requests are interchangeable and no property names one, hence the symmetry.

Deadlock is not checked: with the bounds used up all these systems may rest, and an
outbox with nothing to send does rest.

Each property of a passing run has a mutant, a plausible slip in one of the actions
(an operator marked "Faulty variant" in the modules), which TLC finds through that
property.

## 4. Fairness

`Outbox`: timers fire, every `fetch` settles (browsers and the proxy time out), a
request on the wire is executed or refused, and the delay of 60 ms ends. There is no
fairness for the user, the network or the session, so `FlushEnds` holds without help
from any of them. For `OpenRecordIsSent` all of them are absent from the run.

`DegradedStore`: `server.js:88` checks the connection every five seconds, and the check
succeeds unless MySQL is away, which `MaxDrops` bounds; every await of a replay
settles. There is no fairness for the routes.

`Terminals`: each terminal polls at an interval (`PollCached`, and `Poll` for a dirty
cache), a reader's queries are answered, and a handler that has committed runs on to
its invalidation (`Note`). Nothing obliges the outbox, which the run `outbox_wakeup`
shows to sleep through its work, nor the server to execute a request. Hence
`EverySaleReachesEveryTerminal` speaks of what the server *has* executed.

`Store` and `Sessions` are checked for safety only.

## 5. Proofs

Each `*Proofs` module proves `Spec => []IInv` from the assumptions on the constants,
with one lemma per action, and derives the properties from it. No bound on the
number of transactions, writes, terminals, baskets, requests or errors is assumed
beyond its being of the right type.

*Outbox.* `NoSilentLoss` is not inductive: a reload installs what storage holds, so
`StoredIsComplete` says that, without a lossy save, storage holds every unfinished
record, and `StoredIsOpen` that it holds no finished one; then
`CompletedWasAccepted` explains the difference. A step that writes storage preserves
this because it saves the *new* values of the queue: lemma `SaveWrites`, used by every
action with a save. The order properties need two more facts about a flush:
`WorkIsOpen` (what is left of the snapshot still has the status the filter accepted,
because the panels offer their retry for stuck records only and the loop changes
nothing but its current record) and `FailedIsInWork` (during a flush the failed
records are those of the snapshot, because a failure ends the flush). From these,
`NoOvertakingAFailure` follows for the first record of a flush from the sort, and for
the later ones because the first of the rest comes before the others. `SendsInOrder` is
about all open records and has one more, `OpenIsInWork`: what is open and older than a
record of the snapshot is in the snapshot, because only the user's buttons open a record
again, and what is enqueued meanwhile is newer.

`StorageMirrorsMemory` and `QueuesAreBounded` come on top of `IInv`. The first holds
also where the cap cuts off: what a reload installs is saved again as it is, because
cutting at the cap twice cuts no more than once (`ReloadMirrors`). The second needs to
know how many elements "those with fewer than *c* newer ones" are; `NewestAreFew` takes
the oldest of them, behind which there are fewer than *c*. It holds through lost saves
and reloads because a reload brings no completed record back (`CompletedStay`).
`OnlyAuthStrands` proves that the 401 and 403 branch is the only cause of what
`outbox_auth` shows: where `Faults` has no such answer, `ProcessingIsInFlight` is
inductive relative to `IInv`.

*Degraded store.* `AckedIsKept` needs `ReplayIsSuffix`: while nothing is lost there is
one replay, what it has left is a suffix of the queue, and what it has behind it is in
MySQL. `RecoveredIsNewest` needs `SettledRows` (a row that no queued write touches, or
that the replay has behind it, is up to date) and `LastQueuedIsNewest` (the last
queued write of a row is its newest). A replay repeats old writes after a restart, and
a row goes back to an older value meanwhile; the two facts say that it will
be written again before the queue is empty. `QueueIsInLog` rests on a lemma about
`Newest`: appending to a log and then taking its last `Cap` lines is the same as
evicting the oldest of the last `Cap` lines and appending.

*Refinement.* `OutboxIsDurableQueue` and `StoreIsDurableQueue` show that every step of
the two queues is a step or a stutter of `DurableQueue`, whose promise
`KeepsItsPromise` proves from the abstract steps alone. The invariants above provide
what the mapping needs: which records a reload brings back, and that nothing is queued
that was not acknowledged (`OnlyAckedIsQueued`).

*Store.* `SoldOnce` needs `FlightHoldsItsBasket` and `SoldIsGone`: a basket that has
not slipped is in the cart of the page that runs its checkout, or gone, and gone it
stays once it is sold. `OneAtTheTill` is what `isCheckingOut` guarantees.
`DrawerMatchesReport` counts: adding a sale to a report, or taking one out, changes its
cardinality by one. `ShiftsExist` keeps the indices in range. `LedgerBalances` needs no
strengthening, but every one of the operations. `CreditStaysWithinLimit` needs
`CreditWasSeen`: until the page is left in the middle of a credit checkout, the one credit
checkout under way is the page's own and saw at least the balance of now, because
payments and voids only lower it and no other checkout can raise it.

`SalesExplainStock` and `CreditIsOwed` compare a number with a sum over the sales.
`StockExplained` and `DebtsCovered` are their inductive forms: the same sums over
the sizes of the sales, and, for a branch with a restored sale, nothing. A recorded sale adds
one element to the set of live sales, a void removes one (`RecordExplains`,
`VoidExplains`), and `Voidable` is what keeps a void from removing it twice. What a sum
does then is `SumAdd` and `SumRemove` of `Sums`. The sum is a fold of the community
modules, and the library's induction rules take a predicate as a parameter, which the
provers cannot instantiate; `Sums` therefore induces over *sets*: of a family of subsets
of a finite set one is smallest (`SmallestSet`, from the well-foundedness of the subset
order), and the smallest counterexample has a smaller one.

*Terminals.* `StockKept` extends `NoSaleCountedTwice` to every place a stock figure can
come from: packages, requests, the cache, half-read snapshots, a click. `VoidStands`
needs `VoidsFollow`: a void of the selling terminal is on the wire only once its
checkout is delivered, unless the checkout was set aside. That rests on `PassedByIsAside`
(a package that a flush passes by was refused, or dead-lettered) and on
`AwaitedIsProcessing` (the answer that is awaited is that of a package marked so).
`CleanCacheIsFresh` needs `ReadsAreFresh`, the same for what a reader has gathered so far.
`OwnSaleStaysVisible` follows from the merge with what the outbox holds, whatever the
answer. `PollsCatchUp` is the safety
half of `EverySaleReachesEveryTerminal`: what changes a terminal's copy and not its
outbox is a poll (`PollsOnly`), and `CleanCacheIsFresh` or `ReadsAreFresh` says what it
was answered with.

*Sessions.* `PruneHolds` says that behind the delete of a save on time no other session
has a row that was not revived, and no other save on time is past its delete;
`LoginPrunes` and `LoginIsNew` say that logins see only newer ones; `RenewHasRow`
that a renewal on time finds its row. The three properties follow.

Only model-checked: the liveness properties `FlushEnds`, `QueueDrains` and
`EverySaleReachesEveryTerminal`, because the prover has no rule for fairness. Every
other property of a passing run is a theorem, for every value of the constants.
No module declares a recursive operator.

## 6. Disagreements with what the repository says

Five runs end in a violation, see `findings` in `PROJECT.json`.

1. `src/services/transactionOutboxService.ts:342` says that a 401 retains items as pending. The
   status stays `processing`, and the record waits for a reload of the page.
2. `transactionOutboxService.ts:199` says that enqueueing triggers a flush. A flush
   that is running swallows it, and its end triggers none.
3. `AppAlertBanners.tsx:53` says that buffered transactions are replayed. A connection
   error during the replay drops all but the interrupted one,
4. a write that is buffered during a replay is dropped at its end,
5. and writes of the types `sales_upsert`, `delta` and `audit_log` are dropped by the
   replay handler.

Others have no run of their own. They are modelled as the code behaves, or named here
because a reader of the models would miss them:

- `PrivacyAccessibilityHub.tsx:1038` says that stock changes made offline are
  synchronized. Only checkouts, voids, manual ledger entries and shift changes are
  enqueued (`useDbOperationsModule.ts:455`, `969`, `1254`, `1430`, `1508`, `1575`,
  `1621`). Transfers, orders, damage logs, deliveries, transmittals, returns,
  expenses and member payments are not, and a hydration (`useDbSyncModule.ts:1303`)
  replaces them and the stock rows by the server's.
- `useDbSyncModule.ts:1188` keeps closed shifts from being reverted on the terminal. A
  checkout's package carries the whole open shift of its render
  (`useDbOperationsModule.ts:993`), so that one executed late opens on the server a
  shift that was closed meanwhile.
- `dbRoutes.js:203` answers `alreadyProcessed` to a package whose id it finds in
  `readDbFile()`, and line 318 adds the id to it. `readDbFile` always returns an empty
  object, so that no repeated package is ever recognised.
- `ProcurementModule.tsx:476` keys a receipt by order line, and
  `receivePurchaseOrderItems` looks products up: received goods do not reach the stock.
- `dbRoutes.js:102` stores the absolute value of a movement's quantity.
- `useDbOperationsModule.ts:738` refuses a credit sale beyond the member's limit. A page
  that is left in the middle of a credit checkout forgets it; the next page starts
  another, both compare with the old balance, and the second one takes it beyond the
  limit.
- `PrivacyAccessibilityHub.tsx:3204` tells administrators to correct stock by an entry of
  the ledger, which moves row and movement together. The product's own correction form
  does not for a user without a branch: it changes the row of "B1"
  (`useDbProductsModule.ts:220`) and files its movement for no branch
  (`useDbOperationsModule.ts:339`).
- `importProducts` (`useDbProductsModule.ts:763`) sets stock rows without a movement, and
  writes back all the rows as they were at the click: stock sold during the import
  returns.
- The automatic closing gives a shift the midnight after its opening as closing time
  (`useDbOperationsModule.ts:1396`), while its totals count all sales until now: a
  report made later may show fewer.
- `transactionOutboxService.ts:393` breaks "to preserve FIFO ordering". A checkout that was
  refused or dead-lettered is passed by: its void is executed first, and when a reload or
  the retry button sends the checkout again, the sale is live on the server although the
  terminal has voided it.
- A reload shows the sales as the last poll stored them (`useDbSyncModule.ts:1120`): a sale
  made since is off the screen until the next poll, although its package is in the outbox.
- `authService.js:284` says "Enforce strict single-device concurrency", and
  `authMiddleware.js:144` that a refused request "belongs to a newer login". Two saves
  that interleave leave two sessions, or an older session that supersedes the newer.
- `extendSession` (`useDbAuthModule.ts:437`) posts to `/api/auth/session`, which the
  server takes for a logout (`authRoutes.js:481`).
- The logout of a superseded terminal deletes the newer session too, because the
  statement names the user as well.

## 7. Not modelled

- Outbox: two tabs over one storage key; the content of packages; the
  exponential backoff that the header announces, which the code does not have.
- Degraded store: a log line torn by a crash (the loader skips lines it cannot parse);
  `saveKeyToStore`, which writes collections and queues nothing; writes by `pos_sale`,
  whose route is shadowed by the sales router. In degraded mode the full-database
  cache and the session list come from the AlaSQL mirror, a disposable copy.
- Point of sale: scanning, discounts, points, receipts, fulfilment, floor staff's
  quotations. `createProductReturn` changes no stock and nothing calls it.
- Documents: deliveries (kept by the terminal alone, and reconciled with the sales by
  an effect of `DeliveriesModule.tsx`), transmittals, expenses, bills, edits of members
  (their credit limit and suspension too), and of the catalogue but for its stock. A
  new product brings its own row and has no history.
- Terminals: the buttons that remove packages from the outbox, which `Outbox` has;
  the three-way merge of shift rows, the other collections, which are
  replaced like a stock row without an entry, and outages of MySQL, which
  `DegradedStore` has.
- Sessions: the expiry a save writes is any (the code's is the one it read, or a later
  one); passwords, tokens, attempt limits, administrators' rows, which are
  independent of each other, and the answers in degraded mode.
- CDC and the sync worker: they are there, but no client uses them.
- The sockets, backups, service worker, pages and scripts: I/O and presentation.

The repository is large and most of it is presentation, so the share of its lines that
the models stand for is small, about four percent; it is the part that decides whether a
sale is recorded, counted, delivered and seen.

## 8. Plan

1. Shift rows across terminals: the merge of `useDbSyncModule.ts:1188` with late
   checkout packages and force-closed shifts.
2. `Store` under hydration: what a poll does to documents that were never sent.
3. Two tabs over one storage key of the outbox.
4. Deliveries with their reconciliation.
5. An end-to-end statement over two `DurableQueue`s in a row: a transaction is in the
   browser, in the server's queue or in MySQL.
