# A TLA+ verification of the qddxp card shop

qddxp sells digital cards. A customer picks a product, the backend (Rust, axum,
diesel-async on PostgreSQL) reserves one unit of stock for a few minutes, the
customer pays through ePay or WeChat Pay, and the unit's content is delivered.
The project in this directory models the parts of it in which order matters:
transactions that meet at the same rows, notifications that are late, repeated
or lost, workers that act on what they read before, requests that die half way,
and restarts.

Paths below are relative to the repository's root; `service.rs`,
`expiration.rs`, `public.rs`, `admin.rs`, `epay.rs` and `wechatpay.rs` are files
of `srv/src/payments` and `srv/src/http/routes`, `up.sql` is the migration.

## 1. The system and its components

| Component | State it keeps | Operations | Modelled in |
|---|---|---|---|
| Database core (`up.sql`, transactions of `service.rs`, `expiration.rs`, `public.rs`, `admin.rs`) | `product_info`, `products`, `orders`, `payment_attempts`, `payment_events` | create/edit definitions and stock, order, publish, fail, confirm, expire | `OrderDb`, abstract: `Sale` |
| Checkout handler (`public.rs:355-799`) | how far each request got | order transaction, remote prepay, publication or refusal, remote close | `Checkout` |
| Payment notifications (`epay.rs`, `wechatpay.rs`) | - (the event table) | check, read the amount, `confirm_payment`, log, answer | `NotifyCalls`, with the workers `Checkout` (`Notified`); signatures not modelled |
| Expiration workers (`expiration.rs`) | the batch a worker is on | scan, query, close, apply, expire, defer | `Checkout`, the rotation `WxBatch` |
| Telegram (`notifications/mod.rs`) | - (detached tasks) | spawn one message per order and per payment | `Checkout` (`owed`, `told`) |
| Connection pool (`db/pool.rs`) | idle and busy connections, waiters | get, return, time out | `ConnectionPool` |
| Row locks inside a transaction (PostgreSQL, as the transactions use it) | rows and unique keys each session holds | statements with `FOR UPDATE`, `SKIP LOCKED`, unique keys, commit, abort | `Transactions` |
| Public queries (`public.rs:181-353, 801-978`) | - | product lists, order lookup | `Views`; single reads not modelled |
| Admin API (`admin.rs`) | rows of the tables above, announcement | lists, remarks, masks | writes of stock in `OrderDb` and `Transactions`; lists and remarks not modelled |
| Admin session (`admin_auth.rs`, `security.rs`) | session store | login, status, logout | not modelled: the session library's |
| Captcha (`captcha.rs`) | challenge cache | issue, verify once | `CheckoutPage` |
| Rate limit (`rate_limit.rs`) | counters per address | which address a request is counted under | not modelled: a library's counters, stateless parsing |
| Money and signatures (`epay.rs:354-437`) | - | cents to text and back, sorted parameters | `Money`; signatures not modelled |
| WeChat client (`payments/wechatpay.rs`) | certificates | prepay, query, close, decrypt | not modelled: its results are inputs |
| Customer web client (`web/src/App.tsx`) | React state, timers, requests under way | captcha, order, poll, leave; lists, order query | the checkout page: `CheckoutPage`; the rest not modelled |
| Admin web client (`web/src/AdminApp.tsx`) | React state, requests under way | forms, lists | not modelled |
| Backups (`deploy/infra/pgbackrest`) | marker files, the repository | schedule, retry, restore | `Backup`; restore not modelled |
| Configuration, start-up, logging, errors, build | - | - | not modelled: wiring without state |

How they interact. `create_order` commits the order, spawns a Telegram message,
prepares the payment at the provider *outside* any transaction, and publishes
the entry in a second transaction that looks at the rows again. The provider
calls the notification handler back, as often as it likes. The two workers read
candidates in one query and then treat them one by one; for WeChat they ask and
close the remote order first. Handlers and the WeChat worker both end in
`confirm_payment`. All of them meet only in the database (locks in the order
attempt, order, product), at WeChat, and at the connection pool.

What is hard: two processes at the same unit of stock; a state read, a remote
call, and then a write; the customer paying between the worker's query and its
close; a prepay request that WeChat sees only after it said "no such order";
ePay callbacks that race the scan at the deadline; repeated and lost
notifications; a process that stops between two transactions. The `hazards` of
`PROJECT.json` list these at their lines, with the properties that catch them.

What makes each component correct:

* database core: no unit is promised twice or lost; order, attempt and event
  tables agree; settled rows never change; every transaction is a step of the
  abstract sale;
* checkout and workers: WeChat money never meets an expired order, an entry the
  customer can pay with is backed by stock, no reservation lasts for ever, paid
  orders are delivered or at least booked;
* notifications: a report of a payment is answered with success only when the payment
  is booked (ePay's reports of other trade states are acknowledged with nothing to
  book, `epay.rs:175-182`), what is booked is the full price, a full payment is
  acknowledged in the end; one Telegram message per payment;
* rotation of the WeChat worker: orders that can never be ended do not keep others
  from their turn;
* row locks: the transactions behave as if they ran alone, and do not wait for each
  other in a circle;
* pool: nobody waits for ever, and nobody keeps a row while waiting for it;
* captchas and the checkout page: a challenge passes once and goes with its own
  picture, no answer that has been overtaken takes the customer anywhere;
* views show what the tables say and never a card that is not paid;
* backups: each period is backed up although the scheduler was down.

## 2. The modules

`Sale` is the promise, 60 lines: an order opens on an item nobody holds and is
either sold, in the step that books its money, or lapses and gives the item
back; money that comes too late is recorded and buys nothing.

`OrderDb` holds the five tables as functions from keys to rows ("absent" is a
row not inserted yet; an order and its only attempt share a key) and a clock.
One action is one *committed* transaction with all its statements:

| Action | Code |
|---|---|
| `CreateProductInfo`, `UpdateProductInfo`, `UpdateProductInfoActive` | `admin.rs:254-403` |
| `CreateProduct` (ON CONFLICT DO NOTHING), `UpdateProductStatus` (filtered UPDATE) | `admin.rs:448-597` |
| `CreateOrder(o, p, provider, at)` | the transaction of `create_order`, `public.rs:477-574` |
| `PublishReady(o, at)`, `MarkFailed(o)` | `public.rs:699-799` |
| `RepeatPayment`, `RecordAfterExpiry`, `ApplyPayment` | the branches of `confirm_payment`, `service.rs:42-261` |
| `ExpireReserved` | `expire_reserved_attempt`, `expiration.rs:324-414` |

`at` is the clock as the transaction read it, at any time before its commit:
`expires_at` is computed from it, and the publication compares the deadline with
it. A rolled back transaction changes nothing and is no step. `CheckConstraints` are
the CHECK constraints of the migration: a transaction that broke one would be
aborted, so that keeping them is a property of the code. The unique keys the
code relies on are guards (`TxnFree`) or follow (`EventRows`). Who calls the
transactions is left open, so that what holds here holds whatever the callers
do: confirmations are any the handlers can build (`Genuine`), at any time, any
number of times.

`Transactions` takes `OrderDb`'s transactions apart. `txn[s]` is what database
session `s` is doing (the kind of transaction, its next step and what it has
read), `held[s]` the rows and unique keys it has locked. A step takes one lock,
looks at the row as it is once the lock is there (READ COMMITTED looks again
after a wait), and goes on or rolls back; writes reach the tables at the commit,
which also releases the locks; the tables therefore are the committed state, and
`Atomic` says that they change as `OrderDb` says. `SKIP LOCKED` sees only units
nobody holds; an INSERT that meets the key of a running transaction waits for it
(`UNIQUE` of `payment_events`, `payment_attempts` and `products`); the rows of a
bulk INSERT or UPDATE are visited one by one in any order, and a row the UPDATE
waited for stays locked even when it no longer matches. UPDATEs outside a
transaction wait for the row and hold nothing (`SingleStatement`). Any
transaction may be aborted at any step: a lost connection, a request dropped, or
PostgreSQL's choice of a deadlock victim. There are no foreign keys (`up.sql:29`),
so that no other locks exist.

`Checkout` extends `OrderDb` with the callers. `pc[o]` is the station of the
request that makes order `o`, `entry[o]` whether the customer was given
something to pay with, `remote[o]` the provider's side, `work[o]` what the
worker does next with `o`, `owed` and `told` the notifications. The stock is
there from the start and the administrator idle, because `OrderDb` already
interleaves the administrator with every transaction. A handler may be dropped
at any await (`RequestDropped`: axum drops the future when the client
disconnects, and `?` leaves it when no connection is free), any answer of WeChat
may be lost, with or without the close having taken effect, and the backend may
restart. The publication has two steps: `Recheck` looks at the
rows and at the clock with the attempt and the order locked, `Publish` commits,
and time may pass in between; until then the worker and the notifications wait
(`Locked`). ePay has no remote order before it is paid, and no deadline; WeChat's
`time_expire` is not relied on. `OwnerRefunds` is the one thing the owner can do
behind the shop's back before the payment is booked: WeChat then answers REFUND.

`Views` extends `OrderDb` with clients that read. A query is a sequence of SELECTs
with `OrderDb`'s transactions in between: `QueryOrder` reads order and attempt in
one, `QueryContent` the unit if the order is delivered; `GetProduct`,
`CountStock` and `CountSold` are the three of a product's page (the list does the
same for each product of its page). `shown` keeps the last answer about each
order and definition, to compare it with what the tables say later: of a count the
units or orders that were counted, of which the code answers the number.

`Backup` is the scheduler script: `job` is where its loop stands, `full` and
`daily` are its marker files, `repo` the backups pgBackRest completed. `BeginCheck`
reads today's date, `EndCheck` the rest: midnight may pass between any two calls of
`date` (`Reads`). Every command may fail (`|| true` switches off `set -e` in
`run_backup`, so that a marker which cannot be written does not end it), the
container may stop anywhere; `found` is what the search for `full-*` sees, which
includes the temporary file of a marker. A day is two ticks, before and after the
scheduled hour.

`WxBatch` is the WeChat worker's rotation. `waiting` are the unfinished attempts
and `older` their order by `updated_at`: a write of the column moves a row behind
all others (`Touched`). `Scan` takes the first `BatchSize` expired ones
(`FirstRows`), `Spawn` starts a task when one of
the `MaxConcurrency` places is free, and a task ends in `Settle`, `Defer` or, when
the deferral fails too, `DeferFails`. `Stuck` attempts are those the provider never
lets the worker end; `overtaken` is a history variable, which counts for one
`Watched` attempt how often each other one was deferred since it waits.

`ConnectionPool` is who holds which connection while waiting for what. A call of
`create_order` gets a connection for its order transaction, keeps it to the end
of the handler (`public.rs:477`) and asks for a second one to publish or to mark
failed; every other call gets one and returns it. Transactions are reduced to one
row they lock, because their row locks are the subject of `Transactions`. `get`
gives up after the pool's timeout (`TimeOut`), and a handler may be dropped
wherever it waits (`Dropped`).

`Money` holds ePay's conversions between cents and text as operators. A text is
what the parser tells apart: whether there is anything before the point, the
number there and its minus, and how many digits follow with which value and which
sign before them (`i64::parse` takes a sign on either side of the point); `Wrap` is
`i64` arithmetic of a release build. `Denotes` is the reference: what a text means.

`NotifyCalls` extends `OrderDb` and `Money` with the two notification handlers.
`call[k]` is the station of one running call: `Receive`, `Validate` (which reads
ePay's `paid_at` from the clock), `Book` (`confirm_payment`), `Record` (the log
row), `Answer`, and a failure of each; `bill[o]` is what was paid, in which
notation, when; `logged` and `acked` are the messages with a success row and a
success answer. Several calls may work on the same message. ePay's gateway may take
any amount, WeChat's only the one of the entry.

`CheckoutPage` is one visit of the checkout page together with the captcha store:
`fetches`, `post` and `polls` are the requests under way, each with what its
continuation will ask when the answer comes (is it the latest, does its effect
still run); `live` are the challenges in the store, `passes` how often each was
accepted, `last` is a history of the order whose creation was answered last (not the
storage key, which `handleCreated` writes again on every entry). What React sets
shows at a rendering: where an order arrives that is a step of its own (`Render`),
because the poll of the code shown before still runs until its effect is cleaned up.
Requests are answered in any order, or fail after they had their effect; a challenge may be forgotten at any time (age,
capacity, restart) and may also be submitted by somebody who repeats a request
(`Repeat`).

The modules with the prefix `MC` give the constants values; `OrderDbProofs`,
`CheckoutProofs`, `TransactionsProofs`, `ViewsProofs`, `ConnectionPoolProofs`,
`NotifyProofs` (with `Money`), `CheckoutPageProofs` and `SchedulerProofs` (`Backup`
and `WxBatch`) hold the proofs. Operators marked "Mutant" are no part of the
model: each is the plausible bug that the property named in `PROJECT.json` has
to catch.

Abstractions. Ids are model values; texts, hashes, snapshots of names and
timestamps other than `expires_at` and `paid_at` are left out; the clock of the
backend and of PostgreSQL is one; a request's validation before its transaction
does not appear; in `Checkout` a batch of the WeChat worker takes every candidate at
once, and what the limit of 20 per minute does is the question of `WxBatch`; in
`NotifyCalls` the WeChat worker expires what is not paid, and how it knows is the
question of `Checkout`; in `CheckoutPage` there is stock and a payment method, the
other fields of the form are valid, a redirect leaves the page at once, React renders
in the step that sets its state but for an order's arrival, and ids nothing refers to
any more are used again; a checkout commits at most `MaxLag` ticks after it computed the deadline; an order is placed in
`Checkout` only when its deadline lies within the bounded clock.

## 3. What the runs check

| Run | Instance | What it shows |
|---|---|---|
| `order_db` | 1 definition, 2 units, 2 orders, 2 prices, 2 transaction numbers, 2 events, clock 0..2, holds of 1 (ePay) and 2 (WeChat): about 123,000 states up to symmetry | the tables stay consistent under every interleaving of administrator, checkout, confirmation and expiration, and implement `Sale` |
| `transactions` | 2 sessions, 1 unit, 2 orders, 2 prices, 6 confirmations (in time, repeated with another event, late, with keys that collide), clock 0..2: about 652,000 states up to symmetry | the statements and locks of every transaction implement `OrderDb` (`Atomic`), what was read and is still relied on holds until the commit (`TransactionsInv`), no circle of waiting sessions |
| `lock_order` | 3 sessions, 2 units, 1 order, 1 confirmation, clock 0..1: about 477,000 states | the same with longer circles and bulk edits over several units; two bulk edits may deadlock, nothing else |
| `checkout` | 2 units, 2 orders, clock 0..2, 1 restart, lag 1: about 226,000 states | the callers' safety: `WechatPaidNeverExpired`, `OpenEntryIsBacked`, `NotifiedAtMostOnce`, and that nothing but `OrderDb`'s transactions happens to the tables |
| `checkout_live` | 1 unit, 2 orders (the second needs the unit the first lets go), 1 restart, lag 0: about 31,000 states | reservations end, WeChat's money is delivered, ePay's is booked |
| `views` | 1 definition, 2 units, 2 orders, 1 client, 1 transaction number and event per provider, clock 0..1: about 380,600 states up to symmetry | every answer about an order is true at one moment (`ViewsInv`), contents go to one order, no answer offers a unit whose sale an earlier one counted |
| `backup` | weeks of 3 days, the first begins in its second day, clock 0..5 (days 0 to 2, a new week on day 2), 1 stop: about 53,000 states | markers stand for completed backups (`BackupInv`), a differential backup follows a full one of its week, the period that is due gets its backup |
| `rotation` | 1 order that can be ended and 2 that never can, batches of 2, 2 tasks, 1 restart: about 63,000 states | fair turns (`RotationInv`); the order that can be ended is ended |
| `pool` | 2 connections, 2 checkouts, 2 other calls, 2 rows: about 43,000 states | nobody holds a row while waiting for the pool or the gateway, only checkouts can empty the pool for good, every call ends |
| `notify` | 1 order, 2 calls at a time, 4 notations of which two mean the price and can be read, clock 0..2: about 92,500 states | success reported means booked, booked means paid in full, a full payment is acknowledged |
| `checkout_page` | 3 challenges, 2 orders, 2 refreshes and 2 polls under way: about 411,400 states up to symmetry | a challenge passes once and with its own picture, a spent picture is replaced, no late poll leads to an earlier order once the newer one is rendered |
| `late_money` (violation) | 1 unit, 1 order | the finding of section 5 |

The type invariants are checked as conjuncts of the inductive invariants `IInv`,
`CheckoutInv`, `TransactionsInv`, `ViewsInv`, `BackupInv`, `RotationInv`, `PoolInv`,
`NotifyInv` and `PageInv`.

Bounds. Two orders and two units are what the properties speak of: a unit held
twice needs two orders, a lost one none; a transaction number used twice needs
two orders; three would add no new kind of conflict, and the theorems below hold
for any number. Two sessions are what a conflict over a row needs, a third makes
the longest circle that a unit, an order and an attempt can close. `transactions`
has one unit: with two the same interleavings come at ten times the states, and
`lock_order` has them with one order and one price, since locks do not depend on
amounts. Two prices let a definition's price change between
order and payment. The clock needs three values: before, at and after a
deadline. One restart can hit every station of a request and of a worker. Clients of `views`
do not touch the tables, so that two of them show nothing one does not; its two units
can both be sold, one be sold while the other is counted, or one be let go and ordered
again, and with one transaction number per provider each order can be paid. Three days hold the end of a
week, its first day and a missed day. In `rotation` the two stuck orders fill a
whole batch, which is all they need to keep a third one out; with three attempts
the limit of two tasks lets every batch run at once or in turns. In `pool` two checkouts are as many as
connections, so that they can take the whole pool and then ask for more, while the
other two calls wait for a connection or hold a row. In `notify` two calls overlap
on one message; that payments of different orders do not meet is in
`PaymentLedger` for two orders and proved in `NotifyProofs` for any number. In
`checkout_page` two refreshes can cross while a third picture is shown, and polls
of one order can outlast the code of the next. The
symmetry permutes orders and units, in `order_db` also transaction numbers
and events, in `transactions` and `lock_order` also sessions; it is not used with
liveness. The bounded clock
stops `Checkout` when everything is settled, so its configurations do not check
for deadlock; `OrderDb` always has an administrator's action left and does. In the same
way `rotation` stops when every attempt is gone, `notify` when its clock and its
messages are done, and `checkout_page` when the customer has left and everything is
answered.

Fairness of `checkout_live`. The clock runs; the interval timers of
`expiration.rs:56-78` fire for ever and each batch is worked off (weak fairness
of the scans and of `Worker(o)`); a query, a close and a worker's transaction
that is tried in batch after batch succeeds some time (strong fairness, because
failures may come in between); a publication that holds its locks ends, by its
commit or by the end of its request (PostgreSQL ends the transaction with the
connection); ePay repeats its notification until it is answered
with success, as its protocol says and `epay.rs:121-216` relies on. *Nothing* is
assumed of customers, handlers or WeChat's notifications: they may all be lost.
That a restart is followed by another start is the container's restart policy.

Fairness of `backup`. The container is restarted (`restart: unless-stopped` in
`deploy/compose.yml`), the loop goes on, and a backup or a marker that is tried
again and again succeeds some time. The clock is *not* fair: `CatchUp` asks for the
backup as long as its day lasts. A day that ended without its backup is not made
up for, nor does the code say so: the periods are the current day and week. The
script stops of itself only with its container, and the bounded clock stops the
model when all is done, so that the run does not check for deadlock.

Fairness of `rotation`. The interval ticks and the loop over a batch goes on (weak
fairness); a task ends because its HTTP calls have timeouts, and one that gets its
turn again and again does not fail each time: it settles an attempt the provider
can end, it defers one the provider cannot (strong fairness). Nothing is assumed of
checkouts, notifications or the clock.

Fairness of `pool`. `get` and the HTTP client have timeouts and statements end (weak
fairness of each step); PostgreSQL grants a row lock in the order of the requests
(strong fairness of `LockRow`). That the pool hands a connection to a given waiter
is *not* assumed: `EveryCallEnds` says that a call ends, perhaps with an error.

Fairness of `notify`. The provider repeats a message until it has the success
answer, and each step of a success message, in whichever call, does not fail every
time it is tried (strong fairness); a call that has nothing to book ends (weak
fairness). Customers, clock, publication and expiration are not fair. The ends of
the providers' patience (WeChat repeats for a day) are left out.

`checkout_page` states no fairness: the customer may sit and wait.

`ReservationEnds` and `WechatPaidIsDelivered` except an order refunded on
WeChat's site before the shop booked its payment: its query answers REFUND, its
close is refused, and the order is deferred in every batch
(`expiration.rs:190-225`). The unit stays reserved until somebody edits the
database. No document promises otherwise; it is listed as a hazard.

## 4. What is proved

`OrderDbProofs` proves, for every set of definitions, units, orders, prices,
transaction numbers and event ids and every clock bound, from the assumptions
stated in `OrderDb` (None is no member of those sets, every unit has a
definition, prices are natural numbers, holds last at least one tick):

* `Invariance`: `Spec => []IInv`. None of the properties is inductive alone.
  That a unit is held by one order needs that two orders never hold one unit and
  that the unit of an order has the status of the order; that late money buys
  nothing needs that attempts have the provider they were made for; that an
  order can always settle needs all of `Holding`. `IInv` is their conjunction;
* `TypeCorrect`, `InventoryOwned`, `PendingSettles`, `LifecyclesCohere`,
  `LedgerSound`, `DeadlineDecides`: the invariants of the run, from `IInv`;
* `ReservationKept`, `SettledStays`: the action properties;
* `Implements`: the refinement, `Spec => Lifecycle`.

`CheckoutProofs` does the same for `Checkout`, in addition for every number of
restarts: `CheckoutInvariance` (`CheckoutSpec => []CheckoutInv`),
`TransactionsOnly`, `CheckoutTypes`, `PaidIsKept`, `EntriesAreBacked`,
`ToldOnce`, and `CheckoutImplements`: the whole checkout implements `Sale`. The
argument is the deadline: entries are published before it only and the worker has
business with an order after it only (`Agreed`), so that when the worker is about
to release a WeChat order, either WeChat has closed it or nobody ever got an
entry for it and nobody will. The proofs go order by order: `Untouched` says
that an order nothing of which changes stays sound while time passes, and each
action answers for the one order it is about (`OneOrder`). `IInv` is taken from
`OrderDbProofs` by `TransactionStep`.

`ConnectionPoolProofs` proves `PoolInvariance` (`Spec => []PoolInv`) and
`GridlockOfCheckouts` for every pool size and every number of calls and rows, from
`PoolAssumption` alone. A call that can take no step without a connection either
waits for the pool, and then holds one only as a checkout at its second request,
or waits for a row, and then the row's holder can go on and holds a connection too.

`NotifyProofs` proves `NotifyInvariance` (`NotifySpec => []NotifyInv`) and
`FullPaymentsOnly` (`[]BookedIsFullPayment`) for every number of orders, calls and
notations, from the assumptions of `OrderDb`, `NotifyAssumption` and
`NotationAssumption` (amounts are written without a sign and are within `i64`). What a handler read at one step it
uses at a later one, with any transaction of any other call in between: the
argument is that a bill, an order's amount and a booked payment never change
(`BillsStand`, `CallsStand`), transaction by transaction. `IInv` comes from
`OrderDbProofs`. Because every step of a call is a transaction of `OrderDb` or
leaves the tables alone (`StepMoves`, `MoveIsStep`), the calls implement `Sale`
(`NotifyImplements`). The module begins with the amounts: `RoundTrip` (what
`format_money` writes, `money_to_cents` reads back) for every amount from 0 to
`i64::MAX`, and `ReadExactly`, which says of *every* text `money_to_cents` accepts
whether it is read as what it means. It is not always: with a sign after the point
("1.-5" reads as 95), with a minus before an amount that has a fraction ("-0.50" reads
as 50, "-1.50" as -50), and beyond `i64`, where the arithmetic wraps, it is misread,
and in no other case. A payment's amount has no sign, and no document says what is
to be done with one, so `NotationAssumption` keeps such texts out of `NotifyCalls`;
what is shown of payments there speaks of unsigned amounts. The one
assumption on `MaxMoney` is that it holds any fraction (`MoneyAssumption`).

`CheckoutPageProofs` proves `PageInvariance` (`Spec => []PageInv`), `ChallengesPassOnce`,
`PicturesAreFresh` and `GoesThere` (`GoesToLastOrder`) for every number of challenges,
orders and requests under way. What a request may still do to the page follows
from when it was sent: only the latest refresh can show its picture
(`FetchesApart`), only polls of the code shown are listened to (`CodeIsLast`). Between
the arrival of an order and its rendering the code of the one before is still shown
and polled (`RenderEffect`): only in that gap may the page go to an order that is
not the last, and it does so only for the code it shows.

`TransactionsProofs` proves for any number of sessions, units, orders and
confirmations, from the assumptions of `OrderDb`:

* `ReadsStay` (`TransactionsSpec => []TransactionsInv`): what a transaction has read
  and will rely on is true until it ends. A commit writes only rows its own session
  has locked (`WritesOwn`), so that whatever others read under *their* locks stays
  as it was (`OthersStand`). What a transaction relies on without a lock is little
  and lasting: a row that exists does not go away, the amount of an order and the
  definition of a unit never change, the id of a new order is nobody else's;
* `AtomicCommits`, `ImplementsOrderDb`, `ImplementsSale`: at its commit the
  transaction therefore finds the guards of `OrderDb`'s action true, and the tables
  change by that action. All safety theorems of `OrderDbProofs` so hold for the
  interleaved statements;
* `DeadlockFree` (`[]NoDeadlock`): each transaction holds only rows that come before
  the one it asks for in one order of all rows and keys (`LocksInOrder`); only a
  bulk edit, which visits rows in any order, can be part of a circle, and then
  with another bulk edit of its kind.

`ViewsProofs` proves `ShownWhole` (`ViewsSpec => []ViewsInv`), `ShownOnce` and
`NeverOffered` (`SoldNotOffered`) for any number of clients, orders and units; it
needs that no order has the name of a definition (`PagesAssumption`). What a query has read of an order is final or not shown: a
settled order never changes (`SettledStep` of `OrderDbProofs`), and a pending one is
shown without payment and content. The counts need more than
their values, namely what was counted: a unit whose sale was counted has been
delivered and is available to nobody ever after (`SoldIsGone`), and a delivered order
stays delivered (`SalesStay`), so that the numbers answered never offer what an earlier
answer counted as sold, however many units there are.

`SchedulerProofs` has the two jobs that run by the clock. For `Backup`: `MarkersKept`
(`BackupSpec => []BackupInv`) and `ChainKept` (`ChainRestorable`), for weeks of any
length that begin on any weekday and any number of stops. The name of a week is
computed from a day and a weekday that may have been read on two sides of midnight;
`FirstDay` shows by the arithmetic of `%` that a name made of two weekdays is never
the first day of a week, so that no week is marked by the backup of another. `JobEarned`
carries what a plan knew to the moment its markers are written. For `WxBatch`:
`FairRotation` (`Spec => []RotationInv`), for any number of attempts, of which any may
be stuck, any batch and any number of tasks, whatever fails and restarts.
`TurnsAreFair` is not inductive: that an attempt is not deferred a second time needs
that after the first it is behind the one that waits, in the table *and* in the rows
of the scan at work (`Behind`), that a row has one task (`OneTask`), and that
`updated_at` orders the table (`InOneOrder`); a scan then never takes the later one
without the earlier one before it (`OlderFirst`).

Every safety property of the passing runs is proved, each invariant and each action
property. Only model-checked are the liveness properties (`ReservationEnds`,
`WechatPaidIsDelivered`, `EpayPaidIsBooked`, `CatchUp`, `EveryExpiredOrderEnds`,
`EveryCallEnds`, `FullPaymentIsAcked`): fairness and ENABLED are beyond the prover.
So is the disagreement of section 5, which is a counterexample.

## 5. Findings

* `late_money`: `service.rs:37` and `README.md:26` say that money recorded
  for an expired order came after the deadline. The code also records money so
  that came in time: a callback reads `paid_at` (`epay.rs:346`), waits for a
  connection or for the row locks, and finds the order expired by the scan. The
  customer paid in time, was called back in time, and gets nothing.

An observation without a run, because it depends on how one reads the sentence:
`App.tsx:1010` promises that the page enters the order by itself once the payment is
confirmed, but the polls stop hard at the deadline (`App.tsx:750-781`). A payment
confirmed after the last poll is found only when the customer closes the code.

## 6. Plan

Done: `Sale`, `OrderDb`, `Transactions`, `Checkout`, `Views`, `Backup`, `WxBatch`,
`ConnectionPool`, `Money`, `NotifyCalls`, `CheckoutPage`, and the proofs of their
safety properties. Next, all of it proof:

1. what a fair step brings about, as step lemmas below the liveness properties: a
   scan makes every expired order work, a worker's successful transaction settles
   its order, a reservation's way to its end never turns back (the wait for the
   steps themselves stays with TLC);
2. `Checkout` and `NotifyCalls` over `Transactions` instead of `OrderDb`'s atomic
   transactions: `ImplementsOrderDb` says that nothing new can happen to the tables,
   a composition would say it of the callers too.

Not modelled, and why:

* admin lists, remarks, announcement: reads of one or two statements, and writes of
  single columns no other transaction reads;
* the list of a contact's orders and the payment methods: single reads; pagination:
  one line of plain `i64` arithmetic without state (`pagination.rs:31`; in a release
  build it wraps for a page near the end of `i64`);
* admin session: login, idle expiry and logout are tower-sessions' with its
  in-memory store, the code adds one flag that is set and removed;
* rate limiting: the counters are a library's, the code's own part parses headers
  and addresses without state;
* WeChat client: HTTP and cryptography; what it may answer is an input of `Checkout`;
  signatures and URL encoding of ePay: pure string work, a choice between accepted
  and refused in `NotifyCalls`;
* list loaders of both web clients, the order query page, toasts, the admin forms:
  the lists show whichever answer comes last, without a guard and without a promise
  that could be checked; the rest are single requests;
* restore script: a sequence of checks (nothing answers as PostgreSQL, the data
  directory is empty) before one command, run by an operator with the system stopped;
* Telegram's rendering, configuration parsing, routing, logging, styling, build and
  deployment files: no state in which order matters.
