# Formal model of the flash-sale engine

TLA+ models of the program in `src/`: a FastAPI service that sells a limited
stock in a flash sale, with three interchangeable checkout strategies, an
idempotency layer, a virtual waiting room with an admission door, adaptive
admission control, and Stripe payments; and of the programs around it, which
buy from it, seed it, judge it and demonstrate on it. The models are translated
from the code and checked with TLC on small instances; every invariant and action
property the runs check is proved with TLAPS for every value of the constants.

`PROJECT.json` lists the components, the runs, the mutants that show each
property can fail, the source lines of every definition, the disagreements
found between the code and what it says of itself, the hazards, and the
theorems.

    tlc -config Checkout.cfg MCCheckout.tla         one run
    tlapm Checkout_proofs.tla                       the proofs

## 1. Inventory

### The system

A buyer joins the waiting room (`queue.py`), polls until the admission worker
grants a token, and posts to `/checkout/<strategy>` with that token and an
`Idempotency-Key`. The request passes, from the outside in:

    SaleWindow middleware   app/salewindow.py   only while the sale is open
    AdmissionMiddleware     app/admission.py    one claim per token (Lua, Redis)
      db_limiter.acquire    app/db_limiter.py   bounded number behind the door
      IdempotencyMiddleware app/idempotency.py  one handler run per key (Redis)
        checkout_<strategy> app/main.py         PostgreSQL row, or Redis counter

The confirmed order is paid through `/payment/create/{order}`; Stripe later
calls `/payment/webhook`, which settles the payment and releases the unit of a
declined order. An operator resets the sale with `/admin/reset-sale`, and runs
the scripts of `src/scripts` and the demonstrations of `src/app/demos` on the
same tables.

PostgreSQL and Redis are the only shared state. Several processes run the same
code (replicas behind a proxy, or serverless functions), so nothing in one
process's memory coordinates requests.

### Components, their state and operations

| Component | State | Operations | What makes it correct |
|---|---|---|---|
| Checkout handlers, reset (`main.py`, `models.py`) | `inventory` row (total, reserved, version), `orders`, Redis `stock:{sale}`, one open transaction per handler | `checkout_pessimistic`, `checkout_optimistic`, `checkout_redis`, `reset_sale` | SQL orders never exceed the stock; `reserved_stock` is their number; no unit invented; every request answered |
| Idempotency (`idempotency.py`) | Redis `idempotency:{key}`: absent, in progress, result | lookup, `_await_winner`, SET NX, publish or delete, expiry | one order per key; a try-again answer is not remembered; no key wedged |
| Admission door (`admission.py`) | Redis hash `admission:state:{token}`, the grant key | `_CLAIM_LUA`, `release`, validation, fail-open | one purchase and one buyer per admission; a claim always comes back |
| Payments (`payments.py`) | `payments` rows by (order, attempt), Stripe intents, the two stock counters | `create_payment`, `_upsert_payment`, `stripe_webhook`, `_release_reserved_unit` | a declined unit returns exactly once, to the counter it came from; no order charged twice |
| Waiting room (`queue.py`) | Redis sorted set per sale, grants, leader lease or tick lock | `join`, `queue_status`, `admit`, `_try_lead`, worker loop, serverless tick, `reset` | first come first served, one admission rate, nobody waits for ever |
| Claim window, stock view (`claim_window.py`, `stock_view.py`) | unresolved claims, statistics, mirror of the free units, sold-out notice | grant, notify, show, outcome, expire, refresh, tick, reset | a claim is counted once; nobody admitted in vain without a race; the mirror recovers |
| Show estimator (`show_estimator.py`) | clock starts, notifications, show delays | `censored_state`, posterior weights, budgets | young or untold buyers are not taken for no-shows; the budget is the largest that fits |
| Database limiter, pool (`db_limiter.py`, `database.py`) | Redis slot counter, local lines, 30 connections a replica | `acquire`, `release`, `publish`, `reset` | never above the limit; leaked slots heal; no self-deadlock on the pool |
| AIMD control (`admission_control.py`) | window, threshold, baseline, recorded seconds | `record`, `read_window`, `step` | no checkout costs two decreases; settles at the knee; no stale baseline |
| Sale window (`salewindow.py`) | cached start and end | refresher, refresh on request, answer | no answer by times that changed long ago |
| Start-up (`main.py`, `migrate.py`) | the schema | `create_all`, `migrate.run` | a start leaves the schema whole |
| Demonstrations (`app/demos`) | one sale's row, lock tables, timestamps, a log | ten scripts | the textbook property each shows |
| Forecast, bot scoring (`app/ml`) | training rows, cached forecast; flags | train, serve; score, flag | no look-ahead; no order left half flagged |
| Client programs (`api.js`, k6, chaos harness, benchmarks) | their attempts and what they wrote down | queue, poll, post, retry, report | reports match the orders there are |
| Seed scripts, payment verifier, admission pilot | their own rows; responses; simulated buyers | purge, upsert; create, search; simulate | own rows only; right verdicts; nobody admitted in vain |
| Read endpoints, metrics, tracing, configuration, reports | - | - | no decision depends on them |

### What is hard here

* **Interleaving.** Every Redis command, SQL statement and `await` is a point
  where another request runs; the three strategies share one sale but not one
  protocol.
* **Partial failure.** A process can die, or Redis can be lost, between any two
  steps. PostgreSQL rolls back; Redis does not.
* **Ambiguous outcomes.** A commit may be applied and its acknowledgement lost.
* **Retries.** Clients repeat taps with the same key, Stripe repeats events.
* **Copies that age.** The free-unit mirror, the cached sale window, the latency
  baseline and the value demo_7 logged are read long after they were written.
* **Operators.** A reset, a seed script or a demonstration runs while buyers do.

The hazards, each at its line and with the properties that guard against it,
are in `PROJECT.json`.

## 2. Modules

    StockLedger            what a checkout strategy promises (abstract)
      ^ refined by
    Checkout               the three handlers and the reset   (Checkout_proofs)
    Idempotency            the idempotency middleware around a handler
      ^ extended by
    AdmissionDoor          the door in front of Idempotency (composition)
                                                (both: AdmissionDoor_proofs)
    Payments               create, webhook, release         (Payments_proofs)
    WaitingRoom            join, status, admission workers, lease, serverless
                           tick, reset                      (WaitingRoom_proofs)
    ClaimWindow            budget, claims, mirror, notice, and the poll
                                                         (ClaimWindow_proofs)
    Gate                   the limiter's slots and the connection pool
                                                                (Gate_proofs)
    Aimd, ShowEstimator, SaleWindow, BuyingDemos, WoundWait,
    TimestampOrdering, LockDemos                            (Programs_proofs)
    BuyerClients, Pilot, Forecast, PaymentVerify, Maintenance,
    Migrations                                               (Scripts_proofs)

Each of the first seven has an MC module and a run of its own. `MCPrograms` and
`MCScripts` put the smaller ones side by side: a behaviour chooses one
`program`, which moves while the others rest in one start state, so that one run
has the union of their state spaces, not the product.

### Checkout

A step is one round trip to PostgreSQL or Redis. `row` is the committed
`inventory` row and `draft` the row as the transaction holding the row lock
(`lockedBy`) sees it; `seen` is what a plain SELECT returned; `counter` is
`stock:{sale}`, or `Missing`. `pc` names the statement a handler runs next.

| Code | Actions |
|---|---|
| `checkout_pessimistic` | `Begin`, `LockRow`, `PessimisticSoldOut`, `PessimisticUpdate`, `CommitOrder`, `InsertRefused`, `CommitRefused`, `CloseSession` |
| `checkout_optimistic` | `Begin`, `OptimisticSelect`, `OptimisticConflict`, `OptimisticRefused`, `OptimisticUpdate`, then as above |
| `checkout_redis` | `RedisExists`, `RedisSeedRead`, `RedisSeed`, `RedisDecr`, `RedisSoldOut`, `RedisStore`, `RedisStoreFails`, `RedisCompensate`, `RedisDown` |
| `reset_sale` | `ResetSql` (commit), `ResetRedis` (SET) |
| environment | `Crash`, `RedisRestart` |

PostgreSQL runs READ COMMITTED. A writer waits for the row lock and then
evaluates its WHERE on the committed row, so `OptimisticUpdate` needs the lock
free; a row whose committed version already differs is skipped without
waiting. The CHECK constraint `ck_inventory_no_oversell` is `CheckHolds`.
Rollback and crash discard `draft`; Redis commands stay done. `sold` is the
set of requests with a durable order in the current round; a reset empties it
because past orders no longer count against the new stock.

A commit whose acknowledgement is lost (`commit_ack_lost`) leaves the order and
answers an error; for the Redis handler it leads to compensation all the same.
A Redis call that raises (`redis_down`) may or may not have been executed.

`StockLedger` states the promise without locks, versions or counters: a unit is
held, then sold or given back; "sold out" is said only when nothing is left.
`Checkout!SqlLedger` maps `capacity` to `row.total` and `held` to the requests
between their UPDATE and the end of their transaction; the Redis buyers are
invisible to it.

### Idempotency

`slot` is `idempotency:{key}`; `pc` distinguishes the two waits of `dispatch`:
`await` (the first GET found a marker) and `wait` (SET NX lost). A key found
gone leads to SET NX from the first and to the handler from the second, which
is what the code does ("Winner vanished; fall through and execute"). The
handler is one step with one of `Outcomes`; its order id is the request itself.
`IsCacheable` is the code's rule on statuses. Waiting ends with 409 after
`WAIT_TIMEOUT_S`, and a marker disappears after `RESERVATION_TTL_S`; while the
winner is still running both need the fault `slow_handler`. Every Redis call
can fail the way the code lets it fail (`FailOpen`, `PollFails`,
`PublishLost`). The day a stored result lives is longer than any behaviour
considered.

### AdmissionDoor

Extends `Idempotency`: a request claims (`ClaimOk`), is let through as a replay
(`ClaimReplay`) or refused, passes the limiter, runs the idempotency layer and
the handler (`Inner`), and on the way out releases the claim (`Leave`,
`LimiterRefuses`). `state[t]` is the Redis hash, `grant` the live grants. The
claim script is atomic, as Lua scripts are. `claimed` remembers which requests
hold the claim: `release` is called only for those. A claim whose holder is
gone expires (`StateExpires`); that needs no request behind the door, since
`STATE_TTL_S` is longer than a checkout. A spent admission is kept for a day,
longer than any behaviour considered.

### Payments

Stripe is external. `intent[o, a]` is the result bound to the idempotency key
(order, attempt): the first call settles it, every later call is given the
same. An event can be delivered from then on, any number of times, to any
number of handlers at once, until Stripe has received a 2xx (`acked`), and
again later. `_release_reserved_unit` is cut where the code reads, writes and
commits: `ReadReserved` (SELECT without a lock), `ReleaseRow` (UPDATE, audit
row and `stock_released_at` in one commit), `ReleaseCounter` (INCR, the stamp
being a later commit, `StampReleased`), `ReleaseNothing` (unknown strategy).
`released[o]` counts the units an order has given back.

`place` says whether an order counts in the current round. Checkout itself is
one step here (`Confirm`); its interleavings are `Checkout`'s subject.

### WaitingRoom

One sale, one step per Redis round trip; a pipeline (a MULTI/EXEC transaction)
is one step.

| Code | Actions |
|---|---|
| `join` | `JoinStamp` (`time.time()`), `JoinAdd` (ZADD) |
| `status` | `PollAdmitted` or `PollWaiting` (GET of the grant), then `PollRanked` or `PollGone` (ZRANK) |
| worker `loop`, `_try_lead`, `admit` | `TryLead`, `Pop` (ZPOPMIN), `Grant` (pipeline), `GrantFails` (swallowed exception) |
| serverless tick | the same from a poll, under a lock of one interval instead of the lease |
| `reset` | `ResetRead` (SMEMBERS), `ResetDelete` (pipeline), `ResetScan` (SCAN, DEL of the grants) |
| environment | a worker dies, `LeaseExpires`, `GrantExpires`, `TrackingExpires` |

`queue` with `score` is the sorted set, `grant` the grant keys, `live` the
admission keys and `tracked` the set `queue:tokens`, all named by queue token.
`hand[w]` is the batch a worker has popped and not granted. A worker asks for
the lease once per tick; `LeaseExpires` may strike between its ticks, and in
mid-tick with the fault `slow_tick`. `ahead[b]` are the buyers who had a place
before b's join began. The clock is the same for all replicas and strictly
increasing. A buyer told "admitted" or "gone" asks no more: later polls of an
admitted buyer only renew the two keys, which is `GrantExpires` not happening.
The scan of the grant keys is one step.

### ClaimWindow

The futility-aware window with count weighting and the sold-out notice. One
worker leads; its tick is `leader_tick` cut at its round trips (`TickCount`
takes the overdue claims off the set, `TickExpire` counts them, `TickRead`,
`TickPublish`) with the pop and the grants (`TickAdmit`). `TickFails` ends it
between any two: Redis raised, or the leader died and another replica goes on; the
claims in its hand are then counted by nobody (`history.missed`). `mirror` is
`fa:free:{sale}`, written by the refresh (`Refresh`, which reads the database
and Redis in one step and writes the mirror in another), by outcomes (DECR, and
SET to 0 below zero) and by the reset. `unresolved` is the ZSET `fa:U`; an
outcome is ZREM (`Outcome`) and later the count with the DECR, so an expiry, a
second outcome or a Redis failure can come between. `Handle` is the checkout
behind the door, `Decline` the release of a payment, `Wipe` the control-state
reset. `history.races` names the races a behaviour has been through, so that
`WasteNeedsARace` can say that only they admit a buyer in vain.

### Gate

`Step(r)` takes a request from the gate's script (`SlotFree`, `Decrement`)
through the local line, its first connection, the purchase, the second
connection for the behaviour log, and the release. `Crash(p)` kills a replica
with its requests: their slots are leaked (`leaked`) until the counter expires
(`SlotsExpire`, after a quiet time). `Publish` is the leader's new limit.

### Aimd and ShowEstimator

`Aimd` runs `step`, and the Breakwater law of `db_limiter.py`, in closed loop with a
`world`: silence, lost and slow checkouts in any order (`Arbitrary`), a database
with a knee, one that becomes slower for good. Checkouts are recorded by whole second, as in the code, while the leader
decides anywhere in a second: a second has `Parts`, in each of which the world
completes something (`PartPasses`), and `LeaderStep` comes a second or up to
`MaxLate` parts more after the last one. `ReadWindow` reads what the second it is in
has so far and the one before, each counted as a whole second, and of these only
what began after the last decrease (`since`). `fresh` remembers what kinds of
checkouts ended since that decrease. The window is kept in halves of a slot;
latencies are three buckets.

`ShowEstimator` keeps the two Redis hashes and the notifications, with time in
seconds and rates as fractions; `seed` is the cold or the warm start
(`FA_PRIOR_P`, `FA_PRIOR_DELAYS`) and the weighting. `ColdCount` is the arm of the
default settings, which ages a grant from its start whether or not its buyer has
been told.

### SaleWindow

The refresher thread and, serverless, the request that finds the cache old read
the windows (`ReadRows`), and set them later (`SetWindows`) or fail
(`RefreshFails`); `EditTimes` is an operator's UPDATE, `edits` its history. A
query takes at most `QueryS`.

### The demonstrations

`BuyingDemos` has the threads of demos 1 to 5 as races (`arm`) with or without
the CHECK, with and without failing inserts. `WoundWait` is demo_6 part B: a
requester wounds a younger holder or waits for an older one, and a wounded one
gives everything back and is gone. `LockDemos` is demo_6 part A, with
PostgreSQL's detector, and the paused sale of demo_10. `TimestampOrdering` lets
the operations of demo_9 arrive in any order, with and without Thomas's rule.
demo_7 is part of `Maintenance`, the schema changes of demos 1 and 8 are part
of `Migrations`.

### The programs around the shop

`BuyerClients` is one client program in each behaviour -- the storefront, the
k6 script, the chaos harness with each of its plans, the two benchmarks -- in
front of a server reduced to a queue, a stock and an idempotency cache; a
customer is the attempts (`Senders`) it makes and what it wrote down.
`Pilot` is the simulator `fa_pilot.py` under its policies: buyers, the pool, the
row lock, no-shows, payments, releases, and what the control task knows.
`Forecast` builds the cleaned panel, the features and the split of the real-data
path from a set of invoice lines, and the cache behind its lock.
`PaymentVerify` is scenario A of the verifier, in front of a service that keeps to
one intent or does not (`reuses`), whose answers carry any id (`said`) whatever
intent was made (`made`), and of a search index that lags.

`Maintenance` keeps the tables with their foreign keys as one record `db`. The
seed scripts run transaction by transaction (`StartSeeding`, `DropParents`, the
upserts, the Redis keys); bot scoring reads the candidates and flags them later;
demo_7 loses a unit and restores it, rolls back, logs ahead, writes and undoes, a
step for each commit (`StartRecovery` ... `Undoes`). Any of them may be killed
between two commits (`Dies`, `ScoringDies`), and be run again. Buyers check out,
pay and are declined in between; a decline gives the unit back by the strategy its
order records (`Released`). A transaction that breaks a foreign key, a unique
e-mail or the CHECKs on the stock (`Accepted`) is rolled back and its script ends.

`Migrations` is the start of every replica: `create_all` looks for the tables
and makes them, `migrate.run` adds the column, reads the constraints there are
and adds the others, and makes the indexes that are missing, in two
transactions (`Launch` ... `CommitMigration`). Uncommitted pieces make the
others wait; a piece that exists when it is made is an error and ends the
process. `Takes`, `RestoreBackstop` and `RecreateIndex` are demo_1 and demo_8,
which may be killed before they put back what they dropped.

## 3. What the runs check

| Run | Instance | Properties |
|---|---|---|
| `Checkout` | 3 buyers of any strategy, one unknown to `users`; 1 unit; one reset; every fault; fairness | `SqlLedgerExact`, `SqlNoOversell`, `CounterCreatesNoUnit`, `OptimisticReadsFresh`, `SqlImplementsLedger`, `EveryRequestAnswered` |
| `IdempotencyKey` | three taps with one key and one request without; all outcomes, every fault, fairness | `OneOrderUndisturbed`, `KeyNeverWedged` |
| `Door` | a tap and its retry, a stranger with the same token, a buyer without one; crash, Redis down, limiter full, fairness | `OnePurchasePerClaim`, `OneBuyerBehindDoor`, `ClaimReleased` |
| `Payments` | 2 orders of any strategy, 2 calls for either, 2 attempts, 2 handlers, one reset, crash and Stripe errors, fairness | `StockMatchesOrders`, `PaidOnce`, `UndisturbedDeclineReturns` |
| `WaitingRoom` | 2 buyers, 2 workers with threads or serverless, batches of one, one reset; a replica dies, Redis fails, ticks outlive the lease; fairness | `OneAdmitter`, `JoinOrderKept`, `CleanResetRevokes`, `EveryJoinerAnswered` |
| `ClaimWindow` | 2 buyers; five sales: a declined payment, Redis failing and ticks that break off, two units, a show rate that moves, a reset; fairness | `ClaimsConserved`, `WasteNeedsARace`, `NoticeIsTrue`, `EveryoneHearsBack`, `MirrorSettles` |
| `Gate` | 3 requests at two replicas, 2 connections each, limits 1 and 2; a crash, a Redis error, a reset; fairness | `CounterHeals`, `AdmitsWithinLimit`, `EveryCheckoutAnswered` |
| `Programs` | Aimd, ShowEstimator, BuyingDemos, WoundWait, TimestampOrdering, LockDemos, SaleWindow | `OneEventOnePenalty`, `SettlesAtTheKnee`, `StaleBaselineHeals`; `UntoldCountForNothing`, `BudgetIsLargest`; `ArmsAreExact`; `EveryScriptEnds`; `ReadsFollowTimestamps`; `AnswersAreRecent` |
| `Scripts` | BuyerClients, Pilot, Forecast, PaymentVerify, Maintenance, Migrations | `ReportsMatchOrders`; `NobodyAdmittedInVain`; `TrainedOnThePast`; `VerdictIsRight`; `ScriptsAndStartsSucceed` |
| `IdempotencyFallThrough` | expects a violation | `OneOrderPerKey` |
| `PaymentsRedelivery` | expects a violation | `UnitReleasedOnce` |
| `StorefrontStays` | expects a violation | `StorefrontStays` |

Why the bounds are enough to be interesting: oversell needs one buyer more than
units, a stale read needs a reader and a writer, and a reset race needs one
handler of the old round, so three buyers on one unit with one reset meet all of
them; the theorems of section 5 cover every other size. Fall-through needs a
winner and two losers, hence three taps of one key. Two handlers for two orders
meet every pair of deliveries of one event and of two; the third attempt of an
order repeats the second. Two buyers and a batch of one are an order to keep and
somebody left behind when a leader dies; two workers are a leader and its
successor. A claim that outlives its outcome and one that is admitted because of
it are two buyers. Two handlers that each hold one of two connections and want
another are the smallest self-deadlock; the limit moves between 1 and 2 so that
it falls under those already inside. The controller needs a window of eight to
show a doubling, a plateau and a floor, and two parts of a second to decide in the
middle of one, after less than a second's checkouts; a part of lateness lets the
steps drift through their seconds. The estimator needs three buyers and a life of
three seconds to have mature, young and untold ones at once, and a seed for each
arm. Two replicas are enough for every race of a start, the third start is the one
that repairs. The
operator's run starts from an empty database, from one two scripts have filled,
from one whose bulk orders are on the storefront's sale, and from one an old
seed.py has left. Faults are not counted: each may happen at every step it can.
No run uses symmetry.

Some properties hold only for part of the behaviours, because the code promises
no more; the condition is part of the property:

* `OptimisticReadsFresh`: only optimistic buyers, no reset. A pessimistic UPDATE
  does not change `version`, so with both strategies an optimistic buyer with a
  stale read passes its version test; the increment is relative and the CHECK
  refuses the last one, so the stock is still safe.
* `CounterCreatesNoUnit`: only Redis buyers, no reset, no Redis restart, no lost
  acknowledgement.
* `OneOrderUndisturbed`: until a fault, or until a request of the key is told to
  try again. `OnePurchasePerClaim`, `OneBuyerBehindDoor`: until a fault.
* `StockMatchesOrders`: within one round, no order contested (one call to Stripe for
  each). `UndisturbedDeclineReturns`: no handler dies, no reset, and no order is
  contested, the declined one or any other: a unit released twice for another order
  can leave `reserved_stock` at zero, and the decline then returns nothing
  (`payments.py:275`).
* `OneAdmitter`: apart from workers whose lease ran out in mid-tick.
  `JoinOrderKept`: until a reset. `CleanResetRevokes`: for a reset that met no
  batch between its pop and its grants, and found every live admission in
  `queue:tokens`.
* `ClaimsConserved`: until a reset; what broken ticks had in hand is missing from the
  counts. `WasteNeedsARace` (at a show rate of 1) and
  `NoticeIsTrue` name the races that make an exception.
* `AdmitsWithinLimit`: until Redis failed or was reset.
* `OneEventOnePenalty`: for the AIMD law, and for decreases for latency or loss. A
  decrease for a stall is for what did not happen, and the little that a leader can
  read just after a decrease may bring the next one.
* `StaleBaselineHeals`: for a database no slower than the target's ceiling (`Heals`),
  unless the leader keeps reading too few checkouts to judge.
* `UntoldCountForNothing`: in every arm but the cold count arm, and unless the sample
  of delays in use holds a zero, of somebody who checked out in the very second they
  were told. `BudgetIsLargest`: in the posterior arms, which weigh claims.
  `AnswersAreRecent`: while no refresh fails.
* `ReportsMatchOrders`: apart from cut connections and from the plan that cuts
  them. `NobodyAdmittedInVain`: while the run lasts. `VerdictIsRight`: PASS when
  every call was answered with the id of its intent, or when the index was up to
  date; FAIL when the service misreported none.
* `ScriptsAndStartsSucceed`: a script or a start during which nobody else
  commits. demo_7 on a sale it finds full may be refused; a start also fails on
  rows that break a constraint it must add.

Each passing property has a mutant in `PROJECT.json`: a plausible bug put in
the place of one mapped definition, under which the same run fails.

### Fairness

* Checkout: `WF` on the steps of a request that has begun. Handlers run in a
  thread pool and PostgreSQL grants a free row lock to a waiter; nothing obliges
  a buyer to start, an operator to reset or a fault to happen.
* Idempotency: `WF` on a request's dispatch (the event loop runs every ready
  task) and on the expiry of a reservation (Redis TTL).
* AdmissionDoor: the same, and `WF` on the expiry of an abandoned claim.
* Payments: `WF` on a call that has begun and on a handler that is releasing;
  `SF` on the delivery of an event Stripe has had no 2xx for, since Stripe
  retries with backoff and a handler may be busy at any one try.
* WaitingRoom: `WF` on a joined buyer's polls (the client's loop), on a
  worker's tick (a daemon thread on a fixed schedule) and on the expiry of the
  lease. Nothing obliges anybody to join or to reset; one replica survives.
* ClaimWindow: `WF` on polls, on the expiry of claims and keys (Redis TTL, and
  the tick's ZREMRANGEBYSCORE), on a checkout behind the door and its outcome,
  on the refresher thread and on the leader's tick. Nobody is obliged to join,
  to show up or to have a payment declined.
* Gate: `WF` on each request's steps (the pool's timeout bounds every wait) and
  on the expiry of the counter.
* Programs: `WF` on the ticks of a controller in a closed world, on the threads
  of wound-wait and on PostgreSQL backends. Scripts checks safety only.

## 4. Where the code does something other than it says

Three are counterexamples of a run that expects a violation; quotations are in
`PROJECT.json`.

* `IdempotencyFallThrough` - when the winner's outcome frees the key, all
  requests that lost SET NX run the handler without a reservation.
* `PaymentsRedelivery` - a slower duplicate of `create_payment` writes the raw
  status over the webhook's `failed`; the redelivered event transitions again
  and a second unit is released.
* `StorefrontStays` - seed.py takes every footwear product with another id for
  a leftover of its own older versions, and deletes the storefront's shoes with
  their sale, inventory and orders.

Met while modelling, without a run of their own; the models contain these
behaviours unless the text says otherwise, and the conditions above and the
faults each cfg allows are where they are set aside.

Checkout, door, payments
* Used together, the Redis and the SQL strategies sell the stock twice, since
  `checkout_redis` seeds its counter with the whole free stock and never writes
  `reserved_stock`. A Redis restart seeds it again from that row. A Redis
  handler that compensates after a reset's SET lifts the counter above the stock,
  and one whose commit acknowledgement is lost gives back a unit it sold.
* A same-key replay carries no claim; if the original was told to try again,
  the replay buys, and so may the next holder of the claim (`admission.py:98`
  against `:15`).
* `failed` is committed before the unit is released; a process that dies between
  the two leaves a redelivery that finds the transition applied
  (`payments.py:569` against `models.py:322`). An order whose unit was released
  is still `confirmed` and accepts a second card, which pays for no unit, or
  declines and gives back another one. A decline that arrives after a reset
  takes a unit off the new round. `create_payment` stores Stripe's `succeeded`
  itself although the webhook's docstring calls itself the only writer.

Waiting room, claim window
* A buyer who polls between the pop and the grant, or whose grant is written
  between the two reads of `status`, is told that the token is unknown
  (`queue.py:220` against `:164`). With the notice on, a buyer granted between
  the grant read and the notice read is told that the sale is sold out.
* A batch granted while a reset runs survives it. The serverless tick's lock can
  lapse in mid-tick; ZPOPMIN keeps the batches disjoint all the same.
* The mirror: a refresh that reads before a sale and writes after its DECR shows
  a unit too many or takes it twice, and the second way raises a false notice; an
  expiry between ZREM and DECR, and a notification that comes after the claim
  has expired, leave a live claim uncounted until the refresh.

* A leader that dies, or a Redis that fails, between the ZREMRANGEBYSCORE of
  `claim_window.py:353` and the counts of `:360` leaves expired claims that no
  statistic knows of; nothing adds them later.
* In the default arm (`FA_WEIGHTING=count`, no prior) a slow notification path drags
  the estimate down and opens the window, the effect `claim_window.py:228-230` describes:
  the correction is kept to the other arms on purpose (`:376`).

Limiter, controllers, sale window
* A request let past a failing Redis still releases a slot it never took. A
  leaked slot does not expire while other traffic keeps renewing the counter. An
  exception keeps the purchase's connection while the handler asks for the one
  that logs the attempt: with the pool used up, both wait for the timeout.
* The stale-baseline escape works only while `Tolerance` times the old baseline
  is below the new latency's target; with the defaults a baseline near the
  ceiling oscillates near the floor. The second `read_window` ends with is not over
  but counts as a whole one (`admission_control.py:367-368`): soon after a decrease
  too few samples are read, with checkouts in flight that is taken for a stall and
  the window halved again, possibly several times; and where the steps keep falling
  early in their seconds, the floor may never complete enough to be judged and
  the old baseline stays. The Breakwater law has no such escape, and
  judges a second twice.
* An empty window cache lets every checkout in; the window is checked before the
  waits of the door and the gate, so a checkout may run after the end. The bound
  on an answer's age is a period and two queries, not a period.

Demonstrations, clients, operators
* A wounded transaction that had all its locks still reports that it completed
  (demo_6). A restart wipes demo_9's timestamps.
* The chaos harness posts again after an answer that beat the cut, although its
  docstrings promise one order per buyer (`chaos_verification.py:433-448`
  against `:141-146`, `:406`). The storefront ignores the answer `sold_out` of a
  poll and polls for 120 s; its fetch has no timeout. The benchmarks count an
  idempotency "busy" 409 as an optimistic conflict.
* The pilot counts optimistic buyers that stop at the end as lost.
  `payment_verify.py:28-32` says that a bug in the app's own bookkeeping could not
  hide a duplicate from its second check; the search returns the first page that is
  not empty (`:172`), so with an index that has seen one of two intents and answers
  that name one id, or were lost, it says PASS.
* The forecast's cap, its choice of SKUs and its popularity feature are taken
  over the whole period, including the test.
* Purging the demo or bulk users' orders on another script's sale does not give
  their units back, and `seed.py` sets `reserved_stock` to 0 while others' orders
  stay. A buyer who uses Redis between a seed's commit and its DEL leaves a
  counter of the old stock. A payment or an order inserted between two DELETEs of
  a purge makes the script fail. demo_7's UNDO writes an absolute old value over
  checkouts committed since; on a sale that is full both its UPDATEs break
  `ck_inventory_no_oversell` and it ends in an IntegrityError nothing catches
  (`demo_7_recovery.py:45`, `:119`), and one killed between its first two commits
  leaves a unit lost. Scoring again resets a flag that was reviewed; a
  flagged order cannot be paid.
* Replicas that start together on a fresh database (docker-compose.yml starts
  three, and restarts none) may all find the tables missing; the second CREATE
  is an error and its process ends. The same holds for a constraint or an index
  missing from an older database (`migrate.py:49`: "every step is skipped if
  already present"). A replica that starts during demo_1 puts the CHECK back,
  and the demo's own ADD then fails. After demo_1 was killed with an oversold
  row, no replica starts until somebody repairs the row.

## 5. What is proved

Every invariant and every action property of the passing runs is a theorem, for
every value of the constants the named assumptions allow: any finite number of
buyers, requests, orders, calls, tokens, replicas, threads, transactions and
units, any choice of faults, any number of resets. The assumptions are those the
modules state (`ConstantsAssumption`, `PaymentsAssumption`, ...): finiteness of
the sets that are counted, the ranges the configuration allows, and that the
values standing for "nothing" are not values; of what a behaviour may start
from, that an older database has no tables but those of the schema
(`MigrationsAssumption`), that the rows a script may find are rows the shop wrote
and its constraints accepted (`MaintenanceAssumption`), and that a ledger of sales
is finite (`ForecastAssumption`). TLC evaluates them in every run. Each inductive
invariant was first checked by TLC on the instance of its run. The proofs have
one step per action; an action that changes a cardinality says by which element.

| Module | Theorem | States | Inductive invariant |
|---|---|---|---|
| `Checkout_proofs` | `TypeCorrect` | `TypeOK` | itself |
| | `SqlLedgerIsExact` | `SqlLedgerExact` | `LedgerInv` |
| | `SqlNeverOversells` | `SqlNoOversell` | `LedgerInv` |
| | `SqlRefinesLedger` | `SqlImplementsLedger` | `AnswerInv` |
| | `OptimisticMatchIsFresh` | `OptimisticReadsFresh` | `ChoiceInv`, `SeenInv` |
| | `RedisCreatesNoUnit` | `CounterCreatesNoUnit` | `CounterInv` |
| `AdmissionDoor_proofs` | `IdemTypeCorrect` | `IdemTypeOK` | `KeyInv` |
| | `OneTapOneOrder` | `OneOrderUndisturbed` | `KeyInv` |
| | `DoorTypeCorrect` | `DoorTypeOK` | `DoorInv` |
| | `OneClaimOnePurchase` | `OnePurchasePerClaim` | `DoorInv` |
| | `OneTokenOneBuyer` | `OneBuyerBehindDoor` | `DoorInv` |
| `Payments_proofs` | `PaymentsTypeCorrect` | `TypeOK` | `ChargeInv` |
| | `ChargedOnce` | `PaidOnce` | `ChargeInv` |
| | `CountersMatchOrders` | `StockMatchesOrders` | `StockInv` |
| `WaitingRoom_proofs` | `RoomTypeCorrect` | `TypeOK` | itself |
| | `OneAdmitterAtATime` | `OneAdmitter` | `LeaderHolds` |
| | `FirstComeFirstServed` | `JoinOrderKept` | `OrderInv` |
| | `ResetRevokes` | `CleanResetRevokes` | `VoidInv` |
| `ClaimWindow_proofs` | `ClaimTypeCorrect` | `TypeOK` | itself |
| | `LedgerBalances` | `ClaimsConserved` | `LedgerInv` |
| | `NoticeHasAReason` | `NoticeIsTrue` | `LedgerInv`, `NoticeInv` |
| | `WasteHasARace` | `WasteNeedsARace` | `LedgerInv`, `WindowInv` |
| `Gate_proofs` | `LimitHolds` | `AdmitsWithinLimit` | `SlotInv` |
| | `CounterNeverTooHigh` | `CounterHeals` | `SlotInv` |
| `Programs_proofs` | `SerialInTimestampOrder` | `ReadsFollowTimestamps` | `RowIsNewest` |
| | `EveryArmIsExact` | `ArmsAreExact` | `BuyingInv` |
| | `BuyingTypeCorrect` | `BuyingTypeOK` | `BuyingInv` |
| | `AnswersWithinPeriod` | `AnswersAreRecent` | `WindowInv` |
| | `WindowTypeCorrect` | `WindowTypeOK` | itself |
| | `OneEventCostsOne` | `OneEventOnePenalty` | `AimdInv` |
| | `AimdTypeCorrect` | `AimdTypeOK` | `AimdInv` |
| | `SlowNoticeLeavesEstimate` | `UntoldCountForNothing` | `EstimatorTypeOK` |
| | `BudgetStopsInTime` | `BudgetIsLargest` | `EstimatorTypeOK` |
| | `EstimatorTypeCorrect` | `EstimatorTypeOK` | itself |
| | `OldestIsNeverWounded` | `OldestCompletes` | `WoundInv` |
| | `DeadlockCostsOne` | `AtMostOneVictim` | `LockInv` |
| | `ProgramsHold` | all of these of the seven side by side | |
| `Scripts_proofs` | `StockPolicyAdmitsForUnits` | `NobodyAdmittedInVain` | `PilotInv` |
| | `VerdictHolds` | `VerdictIsRight` | `VerdictInv` |
| | `ReportsAreTrue` | `ReportsMatchOrders` | `ReportInv` |
| | `StartsRepair` | `StartsRepairSchema` | `MigrationsInv` |
| | `ScriptsSucceed` | `UndisturbedScriptsSucceed` | `MaintInv` |
| | `ScriptsAndStarts` | `ScriptsAndStartsSucceed` | both |
| | `TrainsOnThePast` | `TrainedOnThePast` | `ForecastInv` |
| | `EachRunsAlone` | the six side by side are each of the six | |
| | `ScriptsHold` | all of these of the six side by side | |

### Checkout

`SqlLedgerExact` is not inductive: a commit copies `draft` to `row`, so one must
know what `draft` is. `LedgerInv` adds that only the lock holder is inside a
writing transaction (`RowLocked`); that its draft is the committed row, plus its
own unit after the UPDATE (`DraftFollowsRow`); that a handler runs only the code
of the endpoint it was called through (`StrategyFollowsCode`), so that a commit
is a SQL order; that a request with an order cannot place another
(`SoldIsOver`), so that the commit adds one to the cardinality; and
`CheckHolds(row)`. The commit is the lemma `CommitKeepsLedger`. A reset needs
the lock free, therefore no draft is pending over it.

The refinement uses `AnswerInv`: `LedgerInv`, that a request not done has heard
nothing, and that a started request has a strategy. Each action maps to a step
of the ledger or to a stutter; "sold out" maps to `Reject` because an empty row,
with nobody else holding a unit or with `reserved` read without the lock, leaves
`Left <= 0`; a Redis step changes neither `row` nor anything the mapping sees.

The properties of a sale through one strategy need to know that it was always
so: `Lasting` and `OptimisticOnlyBefore`, `RedisOnlyBefore` carry the condition
back over a step. `SeenInv` says that a stale read carries an older version: a
matching version is then the same row. `SeedInv` says that among Redis buyers
the row does not move, so that a seed read earlier is still right when SET NX
wins, and that nobody has taken a unit before the counter exists.

### Idempotency and the door

`OneOrderUndisturbed` speaks of orders only; `KeyInv` says what the marker
means: a key without one is unused and nobody waits on it, a key in progress has
one executor, who has ordered nothing before the handler ran, and a key with a
result has no executor left. The door's steps behind the claim are steps of
`Idempotency` (`InnerIsIdem`), so the lemmas of that layer are used, not
repeated. `DoorInv` adds that while nothing fails a claim has one holder, that a
token whose claim is held is marked in flight and not spent, and that whoever
bought with it holds it still or has spent it; and that a token in use is bound
to one buyer, who is everybody behind the door.

### Payments

`ChargeInv`: what a call that is under way has chosen (`CallsFollowCode`),
`failed` in the table means declined at Stripe, and an attempt is used only when
all earlier ones were declined. That is why two charges would need one attempt
to be both.
`StockInv` ties each order with one paying call to one release at most
(`OneRelease`). A webhook acts only on an attempt that has a row, and the row is
written by a call that is then over (`RowsFollowCalls`): with no other call, nothing
overwrites `failed`, so the transition is applied once, and its handler is the
only one to give the unit back. The ledger then holds step by step: each action
takes a unit, gives one back or leaves the stock alone (`StockSteps`).

### The waiting room

`LeaderHolds`: a worker in mid-tick that has not outlived its lease is the one
that holds it. `OrderInv`: whoever is ahead of b and still queued has the smaller
score, so a batch that holds b holds them too. `VoidInv`: between the steps of a
clean reset every admission of before it is among those read, or already gone.

### The claim window

`LedgerInv` adds to `ClaimsConserved` that only a checkout that has ended has an
outcome to report, once, and that nobody in the queue has a claim.
`NoticeInv`: while nothing was returned and no refresh crossed a sale, the mirror
is never below the free units, and those are not zero.

`WindowInv` is the argument behind the window, for a show rate of 1 and no race:
whoever may still buy (`MayBuy`) has a claim, as does whoever has bought and has
not reported it (`BoughtClaimed`); the mirror exceeds the free units by the sales
not yet deducted at most; the leader's count includes every such claim, and is
taken before the mirror is read, so that what is left after subtracting it is
covered by `Spare`, the units that nobody let in is going to need. Reading in the
other order, or dropping a live claim, breaks it. The named races are
exactly the steps at which the proof needs `generous` not to have happened: a
refresh overtaken by outcomes, a tick that drops a live claim or reads the mirror
between ZREM and DECR, an outcome without its claim, a report lost, a reset.

### The limiter

`SlotInv`: undisturbed, the counter is exactly the checkouts behind the gate and
the leaked slots; disturbed, it is at most those. The actions are grouped by what
they do to the slots (`Keeps`, `Takes`, `Opens`, ...).

### The demonstrations

`RowIsNewest`: the row's write timestamp bounds the writes applied, a write that
was skipped is older than it, and every read has raised the read timestamp to at
least its own.

`BuyingInv` keeps a buyer on the path of its strategy and counts: the row counts
the orders (`RowCounts`), the Redis counter the buyers that have not given back
(`CounterCounts`). Nobody oversells because of the lock (`LockHolds`), of the
version, which equals the units sold (`VersionCounts`), or of the CHECK; and
whoever is turned away found as many units taken as there are (`TakenIsRight`),
so that a race leaves none unsold. An optimistic buyer is outrun at most once per
unit sold, which is why it never runs out of retries.

`WoundInv`: the oldest holds everything it has taken, since a lock changes hands
only towards an older one. `LockInv`: whoever waits waits once and has not ended;
a cycle through one of the two transactions needs both to wait, so neither has
been aborted before.

### The controllers and the sale window

`OneEventOnePenalty` relates what a step judges to what has ended since the last
decrease. `OnlyFresh` says that the seconds that began after it hold nothing else,
the running one as far as it goes; `StatsAreOf` that what is judged, a quantile or a
loss, was recorded in the seconds read. `AimdInv` has both the types, `OnlyFresh`, and that
the plateau is not reached in
slow start; the proportional cut of the second law stays in bounds because the
quotient of a window and a factor below one is below the window (`CutsLower`).

Leaving out the buyers nobody has told leaves every count of the estimate
(`UntoldLeaveTheCounts`): they are young, have not shown, and at age zero no
delay of a sample without zeros has passed. `BudgetIsLargest` compares a quotient
rounded up with the sums it came from; that the sum over the unresolved buyers
exists follows from the least size of a set without one.

`WindowInv` is about time: what is in memory was in force when the query that
brought it began, a query is as old as `QueryS` at most, and the thread began its
last one no later than a period after the windows were loaded. An answer is then
younger than a period and two queries.

### The programs around the service

`PilotInv`: the pilot's counters count its buyers' tasks, the row counts the units,
and those on their way fit into what is neither held nor paid. `VerdictInv`: every
intent at Stripe was made for some call, what the search found is among them, a
service that keeps to one intent has one, and the verdict says what the answers and
the last search said; a PASS whose calls all named their intents has then named
every intent there is.

`ReportInv`: a sender has one post out at most unless its connection was cut, and
an order that no answer holds is of a customer whose connection was cut. So when a
customer ends, its outcomes name its orders.

`MigrationsInv`: a start has behind it only pieces that are in the schema, in its
own transaction, or taken out by a demonstration it did not disturb
(`Accounted`); one that nobody has overlapped has read the schema as it still is.

`MaintInv` is what the foreign keys need to know in advance. The rows obey the
constraints, and so will those still to be logged, because a log names the buyer
and the sale of its order (`Numbered`); a seeder that nobody overlapped has
deleted exactly the children of the orders it is about to delete; the recovery
knows the stock it found, and a scoring pass flags orders that are still there.
The invariant has `UndisturbedScriptsSucceed` itself as a part.

`ForecastInv`: a forecast is what a training of the ledger gives. Each feature is
then shown to depend on earlier days alone. That a finite set of numbers has the
k-th smallest element the cut is taken at is proved by the smallest set without.

`EachRunsAlone` and `ProgramsHold` show that composing the programs as the MC
modules do adds no behaviour to any of them, so that a theorem about one holds
in the run that checks them all.

### Only model-checked

* All liveness (`EveryRequestAnswered`, `KeyNeverWedged`, `ClaimReleased`,
  `UndisturbedDeclineReturns`, `EveryJoinerAnswered`, `EveryoneHearsBack`,
  `MirrorSettles`, `EveryCheckoutAnswered`, `SettlesAtTheKnee`,
  `StaleBaselineHeals`, and that every script of `EveryScriptEnds` ends, whose two
  safety conjuncts are theorems): fairness and ENABLED are out of the prover's
  reach.
* What a fold or a recursive function returns for every input. Where a proof needs
  it (a sum over buyers, a k-th smallest day) it takes the least counterexample of
  a well-founded order instead of an induction; the value itself, for instance of
  an estimate, is checked by TLC only.

## 6. Not modelled

* Read endpoints, the database explorer, metrics, tracing, configuration: no
  decision depends on them, and they write nothing.
* `protego.py`: a `lock_timeout` for evaluation runs only, off by default; a
  dropped checkout is a `CommitRefused` before its UPDATE.
* Of `queue.py` the cache of known sales and admissions of a fixed life; of
  `claim_window.py` the pacing of grants and the naive, oracle and fixed modes,
  which exist to be compared with; of `show_estimator.py` `naive`.
* The regressor, the classifier and their synthetic data; how seed_large.py
  draws its rows; demo_8's query plans.
* Arrival processes, statistics, plots and reports of the load programs, and the
  scripts that only start another program and collect what it wrote
  (`capture_traces.py`, `build_report.py`, `queue_comparison.py`, `fa_*.py`
  but the benchmark, `run_k6.py`).
* The frontend but its checkout and its polling.

What could follow: the read endpoints, should a decision come to depend on them,
and the pacing of grants.
