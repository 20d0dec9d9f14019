# Verification of the enterprise commerce backend

TLA+ models of the parts of this NestJS backend whose correctness depends on
the order in which things happen, the TLC instances that check them, and TLAPS
proofs of the main results for all sizes. Paths below are relative to the
repository; `order.service.ts:202` means `src/module/order/order.service.ts`,
line 202.

## 1. The system

Several Node processes (`help` starts them in cluster mode) share one PostgreSQL
database and one Redis. Within a process, code is interleaved at every `await`.

| component | state it keeps | operations | talks to |
|---|---|---|---|
| Distributed lock, `src/libs/lock` | Redis keys `lock:<name>` = token, with a TTL | acquire, acquireWithWait, release, execute, executeWithWait | Redis (`SET PX NX`, compare-and-delete script) |
| Order creation, `order.service.ts` `create` | orders, order items, payments, inventories; locks of the request | create, createOrderInternal | lock, PostgreSQL transaction |
| Order reads and cache, `order.service.ts` | orders, cache entries | findAll, findOne, update, remove, getStats | PostgreSQL, cache |
| Inventory, `inventory.service.ts` | one row per product: quantity, version | create, update, remove, decreaseStockOptimistic | PostgreSQL |
| Products, `product.service.ts` | products, cache entries | CRUD, featured, stats | PostgreSQL, cache |
| Cache, `src/libs/cache` | Redis keys with a TTL | get, set, delete, exists, eval | Redis |
| Notifications, `notification.service.ts`, `src/jobs` | notification logs, jobs | sendBatchNotifications, notifyUsersWhoBoughtProduct, worker | BullMQ, PostgreSQL |
| E-mail queue, `src/module/email`, `src/libs/bullmq` | jobs, attempts | queue, process, send directly | BullMQ, SMTP |
| Rate limit, `src/libs/rate-limit` | counters with a TTL | checkLimit, increment | Redis |
| Auth and users | users | register, login, CRUD | PostgreSQL |
| Payments | payments | CRUD | PostgreSQL |
| Error filter, response interceptor | none | translate | - |

What is hard about it:

- **Leases, not locks.** A lock is a Redis key with a TTL; it may run out while
  its holder still works, and a holder that dies leaves it behind. The answer of
  the `SET` that took it may be lost.
- **Read, compute, save.** An order reads quantities, lowers them in memory and
  saves them as absolute values. TypeORM's `save()` does not compare the version
  column, so nothing but the leases keeps two orders apart.
- **Several leases per order**, taken one after the other while others wait.
- **An optimistic path beside it**: `decreaseStockOptimistic` takes no lease and
  relies on the version, the quantity condition and three attempts.
- **Caches and queues**: cache-aside reads that race with invalidation, offset
  paging over a table that changes, jobs that are run again.

What makes each component correct:

- lock: an unexpired lease is exclusive, a late release harms nobody, waiters
  stop at their deadline, locks come back;
- order creation: what is left in stock and what orders hold add up, no order is
  refused for stock it could have had, requests never wait for each other in a
  circle, every request ends and gives back what it holds;
- inventory: every decrease happens exactly as often as its answer says, stock
  is never oversold, a conflict is never spurious;
- caches: among the keys that writes delete, an entry that misses a write was left
  by a race or a failure; every entry goes with its TTL; an update keeps what it
  does not set;
- queues: every user is notified, none twice by one run; every job ends;
- rate limit: at most `limit` requests per window, and nobody is shut out for ever;
- users, payments: one row per e-mail or order, references hold, and a status
  code tells the truth about what was done.

`PROJECT.json` lists every component with its status and every hazard at its
line, with the properties that cover it; a note says what they leave open.

## 2. Modules

```
LeaseLock  <--refines--  RedisLock      (timed, Redis keys)       RedisLockProofs
    ^
    | built from its actions
OrderCheckout  --refines-->  StockLedger  <--refines--  InventoryService
OrderCheckoutProofs                             InventoryServiceProofs

RedisCache <--instance-- Storefront            (orders and products, cache-aside)
JobQueue   <--instance-- NotificationBatch     (notification worker)
JobQueue   <--instance-- EmailDelivery <--extends-- Gateway --extends--> Responses
RateLimit                                      (throttler guard, its Redis script)
```

Each specification `X` that TLC checks has its instances in `MCX` and its theorems
in `XProofs`.

### LeaseLock - the contract of `ILock`
`owner[k]` is the token that owns a name, `believers` the callers that act as if
they held one. A name is granted only when nobody owns it; giving it back frees
it only for its owner; leases may lapse; callers may vanish. No time, no Redis.

### RedisLock - `RedisLockService`
One call of `execute` or `executeWithWait` per client. `store[k]` is the Redis
value with the rest of its PX, `pc` where the call is, `waited` the time since
`startedAt`. Actions: `Call`, `StartAttempt` (one turn of the loop at
`redis-lock.service.ts:67`), `SetOk` / `SetBusy` (the answer of the `SET`),
`SetReplyLost` (it ran but the answer did not arrive; the call rejects, or the
client library sends it again and meets its own lock), `SetError`, `GiveUp` (the
deadline), `FinishCallback`, `Release` (the Lua script, one atomic step),
`ReleaseError`, `Crash`, and `Tick`, which ages keys, waits and leases together.
Time is discrete and relative: no clock value grows, so the bound on time is the
code's own `ttlMs` and `timeoutMs`. The back-off `sleep` is any number of ticks,
which includes every value `Math.random()` may give.
`leaseLeft` is a ghost: what is left of the lease since Redis granted it.

### OrderCheckout - `OrderService.create`
Built from LeaseLock's actions, with requests as tokens: a request asks for each
product once, and its own orphan (after a lost answer) must lapse before it can be
granted the product again. `pc[r]` goes idle, locking / sleeping, reading,
comparing, saving, releasing, done. Per code step:

| code | action |
|---|---|
| `:191` empty order | `Start` |
| `:202-209` lock loop | `AcquireOk`, `AcquireNil`, `Retry`, `LockTimeout`, `AcquireReplyLost`, `AcquireError` |
| `:307-342` read, check, lower | `ReadAccept`, `ReadReject` |
| `:357` save inventories | `CompareRows`, the SELECT of `save()`, then `SaveRow`, the UPDATE of each row that differed, in any order (the order of the query's result is not defined) |
| `:359-380` order, items, payment, COMMIT | `Commit` (its answer may be lost) |
| `:384-395` catch | `TxAborts`, `DeadlockVictim` |
| `:218-226` finally | `Release` or `ReleaseLost` for each lease in reverse, `Finish` |
| process dies | `Crash` |
| TTL of a lease | `LeaseRunsOut` |

`stock` is the committed quantity, `mem` the entity in memory, `todo` and
`written` which rows `save()` has still to update and has updated; updated rows
are locked until the transaction ends. `sold` sums the committed order items.
`late` is a ghost: some order was committed without owning all its leases.

Abstractions. Several items of one product count as their sum (the loop lowers
one entity for each of them). A cart's function gives the quantity of each
product, zero included. A missing product is a missing inventory row, which the
foreign key implies. Prices, totals, users and the payment's content are left out.
`save()` never raises `OptimisticLockVersionMismatchError` (TypeORM raises it only
for explicit optimistic `find` locks), so the retry loop at `:303` makes one attempt
and is modelled as `TxAborts`.

The constant `SlowHolders` separates two situations. `TRUE`: a lease may run out
under a live holder at any moment. `FALSE`: live holders finish within their
TTL, and only orphaned leases lapse.

### InventoryService
The four writing operations on the inventory of one product, and beside them what
`OrderService.create` does to the same row, one step per SQL statement: `Find`,
`DecreaseHit` / `DecreaseMiss` (the conditional UPDATE and `affected`), `Reread`,
`Compare` (the SELECT of `save()`, remembered in `stored`) and `SaveUpdate`,
`DeleteRow`, `InsertRow`, `DbError`; for orders `FindForOrder`
(`order.service.ts:307-342`: the row of the product, whichever it is), `Compare`
and `SaveOrder` (`:357` to COMMIT). `Granted` stands for the lease of the product:
only orders take it, one at a time, and here it lasts; what happens when it does
not is OrderCheckout's subject. Rows are addressed by id; at most one row per
product exists. What TypeORM's `save()` does with the version of a stale entity
is not in this repository: the model allows the next version and the entity's
own. `save()` of a row that was removed before its SELECT inserts it again; if it
is removed after the SELECT, the UPDATE hits nothing and the call succeeds. Ghosts: `taken` (how often a
call's quantity was taken), `sold` (all that was ever taken), `beside` (what
decreases took while an order stood between its read and its save), `others`
(writes of other callers during a call).

### StockLedger
A sale takes from the stock what it sells, all products at once, never more than
there is. Both OrderCheckout (`SlowHolders = FALSE`) and InventoryService
(decreases only) implement it.

### RedisCache and Storefront - the cached half of OrderService and ProductService
RedisCache is `RedisCacheService`: atomic commands on keys, an entry with a TTL
may vanish at any moment. Storefront runs requests over it and the two tables:

| code | action |
|---|---|
| `cache.get` in `findOne`, `findAll`, `getStats`, `getFeatured` | `GetHit`, `GetMiss`, `GetFails` (the first two go on, the others reject) |
| the query, or each of the 3 or 4 counts of `getStats` | `Query` |
| `cache.set(..., { ttl })` | `Fill`, `FillFails` |
| `Object.assign` and `save()` in `update` | `Diff`, then `UpdateRow` or `InsertRow` |
| `remove`; `create` | `RemoveRow`; `CreateProduct`, `CreateOrder` |
| `invalidateOrderCache`, `invalidateProductCache` | `Invalidate` per key, `InvalidateFails` |
| statement fails; process dies | `DbError`; `Crash` |

`update` and `remove` start with the cached `findOne`, so the entity that is
saved may be old. A value is what the reader saw of the tables: per column, the
request that last wrote it. Ghosts: `tainted`, the entries stored by a read that
began before a write, or left behind by a failure; `excused`, the updates that
overlapped another writer of their row or read a tainted entry.
`Invalidated` lists the keys a write deletes as the code does: for orders
`cache:keys:orders:list` names no page because nothing writes it, and creating
an order deletes nothing (the call is commented out).

### JobQueue, NotificationBatch, EmailDelivery
JobQueue is BullMQ as its callers see it: attempts, back-off, locks, stalled jobs
(external; from the options in `src/libs/bullmq` and the `process` methods).
NotificationBatch is `NotificationController` (`Add`), `NotificationWorker`
(`Process`, `Finish`, `Crash`, `Stall`) and `NotificationService`: `Count`,
`ReadPage` (`find` with `skip` and `take`), `ReadBuyers`, `Deliver`, `SaveLog`,
`QueryFails`, while `Register` and `Unregister` change the user table. The body of
the request is not validated: the jobs in `wordless` carry no message that is a
string, `message.replace` (`notification.service.ts:88`) throws for each user and
`PassOver` goes on to the next, so such a job completes and has notified nobody. A worker
whose lock is gone works on, and its report is refused. Rows need not appear in
the order of their `createdAt`: the ghost `overtaken` holds the users before whom
somebody has appeared later, and a user's place is `Settled` if that has not
happened and no other user has the same `createdAt`. In the run's instance newcomers
are younger than the first users; the proofs do not assume it.
EmailDelivery is `EmailService` and `EmailProcessor`: `Enqueue`, `TakeMail`,
`Send`, `Report`, `WorkerDies`, `StallMail` for the queue, `SentDirectly` and
`SendRejected` for one turn of the loop of `sendEmailWithoutQueue`.

### RateLimit - `AppThrottlerGuard` and `RedisRateLimitService`
`Arrive`, then one `Pass`, `Refuse` or `FailOpen` for the short window and one for
the long one; `Incremented` is the script (INCR, PEXPIRE at the first hit). `Tick`
ages the counters. The four presets are `Presets`; `PresetsAreSound`, evaluated
by TLC, says that in each of them both windows matter. Ghosts: the hits that let a
request pass in the last TTL, with their ages (`passed`), how many did since the
counter was created (`inWindow`), hits whose answer was lost (`slipped`), and what
is left of the last `Retry-After` (`told`). A request that `FailOpen` lets through
is in neither of the first two.

### Gateway and Responses - auth, users, payments, mail endpoints
One request per handler call: `Guard` (`JwtStrategy.validate` reads the user),
`Pipe` (`ValidationPipe`), then the service's statements `FindEmail`, `Find`,
`Diff`, `Insert`, `Update`, `Delete`, or `QueueMail` / `SendMail`, each of which
may fail (`StepFails`) or run and lose its answer (`Done`). Unique columns and
foreign keys are the database's (`KeyTaken`, `OrderMissing`, `IsReferenced`);
`PlaceOrder` and `RemoveOrder` are the other modules' effect on them.
Responses is what the client then sees: `Caught` is `GlobalExceptionFilter`,
`Transformed` the interceptor. `TransformedOnce` (it is registered twice) and
`StatusKept` are assumptions TLC evaluates.

### Mutants
Operators commented `Mutant:` are plausible bugs, each a changed form of the
definition below it. They are part of no specification. Replacing that definition
by the mutant makes the property it is paired with in `PROJECT.json` fail.

## 3. Properties and runs

| run | instance | shows |
|---|---|---|
| `redis_lock_safety` | 3 clients, 1 name, TTL 3, deadline 2, 2 attempts, symmetric | `TypeOK`; `LeaseProtectsHolder`: while a lease lasts the key holds exactly that token and that time; `ImplementsLeaseLock`: refinement of LeaseLock |
| `redis_lock_liveness` | 2 clients, TTL 2, deadline 3 | `WaiterEnds` even when the holder hangs; `LockComesBack` |
| `checkout_any_delay` | 3 orders, 2 products, leases may run out at any time | `TypeOK`; `LossNeedsLateCommit`: stock and orders balance unless an order committed without its leases; `StaleReadsLostTheirLease`: an order about to be saved fits the committed row unless it lost the lease or an earlier order committed late; `RefusedForGood`: a refused order could not have been served; `NoLeaseCycle`; `EndedHoldsNothing` |
| `checkout_in_time` | 3 orders, 3 products, one without inventory, holders in time | `StockConserved`, `ExclusiveTransactions`, `ImplementsLedger` |
| `checkout_liveness` | 2 orders for the same 2 products, leases may run out | `EveryRequestEnds` |
| `inventory_mixed` | 4 callers, all operations and orders, 2 attempts | `TypeOK` (no negative quantity, although `update` can set a version back); `DecreaseOnce`; `ShortForGood`; `OnlyDecreasesBesideOrdersAreLost` |
| `inventory_decreases` | 4 decreases of 1 or 2 units, stock 4, 3 attempts | `ConflictMeansContention`, `ImplementsLedger` |
| `storefront` | 3 requests in eleven combinations: an update, a second write, a read | `TypeOK`; `StaleNeedsReason`; `SerialUpdatesSurvive`; `StaleGoes` |
| `storefront_lists` | an update of an order and a read of a page | a **violation**: `ListsInvalidated`, see below |
| `notifications` | 1 job, 1 worker, 2 users and 2 newcomers, who register in either order, pages of 2, 2 attempts, 1 stall, with and without equal `createdAt`, with and without a message | `TypeOK`; `MissedNeedsRemoval`; `OncePerRun`; `EveryJobEnds` |
| `rate_limit` | 1 client, 2 requests at a time, limits 1 and 2, TTLs of 3 and 5 half seconds | `TypeOK`; `TwiceTheLimit`; `RetryAfterSuffices`; `RefusedOnlyAtLimit`; `ShutOutEnds` |
| `gateway` | 3 requests in eleven combinations, 2 mail workers, 3 attempts, 1 stall | `TypeOK` with referential integrity; `OneAccountPerEmail`; `HonestStatus`; `MailPromise`; `EverythingEnds` |

Bounds, and why they are enough. Three clients are a holder, one that comes after
it and one that arrives while the second holds, which is what a late release
needs to hit the wrong owner; the TTL spans several ticks and is longer than the
deadline in one run and shorter in the other. Names do not interact in RedisLock, so
one is enough. In OrderCheckout two shared products are the least that can make a
cycle of leases or of rows, three orders let one lapse, one sell and one refuse;
the shelf (2 and 1 units) is sold out exactly, overrun and under-run by the
carts. `MaxAttempts` bounds only the number of tokens a client makes.
InventoryService needs more rivals than attempts to reach a conflict: three
rivals for the code's three attempts, two for two.

Storefront: a stale entry needs a reader between two writes, so three requests are
enough; the combinations put every kind of key next to the writes that concern
it. Notifications: up to four users in pages of two give full pages, incomplete
ones and a user whose place moves when an earlier one is removed; it takes two
newcomers for one to appear before another who was there first. One worker: two
runs of one job at the same time touch each other only through the log rows that
keep users from being removed, and a job that stalls under a live worker is run
again after its first run. RateLimit: limits of 1 and 2 are the least that
differ; the TTLs are no whole seconds, so that rounding matters, and neither
divides the other; `MaxHits` = 4 is two above the larger limit. Gateway: three
rivals for one key or row, and both ends of every foreign key.

In the runs of RedisLock and RateLimit time never stops, and TLC checks that
there is no deadlock. The other runs disable that check because an instance
ends when all its calls have ended.

Fairness. RedisLock: weak fairness of `Tick` and of a waiting call's own steps
(timers fire, Redis answers); none for holders, whose callbacks may hang.
OrderCheckout: weak fairness of a request's own next step, of row deadlock
detection and of lease expiry. `LockTimeout` is strongly fair: a request that
sleeps and retries again and again reaches its deadline, which `WaiterEnds`
shows of the loop that implements it. Storefront: only that Redis drops entries whose TTL has run out; a request may
hang at any step. NotificationBatch and EmailDelivery: weak fairness of workers
that take jobs and go on (BullMQ polls, and a process that dies is restarted by
the cluster) and of BullMQ's stalled check, for jobs that no live worker works
on. RateLimit: time passes. Gateway: handlers go on, as every statement answers
or rejects. No run assumes anything of arrivals or failures.

What the runs say about the code. The lock is a correct lease;
the checkout is correct exactly as long as leases outlast transactions, and when
they do not, it can sell too much but never refuses too much, never deadlocks on
leases and always ends. Nothing in the code detects the late case: the lease is
10 s, never renewed, and not checked again before COMMIT. The retry loop at
`order.service.ts:303` would be the place, but `save()` reports no version mismatch.
`StaleReadsLostTheirLease` says how little it would have to catch: an order whose
quantities no longer fit a committed row has lost the lease of that row, or follows
a late commit. That leases come back after a crash or a lost reply rests on PX
alone, and RedisLock shows it (`LockComesBack`).

Beside orders, `decreaseStockOptimistic` can be undone: an order that read the row
before the decrease saves over it. `OnlyDecreasesBesideOrdersAreLost` bounds the
loss by exactly those decreases; everything else adds up.

The caches of single orders and products, of the featured list and of the
product statistics are coherent but for two windows, both closed by the TTL: a
read that began before a write may store its answer after the invalidation, and
a deletion that fails is only logged. An update inherits what such an entry
holds; without one, and without a rival, it changes nothing but its own columns.
Order pages are different: **the one finding**. `invalidateListCache`
(`order.service.ts:243-254`) deletes the pages named under `cache:keys:orders:list`,
which nothing in the repository writes, so it deletes none, although the comment
at `:236` says that it deletes all list caches. `storefront_lists` shows the page
that stays. The comment at `:246-248` recommends a short TTL instead, and the 60 s of
the pages are what ends the staleness, as `StaleGoes` shows.

A notification job with a message may miss a user only if one created earlier was
removed while it ran (one without a message misses everybody and completes); a user is told twice only by a second run of the job, which starts again
from the first page. Both hold of users whose place in the pages is settled:
`createdAt` must order them, and nobody may appear before them later, as a
registration that commits after one that began later does. The rate limit
lets through up to twice the limit around the end of a window, never more while
Redis answers, and its `Retry-After` is long enough. Requests that arrive while Redis
fails all pass and are counted in no bound (`app-throttler.guard.ts:71-85`). Registration's check for the e-mail is not
atomic, and the unique column makes up for it; the loser of the race is told 409
where a later request is told 401. Only a 500 leaves a client in doubt.

## 4. Proofs

TLAPS checks the following for every value of the constants that the named
assumptions of the modules allow: any numbers of clients, requests, products,
users or workers, any stock, limits, TTLs, page sizes and attempts. Each safety
property of a passing run is proved, under the conditions named below; TLC has
checked the inductive invariants on the runs' instances.

`RedisLockProofs`
- `TypeCorrect`, `LeaseProtects`. `LeaseProtectsHolder` is inductive with the
  types and the fact that whoever has sent a `SET` has made a token. A `SET NX`
  meets a key with no time left, so no running lease is on it; a release compares
  tokens, and different clients' tokens differ; a tick ages key and lease alike.
- `RedisLockImplementsContract`: each step is a step of LeaseLock or a stutter;
  a tick maps to the simultaneous lapse of all keys whose last tick has come.

`OrderCheckoutProofs`, from `CheckoutAssumption` (finitely many products, which are
naturals in the order of the sort; carts and stock are functions to naturals;
`NoOne` is no request)
- `TypeCorrect`.
- `NoLossBeforeLateCommit`, `ConservedInTime`, `ExclusiveInTime`. The invariant
  `CheckoutInv` adds to the types: `TransactionShape` (what is to be saved, and
  what was, is part of the cart, and every row exists), `HoldsAll` (a request in
  its transaction has all its products in `acquiredLocks`), `LeasesHold` (with
  `~SlowHolders`, whoever counts on a lease owns it) and `Balance`: before any
  late commit, stock and orders balance, and a saving request that owns the lease
  of a row has computed from its committed quantity. Conservation alone is not
  inductive: a commit writes absolute values, and only `Balance` says they are
  still right. `TransactionSteps` first reduces the actions to six kinds.
- `NoStaleReadUnderLease`, without assumption on leases: it is the half of `Balance`
  that speaks of orders not yet committed.
- `NothingHeldAtTheEnd`, without assumption on leases: `EndedHoldsNothing` is
  inductive with the types. Each action that ends a request has let go of its
  last lease; every other one keeps it among the running ones.
- `RefusalsFinal`, without assumption on leases. Its invariant `NeverShort` says
  that stock plus orders never add up to less than the initial stock, and neither
  do the values a transaction is about to write together with its own order.
- `NoCircularWait`, without assumption on leases. `OrderInv`: while a request takes
  its leases, those it has come before those it lacks. In a circle the request
  whose next product comes last waits for one that lacks a still later one.
  `LastProduct` finds that last product as the one with the fewest behind it.
- `CheckoutImplementsLedger`: with `~SlowHolders`, `Commit` is one `Sell` and all
  other steps stutter.

`InventoryServiceProofs`, for all callers, calls, quantities and `MaxRetries`
- `TypeCorrect`: no quantity is ever negative. Inductive with `EntityRead`: whoever is
  about to save has read a row, and an order found enough on it.
- `DecreasesOnce`: `TakenSoFar` adds to `DecreaseOnce` how often a call has taken
  its quantity at each point of its way.
- `ConflictsAreReal`: `AttemptsLost` counts one foreign write per attempt, and one
  more as soon as the row differs from what the call has read. A miss means that it
  differs, because what was read had the version and the quantity.
- `LossIsBounded`, `RefusalsAreFinal`: `BalanceInv` says of an inventory that is only
  ordered and decreased that there is one row and at most one order, that what is
  left and what was taken bound the initial quantity from above and below (with
  `beside`), and that the same bound holds of what an order is about to save.
- `DecreasesImplementLedger`: if all calls are decreases, `DecreaseHit` is one `Sell`
  and all other steps stutter.

`StorefrontProofs`, for all requests, tasks and rows
- `TypeCorrect`: `TypeInv` says which task may be where (`PcFits`), what a request
  has in hand (`HandFits`) and that only a write that was made has keys to delete
  (`TodoFits`); what is cached of a single order or product shows a row (`CacheInv`).
- `StaleHasAReason`: `CoherentInv` states it of every key that invalidation is
  responsible for. It needs `BornInv`: nobody knows anything of a row that is still
  to be created, or its creation, which deletes no key of its own, could leave
  something stale.
- `UpdatesSurvive`, an action property: `SerialInv` says that an update or a removal that
  is not excused has no rival under way, and has in hand the row as it is.

`NotificationBatchProofs`, with any number of workers on any number of jobs. The
invariant has four parts:
- `RowsOK` and `QueueInv`: every start of a job was ended by a failure or a stall, or
  was the last one (`JobFits`), which bounds the number of runs.
- `RunsInv`: `RunFits` (the run is at a batch that exists, and there are enough batches
  for those it counted), `NoneTwice` and `NoneMissed`. Both rest on places: the
  place of a user in any listing by `createdAt` is the number of older users
  (`PlaceIsRank`). The users told have places before the pages read so far, and a
  user who was counted and is still due has a place on the page or behind it.
  Removals only lower places, and nobody moves a settled place up.
- `TallyInv`: deliveries to a user and the runs that have not told that user add up
  to no more than the starts of the job; log rows never exceed deliveries.
- Hence `TypeCorrect`, `NobodyIsToldTwiceByARun`, `OnlyRemovalsHideUsers`. The proof showed
  that what they say depends on `Settled`: an instance with a single newcomer had
  hidden that a user who appears late, but before others, pushes them to a page
  that may be read already or again.

`RateLimitProofs`, for all limits, TTLs and bounds `MaxHits` on the counters
- `TypeCorrect`.
- `RetryAfterIsEnough` and `RefusalsAreDue`: `Accounted` relates hits to the requests
  that passed and those whose answer was lost; once a counter is above its limit by
  more than the latter, somebody was refused and told at least what is left.
- `AtMostTwiceTheLimit`: `Numbered` says that hits of one counter have different
  numbers up to the limit. Those remembered of the last TTL come from the counter
  that is there and from at most one before it, so each number occurs at most twice.

`GatewayProofs`, for all requests, mails and workers
- `TypeCorrect`, with referential integrity: a request that is about to write has
  passed its checks (`PcFits`), and each statement checks its own keys.
- `HonestAnswers`: `HonestInv` adds that a request which has not ended has written
  nothing. Every step either goes on, refuses, serves or writes (`Ends`), and the
  filter's statuses are computed for each exception the code may throw.
- `AccountsAreUnique`: `AccountsBounded` counts, beside the accounts created for an
  e-mail, the room there is for one more while the e-mail is free.
- `MailsKeepTheirPromise`, the theorem about EmailDelivery: `QueueBounded` counts the
  workers that are handing a mail over as if it were accepted already; `DirectHonest`
  does the same for the loop that sends without the queue.

Only model-checked: liveness (`WaiterEnds`, `LockComesBack`, `EveryRequestEnds`,
`StaleGoes`, `EveryJobEnds`, `ShutOutEnds`, `EverythingEnds`), which is out
of the prover's reach, and the violation of `ListsInvalidated`. That `Responses`
translates each status once, and that the presets are sound, TLC evaluates as
assumptions, on which no proof rests.

## 5. Assumptions and what is not modelled

- Quantities are natural numbers and stay far below the width of the column.
- Redis keeps its keys (it runs with an append-only file); one Redis node.
- Callers pass positive TTLs and timeouts, as the only caller does.
- One inventory per product (unique foreign key).
- Ids name one row each: a new order, product, user or payment never gets the id
  of an old one (`randomUUID`), and no id reads like the name of a cached list.
- `OrderItemDto.quantity` has no `@Min`: that quantities are natural numbers is
  an assumption about clients, not something the code enforces.
- BullMQ, TypeORM and PostgreSQL are modelled from their use here: BullMQ's
  `maxStalledCount` is its default, TypeORM's `save()` is a SELECT of the row by id
  and then an UPDATE of what differed, or an INSERT if the row was gone. These are two
  steps everywhere (`Compare`, `CompareRows`, `Diff`); the UPDATE does not ask how
  many rows it hit.
- RateLimit and Gateway are separate: `RateLimitModule` is imported by no module
  that `AppModule` reaches and no handler carries `@RateLimit`, so today the
  guard runs for no request. It is modelled as it would work once it is used. (As a
  global guard it would run before `JwtAuthGuard` and find no `req.user`.)

Not modelled, and why:

- Bootstrap, configuration, modules' wiring, Swagger: nothing changes there once
  the program runs.
- Seeds, benchmarks, load tests: scripts beside the program, run by hand, one
  after the other.
- Token signing and hashing: pure functions of libraries. `login` may find the
  password right or wrong.
- The single rules of DTOs: a body is valid or it is not.
- `NotificationService.getLogs` and `getStats`, and `findAll` of inventory, users and
  payments: one query, answered, no state.
- `NotificationJob`, a cron class, is no provider of any module; the dead-letter
  queue and `DEFAULT_JOB_OPTIONS` of `src/libs/bullmq` are not used;
  `sendOrderConfirmationEmail` is not called.
- What `save()` does with the loaded relations of an entity (a payment's order, a
  product's inventory): a failure of it is one of the statement's failures.

## 6. Plan

Done: every component above that runs. What is left:

1. **LockBudget** - the sorted lock loop with real lease times: 10 s lease, 5 s
   per wait, no renewal. Question: for how many products can the first lease run
   out before the transaction starts? One small run, and a proved bound.
2. **Shop** - OrderCheckout's transactions over several rows together with
   InventoryService's statements and leases that run out; so far they meet in
   InventoryService on one row and with leases that last.
3. Proofs: the bound of LockBudget; what Shop says of orders and decreases over
   several rows, from `CheckoutInv` and `BalanceInv`; EmailDelivery and JobQueue as
   theorems of their own, for other queues than Gateway's.
