# Verification of the order and inventory reservation service

TLA+ models of this repository's Go service, TLC configurations that check them on
small instances, and TLAPS proofs of what must hold for every number of clients,
janitors, products and orders. Paths such as `internal/store/orders.go` are
relative to `src/`.

The centre is the reservation itself: stock leaves `products.stock_quantity` when an
order is placed and comes back exactly once if the order is cancelled, by its owner
or by a janitor, while any number of requests and service instances run, wait for
row locks and connections, deadlock, time out, lose the answers to their commits and
send their requests again.

## 1. The system

```
 client --HTTP--> chi router
                   |-- AuthTokenMiddleware --- getUser ---------------> cache.Users (Redis)
                   |                             `- store.Users.GetById   ^ go Set
                   |-- ordersContextMiddleware - getOrder ------------> cache.Orders (Redis)
                   |                             `- store.Orders.GetById  ^ go Set, go Delete
                   |-- checkOrderOwnership / checkRolePrecedence
                   `-- handlers --> store (PostgreSQL transactions)
 cancelStaleOrdersJanitor (one per instance) --> store.Orders.CancelStale, cache.Orders.Delete
 run --> signal goroutine --> srv.Shutdown ; a.stop --> janitor
```

| component | code | state | operations | model |
|---|---|---|---|---|
| order store | `internal/store/orders.go`, migrations 003-005 | rows of `products`, `orders`, `order_items` and their locks | Create, Cancel, Confirm, CancelStale, look-ups | `OrderStore`, its promise `Inventory` |
| order cache | `internal/store/cache/orders.go`, `cmd/api/orders.go`, `middleware.go`, `compose.yml` (Redis and its snapshots) | Redis entries with expiry, goroutines under way, the last snapshot | getOrder, `go Set`, `go Delete`, the janitor's Delete, a restart of Redis | `OrderCache` over `OrderLife`, `OrderCacheCrash` |
| order API | `cmd/api/orders.go` | - | place, get, cancel, janitor | placing in `PlaceOrder` over `Inventory`; the others in `OrderCache`, `Access` |
| users store and cache | `internal/store/users.go`, `cache/users.go`, `cmd/api/users.go` | rows of `users`, Redis entries | Create, GetByEmail, GetById, getUser | `Sessions`, `Access` |
| authentication | `cmd/api/auth.go`, `internal/auth/jwt.go` | none on the server; tokens at the clients | register, login, refresh, validate | `Sessions` |
| authorization | `cmd/api/middleware.go` | - | AuthTokenMiddleware, checkOrderOwnership, checkRolePrecedence | `Access` |
| products | `internal/store/products.go`, `cmd/api/products.go` | rows of `products` | Create | `CreateProduct` in the stores, its admin check in `Access` |
| server lifecycle | `cmd/api/api.go`, `main.go` | two unbuffered channels, the listener | run, Shutdown, stopping the janitor | `Lifecycle` |
| health | `cmd/api/health.go`, `internal/store/health.go` | - | role, Ping | `Pool` |
| connections | `internal/db/db.go`, `internal/store/storage.go`, `cache/redis.go`, `compose.yml` | the pool of `database/sql`; Redis and its snapshots | taking a connection, giving it back; a restart of Redis | `Pool`, `OrderCacheCrash`, `Access` |
| JSON, errors, validation | `cmd/api/json.go`, `errors.go`, `utils.go` | - | which reply an error becomes | `PlaceOrder`, `OrderCache` |
| migrations and seed | `cmd/migrate` | the schema | up; INSERT of an admin | constraints are guards of the stores; the seed is in `Sessions` |
| configuration, API docs | `cmd/api/config.go`, `internal/env`, `docs` | - | - | not modelled (section 8) |

### What makes it hard

`PROJECT.json` lists each hazard with its line. They fall into these groups.

* **Overlapping transactions** (`internal/store/orders.go`). PostgreSQL runs at READ
  COMMITTED. The stock check of Create (line 189) is in one loop and the
  subtraction in a later one (line 221); only `FOR UPDATE` connects them. Cancel
  puts the stock back first and looks at the status last (line 329), so two
  cancellations of one order both add the stock and one must be undone. Janitors of
  several instances select from the same stale orders (`FOR UPDATE SKIP LOCKED`).
* **Deadlocks.** Create locks products in the payload's order; CancelStale locks
  orders, then products in the random order of a Go map; Cancel locks products, then
  the order. Every pair of these can wait in a cycle.
* **Partial failure.** A context may end between any two statements. CancelStale
  has no deferred `Rollback`: its early returns leave the transaction open, with its
  locks, until the context is cancelled. A COMMIT may succeed with its reply lost.
* **Stale caches.** `Set` and `Delete` are goroutines that nobody waits for; a `Set` that
  carries a pending order may run after the `Delete` of its cancellation. `Confirm`
  deletes nothing. The janitor drops the error of `Delete`. A cached user is never deleted
  when its role changes.
* **Retries.** A client whose 201 is lost, or whose COMMIT got no answer, has an order it
  does not know of, and sends its key again, perhaps while the first handler still runs.
  The replay is two SELECTs in which others go on.
* **One pool.** All calls take their connections from one pool of `MAX_OPEN_CONNS`, and keep
  them while they wait for a row. CancelStale gives its connection back only when
  `database/sql` rolls its transaction back, and the Ping of the health check has no deadline.
* **Crashes of Redis.** `redis-server --save 60 1` and `restart: unless-stopped`: the cache comes
  back as it was at its last snapshot, with deleted entries in it.
* **Shutdown.** Two unbuffered channels, four goroutines and requests that may hang.

## 2. Modules

| module | models | abstraction |
|---|---|---|
| `Ledger` | rows as values: an order with its items, the units of a product a set of orders holds | prices, names and totals are left out; a product quantity is a number of units |
| `OrderLife` | what everybody else relies on about an order: pending, then settled once | one status per order |
| `Inventory` | the promise of `internal/store`: Place, Cancel, CancelStale, Confirm, CreateProduct, each atomic | - |
| `OrderStore` | the same four operations of orders, one action per SQL statement, over row locks | see below |
| `OrderStoreInv` | the inductive invariants of `OrderStore`: of its rows and locks (`IInv`), and of what each call is about (`CallsInv`) | - |
| `OrderCache` | the read-aside cache of orders, GET and cancel, goroutines, janitor, expiry, restarts | an order is its status and whether its items are all there; time in ticks |
| `OrderCacheCrash` | `OrderCache` and a Redis that crashes and comes back with its last snapshot, or with none | a snapshot is the entries and the ticks they have left |
| `PlaceOrder` | `placeOrderHandler` end to end over `Inventory`: Create, replay of a key, lost replies, restarts, and the clients that retry, beside others | payload checks have passed; Create is Inventory's atomic `Place` |
| `Pool` | connections and one row all calls compete for | a statement takes one step; several rows are in `OrderStore` |
| `Access` | the user cache, the two authorization checks, and how old the role is that they decide on | a user is the level of its role |
| `Sessions` | register, login, refresh and requests, with token types and expiry | a password is the client that knows it; a token exists only if the service issued it |
| `Lifecycle` | run, the signal goroutine, Shutdown, the janitor's select | a request is in flight or answered |
| `LedgerProofs`, `OrderStoreProofs`, `PlaceOrderProofs` (with those of `Inventory`), `OrderCacheProofs`, `AccessProofs`, `LifecycleProofs`, `SessionsProofs`, `PoolProofs` | theorems and proofs | - |
| `MCOrderStore`, `MCOrderCache`, `MCPlaceOrder`, `MCAccess`, `MCSessions` | constants and symmetry for TLC | - |

`Inventory => OrderLife`, `OrderStore => Inventory` and `OrderStore => OrderLife` are refinements (`INSTANCE`);
`OrderCache` takes its order rows from `OrderLife`, so what holds there holds over
any store that keeps that promise. `PlaceOrder` extends `Inventory`: it takes the rows and the operations
on them from there, adds the requests and their clients, and implements it (`PlaceOrderImplementsInventory`).

### OrderStore

`stock` and `orders` are the committed tables. `draft[p]` is `products.stock_quantity` as
the transaction holding the row of `p` sees it; `prodLock` and `orderLock` say who
holds a row. A statement that needs a row held by another transaction is not
enabled: it waits. `tx[t]` is a transaction between two statements: `pc` says which
comes next, `op`, `user`, `key` and `items` are the arguments of the call, `batch`,
`todo`, `cur` and `marked` its progress, and `answer` what the last call returned.

| code | action |
|---|---|
| Create 162-171: BEGIN | `BeginCreate` |
| 172-195: `SELECT .. FOR UPDATE` of one item, stock check | `LockItem` |
| 197-219: `INSERT INTO orders` | `InsertOrder`, or `InsertRefused` for a taken key; waiting for a twin in flight is `KeyFree` |
| 221-236: item rows and `UPDATE products` | `WriteItems` (rows already held, so one step); the primary key of `order_items` and `CHECK (stock_quantity >= 0)` are its error branch |
| 237: COMMIT | `CommitCreate` |
| Cancel 283-316 / 317-328 / 329-344 / 345 | `BeginCancel` / `CancelRestock` per item / `CancelMark` / `CommitCancel` |
| Confirm 240-256 | `Confirm` |
| CancelStale 348-411 / 413-415 | `BeginStale` with a batch / `BeginStaleEmpty`, which returns with the transaction open |
| 417-430 / 432-446 / 448-451 | `StaleRestock` per item / `StaleMark` / `CommitStale` |
| deferred `tx.Rollback()`; in CancelStale only the deferred `cancel()` | `Rollback`; `Abandon`, then `RollbackAbandoned` |
| context ended, connection lost | `TxTimeout`; after COMMIT, `CommitUnanswered` |
| PostgreSQL's deadlock detector | `DeadlockVictim` |

The order of a Go map is a nondeterministic choice (`cur`), and so is the order in which
the rows of a query come. Row locks, drafts, waiting and deadlock detection stand for
PostgreSQL and are marked external in the map.

### OrderCache

`Tick` lets time pass for entries, goroutines and queries. `TimeMayPass` says that a
context ends in time: a goroutine or query whose ticks are used up must take its
turn (and may fail) before time goes on. That is what makes `Bound` a real bound.
`age` and, in `Access`, `was` are history variables: they record how long ago a row
settled or a user had a role and no action reads them.
The janitor's round is atomic here, since `OrderStore` shows that CancelStale is;
that a committed round may return no ids (`JanitorRound(S, {})`) is kept.

`OrderCacheCrash` adds `saved`, the last snapshot. Redis writes when an entry expires into a
snapshot as a point in time, so entries go on ageing in it (`SavedLater`). `Save` may happen at
any time, `RedisRestart` too, and `RedisReplaced` is a container made anew without its
snapshot. `Access` has the same three actions.

### PlaceOrder

`req[r]` is one run of `placeOrderHandler`. `Intents` are the clients that are followed; others, with keys of
their own, share the rows (`Elsewhere`). `told`, `refused` and `doubtful` are history variables:
what the client of an *intent* (a user and a key) has been answered. Only `InDoubt`, which says
when a client asks again, reads them.

| code | action |
|---|---|
| 43-76: headers, payload, user | `Send` |
| 78: Create commits, 101 | `Create`; `CreateUnanswered` if the answer to COMMIT is lost |
| 79-85: 404, 409 | `CreateRefused` |
| 86-87: the unique index | `CreateDuplicate`; then `Lookup` and `LookupItems`, the two SELECTs of GetByIdempotencyKey |
| 88-97: 500 | `CallFails` |
| the reply arrives, or not | `Receive`, `ReceiveError`, `LoseReply` |
| the process is killed | `Restart` |
| cancel, confirm, the janitor, createProductHandler, other clients' orders | `Elsewhere` |

### Pool

`conn` says who has each connection, `row` which connection has locked the one row everybody wants.
A call has `left` queries to make; between two of them it gives its connection back. Create, Cancel,
Confirm and CancelStale lock the row; CancelStale's early returns `Leave` their connection to
`awaitDone` of `database/sql`. Ping (`HasDeadline`) is the one wait that no context ends.

### Access, Sessions, Lifecycle

In `Access` a request is about an order of `owner` (`Nothing`: somebody else's, or a new
product); `checkRolePrecedence` asks for level 10 as `middleware.go` does. A role change
is an operator's `UPDATE`, which the code provides no handler for, and is marked external.
In `Sessions` a client may put either of its tokens into the header, two clients may use one
email, replies are lost (`RegisterUnanswered`), and the seed is the same INSERT.
In `Lifecycle` a send and its receive on an unbuffered channel are one action, and
`Exited` (a self-loop once `run` has returned) lets TLC check deadlock.

## 3. Runs

| run | shows | distinct states |
|---|---|---|
| `place_order` | `RepliesAgree`, `NoSilentOrder`, their inductive invariant, and `RetriesSettle`, with retries that ask for other items; with `Inventory` below, stock never negative, `StockConserved`, every step an `OrderLife` step | 235,508 |
| `store` | two clients and a janitor compete for stock and for one key: `StockConserved`, `LocksHeldByOpenTx`, `OneOrderPerKey`, `CheckedStockStays`, `SuccessStands`, `RefusalsJustified`, `OrdersSettleOnce`, and no stock below zero though a payload names a product twice | 711,107 |
| `janitors` | two janitors, whose rounds take one of two orders, and a client: `BatchStaysPending`, both inductive invariants, refinement of `Inventory` and of `OrderLife`; `StaleOrdersSettle` beyond the limit and behind rounds that fail | 94,614 |
| `live` | two clients that lock two products in opposite orders, and a janitor: once clients stop calling, every call is answered, and the stale order settles although rounds are aborted | 23,337 |
| `pool` | `NoHoldAndWait`, its inductive invariant, and that every call is served | 10,134 |
| `order_cache` | with a Redis that crashes: `CacheTellsThePast`, `StaleBounded`, `CancelledOnce`, the inductive invariant (with the types) | 1,384,263 |
| `access` | `RoleIsRecent`, `ServedIsAllowed`, `RefusedIsJustified`, their inductive invariant (with the types) | 805,381 |
| `sessions` | `ServedAsOneself`, `AccessShortLived` | 1,304 |
| `lifecycle` | `CleanStop`, `SignalExits`, no deadlock | 868 |
| `retry`, `order_items`, `sessions_email` | the disagreements of section 5 | violation |

Several questions share a run where one instance answers them: exploring it is what takes the time.

What the main properties say, and what they would catch:

* `StockConserved` - for each product, stock plus the units of pending and confirmed
  orders is the initial supply. Breaks if an error path publishes a draft, a cancelled order is
  put back twice, or a sign is wrong.
* `CheckedStockStays` - what the first loop of Create found sufficient still is in the
  second. Breaks without `FOR UPDATE`.
* `OneOrderPerKey`, `RefusalsJustified` - the unique index serialises retries, and whoever
  is told "duplicate" finds the order.
* `TypeOK`, `IInv` - stock is a natural number. Each line of a payload is checked against the whole stock, so
  a product named twice passes with more than there is (`TwiceNamed`: 2 and 1 of 2). Only the primary key
  of `order_items` and the CHECK of `products` stop it: the mutants take them away, or have the INSERT
  skip a second line for the product while the UPDATE still subtracts it.
* `BatchStaysPending` - the `ErrOrderCannotBeCancelled` return in CancelStale (line 445) is
  dead code, because the batch is locked.
* `StaleOrdersSettle` - a round takes the oldest stale orders, at most 50. Breaks if a round can fail for an
  order that the next round selects again: with `status <> 'cancelled'` in the query, one confirmed order at the
  head of the list would stop every round (the mutant of `janitors`).
* `StaleBounded` - a settled order is not cached as pending for longer than a query (5 s), a
  goroutine (3 s) and the TTL (5 min) together, however Sets and Deletes race or fail.
  It holds although Redis may come back with a Delete undone.
* `RoleIsRecent` - the same for roles, plus the time of a request.
* `RepliesAgree` - every 201 to one user and key names one order. Breaks if the replay finds
  an order of another key, or a retry places a second one.
* `NoSilentOrder` - who was only ever told 404 or 409 holds no stock. Breaks if an error that may
  hide a commit is told as a refusal.
* `RetriesSettle` - repeating a request ends every doubt.
* `NoHoldAndWait`, `CallsServed` - the pool cannot be used up by calls that wait for each other.
  Breaks if one statement of a transaction goes to `s.db`, or CancelStale's context is not cancelled.
* `SignalExits` - `run` returns after a signal although nobody promises that a request ends.

### Bounds, and why they are enough

* *Transactions.* Two requests and a janitor, or one request and two janitors. A lost
  update, a double put-back, a taken key and a cycle of waits each need two
  transactions; the third is there to interfere.
* *Products and payloads.* Two products. `live` names them in both orders (lock
  inversion); `store` has payloads that empty a shelf, that name a product twice and together exceed the
  stock, and that have no product in common, so that two requests with one key both pass the stock check. `janitors`
  has one product, since it is about orders, and a payload that names it twice within the stock. One user; a second would
  only make keys disjoint.
* *Orders.* Two. In `store` a round takes both; in `janitors` one, so that the other is beyond the limit. One order
  in `live`, where two clients and two products make the deadlocks.
* *Clock.* `CancelPendingInterval = 0` makes an order stale after one tick; the age of an order is only
  ever compared with that interval. In `janitors` the orders that become stale are of one age: `ORDER BY` then lets a
  round take either, which includes the choice that is worst for the other: no stale order starves even where
  the ages do not decide.
* *Cache and access.* One order, or one user: entries do not interact, and what the janitor
  does with several ids it does to each. Two requests and two goroutines give one Set
  or Delete to overtake another. TTL is 2, so that an entry ages before it expires. In `order_cache` a
  query may take a tick and a goroutine none, so a Set outlasts a tick only with its query; it still
  overtakes any Delete. The theorems are for all three durations.
* *PlaceOrder.* Two requests are enough for a retry that overtakes the attempt before it; a second client of the
  same user, to tell a look-up by user and key from one by user; two units in stock, one for each or both for one. Order
  ids do not run out: there is one for each key. A request asks for one unit or for two, so a retry may ask for
  something else than the attempt before it.
* *Pool.* Two connections and three calls, one of them a janitor's, so that the pool and the row are both fought
  over, and both connections may be with calls that wait for the row.
* *Sessions.* Three rows, two clients and two emails: both clients on one email, and one with two
  accounts.
* Symmetry is used only in runs without liveness properties, and only over sets
  whose members the model treats alike.

`Jobs` bounds the goroutines started and not finished; `StartJob` waits for a free one, which
only delays a request, and the proofs hold for any number of them.

## 4. Fairness

`OrderStore!FairSpec`: weak fairness of the clock, of the janitor's ticker and of the deadlock
detector, which are PostgreSQL's and the runtime's to provide. *Strong* fairness of the
statements of a call, because a statement that waits for a row is enabled only
while the row is free, and PostgreSQL queues its waiters: a later transaction does
not get the row first for ever. No fairness for clients, timeouts or lost replies. `CallsAnswered` and
`StaleOrdersSettle` are stated for behaviours that are eventually quiet (`Quiet`): with clients that
go on locking the same rows, or contexts that go on ending early, a stale order may
be skipped in every round, and the code does not promise otherwise. `Interrupted` is only what comes from
outside: a statement that fails by itself, such as the UPDATE of a settled order that ends a round
(`StaleMark`), and an abort by the deadlock detector are no interruptions, and may happen for ever
if the code lets them.

`PlaceOrder!Fairness`: weak fairness of handlers and of replies, since every call has a context with a
deadline. Strong fairness, for each followed client, of the successful outcomes of its attempts and of
`SendAgain`: faults may come back
for ever, but what is tried again and again succeeds at some time, and clients in doubt do try again.
Without it `RetriesSettle` would ask a service that never answers to answer.

`Pool!Fairness`: weak fairness of the steps of calls and of `AwaitDone`. Strong fairness of taking a connection,
because `database/sql` hands a free one to a waiting call (a random one since Go 1.23), and of locking the
row, because PostgreSQL queues its waiters. Nothing is assumed of `GiveUp` and `Fail`: no context has to end, so
`CallsServed` holds for Ping too.

`Lifecycle!Fairness`: weak fairness of the goroutines' steps and of the ends of their
contexts; none of `Answer`, so requests may hang. Strong fairness of `StopJanitor`, because
Go's `select` chooses at random among ready cases: with a tick and the stop both
ready it does not take the tick for ever.

## 5. Disagreements between the code and what is said of it

1. **A retry may be refused** (`retry`, `RetryIsNotRefused`). The stock check (`internal/store/orders.go:189`)
   comes before the INSERT that meets the unique key. A client that repeats a request that
   was placed and took the last units gets 409 "insuffcient stock amount", not its order;
   `cmd/api/orders.go:33` says the key makes "the request idempotent".
2. **An order may be shown without all of its items** (`order_items`, `ShownWhole`).
   The loop at `internal/store/orders.go:143` ends on any error and `rows.Err()` is not read; `getOrder`
   then caches the incomplete order under a context of its own.
3. **Emails are not unique** (`sessions_email`, `EmailUnique`). No migration declares the
   constraint that the `ErrDuplicateEmail` branch of `internal/store/users.go:131` waits for. Even so a client is
   served only as an account whose password it knows (`ServedAsOneself`, proved).

## 6. What is proved

`tlapm` checks every proof to the last leaf, for all values of the constants. The assumptions
are the named `ASSUME`s of the modules: `NoOrderAssumption`, `InventoryAssumption`, `TxAssumption`,
`PayloadAssumption` (what the validator demands of a payload), `BoundsAssumption`, `CacheAssumption`,
`AccessAssumption`, `SessionsAssumption`, `PlaceOrderAssumption`, `PoolAssumption`. They say that constants have their types, that the values for "no row" and
"nobody" are not rows or transactions, and that timeouts are natural numbers. No set is assumed finite:
`UnitsFinite`, which the counting needs, is part of the invariants.

* **`LedgerProofs`** - the units of a product in a set of orders: what adding, cancelling
  or removing orders does to their number. Sums of quantities are cardinalities of sets of units,
  so that no recursion over data is needed.
* **`OrderStoreProofs`** - `OrderStoreStockConserved`, `..OneOrderPerKey`, `..LocksHeldByOpenTx`,
  `..CheckedStockStays`, `..BatchStaysPending`, `..OrdersSettleOnce`, `..TypeOK`. `StockConserved` speaks
  of committed rows only and says nothing about what a COMMIT publishes, so it is not
  inductive. `OrderStoreInv!IInv` adds
  what each transaction has done so far (`CreateShape`, `CancelShape`), and therefore what
  the draft of each held row is (`DraftInv`: stock minus the order's quantity, or stock plus
  the units already put back), that ordered and held rows exist, and that two transactions
  between INSERT and COMMIT have different keys and ids. A frame lemma per shape
  (`CreateFrame`, `CancelFrame`, `DraftFrame`) says that a step of one transaction leaves
  the others' parts alone; three lemmas cover all steps of a kind (`LocalInv` for a step that
  changes only its own transaction and locks, `EndInv` for one that ends it, `FreshInv` for one that
  starts); the commits have their own.
* **The answers of the store** (`OrderStoreCalls`, `OrderStoreSuccessStands`, `OrderStoreRefusalsJustified`).
  `SuccessStands` and `RefusalsJustified` need to know which orders a call is about: `OrderStoreInv!CallsInv`
  adds that a Cancel is about one order, that a janitor's batch is within the limit and was stale, and that
  who was refused was refused for rows that exist. It is inductive on top of `IInv`. Rows only settle
  (`RowsSettle`), which keeps every answered call true; a step leaves the calls of the other transactions
  alone (`CallFrame`), so only the step's own call is left to look at.
* **`OrderStore` implements `Inventory`** (`OrderStoreImplementsInventory`), with the committed tables as they are
  and the baskets made of the payloads. Each COMMIT, answered or not, is one `Place`, `Cancel` or
  `CancelStale`; Confirm is one `Confirm`, or a stutter when it is refused; every other statement is hidden
  (`Hidden`). That a COMMIT publishes exactly what `Inventory` takes or releases is `DraftInv`; that the janitor's
  batch is one that `CancelStale` may choose is `CallsInv`. `PayloadsAreBaskets` discharges what
  `Inventory` assumes of its constants.
  From there `OrderStoreImplementsOrderLife`: each of those operations is one step of `OrderLife`, or none. So the
  chain is closed: the SQL statements implement `Inventory` and `OrderLife`, `OrderCache` is built on
  `OrderLife`, and `PlaceOrder`, the handler and its clients, takes its rows from `Inventory`.
* **`OrderCacheProofs`** - `OrderCacheTypeOK`, `..TellsThePast`, `..StaleBounded`, `..CancelledOnce`,
  for any number of requests, goroutines and orders and any timeouts. `OrderCache!IInv` says that
  whatever still carries a pending view of a settled order - an entry, a Set, a query - has so
  little time left that its entry is gone by `Bound`, and that the request which was told it
  cancelled an order is the only one.
  `CrashStaleBounded`, `CrashTellsThePast`, `CrashCancelledOnce` and `CrashTypeOK` are the same for a Redis that
  crashes, which is what the run checks: `CrashIInv` (`CrashInvariant`) asks of a snapshot what `IInv` asks
  of the cache, since either may become the other.
* **`PlaceOrderProofs`**, first part - `InventoryTypeOK`, `InventoryStockConserved`, and
  `InventoryImplementsOrderLife`: every step of the inventory is a step of `OrderLife`, so
  the cache may rely on that alone.
* **`PlaceOrderProofs`**, second part - `PlaceOrderRepliesAgree`, `..NoSilentOrder`, `..ImplementsInventory`, and from it
  `..KeepsStock` and `..ImplementsOrderLife`, for any number of clients, keys, orders and attempts at once. The two
  properties of clients are not inductive: an order in the hands of an attempt must be the one row of its intent
  (`AttemptOK`), as must every order a client was told of, and rows must not change hands: `PlaceOrder!AnswersInv`
  (`PlaceOrderAnswers`).
  `StepImplements` makes each step one of Inventory's, so its invariant carries over; `PlaceRow` says what an
  INSERT does to the rows of a client, `SameRowOf` that nothing else changes whose they are.
* **`PoolProofs`** - `PoolNoHoldAndWait`, for any number of calls and connections; `Pool!IInv` (`PoolInvariant`) adds that a call
  under way has a query to make.
* **`AccessProofs`** - `AccessInvariant`, `AccessTypeOK`, `AccessRoleIsRecent`, `AccessServedIsAllowed`,
  `AccessRefusedIsJustified`, for any number of users, requests and goroutines, any timeouts, and a Redis that
  crashes. `RoleIsRecent` speaks only of a request about to decide. `Access!IInv` follows the role from the row
  to there: it is current when the SELECT runs, and each copy of it - with the query, the goroutine, the entry,
  the snapshot, the request - is as old as the copy it was made from (`was`), so that age and time left
  together stay within what the stages so far may take. A tick moves one to the other; a hand-over adds the
  next stage's time. The two action properties follow, because who is decided on stands at that point.
* **`LifecycleProofs`** - `LifecycleTypeOK`, `LifecycleCleanStop`: once Shutdown has found the server idle it
  stays idle, and run asks the janitor to stop only then.
* **`SessionsProofs`** - `SessionsTypeOK`, `SessionsServedAsOneself`, `SessionsAccessShortLived`: every token
  a client holds is for an account of its own and as old as its last contact.

**Model-checked only:** liveness, that is `CallsAnswered`, `StaleOrdersSettle`, `SignalExits`, `RetriesSettle` and `CallsServed`.
Their arguments need `ENABLED` of the fair actions and well-founded induction over what remains to be done, which
this prover does not do. The invariants they rest on are proved. Every other property of a passing run is proved.

## 7. Plan

Order of the work, most important behaviour first; all but the last are done.

1. `Ledger`, `Inventory`, `OrderStore` with the runs of section 3, and their proofs.
2. `OrderLife` and `OrderCache`, and their proofs.
3. `Lifecycle` and its proofs.
4. `Sessions` and its proofs.
5. `Access`, checked, and its proofs (9).
6. `PlaceOrder` over `Inventory`, and its proofs.
7. Crashes of Redis in `OrderCacheCrash` (proved) and `Access`.
8. `Pool` and its proof.
9. Proofs for `Access`: `RoleIsRecent` by an argument like that of `OrderCacheProofs`, and the two action
   properties from it.
10. Proof that `OrderStore` implements `Inventory`, and `OrderLife`, from `OrderStoreInv!IInv` and `CallsInv`; `SuccessStands`
    and `RefusalsJustified` from the same invariants.
11. Left: the safety half of the liveness properties as invariants that can be proved (that whoever waits for
    a row waits for an open transaction, and that a transaction about to commit waits for nobody).
    A composition of `Access` and `OrderCache` in the order of the middlewares would add nothing that the
    two do not say: the owner of an order never changes, and a cached order has the owner of its row.

## 8. Not modelled

* **Configuration, logging, API documentation** change no state the rest reads.
* **Idle connections** and how long they live: they only make the next connection slower or faster.
* **JSON and validation**: a refused payload changes nothing, and the models take valid payloads. Seen while
  reading, and not in a model: `required` refuses a `stock_quantity` of 0 that `gte=0` allows
  (`cmd/api/products.go:13`); a price below half a cent passes `gt=0` and is stored as 0.00 (line 12); a password is
  counted in characters by `max=72` and in bytes by bcrypt (`internal/store/users.go:41`); keys above 255 characters
  and stocks above an INT end in a 500 that commits nothing.
* **Prices.** No decision depends on one; that `total_price` is summed in float64 is a matter of rounding.
* **Starting.** `compose.yml` starts the API and `migrate` when the database container has started, and each connects
  once; the models begin with both databases up.
* **Headers of CORS.** That `AllowedHeaders` lacks `Idempotency-Key` decides what a browser sends, not what the service does.
* **Rounding of `placed_at`.** The column is `timestamp(0)` (migration 004); `NewOrder` keeps NOW() as it is. An
  order may be stale half a second earlier or later than in the model; no property speaks of so short a time.
* **The CHECK on stock where it is raised.** Only `WriteItems` can meet it. `PutBack` adds to a stock that is not negative.
* **A SET already on the socket.** A goroutine whose context ends gives up its wait for Redis, but Redis may run
  the command a moment later. `StaleBounded` and `RoleIsRecent` hold up to that moment.
* **Several rows in `Pool`, connections in `OrderStore`.** Cycles through rows are the subject of one module,
  waiting for connections of the other; a deadlock victim gives its connection back at once.
* **Signatures, hashing, audience and issuer.** A token is valid if the service issued it with that type and it has not expired.
* **Migrations** as such. Their constraints are guards of the store's actions.

## 9. Running

```
tlc -config PlaceOrder.cfg MCPlaceOrder
tlc -config OrderStore.cfg MCOrderStore           # likewise OrderStore_janitors, _live, _retry
tlc -config OrderCache.cfg MCOrderCache           # likewise OrderCache_items
tlc -config Pool.cfg Pool
tlc -config Access.cfg MCAccess
tlc -config Sessions.cfg MCSessions               # likewise Sessions_email
tlc -config Lifecycle.cfg Lifecycle
tlapm OrderStoreProofs.tla                        # likewise the other *Proofs modules
```

`PROJECT.json` maps every definition to its lines, and gives for every property of a passing
run a mutant: a plausible bug in the code with which TLC finds the property violated.
