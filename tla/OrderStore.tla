---------------------------- MODULE OrderStore ------------------------------
(***************************************************************************)
(* internal/store/orders.go over PostgreSQL at READ COMMITTED: the         *)
(* transactions of Create, Cancel and CancelStale one SQL statement at a   *)
(* time, the single statement of Confirm, and the row locks that make them *)
(* wait for one another.                                                   *)
(*                                                                         *)
(* A row that a transaction has locked has at most one uncommitted version *)
(* (draft), seen by its holder only and published by COMMIT.  A statement  *)
(* that needs a locked row waits: its action is not enabled.               *)
(***************************************************************************)
EXTENDS Ledger, Sequences

CONSTANTS
  Requests,               \* goroutines serving API calls
  Janitors,               \* cancelStaleOrdersJanitor, one per running service
  None,                   \* no transaction, no user, no key
  Payloads,               \* the item lists clients send, in the client's order
  StockLevels,            \* initial stock quantities an admin may enter
  CancelPendingInterval,  \* clock ticks after which a pending order is stale
  BatchLimit,             \* LIMIT of the janitor's query
  MaxClock                \* bound of the model on the clock

Tx == Requests \cup Janitors

Item == [product : Products, quantity : Nat \ {0}]

ASSUME TxAssumption ==
  /\ None \notin Tx
  /\ Requests \cap Janitors = {}

\* validate:"required,min=1,dive" and "required,gt=0" on placeOrderPayload.
ASSUME PayloadAssumption == Payloads \subseteq Seq(Item) \ {<<>>}

ASSUME BoundsAssumption ==
  /\ StockLevels \subseteq Nat
  /\ CancelPendingInterval \in Nat
  /\ BatchLimit \in Nat \ {0}
  /\ MaxClock \in Nat

VARIABLES
  supply,     \* stock each product was created with; -1: no such row (history)
  stock,      \* products.stock_quantity, committed
  draft,      \* products.stock_quantity as the holder of the row sees it
  prodLock,   \* the transaction holding each products row
  orders,     \* the committed rows of orders with their order_items
  orderLock,  \* the transaction holding each orders row
  tx,         \* what each transaction is doing
  clock       \* NOW()

vars == <<supply, stock, draft, prodLock, orders, orderLock, tx, clock>>

NoProduct == -1

Catalog == {p \in Products : supply[p] # NoProduct}

NoPair == <<>>

Pairs == OrderIds \X Products

(***************************************************************************)
(* A transaction between its statements.  "idle" also keeps the answer of  *)
(* the last call; "abandoned" is a CancelStale that has returned without   *)
(* ending its transaction.                                                 *)
(***************************************************************************)
TxState == [
  pc     : {"idle", "lock", "write", "restock", "mark", "commit", "abandoned"},
  op     : {"none", "create", "cancel", "confirm", "stale"},
  user   : Users \cup {None},    \* o.UserId of Create
  key    : Keys \cup {None},     \* o.IdempotencyKey of Create
  items  : Seq(Item),            \* o.OrderItems of Create
  seen   : Nat,                  \* items of Create already locked and checked
  began  : Nat,                  \* NOW() of the transaction
  batch  : SUBSET OrderIds,      \* orders the call creates or cancels
  todo   : SUBSET Pairs,         \* order items not yet put back
  cur    : Pairs \cup {NoPair},  \* order item whose product row comes next
  marked : SUBSET OrderIds,      \* orders whose status is updated
  answer : {"none", "ok", "invalid", "insufficient", "duplicate", "refused",
            "error"}]

Idle == [pc |-> "idle", op |-> "none", user |-> None, key |-> None,
         items |-> <<>>, seen |-> 0, began |-> 0, batch |-> {}, todo |-> {},
         cur |-> NoPair, marked |-> {}, answer |-> "none"]

Init ==
  /\ supply = [p \in Products |-> NoProduct]
  /\ stock = [p \in Products |-> 0]
  /\ draft = stock
  /\ prodLock = [p \in Products |-> None]
  /\ orders = [o \in OrderIds |-> NoOrder]
  /\ orderLock = [o \in OrderIds |-> None]
  /\ tx = [t \in Tx |-> Idle]
  /\ clock = 0

Active(t) == tx[t].pc # "idle"

-----------------------------------------------------------------------------
(* How a transaction ends.                                                 *)

Unlocked(lock, t) ==
  [x \in DOMAIN lock |-> IF lock[x] = t THEN None ELSE lock[x]]

\* What a finished call leaves behind: its answer and what the answer is about.
Answered(t, a) ==
  [tx EXCEPT ![t] = [Idle EXCEPT !.op = tx[t].op, !.user = tx[t].user,
                                 !.key = tx[t].key, !.batch = tx[t].batch,
                                 !.answer = a]]

ReleaseLocks(t) ==
  /\ prodLock' = Unlocked(prodLock, t)
  /\ orderLock' = Unlocked(orderLock, t)

DiscardDrafts(t) ==
  draft' = [p \in Products |-> IF prodLock[p] = t THEN stock[p] ELSE draft[p]]

\* ROLLBACK, by the deferred tx.Rollback(), and the error returned.
Rollback(t, a) ==
  /\ ReleaseLocks(t)
  /\ DiscardDrafts(t)
  /\ tx' = Answered(t, a)
  /\ UNCHANGED <<supply, stock, orders, clock>>

\* Mutant of Abandon: nothing ends the transaction the janitor has left open.
AbandonForGood(t) ==
  /\ tx' = Answered(t, "error")
  /\ UNCHANGED <<supply, stock, draft, prodLock, orders, orderLock, clock>>

\* CancelStale has no deferred Rollback: it returns with the transaction open.
Abandon(t) ==
  /\ tx' = [tx EXCEPT ![t].pc = "abandoned"]
  /\ UNCHANGED <<supply, stock, draft, prodLock, orders, orderLock, clock>>

\* COMMIT publishes the drafts of the rows the transaction holds.
PublishDrafts(t) ==
  stock' = [p \in Products |-> IF prodLock[p] = t THEN draft[p] ELSE stock[p]]

Commit(t, a) ==
  /\ PublishDrafts(t)
  /\ ReleaseLocks(t)
  /\ tx' = Answered(t, a)
  /\ UNCHANGED <<supply, draft, clock>>

-----------------------------------------------------------------------------
(* OrderStore.Create                                                       *)

BeginCreate(r, u, k, items) ==
  /\ ~Active(r)
  /\ tx' = [tx EXCEPT ![r] = [Idle EXCEPT !.pc = "lock", !.op = "create",
                                !.user = u, !.key = k, !.items = items,
                                !.began = clock]]
  /\ UNCHANGED <<supply, stock, draft, prodLock, orders, orderLock, clock>>

NextItem(r) == tx[r].items[tx[r].seen + 1]

AllSeen(r) == tx[r].seen = Len(tx[r].items)

\* Mutant of ForUpdate: a SELECT that holds nothing.
NoForUpdate(r, p) == prodLock' = prodLock

ForUpdate(r, p) == prodLock' = [prodLock EXCEPT ![p] = r]

\* SELECT stock_quantity, price ... FOR UPDATE of the next item, and the check.
LockItem(r) ==
  /\ tx[r].pc = "lock"
  /\ ~AllSeen(r)
  /\ LET p == NextItem(r).product
         q == NextItem(r).quantity
     IN  /\ prodLock[p] \in {None, r}
         /\ IF p \notin Catalog THEN Rollback(r, "invalid")
            ELSE IF draft[p] < q THEN Rollback(r, "insufficient")
            ELSE /\ ForUpdate(r, p)
                 /\ tx' = [tx EXCEPT ![r].seen = @ + 1]
                 /\ UNCHANGED <<supply, stock, draft, orders, orderLock, clock>>

SameKey(r, x) == x.user = tx[r].user /\ x.key = tx[r].key

\* A transaction that has inserted its orders row and not yet committed.
Inserted(t) == tx[t].op = "create" /\ tx[t].pc \in {"write", "commit"}

KeyInFlight(r) == \E t \in Tx : Inserted(t) /\ SameKey(r, tx[t])

\* Mutant of KeyTaken: refuses without waiting for the other transaction to end.
KeyTakenOrInFlight(r) ==
  KeyInFlight(r) \/ \E x \in Placed(orders) : SameKey(r, orders[x])

KeyTaken(r) == \E x \in Placed(orders) : SameKey(r, orders[x])

\* Mutant of KeyFree: a look-up before the INSERT in place of the unique index.
KeyNotFound(r) == ~KeyTaken(r)

\* The unique index uq_orders_user_idempotency refuses a committed twin and
\* waits for the transaction of an uncommitted one.
KeyFree(r) == ~KeyTaken(r) /\ ~KeyInFlight(r)

\* INSERT INTO orders, with an id nobody has.
InsertOrder(r, o) ==
  /\ tx[r].pc = "lock"
  /\ AllSeen(r)
  /\ KeyFree(r)
  /\ orders[o] = NoOrder
  /\ \A t \in Tx : Inserted(t) => o \notin tx[t].batch
  /\ tx' = [tx EXCEPT ![r].pc = "write", ![r].batch = {o}]
  /\ UNCHANGED <<supply, stock, draft, prodLock, orders, orderLock, clock>>

InsertRefused(r) ==
  /\ tx[r].pc = "lock"
  /\ AllSeen(r)
  /\ KeyTaken(r)
  /\ Rollback(r, "duplicate")

Lines(items, p) == {i \in DOMAIN items : items[i].product = p}

ProductTwice(items) ==
  \E i, j \in DOMAIN items : i # j /\ items[i].product = items[j].product

\* The order_items rows of a payload that names no product twice.
Quantities(items) ==
  [p \in Products |->
     IF Lines(items, p) = {} THEN 0
     ELSE items[CHOOSE i \in Lines(items, p) : TRUE].quantity]

\* The mutants of WriteItems subtract what all the lines ask for.
AllLines(items, p) ==
  Cardinality(UNION {{i} \X (1 .. items[i].quantity) : i \in Lines(items, p)})

\* Mutant of WriteItems: only the loop that checks each line protects the stock;
\* order_items has an id of its own for key, and products no CHECK.
WriteUnguarded(r) ==
  /\ tx[r].pc = "write"
  /\ draft' = [p \in Products |-> draft[p] - AllLines(tx[r].items, p)]
  /\ tx' = [tx EXCEPT ![r].pc = "commit"]
  /\ UNCHANGED <<supply, stock, prodLock, orders, orderLock, clock>>

\* Mutant of WriteItems: INSERT INTO order_items ... ON CONFLICT DO NOTHING.
WriteOnConflict(r) ==
  /\ \A p \in Products : AllLines(tx[r].items, p) <= draft[p]
  /\ WriteUnguarded(r)

\* The loop of INSERT INTO order_items and UPDATE products.  It touches only
\* rows this transaction holds, so it is one step.  A product named twice hits
\* the primary key of order_items, a negative stock the CHECK of products.
WriteItems(r) ==
  /\ tx[r].pc = "write"
  /\ LET taken == Quantities(tx[r].items)
     IN  IF \/ ProductTwice(tx[r].items)
            \/ \E p \in Products : draft[p] < taken[p]
         THEN Rollback(r, "error")
         ELSE /\ draft' = [p \in Products |-> draft[p] - taken[p]]
              /\ tx' = [tx EXCEPT ![r].pc = "commit"]
              /\ UNCHANGED <<supply, stock, prodLock, orders, orderLock, clock>>

\* placed_at is NOW() of the transaction; its rounding to a second is left out.
NewOrder(r) ==
  [user |-> tx[r].user, key |-> tx[r].key, items |-> Quantities(tx[r].items),
   status |-> "pending", placedAt |-> tx[r].began]

CommitCreate(r, a) ==
  /\ tx[r].pc = "commit"
  /\ tx[r].op = "create"
  /\ orders' = [o \in OrderIds |->
                  IF o \in tx[r].batch THEN NewOrder(r) ELSE orders[o]]
  /\ Commit(r, a)

-----------------------------------------------------------------------------
(* Steps OrderStore.Cancel and OrderStore.CancelStale have in common.      *)

\* Mutants of Settled: one of the two states is left out of NOT IN.
SettledConfirmed(o) == orders[o].status = "confirmed"
SettledCancelled(o) == orders[o].status = "cancelled"

\* WHERE ... status NOT IN ('cancelled', 'confirmed') of every UPDATE orders.
Settled(o) == orders[o].status \in {"cancelled", "confirmed"}

\* It only adds, so the CHECK of products cannot fire here.
PutBack(o, p) == draft' = [draft EXCEPT ![p] = @ + orders[o].items[p]]

\* Mutant of HoldOrder: the status is read by a SELECT and holds nothing.
SeeOrder(t, o) == orderLock' = orderLock

HoldOrder(t, o) == orderLock' = [orderLock EXCEPT ![o] = t]

\* UPDATE products SET stock_quantity = stock_quantity + $1 for one item; the
\* rows come in no particular order, all those of an order together.
RestockItem(t) ==
  /\ tx[t].pc = "restock"
  /\ LET o    == tx[t].cur[1]
         p    == tx[t].cur[2]
         rest == tx[t].todo \ {tx[t].cur}
         same == {d \in rest : d[1] = o}
     IN  /\ prodLock[p] \in {None, t}
         /\ prodLock' = [prodLock EXCEPT ![p] = t]
         /\ PutBack(o, p)
         /\ \/ /\ same = {}
               /\ tx' = [tx EXCEPT ![t].todo = rest, ![t].pc = "mark"]
            \/ \E d \in same :
                 tx' = [tx EXCEPT ![t].todo = rest, ![t].cur = d]
  /\ UNCHANGED <<supply, stock, orders, orderLock, clock>>

\* UPDATE orders SET status = 'cancelled' of the order just restocked, and on
\* to the next order or to COMMIT.
MarkOrder(t) ==
  LET o    == tx[t].cur[1]
      done == tx[t].marked \cup {o}
  IN  /\ HoldOrder(t, o)
      /\ \/ /\ tx[t].todo = {}
            /\ tx' = [tx EXCEPT ![t].marked = done, ![t].pc = "commit"]
         \/ \E d \in tx[t].todo :
              tx' = [tx EXCEPT ![t].marked = done, ![t].pc = "restock",
                               ![t].cur = d]
      /\ UNCHANGED <<supply, stock, draft, prodLock, orders, clock>>

CancelMarked(t) ==
  orders' = [o \in OrderIds |->
               IF o \in tx[t].marked
               THEN [orders[o] EXCEPT !.status = "cancelled"] ELSE orders[o]]

-----------------------------------------------------------------------------
(* OrderStore.Cancel                                                       *)

\* BEGIN and SELECT * FROM order_items of an order the caller has looked up.
BeginCancel(r, o) ==
  /\ ~Active(r)
  /\ o \in Placed(orders)
  /\ \E d \in ItemPairs(orders, {o}) :
       tx' = [tx EXCEPT ![r] = [Idle EXCEPT !.pc = "restock", !.op = "cancel",
                                  !.batch = {o}, !.began = clock, !.cur = d,
                                  !.todo = ItemPairs(orders, {o})]]
  /\ UNCHANGED <<supply, stock, draft, prodLock, orders, orderLock, clock>>

CancelRestock(r) ==
  /\ tx[r].op = "cancel"
  /\ RestockItem(r)

\* The status is read only here, after the stock was put back: a settled order
\* makes the whole transaction roll back.
CancelMark(r) ==
  /\ tx[r].pc = "mark"
  /\ tx[r].op = "cancel"
  /\ LET o == tx[r].cur[1]
     IN  /\ orderLock[o] \in {None, r}
         /\ IF Settled(o)
            THEN Rollback(r, "refused")
            ELSE MarkOrder(r)

CommitCancel(r, a) ==
  /\ tx[r].pc = "commit"
  /\ tx[r].op = "cancel"
  /\ CancelMarked(r)
  /\ Commit(r, a)

-----------------------------------------------------------------------------
(* OrderStore.Confirm: one statement, committed by itself.                 *)

Confirm(r, o) ==
  /\ ~Active(r)
  /\ o \in Placed(orders)
  /\ orderLock[o] = None
  /\ orders' = IF Settled(o) THEN orders
                ELSE [orders EXCEPT ![o].status = "confirmed"]
  /\ tx' = [tx EXCEPT ![r] =
              [Idle EXCEPT !.op = "confirm", !.batch = {o},
                 !.answer = IF Settled(o) THEN "refused" ELSE "ok"]]
  /\ UNCHANGED <<supply, stock, draft, prodLock, orderLock, clock>>

-----------------------------------------------------------------------------
(* OrderStore.CancelStale, called by the janitor on every tick             *)

Stale(o) ==
  /\ o \in Pending(orders)
  /\ orders[o].placedAt + CancelPendingInterval < clock

\* ORDER BY placed_at LIMIT n
Oldest(free) ==
  {S \in SUBSET free :
     /\ \/ Cardinality(S) = BatchLimit
        \/ S = free /\ Cardinality(S) <= BatchLimit
     /\ \A o \in S, x \in free \ S : orders[o].placedAt <= orders[x].placedAt}

\* Mutant of Batches: no LIMIT.
WholeBatch == {{o \in OrderIds : Stale(o) /\ orderLock[o] = None}}

\* Mutant of Batches: WHERE status <> 'cancelled' in place of = 'pending'.
BatchesWithConfirmed ==
  Oldest({o \in Placed(orders) :
            /\ orders[o].status # "cancelled"
            /\ orders[o].placedAt + CancelPendingInterval < clock
            /\ orderLock[o] = None})

\* WHERE ... ORDER BY placed_at LIMIT n FOR UPDATE SKIP LOCKED.
Batches == Oldest({o \in OrderIds : Stale(o) /\ orderLock[o] = None})

\* Mutant of HoldBatch: the query without FOR UPDATE.
SeeBatch(j, S) == orderLock' = orderLock

HoldBatch(j, S) ==
  orderLock' = [o \in OrderIds |-> IF o \in S THEN j ELSE orderLock[o]]

BeginStale(j, S) ==
  /\ ~Active(j)
  /\ S # {}
  /\ S \in Batches
  /\ HoldBatch(j, S)
  /\ \E d \in ItemPairs(orders, S) :
       tx' = [tx EXCEPT ![j] = [Idle EXCEPT !.pc = "restock", !.op = "stale",
                                  !.batch = S, !.began = clock, !.cur = d,
                                  !.todo = ItemPairs(orders, S)]]
  /\ UNCHANGED <<supply, stock, draft, prodLock, orders, clock>>

\* Nothing to cancel: the function returns with its transaction still open.
BeginStaleEmpty(j) ==
  /\ ~Active(j)
  /\ {} \in Batches
  /\ tx' = [tx EXCEPT ![j] = [Idle EXCEPT !.pc = "abandoned", !.op = "stale"]]
  /\ UNCHANGED <<supply, stock, draft, prodLock, orders, orderLock, clock>>

StaleRestock(j) ==
  /\ tx[j].op = "stale"
  /\ RestockItem(j)

StaleMark(j) ==
  /\ tx[j].pc = "mark"
  /\ tx[j].op = "stale"
  /\ IF Settled(tx[j].cur[1])
     THEN Abandon(j)
     ELSE MarkOrder(j)

\* Mutant of CommitStale: the ids are returned and nothing is committed.
ReturnUncommitted(j, a) ==
  /\ tx[j].pc = "commit"
  /\ tx[j].op = "stale"
  /\ Rollback(j, a)

CommitStale(j, a) ==
  /\ tx[j].pc = "commit"
  /\ tx[j].op = "stale"
  /\ CancelMarked(j)
  /\ Commit(j, a)

\* Mutant of RollbackAbandoned: nothing is deferred, nothing rolls back.
StayAbandoned(j) == FALSE /\ Rollback(j, "error")

\* The deferred cancel() of the context makes database/sql roll back.
RollbackAbandoned(j) ==
  /\ tx[j].pc = "abandoned"
  /\ Rollback(j, "error")

-----------------------------------------------------------------------------
(* What the database and the environment do.                               *)

Tick ==
  /\ clock < MaxClock
  /\ clock' = clock + 1
  /\ UNCHANGED <<supply, stock, draft, prodLock, orders, orderLock, tx>>

\* ProductStore.Create
CreateProduct(p, n) ==
  /\ p \notin Catalog
  /\ supply' = [supply EXCEPT ![p] = n]
  /\ stock' = [stock EXCEPT ![p] = n]
  /\ draft' = [draft EXCEPT ![p] = n]
  /\ UNCHANGED <<prodLock, orders, orderLock, tx, clock>>

WaitsFor(t, u) ==
  /\ t # u
  /\ \/ tx[t].pc = "lock" /\ ~AllSeen(t) /\ prodLock[NextItem(t).product] = u
     \/ tx[t].pc = "lock" /\ AllSeen(t) /\ Inserted(u) /\ SameKey(t, tx[u])
     \/ tx[t].pc = "restock" /\ prodLock[tx[t].cur[2]] = u
     \/ tx[t].pc = "mark" /\ orderLock[tx[t].cur[1]] = u

\* t is on a cycle of waiting transactions.
Deadlocked(t) ==
  \E S \in SUBSET Tx :
    /\ t \in S
    /\ \A a \in S : (\E b \in S : WaitsFor(a, b)) /\ (\E b \in S : WaitsFor(b, a))

\* PostgreSQL aborts one transaction of the cycle (40P01).
DeadlockVictim(t) ==
  /\ Deadlocked(t)
  /\ Rollback(t, "error")

\* The context of the call ends before COMMIT: QueryTimeoutDuration has passed,
\* the client has gone, or the connection is lost.
TxTimeout(t) ==
  /\ Active(t)
  /\ tx[t].pc # "abandoned"
  /\ IF t \in Janitors THEN Abandon(t) ELSE Rollback(t, "error")

CommitAny(t, a) == CommitCreate(t, a) \/ CommitCancel(t, a) \/ CommitStale(t, a)

\* The transaction is committed and the connection lost before the reply.
CommitUnanswered(t) == CommitAny(t, "error")

-----------------------------------------------------------------------------
NewRequest(r) ==
  \/ \E u \in Users, k \in Keys, items \in Payloads : BeginCreate(r, u, k, items)
  \/ \E o \in OrderIds : BeginCancel(r, o)
  \/ \E o \in OrderIds : Confirm(r, o)

RequestStep(r) ==
  \/ LockItem(r)
  \/ \E o \in OrderIds : InsertOrder(r, o)
  \/ InsertRefused(r)
  \/ WriteItems(r)
  \/ CommitCreate(r, "ok")
  \/ CancelRestock(r)
  \/ CancelMark(r)
  \/ CommitCancel(r, "ok")

JanitorTick(j) ==
  \/ \E S \in SUBSET OrderIds : BeginStale(j, S)
  \/ BeginStaleEmpty(j)

JanitorStep(j) ==
  \/ StaleRestock(j)
  \/ StaleMark(j)
  \/ CommitStale(j, "ok")
  \/ RollbackAbandoned(j)

Fault == \E t \in Tx : TxTimeout(t) \/ CommitUnanswered(t)

Next ==
  \/ Tick
  \/ \E p \in Products, n \in StockLevels : CreateProduct(p, n)
  \/ \E r \in Requests : NewRequest(r) \/ RequestStep(r)
  \/ \E j \in Janitors : JanitorTick(j) \/ JanitorStep(j)
  \/ \E t \in Tx : DeadlockVictim(t)
  \/ Fault

Spec == Init /\ [][Next]_vars

-----------------------------------------------------------------------------
(* Fairness.  Goroutines are scheduled and PostgreSQL answers, so a          *)
(* statement that can run runs.  Strong fairness for the steps that wait for *)
(* a row: the waiter is queued, and gets the row when its holder ends, before *)
(* a transaction that asks later.  A deadlock is detected, the ticker fires,  *)
(* and a cancelled context rolls its transaction back.                        *)

Fairness ==
  /\ WF_vars(Tick)
  /\ \A r \in Requests : SF_vars(RequestStep(r))
  /\ \A j \in Janitors : WF_vars(JanitorTick(j)) /\ SF_vars(JanitorStep(j))
  /\ \A t \in Tx : WF_vars(DeadlockVictim(t))

FairSpec == Spec /\ Fairness

-----------------------------------------------------------------------------
(* Safety.                                                                   *)

\* Every variable has its type.
TypeOK ==
  /\ supply \in [Products -> Nat \cup {NoProduct}]
  /\ stock \in [Products -> Nat]
  /\ draft \in [Products -> Nat]
  /\ prodLock \in [Products -> Tx \cup {None}]
  /\ orders \in [OrderIds -> Order \cup {NoOrder}]
  /\ orderLock \in [OrderIds -> Tx \cup {None}]
  /\ tx \in [Tx -> TxState]
  /\ clock \in Nat

\* No unit is lost, sold twice or put back twice, whatever creations,
\* cancellations and janitor rounds overlap, time out or deadlock: committed
\* stock plus the units of pending and confirmed orders is the initial supply.
StockConserved ==
  \A p \in Catalog :
    stock[p] + Cardinality(Units(orders, Live(orders), p)) = supply[p]

\* Concurrent retries with one Idempotency-Key never leave a user two orders.
OneOrderPerKey ==
  \A x, y \in Placed(orders) :
    orders[x].user = orders[y].user /\ orders[x].key = orders[y].key => x = y

\* The stock that the FOR UPDATE loop of Create found sufficient still is when
\* the later loop subtracts: the CHECK of products never fires there.
CheckedStockStays ==
  \A r \in Requests : tx[r].pc = "write" =>
    \A i \in DOMAIN tx[r].items :
      tx[r].items[i].quantity <= draft[tx[r].items[i].product]

\* No order changes under a janitor round that has selected it, so the
\* ErrOrderCannotBeCancelled return of CancelStale is never taken.
BatchStaysPending ==
  \A j \in Janitors : Active(j) => tx[j].batch \subseteq Pending(orders)

\* A row is locked only by a transaction that is still open: no return path of
\* the store leaks a lock.
LocksHeldByOpenTx ==
  /\ \A p \in Products : prodLock[p] # None => Active(prodLock[p])
  /\ \A o \in OrderIds : orderLock[o] # None => Active(orderLock[o])

\* A nil error of t still tells what is so.
StillTrue(t) ==
  tx[t].pc = "idle" /\ tx[t].answer = "ok" =>
    \A o \in tx[t].batch :
      /\ o \in Placed(orders)
      /\ tx[t].op = "create" => SameKey(t, orders[o])
      /\ tx[t].op \in {"cancel", "stale"} => orders[o].status = "cancelled"
      /\ tx[t].op = "confirm" => orders[o].status = "confirmed"

\* What a nil error told the caller stays true: the created order is there,
\* the cancelled one is cancelled, the confirmed one is not cancelled later by
\* a Cancel or a janitor round that was already under way.
SuccessStands == \A t \in Tx : StillTrue(t)

\* The order that t was refused for is still in its way.
StillRefused(t) ==
  tx[t].pc = "idle" =>
    /\ tx[t].answer = "duplicate" =>
         \E x \in Placed(orders) : SameKey(t, orders[x])
    /\ tx[t].answer = "refused" =>
         \A o \in tx[t].batch : orders[o].status \in {"cancelled", "confirmed"}

\* A refusal is never spurious: after ErrDuplicateIdempotencyKey the lookup of
\* placeOrderHandler finds an order, and an order whose Cancel was refused with
\* ErrOrderCannotBeCancelled is settled for good.
RefusalsJustified == \A t \in Tx : StillRefused(t)

\* A committed order never changes but for one step from pending to confirmed
\* or cancelled; it is never deleted.
OrdersSettleOnce ==
  [][\A o \in Placed(orders) :
       orders'[o] = orders[o]
       \/ /\ orders[o].status = "pending"
          /\ orders'[o] \in {[orders[o] EXCEPT !.status = s] :
                               s \in {"confirmed", "cancelled"}}]_vars

\* Every commit is one operation of Inventory and nothing else shows.
Abstract == INSTANCE Inventory
  WITH Baskets <- {Quantities(items) : items \in Payloads}

ImplementsInventory == Abstract!Spec

\* What the order cache relies on, of the SQL statements themselves: a COMMIT makes one
\* order appear pending, or settles pending ones, and nothing else is ever seen.
Life == INSTANCE OrderLife WITH status <- Statuses(orders)

ImplementsOrderLife == Life!LifeSpec

\* "Unique key to make the request idempotent" (cmd/api/orders.go:33): a Create
\* whose key already has an order must not answer that stock is insufficient.
RetryIsNotRefused ==
  [][\A r \in Requests :
       Active(r) /\ tx'[r].answer = "insufficient" =>
         ~\E x \in Placed(orders) : SameKey(r, orders[x])]_vars

-----------------------------------------------------------------------------
(* Liveness.                                                                 *)

\* The transaction's own next statement, which may fail and end it as well.
OwnStep(t) ==
  \/ t \in Requests /\ RequestStep(t)
  \/ t \in Janitors /\ JanitorStep(t)

\* A context ends early, or a reply is lost; not what a statement that fails or a
\* deadlock does by itself.
Interrupted ==
  \E t \in Tx :
    \/ TxTimeout(t) /\ ~OwnStep(t) /\ ~DeadlockVictim(t)
    \/ CommitUnanswered(t)

\* From some time on no client calls the API and no context ends early.
Quiet == <>[][~Interrupted /\ \A r \in Requests : ~NewRequest(r)]_vars

\* Lock waits resolve without any timeout: once clients stop calling, every
\* call under way is answered, deadlocks between opposite lock orders included.
CallsAnswered ==
  Quiet => \A r \in Requests : Active(r) ~> ~Active(r)

\* "Orders that are not confirmed within 15 minutes after creation are
\* cancelled by a background janitor" (README.md:18).
StaleOrdersSettle ==
  Quiet => \A o \in OrderIds : Stale(o) ~> ~Stale(o)
=============================================================================
