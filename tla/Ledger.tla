------------------------------- MODULE Ledger -------------------------------
(***************************************************************************)
(* The rows of the reservation database as values: an order with its items *)
(* (tables orders and order_items) and the units of a product that a set   *)
(* of orders accounts for.  Shared by Inventory and OrderStore.            *)
(***************************************************************************)
EXTENDS Integers, FiniteSets

CONSTANTS
  Products,   \* ids of products rows that may exist
  OrderIds,   \* ids of orders rows that may exist (gen_random_uuid)
  Users,      \* ids of users rows
  Keys,       \* Idempotency-Key header values
  NoOrder     \* stands for "no such row" in the orders table

Status == {"pending", "confirmed", "cancelled"}

\* PRIMARY KEY (order_id, product_id) makes the items of a stored order a
\* function: the quantity ordered of each product, 0 where there is no row.
Order == [user : Users, key : Keys, items : [Products -> Nat],
          status : Status, placedAt : Nat]

ASSUME NoOrderAssumption == NoOrder \notin Order

Placed(orders) == {o \in OrderIds : orders[o] # NoOrder}

\* Orders whose items are still taken out of the inventory.
Live(orders) == {o \in Placed(orders) : orders[o].status # "cancelled"}

Pending(orders) == {o \in Placed(orders) : orders[o].status = "pending"}

\* orders.status, "absent" where there is no row.
Statuses(orders) ==
  [o \in OrderIds |-> IF orders[o] = NoOrder THEN "absent" ELSE orders[o].status]

ItemPairs(orders, S) ==
  {d \in S \X Products : orders[d[1]].items[d[2]] > 0}

\* The units of product p in the orders S, one element per unit, so that a
\* sum of quantities is the cardinality of a set.
Units(orders, S, p) ==
  UNION {{o} \X (1 .. orders[o].items[p]) : o \in S}
=============================================================================
