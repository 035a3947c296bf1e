----------------------------- MODULE Inventory ------------------------------
(***************************************************************************)
(* What internal/store promises about products and orders, with every      *)
(* operation atomic: stock leaves the inventory when an order is placed,   *)
(* comes back exactly once when it is cancelled, and an order that is      *)
(* confirmed or cancelled stays so.  OrderStore implements this module.    *)
(***************************************************************************)
EXTENDS Ledger

CONSTANTS
  Baskets,                \* the items an order may have, each [Products -> Nat]
  StockLevels,            \* initial stock quantities an admin may enter
  CancelPendingInterval,  \* clock ticks after which a pending order is stale
  BatchLimit,             \* orders one janitor round cancels at most
  MaxClock                \* bound of the model on the clock

ASSUME InventoryAssumption ==
  /\ Baskets \subseteq [Products -> Nat]
  /\ StockLevels \subseteq Nat
  /\ CancelPendingInterval \in Nat
  /\ BatchLimit \in Nat \ {0}
  /\ MaxClock \in Nat

VARIABLES
  supply,   \* stock each product was created with; -1: no such product (history)
  stock,    \* products.stock_quantity
  orders,   \* the rows of orders with their order_items
  clock     \* NOW()

vars == <<supply, stock, orders, clock>>

NoProduct == -1

Catalog == {p \in Products : supply[p] # NoProduct}

Init ==
  /\ supply = [p \in Products |-> NoProduct]
  /\ stock = [p \in Products |-> 0]
  /\ orders = [o \in OrderIds |-> NoOrder]
  /\ clock = 0

Tick ==
  /\ clock < MaxClock
  /\ clock' = clock + 1
  /\ UNCHANGED <<supply, stock, orders>>

CreateProduct(p, n) ==
  /\ p \notin Catalog
  /\ supply' = [supply EXCEPT ![p] = n]
  /\ stock' = [stock EXCEPT ![p] = n]
  /\ UNCHANGED <<orders, clock>>

\* Mutant of InStock: the products exist, and that is all.
Listed(basket) == \A p \in Products : basket[p] > 0 => p \in Catalog

InStock(basket) ==
  \A p \in Products : basket[p] > 0 => p \in Catalog /\ basket[p] <= stock[p]

Place(o, u, k, basket, at) ==
  /\ orders[o] = NoOrder
  /\ \A x \in Placed(orders) : ~(orders[x].user = u /\ orders[x].key = k)
  /\ \E p \in Products : basket[p] > 0
  /\ InStock(basket)
  /\ stock' = [p \in Products |-> stock[p] - basket[p]]
  /\ orders' = [orders EXCEPT ![o] = [user |-> u, key |-> k, items |-> basket,
                                      status |-> "pending", placedAt |-> at]]
  /\ UNCHANGED <<supply, clock>>

\* Mutant of Release: orders that are already cancelled are put back again.
ReleaseAgain(S) ==
  /\ S \subseteq Placed(orders)
  /\ stock' = [p \in Products |-> stock[p] + Cardinality(Units(orders, S, p))]
  /\ orders' = [o \in OrderIds |->
                  IF o \in S THEN [orders[o] EXCEPT !.status = "cancelled"]
                             ELSE orders[o]]
  /\ UNCHANGED <<supply, clock>>

\* Cancel every order of S and put its units back.
Release(S) ==
  /\ S \subseteq Pending(orders)
  /\ stock' = [p \in Products |-> stock[p] + Cardinality(Units(orders, S, p))]
  /\ orders' = [o \in OrderIds |->
                  IF o \in S THEN [orders[o] EXCEPT !.status = "cancelled"]
                             ELSE orders[o]]
  /\ UNCHANGED <<supply, clock>>

Cancel(o) == Release({o})

Stale(o) ==
  /\ o \in Pending(orders)
  /\ orders[o].placedAt + CancelPendingInterval < clock

CancelStale(S) ==
  /\ S # {}
  /\ Cardinality(S) <= BatchLimit
  /\ \A o \in S : Stale(o)
  /\ Release(S)

\* Mutant of Confirm: the UPDATE without NOT IN ('cancelled', 'confirmed').
ConfirmAny(o) ==
  /\ o \in Placed(orders)
  /\ orders' = [orders EXCEPT ![o].status = "confirmed"]
  /\ UNCHANGED <<supply, stock, clock>>

Confirm(o) ==
  /\ o \in Pending(orders)
  /\ orders' = [orders EXCEPT ![o].status = "confirmed"]
  /\ UNCHANGED <<supply, stock, clock>>

Next ==
  \/ Tick
  \/ \E p \in Products, n \in StockLevels : CreateProduct(p, n)
  \/ \E o \in OrderIds, u \in Users, k \in Keys, basket \in Baskets,
        at \in 0 .. clock : Place(o, u, k, basket, at)
  \/ \E o \in OrderIds : Cancel(o)
  \/ \E S \in SUBSET OrderIds : CancelStale(S)
  \/ \E o \in OrderIds : Confirm(o)

Spec == Init /\ [][Next]_vars

-----------------------------------------------------------------------------

\* Every row has its type; stock_quantity is never negative (no oversale),
\* which the CHECK of 003_create_products.up.sql also demands.
TypeOK ==
  /\ supply \in [Products -> Nat \cup {NoProduct}]
  /\ stock \in [Products -> Nat]
  /\ orders \in [OrderIds -> Order \cup {NoOrder}]
  /\ clock \in Nat

\* No unit is lost or invented: what is on the shelf plus what pending and
\* confirmed orders hold is what the product was created with.
StockConserved ==
  \A p \in Catalog :
    stock[p] + Cardinality(Units(orders, Live(orders), p)) = supply[p]

\* What the cache and the handlers rely on: an order appears pending and settles
\* at most once, whatever it is cancelled by and however many settle together.
Life == INSTANCE OrderLife WITH status <- Statuses(orders)

ImplementsOrderLife == Life!LifeSpec
=============================================================================
