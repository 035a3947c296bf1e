-------------------------- MODULE PlaceOrderProofs ---------------------------
(***************************************************************************)
(* First part, Inventory: it keeps its types, never sells what it does not *)
(* have and loses no unit, for every set of products, orders and baskets.  *)
(*                                                                         *)
(* Second part, PlaceOrder: all answers to one Idempotency-Key name one    *)
(* order, and no order is placed behind a client's back, for any number of *)
(* clients, requests, keys and orders.  AnswersInv is inductive: a step    *)
(* either places a row for an intent that had none, or leaves user and key *)
(* of every row.                                                           *)
(***************************************************************************)
EXTENDS PlaceOrder, LedgerProofs

(* Inventory *)

\* Only products that exist have been ordered.
OrderedInCatalog ==
  \A o \in Placed(orders), p \in Products : orders[o].items[p] > 0 => p \in Catalog

LiveUnits(p) == Units(orders, Live(orders), p)

UnitsFinite == \A p \in Products : IsFiniteSet(LiveUnits(p))

IInv == TypeOK /\ OrderedInCatalog /\ UnitsFinite /\ StockConserved

\* A row that is not NoOrder has the fields of an order.
LEMMA PlacedType ==
  ASSUME TypeOK, NEW o \in Placed(orders)
  PROVE  /\ o \in OrderIds
         /\ orders[o] \in Order
         /\ orders[o].items \in [Products -> Nat]
BY DEF TypeOK, Placed, Order

LEMMA LiveIsPlaced == Live(orders) \subseteq Placed(orders)
BY DEF Live

LEMMA PendingIsLive == Pending(orders) \subseteq Live(orders)
BY DEF Live, Pending

\* In the empty database nothing is held and nothing is in stock.
LEMMA InitInv == Init => IInv
<1> SUFFICES ASSUME Init PROVE IInv
  OBVIOUS
<1>1. TypeOK
  BY DEF Init, TypeOK
<1>2. Placed(orders) = {} /\ Catalog = {}
  BY DEF Init, Placed, Catalog
<1>3. \A p \in Products : IsFiniteSet(LiveUnits(p))
  BY <1>2, LiveIsPlaced, UnitsNone DEF LiveUnits
<1>4. QED
  BY <1>1, <1>2, <1>3 DEF IInv, OrderedInCatalog, UnitsFinite, StockConserved

\* A new product comes with no order.
LEMMA CreateProductInv ==
  ASSUME IInv, NEW p \in Products, NEW n \in StockLevels, CreateProduct(p, n)
  PROVE  IInv'
<1> USE DEF IInv
<1>1. n \in Nat /\ n # NoProduct
  BY InventoryAssumption DEF NoProduct
<1>2. TypeOK'
  BY <1>1 DEF CreateProduct, TypeOK
<1>3. orders' = orders /\ LiveUnits(p)' = LiveUnits(p)
  BY DEF CreateProduct, LiveUnits, Live, Placed
<1>4. Catalog' = Catalog \cup {p}
  BY <1>1 DEF CreateProduct, Catalog, TypeOK
<1>5. OrderedInCatalog'
  BY <1>3, <1>4 DEF OrderedInCatalog, Placed
<1>6. \A x \in Products : Units(orders, Live(orders), x)' = Units(orders, Live(orders), x)
  BY <1>3 DEF Live, Placed
<1>7. UnitsFinite'
  BY <1>6 DEF UnitsFinite, LiveUnits
<1>8. \A o \in Live(orders) : orders[o].items[p] = 0
  <2> SUFFICES ASSUME NEW o \in Live(orders) PROVE orders[o].items[p] = 0
    OBVIOUS
  <2>1. o \in Placed(orders)
    BY LiveIsPlaced
  <2>2. orders[o].items[p] \in Nat
    BY <2>1, PlacedType
  <2>3. ~(orders[o].items[p] > 0)
    BY <2>1 DEF OrderedInCatalog, CreateProduct
  <2>4. QED
    BY <2>2, <2>3
<1>9. Cardinality(Units(orders, Live(orders), p)) = 0
  BY <1>8, UnitsNone, FS_EmptySet
<1>10. StockConserved'
  <2> SUFFICES ASSUME NEW x \in Catalog'
               PROVE  stock'[x] + Cardinality(Units(orders, Live(orders), x))' = supply'[x]
    BY DEF StockConserved
  <2>1. CASE x = p
    BY <2>1, <1>1, <1>6, <1>9 DEF CreateProduct, TypeOK
  <2>2. CASE x # p
    <3>1. x \in Catalog /\ x \in Products
      BY <2>2, <1>4 DEF Catalog
    <3>2. stock'[x] = stock[x] /\ supply'[x] = supply[x]
      BY <2>2, <3>1 DEF CreateProduct, TypeOK
    <3>3. QED
      BY <3>1, <3>2, <1>6 DEF StockConserved
  <2>3. QED
    BY <2>1, <2>2
<1>11. QED
  BY <1>2, <1>5, <1>7, <1>10

\* What an order holds leaves the stock, and the stock covers it.
LEMMA PlaceInv ==
  ASSUME IInv, NEW o \in OrderIds, NEW u \in Users, NEW k \in Keys,
         NEW basket \in Baskets, NEW at \in 0 .. clock,
         Place(o, u, k, basket, at)
  PROVE  IInv'
<1> USE DEF IInv
<1> DEFINE new == [user |-> u, key |-> k, items |-> basket,
                   status |-> "pending", placedAt |-> at]
<1>1. basket \in [Products -> Nat]
  BY InventoryAssumption
<1>2. at \in Nat
  BY DEF TypeOK
<1>3. new \in Order /\ new # NoOrder /\ new.items = basket /\ new.status = "pending"
  BY <1>1, <1>2, NoOrderAssumption DEF Order, Status
<1>4. orders' = [orders EXCEPT ![o] = new] /\ orders[o] = NoOrder
  BY DEF Place
<1> HIDE DEF new
<1>5. orders \in [OrderIds -> Order \cup {NoOrder}]
  BY DEF TypeOK
<1>6. /\ orders'[o] = new
      /\ \A x \in OrderIds : x # o => orders'[x] = orders[x]
  BY <1>4, <1>5
<1>7. Placed(orders)' = Placed(orders) \cup {o} /\ o \notin Placed(orders)
  BY <1>3, <1>4, <1>6 DEF Placed
<1>8. Live(orders)' = Live(orders) \cup {o} /\ o \notin Live(orders)
  BY <1>3, <1>6, <1>7 DEF Live, Placed
<1>9. \A p \in Products : basket[p] \in Nat /\ stock[p] \in Nat /\ basket[p] <= stock[p]
  BY <1>1 DEF Place, InStock, TypeOK
<1>10. \A p \in Products : stock'[p] = stock[p] - basket[p]
  BY DEF Place
<1>11. TypeOK'
  <2>1. stock' \in [Products -> Nat]
    BY <1>9 DEF Place
  <2>2. orders' \in [OrderIds -> Order \cup {NoOrder}]
    BY <1>3, <1>4, <1>5
  <2>3. QED
    BY <2>1, <2>2 DEF TypeOK, Place
<1>12. Catalog' = Catalog
  BY DEF Catalog, Place
<1>13. OrderedInCatalog'
  <2> SUFFICES ASSUME NEW x \in Placed(orders)', NEW p \in Products,
                      orders'[x].items[p] > 0
               PROVE  p \in Catalog
    BY <1>12 DEF OrderedInCatalog
  <2>1. CASE x = o
    BY <2>1, <1>3, <1>6 DEF Place, InStock
  <2>2. CASE x # o
    BY <2>2, <1>6, <1>7 DEF OrderedInCatalog, Placed
  <2>3. QED
    BY <2>1, <2>2
<1>14. ASSUME NEW p \in Products
       PROVE  /\ IsFiniteSet(Units(orders, Live(orders), p))'
              /\ Cardinality(Units(orders, Live(orders), p))'
                   = Cardinality(Units(orders, Live(orders), p)) + basket[p]
  <2>1. Units(orders', Live(orders), p) = Units(orders, Live(orders), p)
    BY <1>6, <1>8, UnitsFrame DEF Live, Placed
  <2>2. IsFiniteSet(Units(orders', Live(orders), p))
    BY <2>1 DEF UnitsFinite, LiveUnits
  <2>3. PICK q \in Nat : q = basket[p] /\ orders'[o].items[p] = q
    BY <1>3, <1>6, <1>9
  <2>4. PICK f : f = orders'
    OBVIOUS
  <2>5. PICK S : S = Live(orders)
    OBVIOUS
  <2>6. PICK T : T = Live(orders)'
    OBVIOUS
  <2>7. IsFiniteSet(Units(f, S, p)) /\ f[o].items[p] = q
    BY <2>2, <2>3, <2>4, <2>5
  <2>8. o \notin S /\ T = S \cup {o}
    BY <2>5, <2>6, <1>8
  <2>9. /\ IsFiniteSet(Units(f, T, p))
        /\ Cardinality(Units(f, T, p)) = Cardinality(Units(f, S, p)) + q
    BY <2>7, <2>8, UnitsAdd
  <2>10. QED
    BY <2>1, <2>3, <2>4, <2>5, <2>6, <2>9
<1>15. UnitsFinite'
  BY <1>14 DEF UnitsFinite, LiveUnits
<1>16. StockConserved'
  <2> SUFFICES ASSUME NEW p \in Catalog
               PROVE  stock'[p] + Cardinality(Units(orders, Live(orders), p))' = supply'[p]
    BY <1>12 DEF StockConserved
  <2>1. p \in Products
    BY DEF Catalog
  <2>2. Cardinality(Units(orders, Live(orders), p)) \in Nat
    BY <2>1, FS_CardinalityType DEF UnitsFinite, LiveUnits
  <2>3. stock[p] + Cardinality(Units(orders, Live(orders), p)) = supply[p]
    BY DEF StockConserved
  <2>4. supply' = supply
    BY DEF Place
  <2>5. QED
    BY <2>1, <2>2, <2>3, <2>4, <1>9, <1>10, <1>14
<1>17. QED
  BY <1>11, <1>13, <1>15, <1>16

\* The units of the cancelled orders go back, all of them and once.
LEMMA ReleaseInv ==
  ASSUME IInv, NEW S, Release(S)
  PROVE  IInv'
<1> USE DEF IInv
<1>1. S \subseteq Pending(orders) /\ S \subseteq Live(orders) /\ S \subseteq Placed(orders)
  BY PendingIsLive, LiveIsPlaced DEF Release
<1>2. orders \in [OrderIds -> Order \cup {NoOrder}]
  BY DEF TypeOK
<1>3. ASSUME NEW o \in S
      PROVE  /\ o \in OrderIds
             /\ orders'[o] \in Order
             /\ orders'[o].status = "cancelled"
             /\ orders'[o].items = orders[o].items
  <2>1. o \in OrderIds /\ orders[o] \in Order
    BY <1>1, PlacedType
  <2>2. orders'[o] = [orders[o] EXCEPT !.status = "cancelled"]
    BY <2>1 DEF Release
  <2>3. QED
    BY <2>1, <2>2 DEF Order, Status
<1>4. \A o \in OrderIds : o \notin S => orders'[o] = orders[o]
  BY DEF Release
<1>5. orders' \in [OrderIds -> Order \cup {NoOrder}]
  <2>1. \A o \in OrderIds : orders'[o] \in Order \cup {NoOrder}
    BY <1>2, <1>3, <1>4
  <2>2. QED
    BY <2>1 DEF Release
<1>6. Placed(orders)' = Placed(orders)
  BY <1>1, <1>3, <1>4, NoOrderAssumption DEF Placed
<1>7. Live(orders)' = Live(orders) \ S
  BY <1>3, <1>4, <1>6 DEF Live, Placed
<1>8. Catalog' = Catalog
  BY DEF Catalog, Release
<1>9. OrderedInCatalog'
  BY <1>3, <1>4, <1>6, <1>8 DEF OrderedInCatalog, Placed
<1>10. ASSUME NEW p \in Products
       PROVE  /\ IsFiniteSet(Units(orders, S, p))
              /\ IsFiniteSet(Units(orders, Live(orders), p))'
              /\ Cardinality(Units(orders, Live(orders), p))
                   = Cardinality(Units(orders, Live(orders), p))'
                       + Cardinality(Units(orders, S, p))
  <2>1. /\ IsFiniteSet(Units(orders, S, p))
        /\ IsFiniteSet(Units(orders, Live(orders) \ S, p))
        /\ Cardinality(Units(orders, Live(orders), p))
             = Cardinality(Units(orders, Live(orders) \ S, p)) + Cardinality(Units(orders, S, p))
    BY <1>1, UnitsRemove DEF UnitsFinite, LiveUnits
  <2>2. Units(orders', Live(orders) \ S, p) = Units(orders, Live(orders) \ S, p)
    BY <1>4, UnitsFrame DEF Live, Placed
  <2>3. QED
    BY <2>1, <2>2, <1>7
<1>11. UnitsFinite'
  BY <1>10 DEF UnitsFinite, LiveUnits
<1>12. ASSUME NEW p \in Products
       PROVE  /\ Cardinality(Units(orders, S, p)) \in Nat
              /\ Cardinality(Units(orders, Live(orders), p))' \in Nat
              /\ stock[p] \in Nat
              /\ stock'[p] = stock[p] + Cardinality(Units(orders, S, p))
  BY <1>10, FS_CardinalityType DEF TypeOK, Release
<1>13. TypeOK'
  <2>1. \A p \in Products : stock'[p] \in Nat
    BY <1>12
  <2>2. stock' = [p \in Products |-> stock'[p]]
    BY DEF Release
  <2>3. stock' \in [Products -> Nat]
    BY <2>1, <2>2
  <2>4. QED
    BY <2>3, <1>5 DEF TypeOK, Release
<1>14. StockConserved'
  <2> SUFFICES ASSUME NEW p \in Catalog
               PROVE  stock'[p] + Cardinality(Units(orders, Live(orders), p))' = supply'[p]
    BY <1>8 DEF StockConserved
  <2>1. p \in Products
    BY DEF Catalog
  <2>2. stock[p] + Cardinality(Units(orders, Live(orders), p)) = supply[p]
    BY DEF StockConserved
  <2>3. supply' = supply
    BY DEF Release
  <2>4. QED
    BY <2>1, <2>2, <2>3, <1>10, <1>12
<1>15. QED
  BY <1>9, <1>11, <1>13, <1>14

\* Confirming an order moves no unit.
LEMMA ConfirmInv ==
  ASSUME IInv, NEW o \in OrderIds, Confirm(o)
  PROVE  IInv'
<1> USE DEF IInv
<1>1. o \in Placed(orders) /\ o \in Live(orders)
  BY PendingIsLive, LiveIsPlaced DEF Confirm
<1>2. orders[o] \in Order /\ orders \in [OrderIds -> Order \cup {NoOrder}]
  BY <1>1, PlacedType DEF TypeOK
<1>3. /\ orders'[o] = [orders[o] EXCEPT !.status = "confirmed"]
      /\ \A x \in OrderIds : x # o => orders'[x] = orders[x]
  BY <1>2 DEF Confirm
<1>4. /\ orders'[o] \in Order
      /\ orders'[o].status = "confirmed"
      /\ orders'[o].items = orders[o].items
  BY <1>2, <1>3 DEF Order, Status
<1>5. TypeOK'
  BY <1>2, <1>4 DEF TypeOK, Confirm
<1>6. Placed(orders)' = Placed(orders)
  BY <1>1, <1>3, <1>4, NoOrderAssumption DEF Placed
<1>7. Live(orders)' = Live(orders)
  BY <1>1, <1>3, <1>4, <1>6 DEF Live, Placed
<1>8. \A x \in OrderIds : orders'[x].items = orders[x].items
  BY <1>3, <1>4
<1>9. \A p \in Products : Units(orders, Live(orders), p)' = Units(orders, Live(orders), p)
  <2> TAKE p \in Products
  <2>1. \A x \in Live(orders) : orders'[x].items[p] = orders[x].items[p]
    BY <1>8 DEF Live, Placed
  <2>2. Units(orders', Live(orders), p) = Units(orders, Live(orders), p)
    BY <2>1, UnitsFrame
  <2>3. QED
    BY <2>2, <1>7
<1>10. QED
  BY <1>5, <1>6, <1>8, <1>9
  DEF OrderedInCatalog, Placed, UnitsFinite, LiveUnits, StockConserved, Catalog, Confirm

\* Every step of Inventory keeps IInv.
LEMMA NextInv == IInv /\ [Next]_vars => IInv'
<1> SUFFICES ASSUME IInv, [Next]_vars PROVE IInv'
  OBVIOUS
<1>1. CASE Tick
  BY <1>1 DEF Tick, IInv, TypeOK, OrderedInCatalog, UnitsFinite, LiveUnits,
              StockConserved, Catalog, Placed, Live
<1>2. CASE \E p \in Products, n \in StockLevels : CreateProduct(p, n)
  BY <1>2, CreateProductInv
<1>3. CASE \E o \in OrderIds, u \in Users, k \in Keys, basket \in Baskets,
              at \in 0 .. clock : Place(o, u, k, basket, at)
  BY <1>3, PlaceInv
<1>4. CASE \E o \in OrderIds : Cancel(o)
  BY <1>4, ReleaseInv DEF Cancel
<1>5. CASE \E S \in SUBSET OrderIds : CancelStale(S)
  BY <1>5, ReleaseInv DEF CancelStale
<1>6. CASE \E o \in OrderIds : Confirm(o)
  BY <1>6, ConfirmInv
<1>7. CASE UNCHANGED vars
  BY <1>7 DEF vars, IInv, TypeOK, OrderedInCatalog, UnitsFinite, LiveUnits,
              StockConserved, Catalog, Placed, Live
<1>8. QED
  BY <1>1, <1>2, <1>3, <1>4, <1>5, <1>6, <1>7 DEF Next

LEMMA InventoryInv == Spec => []IInv
BY InitInv, NextInv, PTL DEF Spec

\* Stock never goes below zero and every row keeps its type, however many
\* products, orders and baskets there are.
THEOREM InventoryTypeOK == Spec => []TypeOK
<1>1. IInv => TypeOK
  BY DEF IInv
<1>2. QED
  BY <1>1, InventoryInv, PTL

\* For every product: stock plus the units of live orders is the supply.
THEOREM InventoryStockConserved == Spec => []StockConserved
<1>1. IInv => StockConserved
  BY DEF IInv
<1>2. QED
  BY <1>1, InventoryInv, PTL

\* Orders that get or change a row in a step show its status afterwards.
LEMMA StatusesNext ==
  ASSUME NEW S \in SUBSET OrderIds, NEW s,
         \A o \in S : orders'[o] \in Order /\ orders'[o].status = s,
         \A o \in OrderIds \ S : orders'[o] = orders[o]
  PROVE  \A o \in OrderIds :
           Statuses(orders)'[o] = IF o \in S THEN s ELSE Statuses(orders)[o]
BY NoOrderAssumption DEF Statuses

\* A placed order appears pending.
LEMMA PlaceIsLife ==
  ASSUME TypeOK, NEW o \in OrderIds, NEW u \in Users, NEW k \in Keys,
         NEW basket \in Baskets, NEW at \in 0 .. clock, Place(o, u, k, basket, at)
  PROVE  Life!LifeNext
<1> DEFINE x == [user |-> u, key |-> k, items |-> basket, status |-> "pending",
                 placedAt |-> at]
<1>1. x \in Order /\ x.status = "pending"
  BY InventoryAssumption DEF Order, Status, TypeOK
<1>2. orders[o] = NoOrder /\ orders' = [orders EXCEPT ![o] = x]
  BY DEF Place
<1> HIDE DEF x
<1>3. /\ \A z \in {o} : orders'[z] \in Order /\ orders'[z].status = "pending"
      /\ \A z \in OrderIds \ {o} : orders'[z] = orders[z]
  BY <1>1, <1>2 DEF TypeOK
<1>4. \A z \in OrderIds :
        Statuses(orders)'[z] = IF z \in {o} THEN "pending" ELSE Statuses(orders)[z]
  BY <1>3, StatusesNext
<1>5. Life!Place(o)
  BY <1>2, <1>4 DEF Life!Place, Statuses
<1>6. QED
  BY <1>5 DEF Life!LifeNext

\* Released orders were pending and show cancelled.
LEMMA ReleaseIsLife ==
  ASSUME TypeOK, NEW S \in SUBSET OrderIds, S # {}, Release(S)
  PROVE  Life!LifeNext
<1>1. \A z \in S : orders[z] \in Order /\ orders[z].status = "pending"
  BY DEF Release, Pending, Placed, TypeOK
<1>2. /\ \A z \in S : orders'[z] = [orders[z] EXCEPT !.status = "cancelled"]
      /\ \A z \in OrderIds \ S : orders'[z] = orders[z]
  BY DEF Release
<1>3. \A z \in S : orders'[z] \in Order /\ orders'[z].status = "cancelled"
  BY <1>1, <1>2 DEF Order, Status
<1>4. \A z \in OrderIds :
        Statuses(orders)'[z] = IF z \in S THEN "cancelled" ELSE Statuses(orders)[z]
  BY <1>2, <1>3, StatusesNext
<1>5. \A z \in S : Statuses(orders)[z] = "pending"
  BY <1>1, NoOrderAssumption DEF Statuses
<1>6. QED
  BY <1>4, <1>5 DEF Life!LifeNext, Life!Cancel, Life!Unsettled, Statuses

\* A confirmed order was pending.
LEMMA ConfirmIsLife ==
  ASSUME TypeOK, NEW o \in OrderIds, Confirm(o)
  PROVE  Life!LifeNext
<1>1. /\ orders[o] \in Order /\ orders[o].status = "pending"
      /\ orders' = [orders EXCEPT ![o].status = "confirmed"]
  BY DEF Confirm, Pending, Placed, TypeOK
<1>2. /\ \A z \in {o} : orders'[z] \in Order /\ orders'[z].status = "confirmed"
      /\ \A z \in OrderIds \ {o} : orders'[z] = orders[z]
  BY <1>1 DEF Order, Status, TypeOK
<1>3. \A z \in OrderIds :
        Statuses(orders)'[z] = IF z \in {o} THEN "confirmed" ELSE Statuses(orders)[z]
  BY <1>2, StatusesNext
<1>4. Statuses(orders)[o] = "pending"
  BY <1>1, NoOrderAssumption DEF Statuses
<1>5. Life!Confirm(o)
  BY <1>3, <1>4 DEF Life!Confirm, Life!Unsettled, Statuses
<1>6. QED
  BY <1>5 DEF Life!LifeNext

\* Whatever happens to the inventory, an order appears pending and settles at most
\* once: the only thing the cache relies on.
THEOREM InventoryImplementsOrderLife == Spec => ImplementsOrderLife
<1>1. Init => Life!LifeInit
  BY DEF Init, Life!LifeInit, Statuses
<1>2. IInv /\ IInv' /\ [Next]_vars => Life!LifeNext \/ UNCHANGED Statuses(orders)
  <2> SUFFICES ASSUME IInv, IInv', [Next]_vars
               PROVE  Life!LifeNext \/ UNCHANGED Statuses(orders)
    OBVIOUS
  <2>1. TypeOK /\ TypeOK'
    BY DEF IInv
  <2>2. CASE Tick \/ (\E p \in Products, n \in StockLevels : CreateProduct(p, n))
             \/ UNCHANGED vars
    BY <2>2 DEF Tick, CreateProduct, vars, Statuses
  <2>3. CASE \E o \in OrderIds, u \in Users, k \in Keys, basket \in Baskets,
                at \in 0 .. clock : Place(o, u, k, basket, at)
    BY <2>1, <2>3, PlaceIsLife
  <2>4. CASE \E o \in OrderIds : Cancel(o)
    BY <2>1, <2>4, ReleaseIsLife DEF Cancel
  <2>5. CASE \E S \in SUBSET OrderIds : CancelStale(S)
    BY <2>1, <2>5, ReleaseIsLife DEF CancelStale
  <2>6. CASE \E o \in OrderIds : Confirm(o)
    BY <2>1, <2>6, ConfirmIsLife
  <2>7. QED
    BY <2>2, <2>3, <2>4, <2>5, <2>6 DEF Next
<1>3. IInv /\ IInv' /\ [Next]_vars => [Life!LifeNext]_(Statuses(orders))
  BY <1>2
<1>4. QED
  BY <1>1, <1>3, InventoryInv, PTL
  DEF Spec, ImplementsOrderLife, Life!LifeSpec

-----------------------------------------------------------------------------
(* PlaceOrder *)

\* The fields of a request that is under way.
LEMMA ReqFields ==
  ASSUME RequestsOK, NEW r \in Requests, req[r].pc # "idle"
  PROVE  /\ req[r] \in Busy
         /\ req[r].intent \in Intents
         /\ req[r].basket \in Baskets
         /\ req[r].order \in OrderIds \cup {None}
BY DEF RequestsOK, Busy, Idle

\* Every handler, retry and crash acts on the rows as Inventory promises.
LEMMA StepImplements ==
  ASSUME RequestsOK, [ServiceNext]_serviceVars
  PROVE  [Next]_vars
<1>1. ASSUME NEW r \in Requests, Create(r) \/ CreateUnanswered(r) PROVE Next
  <2>1. PICK o \in OrderIds, at \in 0 .. clock : Placing(r, o, at)
    BY <1>1 DEF Create, CreateUnanswered
  <2>2. req[r].intent \in Users \X Keys /\ req[r].basket \in Baskets
    BY <1>1, ReqFields, PlaceOrderAssumption DEF Create, CreateUnanswered
  <2>3. req[r].intent[1] \in Users /\ req[r].intent[2] \in Keys
    BY <2>2
  <2>4. QED
    BY <2>1, <2>2, <2>3 DEF Placing, Next
<1>2. ASSUME NEW o \in OrderIds, NEW i \in (Users \X Keys) \ Intents,
             NEW basket \in Baskets, NEW at \in 0 .. clock,
             Place(o, i[1], i[2], basket, at)
      PROVE  Next
  <2>1. i[1] \in Users /\ i[2] \in Keys
    OBVIOUS
  <2>2. QED
    BY <1>2, <2>1 DEF Next
<1>3. CASE Elsewhere
  BY <1>2, <1>3 DEF Elsewhere, Next
<1>4. QED
  BY <1>1, <1>3
  DEF ServiceNext, serviceVars, Send, HandlerStep, Decide, CreateRefused,
      CreateDuplicate, Lookup, LookupItems, CallFails, ReplyStep, Receive, ReceiveError,
      LoseReply, Restart

-----------------------------------------------------------------------------
(* What a step does to the rows                                            *)

\* No row appears or goes, and none changes hands.
SameRows ==
  \A o \in OrderIds :
    /\ orders'[o] = NoOrder <=> orders[o] = NoOrder
    /\ orders[o] # NoOrder =>
         orders'[o].user = orders[o].user /\ orders'[o].key = orders[o].key

LEMMA SameRowOf ==
  ASSUME SameRows
  PROVE  /\ Placed(orders)' = Placed(orders)
         /\ \A o \in Placed(orders) : Row(o)' = Row(o)
         /\ \A i : RowOf(i)' = RowOf(i)
BY DEF SameRows, Placed, Row, RowOf

\* Cancelling orders, one or many, leaves them where they are.
LEMMA ReleaseSameRows ==
  ASSUME TypeOK, NEW S, Release(S)
  PROVE  SameRows
<1>1. /\ orders' = [o \in OrderIds |-> IF o \in S
                      THEN [orders[o] EXCEPT !.status = "cancelled"] ELSE orders[o]]
      /\ \A o \in S : o \in OrderIds /\ orders[o] # NoOrder
  BY DEF Release, Pending, Placed
<1>2. ASSUME NEW o \in S
      PROVE  /\ [orders[o] EXCEPT !.status = "cancelled"] \in Order
             /\ [orders[o] EXCEPT !.status = "cancelled"].user = orders[o].user
             /\ [orders[o] EXCEPT !.status = "cancelled"].key = orders[o].key
  <2>1. orders[o] \in Order
    BY <1>1 DEF TypeOK
  <2>2. QED
    BY <2>1 DEF Order, Status
<1>3. QED
  BY <1>1, <1>2, NoOrderAssumption DEF SameRows, TypeOK

LEMMA ConfirmSameRows ==
  ASSUME TypeOK, NEW o \in OrderIds, Confirm(o)
  PROVE  SameRows
<1>1. /\ orders[o] # NoOrder /\ orders[o] \in Order
      /\ orders' = [orders EXCEPT ![o].status = "confirmed"]
  BY DEF Confirm, Pending, Placed, TypeOK
<1>2. /\ [orders[o] EXCEPT !.status = "confirmed"] \in Order
      /\ [orders[o] EXCEPT !.status = "confirmed"].user = orders[o].user
      /\ [orders[o] EXCEPT !.status = "confirmed"].key = orders[o].key
  BY <1>1 DEF Order, Status
<1>3. QED
  BY <1>1, <1>2, NoOrderAssumption DEF SameRows, TypeOK

\* Create inserts a row for a user and key that had none.
LEMMA PlaceRow ==
  ASSUME TypeOK, NEW o \in OrderIds, NEW u \in Users, NEW k \in Keys,
         NEW basket \in Baskets, NEW at \in 0 .. clock, Place(o, u, k, basket, at)
  PROVE  /\ Placed(orders)' = Placed(orders) \cup {o}
         /\ \A x \in Placed(orders) : x # o /\ Row(x)' = Row(x)
         /\ Row(o)' = <<u, k>>
         /\ RowOf(<<u, k>>) = {}
         /\ RowOf(<<u, k>>)' = {o}
         /\ \A j : j # <<u, k>> => RowOf(j)' = RowOf(j)
<1> DEFINE new == [user |-> u, key |-> k, items |-> basket,
                   status |-> "pending", placedAt |-> at]
<1>1. new \in Order /\ new.user = u /\ new.key = k
  BY InventoryAssumption DEF Order, Status, TypeOK
<1>2. /\ orders[o] = NoOrder /\ orders' = [orders EXCEPT ![o] = new]
      /\ \A x \in Placed(orders) : ~(orders[x].user = u /\ orders[x].key = k)
  BY DEF Place, Placed
<1> HIDE DEF new
<1>3. /\ orders'[o] = new /\ new # NoOrder
      /\ \A x \in OrderIds : x # o => orders'[x] = orders[x]
  BY <1>1, <1>2, NoOrderAssumption DEF TypeOK
<1>4. Placed(orders)' = Placed(orders) \cup {o} /\ o \notin Placed(orders)
  BY <1>2, <1>3 DEF Placed
<1>5. \A x \in Placed(orders) : x # o /\ Row(x)' = Row(x)
  BY <1>3, <1>4 DEF Placed, Row
<1>6. Row(o)' = <<u, k>>
  BY <1>1, <1>3 DEF Row
<1>7. \A x \in Placed(orders) : Row(x) # <<u, k>>
  BY <1>2 DEF Row
<1>8. QED
  BY <1>4, <1>5, <1>6, <1>7 DEF RowOf

-----------------------------------------------------------------------------
(* What a step does to the requests                                        *)

\* A request that changes while the rows do not, and no client hears anything.
LEMMA AttemptMoves ==
  ASSUME AnswersInv, UNCHANGED <<orders, heard>>, NEW r \in Requests, NEW x \in Busy,
         req' = [req EXCEPT ![r] = x],
         x.pc = "items" \/ (x.pc = "reply" /\ x.answer = "created") =>
           x.order \in RowOf(x.intent),
         req[r].pc # "reply"
  PROVE  AnswersInv'
<1>1. /\ req' \in [Requests -> Busy \cup {Idle}] /\ req'[r] = x
      /\ \A s \in Requests : s # r => req'[s] = req[s]
  BY DEF AnswersInv, RequestsOK
<1>2. /\ Placed(orders)' = Placed(orders)
      /\ \A o : Row(o)' = Row(o)
      /\ \A i : RowOf(i)' = RowOf(i)
  BY DEF Placed, Row, RowOf
<1>3. RequestsOK'
  BY <1>1 DEF AnswersInv, RequestsOK, heard
<1>4. \A s \in Requests : AttemptOK(s)'
  BY <1>1, <1>2 DEF AnswersInv, AttemptOK
<1>5. ASSUME NEW i \in Intents, OnItsWay(i) PROVE OnItsWay(i)'
  BY <1>1, <1>5 DEF OnItsWay
<1>6. NoSilentOrder'
  BY <1>2, <1>5 DEF AnswersInv, NoSilentOrder, heard
<1>7. QED
  BY <1>2, <1>3, <1>4, <1>6 DEF AnswersInv, heard

\* A request that replies leaves its other fields alone.
LEMMA ReplyFields ==
  ASSUME RequestsOK, NEW r \in Requests, req[r].pc # "idle",
         NEW a \in {"created", "refused", "error"},
         NEW o \in OrderIds \cup {None}, Reply(r, a, o)
  PROVE  \E x \in Busy :
           /\ req' = [req EXCEPT ![r] = x]
           /\ x.pc = "reply" /\ x.answer = a /\ x.order = o
           /\ x.intent = req[r].intent
<1> DEFINE x == [req[r] EXCEPT !.pc = "reply", !.answer = a, !.order = o]
<1>1. x \in Busy
  BY ReqFields DEF Busy
<1>2. x.pc = "reply" /\ x.answer = a /\ x.order = o /\ x.intent = req[r].intent
  BY ReqFields DEF Busy
<1>3. req' = [req EXCEPT ![r] = x]
  BY DEF Reply
<1> HIDE DEF x
<1>4. QED
  BY <1>1, <1>2, <1>3

\* So does one that has been answered.
LEMMA DoneFields ==
  ASSUME RequestsOK, NEW r \in Requests, HandlerDone(r)
  PROVE  /\ req' \in [Requests -> Busy \cup {Idle}]
         /\ req'[r].pc = "idle"
         /\ \A s \in Requests : s # r => req'[s] = req[s]
BY DEF HandlerDone, RequestsOK, Idle

LEMMA SendInv ==
  ASSUME AnswersInv, NEW r \in Requests, NEW i \in Intents, NEW basket \in Baskets,
         Send(r, i, basket)
  PROVE  AnswersInv'
<1> DEFINE x == [pc |-> "create", intent |-> i, basket |-> basket,
                 order |-> None, answer |-> "none"]
<1>1. x \in Busy /\ x.pc = "create"
  BY DEF Busy
<1>2. req' = [req EXCEPT ![r] = x] /\ req[r].pc = "idle" /\ UNCHANGED <<orders, heard>>
  BY DEF Send, vars
<1> HIDE DEF x
<1>3. QED
  BY <1>1, <1>2, AttemptMoves

\* The row is new, and its answer on its way.
LEMMA CreateInv ==
  ASSUME AnswersInv, TypeOK, NEW r \in Requests, Create(r) \/ CreateUnanswered(r)
  PROVE  AnswersInv'
<1>1. RequestsOK /\ UNCHANGED heard /\ req[r].pc = "create"
  BY DEF AnswersInv, Create, CreateUnanswered
<1>2. PICK o \in OrderIds, at \in 0 .. clock, a \in {"created", "error"},
           z \in OrderIds \cup {None} :
        /\ Placing(r, o, at) /\ Reply(r, a, z)
        /\ a = "created" => z = o
  BY DEF Create, CreateUnanswered, Unanswered
<1>3. PICK i \in Intents, u \in Users, k \in Keys, basket \in Baskets :
        i = req[r].intent /\ i = <<u, k>> /\ basket = req[r].basket
  <2>1. req[r].intent \in Intents /\ req[r].basket \in Baskets
    BY <1>1, ReqFields
  <2>2. \E u \in Users, k \in Keys : req[r].intent = <<u, k>>
    BY <2>1, PlaceOrderAssumption
  <2>3. QED
    BY <2>1, <2>2
<1>4. /\ Placed(orders)' = Placed(orders) \cup {o}
      /\ \A x \in Placed(orders) : x # o /\ Row(x)' = Row(x)
      /\ Row(o)' = i
      /\ RowOf(i) = {}
      /\ RowOf(i)' = {o}
      /\ \A j \in Intents : j # i => RowOf(j)' = RowOf(j)
  <2>1. Place(o, u, k, basket, at)
    BY <1>2, <1>3 DEF Placing
  <2>2. QED
    BY <2>1, <1>3, PlaceRow
<1>5. PICK x \in Busy :
        /\ req' = [req EXCEPT ![r] = x]
        /\ x.pc = "reply" /\ x.answer = a /\ x.order = z /\ x.intent = i
  <2>1. a \in {"created", "refused", "error"} /\ req[r].pc # "idle"
    BY <1>1
  <2>2. RequestsOK /\ Reply(r, a, z)
    BY <1>1, <1>2
  <2>3. \E x \in Busy : /\ req' = [req EXCEPT ![r] = x]
                        /\ x.pc = "reply" /\ x.answer = a /\ x.order = z
                        /\ x.intent = req[r].intent
    BY <2>1, <2>2, ReplyFields
  <2>4. i = req[r].intent
    BY <1>3
  <2>5. QED
    BY <2>3, <2>4
<1>6. /\ req' \in [Requests -> Busy \cup {Idle}] /\ req'[r] = x
      /\ \A s \in Requests : s # r => req'[s] = req[s]
  BY <1>1, <1>5 DEF RequestsOK
<1>7. \A j \in Intents : RowOf(j) \subseteq RowOf(j)'
  BY <1>4
<1>8. RequestsOK'
  BY <1>1, <1>4, <1>6 DEF RequestsOK, heard
<1>9. (\A y, w \in Placed(orders) : Row(y) = Row(w) => y = w)'
  <2>1. \A y \in Placed(orders) : Row(y) # i
    BY <1>4 DEF RowOf
  <2>2. QED
    BY <1>4, <2>1 DEF AnswersInv
<1>10. ASSUME NEW s \in Requests PROVE AttemptOK(s)'
  <2>1. CASE s = r
    BY <2>1, <1>2, <1>4, <1>5, <1>6 DEF AttemptOK
  <2>2. CASE s # r
    <3>1. req'[s] = req[s] /\ (req[s].pc # "idle" => req[s].intent \in Intents)
      BY <2>2, <1>1, <1>6, ReqFields
    <3>2. QED
      BY <3>1, <1>7 DEF AnswersInv, AttemptOK
  <2>3. QED
    BY <2>1, <2>2
<1>11. \A j \in Intents : told'[j] \subseteq RowOf(j)'
  BY <1>1, <1>7 DEF AnswersInv, heard
<1>12. ASSUME NEW j \in Intents, RowOf(j)' # {}
       PROVE  told'[j] # {} \/ j \in doubtful' \/ OnItsWay(j)'
  <2>1. CASE j = i
    BY <2>1, <1>5, <1>6 DEF OnItsWay
  <2>2. CASE j # i
    <3>1. told[j] # {} \/ j \in doubtful \/ OnItsWay(j)
      BY <2>2, <1>4, <1>12 DEF AnswersInv, NoSilentOrder
    <3>2. OnItsWay(j) => OnItsWay(j)'
      BY <1>1, <1>6 DEF OnItsWay
    <3>3. QED
      BY <3>1, <3>2, <1>1 DEF heard
  <2>3. QED
    BY <2>1, <2>2
<1>13. QED
  BY <1>8, <1>9, <1>10, <1>11, <1>12 DEF AnswersInv, NoSilentOrder

\* The steps of the handler that only read.
LEMMA ReadInv ==
  ASSUME AnswersInv, NEW r \in Requests,
         \/ CreateRefused(r) \/ CreateDuplicate(r)
         \/ Lookup(r) \/ LookupItems(r) \/ CallFails(r)
  PROVE  AnswersInv'
<1>1. RequestsOK /\ UNCHANGED <<orders, heard>> /\ req[r].pc \notin {"idle", "reply"}
  BY DEF AnswersInv, CreateRefused, CreateDuplicate, Lookup, LookupItems, CallFails, vars
<1>2. ASSUME NEW a \in {"created", "refused", "error"}, NEW o \in OrderIds \cup {None},
             Reply(r, a, o), a = "created" => o \in RowOf(req[r].intent)
      PROVE  AnswersInv'
  <2>1. PICK x \in Busy :
          /\ req' = [req EXCEPT ![r] = x]
          /\ x.pc = "reply" /\ x.answer = a /\ x.order = o
          /\ x.intent = req[r].intent
    BY <1>1, <1>2, ReplyFields
  <2>2. QED
    BY <2>1, <1>1, <1>2, AttemptMoves
<1>3. CASE CreateRefused(r) \/ CallFails(r)
  BY <1>2, <1>3 DEF CreateRefused, CallFails
<1>4. CASE CreateDuplicate(r)
  <2> DEFINE x == [req[r] EXCEPT !.pc = "lookup"]
  <2>1. x \in Busy /\ x.pc = "lookup"
    BY <1>1, ReqFields DEF Busy
  <2>2. req' = [req EXCEPT ![r] = x]
    BY <1>4 DEF CreateDuplicate, Duplicate
  <2> HIDE DEF x
  <2>3. QED
    BY <2>1, <2>2, <1>1, AttemptMoves
<1>5. CASE Lookup(r)
  <2>1. PICK o \in RowOf(req[r].intent) :
          req' = [req EXCEPT ![r].pc = "items", ![r].order = o]
    BY <1>5 DEF Lookup, Found
  <2>2. o \in OrderIds
    BY <2>1 DEF RowOf, Placed
  <2> DEFINE x == [req[r] EXCEPT !.pc = "items", !.order = o]
  <2>3. x \in Busy /\ x.pc = "items" /\ x.order = o /\ x.intent = req[r].intent
    BY <2>2, <1>1, ReqFields DEF Busy
  <2>4. req' = [req EXCEPT ![r] = x]
    BY <2>1
  <2> HIDE DEF x
  <2>5. QED
    BY <2>1, <2>3, <2>4, <1>1, AttemptMoves
<1>6. CASE LookupItems(r)
  <2>1. req[r].order \in RowOf(req[r].intent)
    BY <1>6 DEF AnswersInv, AttemptOK, LookupItems
  <2>2. req[r].order \in OrderIds
    BY <2>1 DEF RowOf, Placed
  <2>3. QED
    BY <2>1, <2>2, <1>2, <1>6 DEF LookupItems
<1>7. QED
  BY <1>3, <1>4, <1>5, <1>6

-----------------------------------------------------------------------------
(* What the clients hear                                                   *)

\* Requests end, and what their clients hear of is theirs.
LEMMA HeardInv ==
  ASSUME AnswersInv, UNCHANGED orders, NEW R \in SUBSET Requests,
         req' \in [Requests -> Busy \cup {Idle}],
         \A r \in R : req'[r].pc = "idle",
         \A s \in Requests \ R : req'[s] = req[s],
         told' \in [Intents -> SUBSET OrderIds], refused' \subseteq Intents,
         doubtful' \subseteq Intents, doubtful \subseteq doubtful',
         \A i \in Intents : told[i] \subseteq told'[i] /\ told'[i] \subseteq RowOf(i),
         \A r \in R : req[r].pc = "reply" /\ req[r].answer \in {"created", "error"} =>
           told'[req[r].intent] # {} \/ req[r].intent \in doubtful'
  PROVE  AnswersInv'
<1>1. /\ Placed(orders)' = Placed(orders)
      /\ \A o : Row(o)' = Row(o)
      /\ \A i : RowOf(i)' = RowOf(i)
  BY DEF Placed, Row, RowOf
<1>2. RequestsOK'
  BY DEF AnswersInv, RequestsOK
<1>3. ASSUME NEW s \in Requests PROVE AttemptOK(s)'
  <2>1. CASE s \in R
    BY <2>1 DEF AttemptOK
  <2>2. CASE s \notin R
    BY <2>2, <1>1 DEF AnswersInv, AttemptOK
  <2>3. QED
    BY <2>1, <2>2
<1>4. ASSUME NEW i \in Intents, RowOf(i) # {}
      PROVE  told'[i] # {} \/ i \in doubtful' \/ OnItsWay(i)'
  <2>1. CASE told[i] # {} \/ i \in doubtful
    BY <2>1
  <2>2. CASE OnItsWay(i)
    <3>1. PICK s \in Requests : /\ req[s].pc = "reply" /\ req[s].intent = i
                                /\ req[s].answer \in {"created", "error"}
      BY <2>2 DEF OnItsWay
    <3>2. CASE s \in R
      BY <3>1, <3>2
    <3>3. CASE s \notin R
      BY <3>1, <3>3 DEF OnItsWay
    <3>4. QED
      BY <3>2, <3>3
  <2>3. QED
    BY <2>1, <2>2, <1>4 DEF AnswersInv, NoSilentOrder
<1>5. QED
  BY <1>1, <1>2, <1>3, <1>4 DEF AnswersInv, NoSilentOrder

LEMMA ReplyStepInv ==
  ASSUME AnswersInv, NEW r \in Requests, ReplyStep(r)
  PROVE  AnswersInv'
<1>1. /\ RequestsOK /\ UNCHANGED orders /\ HandlerDone(r) /\ req[r].pc = "reply"
      /\ \A i \in Intents : told[i] \subseteq RowOf(i)
  BY DEF AnswersInv, ReplyStep, Receive, ReceiveError, LoseReply, vars
<1>2. PICK i \in Intents : i = req[r].intent
  BY <1>1, ReqFields
<1>3. /\ req' \in [Requests -> Busy \cup {Idle}] /\ {r} \in SUBSET Requests
      /\ \A s \in {r} : req'[s].pc = "idle"
      /\ \A s \in Requests \ {r} : req'[s] = req[s]
  BY <1>1, DoneFields
<1>4. CASE Doubt({i})
  <2>1. /\ told' = told /\ refused' = refused \ {i} /\ doubtful' = doubtful \cup {i}
    BY <1>4 DEF Doubt
  <2>2. QED
    BY <2>1, <1>1, <1>2, <1>3, HeardInv DEF RequestsOK
<1>5. CASE /\ req[r].answer = "created"
           /\ told' = [told EXCEPT ![i] = @ \cup {req[r].order}]
           /\ UNCHANGED <<refused, doubtful>>
  <2>1. req[r].order \in RowOf(i) /\ req[r].order \in OrderIds
    BY <1>1, <1>2, <1>5 DEF AnswersInv, AttemptOK, RowOf, Placed
  <2>2. /\ told' \in [Intents -> SUBSET OrderIds] /\ req[r].order \in told'[i]
        /\ \A j \in Intents : told[j] \subseteq told'[j] /\ told'[j] \subseteq RowOf(j)
    BY <2>1, <1>1, <1>5 DEF RequestsOK
  <2>3. QED
    BY <2>2, <1>1, <1>2, <1>3, <1>5, HeardInv DEF RequestsOK
<1>6. CASE /\ req[r].answer = "refused"
           /\ refused' = refused \cup {i}
           /\ UNCHANGED <<told, doubtful>>
  BY <1>1, <1>2, <1>3, <1>6, HeardInv DEF RequestsOK
<1>7. QED
  BY <1>2, <1>4, <1>5, <1>6 DEF ReplyStep, Receive, ReceiveError, LoseReply

LEMMA RestartInv ==
  ASSUME AnswersInv, Restart
  PROVE  AnswersInv'
<1> DEFINE S == {req[r].intent : r \in UnderWay}
<1>1. /\ RequestsOK /\ UNCHANGED orders /\ Doubt(S)
      /\ req' = [r \in Requests |-> Idle]
      /\ \A i \in Intents : told[i] \subseteq RowOf(i)
  BY DEF AnswersInv, Restart, vars
<1>2. /\ req' \in [Requests -> Busy \cup {Idle}] /\ Requests \in SUBSET Requests
      /\ \A r \in Requests : req'[r].pc = "idle"
      /\ \A s \in Requests \ Requests : req'[s] = req[s]
  BY <1>1 DEF Idle
<1>3. S \subseteq Intents /\ told' = told /\ refused' = refused \ S /\ doubtful' = doubtful \cup S
  BY <1>1, ReqFields DEF Doubt, UnderWay
<1>4. \A r \in Requests : req[r].pc = "reply" => req[r].intent \in S
  BY DEF UnderWay
<1> HIDE DEF S
<1>5. QED
  BY <1>1, <1>2, <1>3, <1>4, HeardInv DEF RequestsOK

\* Others change rows, but not whose they are, ...
LEMMA SameRowsInv ==
  ASSUME AnswersInv, SameRows, UNCHANGED <<req, heard>>
  PROVE  AnswersInv'
<1>1. /\ Placed(orders)' = Placed(orders)
      /\ \A o \in Placed(orders) : Row(o)' = Row(o)
      /\ \A i : RowOf(i)' = RowOf(i)
  BY SameRowOf
<1>2. RequestsOK'
  BY DEF AnswersInv, RequestsOK, heard
<1>3. NoSilentOrder'
  BY <1>1 DEF AnswersInv, NoSilentOrder, OnItsWay, heard
<1>4. QED
  BY <1>1, <1>2, <1>3 DEF AnswersInv, AttemptOK, heard

\* ... and insert rows of their own.
LEMMA OthersPlaceInv ==
  ASSUME AnswersInv, TypeOK, NEW o \in OrderIds, NEW i \in (Users \X Keys) \ Intents,
         NEW basket \in Baskets, NEW at \in 0 .. clock,
         Place(o, i[1], i[2], basket, at), UNCHANGED <<req, heard>>
  PROVE  AnswersInv'
<1>1. PICK u \in Users, k \in Keys : i = <<u, k>>
  OBVIOUS
<1>2. Place(o, u, k, basket, at)
  BY <1>1
<1>3. /\ Placed(orders)' = Placed(orders) \cup {o}
      /\ \A x \in Placed(orders) : x # o /\ Row(x)' = Row(x)
      /\ Row(o)' = i
      /\ RowOf(i) = {}
      /\ \A j \in Intents : RowOf(j)' = RowOf(j)
  BY <1>1, <1>2, PlaceRow
<1>4. RequestsOK'
  BY DEF AnswersInv, RequestsOK, heard
<1>5. (\A y, w \in Placed(orders) : Row(y) = Row(w) => y = w)'
  <2>1. \A y \in Placed(orders) : Row(y) # i
    BY <1>3 DEF RowOf
  <2>2. QED
    BY <1>3, <2>1 DEF AnswersInv
<1>6. ASSUME NEW r \in Requests PROVE AttemptOK(r)'
  <2>1. CASE req[r].pc = "idle"
    BY <2>1 DEF AttemptOK
  <2>2. CASE req[r].pc # "idle"
    <3>1. req[r].intent \in Intents /\ req'[r] = req[r]
      BY <2>2, ReqFields DEF AnswersInv
    <3>2. QED
      BY <3>1, <1>3 DEF AnswersInv, AttemptOK
  <2>3. QED
    BY <2>1, <2>2
<1>7. NoSilentOrder'
  BY <1>3 DEF AnswersInv, NoSilentOrder, OnItsWay, heard
<1>8. QED
  BY <1>3, <1>4, <1>5, <1>6, <1>7 DEF AnswersInv, heard

LEMMA ElsewhereInv ==
  ASSUME AnswersInv, TypeOK, Elsewhere
  PROVE  AnswersInv'
<1>1. UNCHANGED <<req, heard>>
  BY DEF Elsewhere
<1>2. CASE UNCHANGED orders
  BY <1>1, <1>2, SameRowsInv DEF SameRows
<1>3. ASSUME NEW S, Release(S) PROVE AnswersInv'
  BY <1>1, <1>3, ReleaseSameRows, SameRowsInv
<1>4. ASSUME NEW o \in OrderIds, Confirm(o) PROVE AnswersInv'
  BY <1>1, <1>4, ConfirmSameRows, SameRowsInv
<1>5. QED
  BY <1>1, <1>2, <1>3, <1>4, OthersPlaceInv
  DEF Elsewhere, Tick, CreateProduct, Cancel, CancelStale

-----------------------------------------------------------------------------
(* The theorems                                                            *)

LEMMA ServiceInitInv == ServiceInit => IInv /\ AnswersInv
<1> SUFFICES ASSUME ServiceInit PROVE IInv /\ AnswersInv
  OBVIOUS
<1>1. IInv /\ Placed(orders) = {}
  BY InitInv DEF ServiceInit, Init, Placed
<1>2. \A r \in Requests : req[r] = Idle
  BY DEF ServiceInit
<1>3. \A i : RowOf(i) = {}
  BY <1>1 DEF RowOf
<1>4. RequestsOK
  BY DEF ServiceInit, RequestsOK
<1>5. QED
  BY <1>1, <1>2, <1>3, <1>4 DEF ServiceInit, AnswersInv, AttemptOK, NoSilentOrder, Idle

LEMMA ServiceStepInv ==
  ASSUME IInv, AnswersInv, [ServiceNext]_serviceVars
  PROVE  IInv' /\ AnswersInv'
<1>1. TypeOK /\ IInv'
  BY StepImplements, NextInv DEF IInv, AnswersInv
<1>2. ASSUME NEW r \in Requests, HandlerStep(r) \/ ReplyStep(r) PROVE AnswersInv'
  BY <1>1, <1>2, CreateInv, ReadInv, ReplyStepInv DEF HandlerStep, Decide
<1>3. ASSUME UNCHANGED serviceVars PROVE AnswersInv'
  BY <1>3, SameRowsInv DEF serviceVars, vars, SameRows
<1>4. QED
  BY <1>1, <1>2, <1>3, SendInv, RestartInv, ElsewhereInv DEF ServiceNext

LEMMA ServiceInv == ServiceSpec => [](IInv /\ AnswersInv)
BY ServiceInitInv, ServiceStepInv, PTL DEF ServiceSpec

\* What every request knows of the order of its user and key agrees with the rows, and
\* what the clients were told with both, through retries, lost replies and restarts.
THEOREM PlaceOrderAnswers == ServiceSpec => []AnswersInv
BY ServiceInv, PTL

\* However often a key is sent, every 201 of placeOrderHandler names the one order
\* of that user and key.
THEOREM PlaceOrderRepliesAgree == ServiceSpec => []RepliesAgree
<1>1. ASSUME AnswersInv PROVE RepliesAgree
  <2> SUFFICES ASSUME NEW i \in Intents
               PROVE  Cardinality(told[i]) <= 1 /\ told[i] \subseteq RowOf(i)
    BY DEF RepliesAgree
  <2>1. told[i] \subseteq RowOf(i)
    BY <1>1 DEF AnswersInv
  <2>2. \A o, x \in told[i] : o = x
    BY <2>1, <1>1 DEF AnswersInv, RowOf
  <2>3. CASE told[i] = {}
    BY <2>1, <2>3, FS_EmptySet
  <2>4. CASE told[i] # {}
    <3>1. PICK o : told[i] = {o}
      BY <2>2, <2>4
    <3>2. QED
      BY <2>1, <3>1, FS_Singleton
  <2>5. QED
    BY <2>3, <2>4
<1>2. QED
  BY <1>1, ServiceInv, PTL

\* A client that was never left in doubt and has no 201 has no order, and no stock is
\* held for it.
THEOREM PlaceOrderNoSilentOrder == ServiceSpec => []NoSilentOrder
<1>1. AnswersInv => NoSilentOrder
  BY DEF AnswersInv
<1>2. QED
  BY <1>1, ServiceInv, PTL

\* Every handler, retry and crash acts on the rows as Inventory promises, ...
THEOREM PlaceOrderImplementsInventory == ServiceSpec => Spec
<1>1. ServiceInit => Init
  BY DEF ServiceInit
<1>2. AnswersInv => RequestsOK
  BY DEF AnswersInv
<1>3. QED
  BY <1>1, <1>2, StepImplements, ServiceInv, PTL DEF ServiceSpec, Spec

\* ... so no unit is lost however requests fail, repeat or die, and nothing that the
\* service does takes an order out of its life cycle.
THEOREM PlaceOrderKeepsStock == ServiceSpec => []StockConserved
<1>1. QED
  BY PlaceOrderImplementsInventory, InventoryStockConserved, PTL

THEOREM PlaceOrderImplementsOrderLife == ServiceSpec => ImplementsOrderLife
<1>1. QED
  BY PlaceOrderImplementsInventory, InventoryImplementsOrderLife, PTL
=============================================================================
