-------------------------- MODULE OrderStoreProofs --------------------------
(***************************************************************************)
(* IInv is inductive, so the safety properties of OrderStore hold for any  *)
(* number of clients, janitors, products, orders and payloads.             *)
(***************************************************************************)
EXTENDS OrderStoreInv, LedgerProofs

-----------------------------------------------------------------------------
(* Types of what the steps read.                                           *)

LEMMA TxFields ==
  ASSUME TypeOK, NEW t \in Tx
  PROVE  /\ tx[t] \in TxState
         /\ tx[t].pc \in {"idle", "lock", "write", "restock", "mark", "commit",
                          "abandoned"}
         /\ tx[t].op \in {"none", "create", "cancel", "confirm", "stale"}
         /\ tx[t].user \in Users \cup {None}
         /\ tx[t].key \in Keys \cup {None}
         /\ tx[t].items \in Seq(Item)
         /\ tx[t].seen \in Nat
         /\ tx[t].began \in Nat
         /\ tx[t].batch \subseteq OrderIds
         /\ tx[t].todo \subseteq Pairs
         /\ tx[t].marked \subseteq OrderIds
BY DEF TypeOK, TxState

LEMMA IdleType == Idle \in TxState
BY DEF Idle, TxState, NoPair

LEMMA PlacedType ==
  ASSUME TypeOK, NEW o \in Placed(orders)
  PROVE  /\ o \in OrderIds
         /\ orders[o] \in Order
         /\ orders[o].items \in [Products -> Nat]
         /\ orders[o].status \in Status
BY DEF TypeOK, Placed, Order

LEMMA LiveIsPlaced == Live(orders) \subseteq Placed(orders)
BY DEF Live

LEMMA PairOf ==
  ASSUME TypeOK, NEW S \in SUBSET Placed(orders), NEW d \in ItemPairs(orders, S)
  PROVE  /\ d = <<d[1], d[2]>>
         /\ d[1] \in S
         /\ d[2] \in Products
         /\ d \in Pairs
         /\ orders[d[1]].items[d[2]] \in Nat \ {0}
<1>1. d \in S \X Products /\ orders[d[1]].items[d[2]] > 0
  BY DEF ItemPairs
<1>2. d = <<d[1], d[2]>> /\ d[1] \in S /\ d[2] \in Products
  BY <1>1
<1>3. orders[d[1]].items \in [Products -> Nat] /\ d[1] \in OrderIds
  BY <1>2, PlacedType
<1>4. QED
  BY <1>1, <1>2, <1>3 DEF Pairs

LEMMA NoneIsNoTx == None \notin Tx
BY TxAssumption

LEMMA ItemType ==
  ASSUME NEW items \in Seq(Item), NEW i \in 1 .. Len(items)
  PROVE  items[i].product \in Products /\ items[i].quantity \in Nat \ {0}
<1>1. items[i] \in Item
  OBVIOUS
<1>2. QED
  BY <1>1 DEF Item

-----------------------------------------------------------------------------
(* Quantities: the rows of order_items that a payload becomes.             *)

LEMMA LinesChoice ==
  ASSUME NEW items, NEW p, Lines(items, p) # {}
  PROVE  (CHOOSE i \in Lines(items, p) : TRUE) \in Lines(items, p)
OBVIOUS

LEMMA QuantitiesType ==
  ASSUME NEW items \in Seq(Item)
  PROVE  /\ Quantities(items) \in [Products -> Nat]
         /\ \A p \in Products :
              Quantities(items)[p] > 0
                => \E i \in 1 .. Len(items) : items[i].product = p
<1>1. ASSUME NEW p \in Products, Lines(items, p) # {}
      PROVE  /\ Quantities(items)[p] \in Nat
             /\ \E i \in 1 .. Len(items) : items[i].product = p
  <2>1. PICK i \in Lines(items, p) : Quantities(items)[p] = items[i].quantity
    BY <1>1, LinesChoice DEF Quantities
  <2>2. i \in 1 .. Len(items) /\ items[i].product = p /\ items[i] \in Item
    BY DEF Lines
  <2>3. QED
    BY <2>1, <2>2 DEF Item
<1>2. ASSUME NEW p \in Products, Lines(items, p) = {}
      PROVE  Quantities(items)[p] = 0
  BY <1>2 DEF Quantities
<1>3. \A p \in Products : Quantities(items)[p] \in Nat
  BY <1>1, <1>2
<1>4. Quantities(items) = [p \in Products |-> Quantities(items)[p]]
  BY DEF Quantities
<1>5. Quantities(items) \in [Products -> Nat]
  BY <1>3, <1>4
<1>6. QED
  BY <1>1, <1>2, <1>5

LEMMA QuantitiesOfLine ==
  ASSUME NEW items \in Seq(Item), ~ProductTwice(items),
         NEW i \in 1 .. Len(items)
  PROVE  /\ items[i].product \in Products
         /\ Quantities(items)[items[i].product] = items[i].quantity
         /\ items[i].quantity \in Nat \ {0}
<1>1. items[i] \in Item
  OBVIOUS
<1>2. items[i].product \in Products /\ items[i].quantity \in Nat \ {0}
  BY <1>1 DEF Item
<1>3. i \in Lines(items, items[i].product)
  BY DEF Lines
<1>4. PICK j \in Lines(items, items[i].product) :
        Quantities(items)[items[i].product] = items[j].quantity
  BY <1>2, <1>3, LinesChoice DEF Quantities
<1>5. j \in DOMAIN items /\ items[j].product = items[i].product
  BY DEF Lines
<1>6. j = i
  BY <1>5 DEF ProductTwice
<1>7. QED
  BY <1>2, <1>4, <1>6

\* Units does not change when the items of its orders do not.
LEMMA UnitsSame ==
  ASSUME NEW f, NEW g, NEW S, NEW p, \A o \in S : f[o].items = g[o].items
  PROVE  Units(f, S, p) = Units(g, S, p)
BY UnitsFrame

-----------------------------------------------------------------------------
(* What a step leaves a transaction u other than the one that moves.       *)

Untouched(u) ==
  /\ tx'[u] = tx[u]
  /\ \A p \in Products : (prodLock'[p] = u) <=> (prodLock[p] = u)
  /\ \A p \in Products : prodLock[p] = u => draft'[p] = draft[p] /\ stock'[p] = stock[p]
  /\ \A o \in Placed(orders) :
       orderLock[o] = u => orderLock'[o] = u /\ orders'[o] = orders[o]
  /\ \A o \in Placed(orders) : orders'[o] # NoOrder /\ orders'[o].items = orders[o].items
  /\ Inserted(u) =>
       /\ \A o \in tx[u].batch : orders'[o] = orders[o]
       /\ \A x \in Placed(orders)' : ~SameKey(u, orders'[x])
  /\ clock <= clock'

LEMMA CreateFrame ==
  ASSUME TypeOK, TypeOK', NEW u \in Tx, Untouched(u), Creating(u)', TxShape(u)
  PROVE  CreateShape(u)'
<1>1. tx'[u] = tx[u] /\ CreateShape(u)
  BY DEF Untouched, TxShape, Creating, Active
<1>2. tx[u].began <= clock'
  BY <1>1, TxFields DEF CreateShape, Untouched, TypeOK
<1>3. ASSUME NEW i \in 1 .. tx[u].seen
      PROVE  /\ prodLock'[tx[u].items[i].product] = u
             /\ tx[u].pc # "commit" =>
                  tx[u].items[i].quantity <= draft'[tx[u].items[i].product]
  <2>1. i \in 1 .. Len(tx[u].items) /\ tx[u].items \in Seq(Item)
    BY <1>1, TxFields DEF CreateShape
  <2>2. tx[u].items[i].product \in Products
    BY <2>1, ItemType
  <2>3. /\ prodLock[tx[u].items[i].product] = u
        /\ tx[u].pc # "commit" =>
             tx[u].items[i].quantity <= draft[tx[u].items[i].product]
    BY <1>1 DEF CreateShape
  <2>4. /\ prodLock'[tx[u].items[i].product] = u
        /\ draft'[tx[u].items[i].product] = draft[tx[u].items[i].product]
    BY <2>2, <2>3 DEF Untouched
  <2>5. QED
    BY <2>3, <2>4
<1>4. Inserted(u)' =>
        /\ tx[u].seen = Len(tx[u].items)
        /\ \E o \in OrderIds : tx[u].batch = {o} /\ orders'[o] = NoOrder
        /\ \A x \in Placed(orders)' : ~SameKey(u, orders[x])'
  BY <1>1 DEF Untouched, Inserted, CreateShape, SameKey
<1>5. QED
  BY <1>1, <1>2, <1>3, <1>4 DEF CreateShape, Inserted

LEMMA CancelFrame ==
  ASSUME TypeOK, TypeOK', NEW u \in Tx, Untouched(u), Cancelling(u)', TxShape(u)
  PROVE  CancelShape(u)'
<1>1. tx'[u] = tx[u] /\ CancelShape(u)
  BY DEF Untouched, TxShape, Cancelling, Active
<1>2. tx[u].batch \subseteq Placed(orders) /\ tx[u].batch \subseteq OrderIds
  BY <1>1 DEF CancelShape, Placed
<1>3. /\ tx[u].batch \subseteq Placed(orders)'
      /\ \A o \in tx[u].batch : orders'[o].items = orders[o].items
  BY <1>2 DEF Untouched, Placed
<1>4. ItemPairs(orders, tx[u].batch)' = ItemPairs(orders, tx[u].batch)
  BY <1>1, <1>3 DEF ItemPairs
<1>5. \A o \in tx[u].batch : orderLock[o] = u /\ orders[o].status = "pending" =>
                                orderLock'[o] = u /\ orders'[o].status = "pending"
  BY <1>2 DEF Untouched, Placed
<1>6. \A o \in tx[u].marked : orderLock'[o] = u /\ orders'[o].status = "pending"
  BY <1>1, <1>5 DEF CancelShape
<1>7. \A o \in tx[u].batch, p \in Products :
        orders'[o].items[p] > 0 /\ <<o, p>> \notin tx[u].todo => prodLock'[p] = u
  BY <1>1, <1>3 DEF CancelShape, Untouched
<1>8. QED
  BY <1>1, <1>3, <1>4, <1>5, <1>6, <1>7 DEF CancelShape

LEMMA ShapeFrame ==
  ASSUME TypeOK, TypeOK', NEW u \in Tx, Untouched(u), TxShape(u)
  PROVE  TxShape(u)'
<1>1. Active(u)' => tx'[u].op \in {"create", "cancel", "stale"}
  BY DEF TxShape, Untouched, Active
<1>2. QED
  BY <1>1, CreateFrame, CancelFrame DEF TxShape

LEMMA DraftFrame ==
  ASSUME TypeOK, NEW u \in Tx, Untouched(u), TxShape(u),
         NEW p \in Products, prodLock[p] = u, DraftOf(u, p)
  PROVE  DraftOf(u, p)'
<1>1. tx'[u] = tx[u] /\ draft'[p] = draft[p] /\ stock'[p] = stock[p]
  BY DEF Untouched
<1>2. Creating(u)' =>
        draft'[p] = IF tx'[u].pc = "commit" THEN stock'[p] - Quantities(tx'[u].items)[p]
                                            ELSE stock'[p]
  BY <1>1 DEF DraftOf, Creating, Active
<1>3. ASSUME Cancelling(u)', tx'[u].pc # "abandoned"
      PROVE  /\ IsFiniteSet(Units(orders, Restocked(u, p), p))'
             /\ draft'[p] = stock'[p] + Cardinality(Units(orders, Restocked(u, p), p))'
  <2>1. Cancelling(u) /\ CancelShape(u)
    BY <1>1, <1>3 DEF Cancelling, Active, TxShape
  <2>2. Restocked(u, p)' = Restocked(u, p)
    BY <1>1 DEF Restocked
  <2>3. \A o \in Restocked(u, p) : orders'[o].items = orders[o].items
    BY <2>1 DEF Restocked, CancelShape, Untouched
  <2>4. Units(orders', Restocked(u, p), p) = Units(orders, Restocked(u, p), p)
    BY <2>3, UnitsSame
  <2>5. QED
    BY <1>1, <1>3, <2>1, <2>2, <2>4 DEF DraftOf
<1>4. QED
  BY <1>2, <1>3 DEF DraftOf

-----------------------------------------------------------------------------
(* Steps inside a transaction t: they touch the state of t, lock rows for  *)
(* it and change the drafts of rows it holds.                              *)

Local(t) ==
  /\ \A u \in Tx : u # t => tx'[u] = tx[u]
  /\ \A p \in Products :
       prodLock'[p] = prodLock[p] \/ (prodLock[p] = None /\ prodLock'[p] = t)
  /\ \A o \in OrderIds :
       orderLock'[o] = orderLock[o] \/ (orderLock[o] = None /\ orderLock'[o] = t)
  /\ \A p \in Products : draft'[p] = draft[p] \/ prodLock'[p] = t
  /\ UNCHANGED <<supply, stock, orders, clock>>

\* The orders row t has inserted, if any, is not another transaction's.
InsertsApart(t) ==
  Inserted(t) => \A u \in Tx \ {t} : Inserted(u) =>
                   ~SameKey(u, tx[t]) /\ tx[u].batch \cap tx[t].batch = {}

LEMMA LocalUntouched ==
  ASSUME IInv, NEW t \in Tx, Local(t), NEW u \in Tx, u # t
  PROVE  Untouched(u)
<1>1. /\ tx'[u] = tx[u]
      /\ \A p \in Products : (prodLock'[p] = u) <=> (prodLock[p] = u)
      /\ \A p \in Products : prodLock[p] = u => draft'[p] = draft[p] /\ stock'[p] = stock[p]
      /\ \A o \in Placed(orders) : orderLock[o] = u => orderLock'[o] = u
  BY NoneIsNoTx DEF Local, Placed
<1>2. orders' = orders /\ clock' = clock /\ clock \in Nat
  BY DEF Local, IInv, TypeOK
<1>3. Inserted(u) => \A x \in Placed(orders) : ~SameKey(u, orders[x])
  BY DEF IInv, TxShape, CreateShape, Creating, Active, Inserted
<1>4. \A o \in Placed(orders) : orders[o] # NoOrder
  BY DEF Placed
<1>5. Placed(orders)' = Placed(orders)
  BY <1>2 DEF Placed
<1>6. QED
  BY <1>1, <1>2, <1>3, <1>4, <1>5 DEF Untouched

LEMMA LocalInv ==
  ASSUME IInv, TypeOK', NEW t \in Tx, Local(t), Active(t)', TxShape(t)',
         \A p \in Products : prodLock'[p] = t => p \in Catalog /\ DraftOf(t, p)',
         InsertsApart(t)'
  PROVE  IInv'
<1>1. ASSUME NEW u \in Tx PROVE TxShape(u)'
  <2>1. CASE u = t
    BY <2>1
  <2>2. CASE u # t
    BY <2>2, LocalUntouched, ShapeFrame DEF IInv
  <2>3. QED
    BY <2>1, <2>2
<1>2. LocksHeldByOpenTx'
  <2>1. ASSUME NEW p \in Products, prodLock'[p] # None PROVE Active(prodLock[p])'
    <3>1. CASE prodLock'[p] = t
      BY <3>1
    <3>2. CASE prodLock'[p] # t
      <4>1. prodLock'[p] = prodLock[p] /\ prodLock[p] \in Tx
        BY <2>1, <3>2 DEF Local, IInv, TypeOK
      <4>2. QED
        BY <2>1, <3>2, <4>1 DEF Local, IInv, LocksHeldByOpenTx, Active
    <3>3. QED
      BY <3>1, <3>2
  <2>2. ASSUME NEW o \in OrderIds, orderLock'[o] # None PROVE Active(orderLock[o])'
    <3>1. CASE orderLock'[o] = t
      BY <3>1
    <3>2. CASE orderLock'[o] # t
      <4>1. orderLock'[o] = orderLock[o] /\ orderLock[o] \in Tx
        BY <2>2, <3>2 DEF Local, IInv, TypeOK
      <4>2. QED
        BY <2>2, <3>2, <4>1 DEF Local, IInv, LocksHeldByOpenTx, Active
    <3>3. QED
      BY <3>1, <3>2
  <2>3. QED
    BY <2>1, <2>2 DEF LocksHeldByOpenTx
<1>3. DraftInv'
  <2> SUFFICES ASSUME NEW p \in Products
               PROVE  /\ prodLock'[p] = None => draft'[p] = stock'[p]
                      /\ prodLock'[p] # None => DraftOf(prodLock[p], p)'
    BY DEF DraftInv
  <2>1. CASE prodLock'[p] = None
    BY <2>1, NoneIsNoTx DEF Local, IInv, DraftInv
  <2>2. CASE prodLock'[p] = t
    BY <2>2, NoneIsNoTx
  <2>3. CASE prodLock'[p] # t /\ prodLock'[p] # None
    <3>1. prodLock'[p] = prodLock[p] /\ prodLock[p] \in Tx /\ prodLock[p] # t
      BY <2>3 DEF Local, IInv, TypeOK
    <3>2. DraftOf(prodLock[p], p)
      BY <2>3, <3>1 DEF IInv, DraftInv
    <3>3. PICK u \in Tx : u = prodLock[p]
      BY <3>1
    <3>4. Untouched(u) /\ TypeOK /\ TxShape(u)
      BY <3>1, <3>3, LocalUntouched DEF IInv
    <3>5. DraftOf(u, p)'
      BY <3>2, <3>3, <3>4, DraftFrame
    <3>6. QED
      BY <2>3, <3>1, <3>3, <3>5
  <2>4. QED
    BY <2>1, <2>2, <2>3
<1>4. RowsExist'
  BY DEF IInv, RowsExist, Local, Catalog, Placed
<1>5. InsertsDistinct'
  <2> SUFFICES ASSUME NEW u \in Tx, NEW v \in Tx, u # v, Inserted(u)', Inserted(v)'
               PROVE  ~SameKey(u, tx[v])' /\ (tx[u].batch \cap tx[v].batch)' = {}
    BY DEF InsertsDistinct
  <2>1. CASE u # t /\ v # t
    BY <2>1 DEF Local, IInv, InsertsDistinct, Inserted, SameKey
  <2>2. CASE v = t
    BY <2>2 DEF InsertsApart
  <2>3. CASE u = t
    <3>1. ~SameKey(v, tx[t])' /\ (tx[v].batch \cap tx[t].batch)' = {}
      BY <2>3 DEF InsertsApart
    <3>2. QED
      BY <2>3, <3>1 DEF SameKey
  <2>4. QED
    BY <2>1, <2>2, <2>3
<1>6. OneOrderPerKey' /\ UnitsFinite' /\ StockConserved'
  BY DEF IInv, OneOrderPerKey, UnitsFinite, StockConserved, Local, Placed, Live,
         Catalog
<1>7. QED
  BY <1>1, <1>2, <1>3, <1>4, <1>5, <1>6 DEF IInv

-----------------------------------------------------------------------------
(* Steps that end a transaction t, by ROLLBACK or COMMIT.                  *)

End(t) ==
  /\ tx'[t].pc = "idle"
  /\ \A u \in Tx : u # t => tx'[u] = tx[u]
  /\ \A p \in Products : prodLock'[p] = IF prodLock[p] = t THEN None ELSE prodLock[p]
  /\ \A o \in OrderIds : orderLock'[o] = IF orderLock[o] = t THEN None ELSE orderLock[o]
  /\ \A p \in Products : IF prodLock[p] = t THEN draft'[p] = stock'[p]
                          ELSE draft'[p] = draft[p] /\ stock'[p] = stock[p]
  /\ UNCHANGED <<supply, clock>>

\* The committed orders stay, with their items, and so do the rows other
\* transactions hold or have inserted.
OrdersStay(t) ==
  /\ \A o \in Placed(orders) : orders'[o] # NoOrder /\ orders'[o].items = orders[o].items
  /\ \A u \in Tx \ {t} :
       /\ \A o \in Placed(orders) : orderLock[o] = u => orders'[o] = orders[o]
       /\ Inserted(u) => /\ \A o \in tx[u].batch : orders'[o] = orders[o]
                         /\ \A x \in Placed(orders)' : ~SameKey(u, orders'[x])

LEMMA EndUntouched ==
  ASSUME IInv, NEW t \in Tx, End(t), OrdersStay(t), NEW u \in Tx, u # t
  PROVE  Untouched(u)
<1>1. tx'[u] = tx[u] /\ u # None
  BY NoneIsNoTx DEF End
<1>2. \A p \in Products : (prodLock'[p] = u) <=> (prodLock[p] = u)
  BY <1>1 DEF End
<1>3. \A p \in Products : prodLock[p] = u => draft'[p] = draft[p] /\ stock'[p] = stock[p]
  BY DEF End
<1>4. \A o \in Placed(orders) :
        orderLock[o] = u => orderLock'[o] = u /\ orders'[o] = orders[o]
  BY DEF End, OrdersStay, Placed
<1>5. clock <= clock'
  BY DEF End, IInv, TypeOK
<1>6. QED
  BY <1>1, <1>2, <1>3, <1>4, <1>5 DEF Untouched, OrdersStay

LEMMA EndInv ==
  ASSUME IInv, TypeOK', NEW t \in Tx, End(t), OrdersStay(t),
         RowsExist', OneOrderPerKey', UnitsFinite', StockConserved'
  PROVE  IInv'
<1>1. ~Active(t)' /\ ~Inserted(t)'
  BY DEF End, Active, Inserted
<1>2. ASSUME NEW u \in Tx PROVE TxShape(u)'
  <2>1. CASE u = t
    BY <2>1, <1>1 DEF TxShape, Creating, Cancelling
  <2>2. CASE u # t
    BY <2>2, EndUntouched, ShapeFrame DEF IInv
  <2>3. QED
    BY <2>1, <2>2
<1>3. LocksHeldByOpenTx'
  <2>1. \A p \in Products : prodLock'[p] # None =>
          prodLock'[p] = prodLock[p] /\ prodLock[p] # t /\ prodLock[p] \in Tx
    BY DEF End, IInv, TypeOK
  <2>2. \A o \in OrderIds : orderLock'[o] # None =>
          orderLock'[o] = orderLock[o] /\ orderLock[o] # t /\ orderLock[o] \in Tx
    BY DEF End, IInv, TypeOK
  <2>3. \A u \in Tx : u # t /\ Active(u) => Active(u)'
    BY DEF End, Active
  <2>4. QED
    BY <2>1, <2>2, <2>3 DEF IInv, LocksHeldByOpenTx
<1>4. DraftInv'
  <2> SUFFICES ASSUME NEW p \in Products
               PROVE  /\ prodLock'[p] = None => draft'[p] = stock'[p]
                      /\ prodLock'[p] # None => DraftOf(prodLock[p], p)'
    BY DEF DraftInv
  <2>1. CASE prodLock[p] = t
    BY <2>1 DEF End
  <2>2. CASE prodLock[p] = None
    BY <2>2, NoneIsNoTx DEF End, IInv, DraftInv
  <2>3. CASE prodLock[p] # t /\ prodLock[p] # None
    <3>1. prodLock'[p] = prodLock[p] /\ prodLock[p] \in Tx
      BY <2>3 DEF End, IInv, TypeOK
    <3>2. PICK u \in Tx : u = prodLock[p]
      BY <3>1
    <3>3. Untouched(u) /\ TypeOK /\ TxShape(u) /\ DraftOf(u, p)
      BY <2>3, <3>2, EndUntouched DEF IInv, DraftInv
    <3>4. DraftOf(u, p)'
      BY <3>2, <3>3, DraftFrame
    <3>5. QED
      BY <2>3, <3>1, <3>2, <3>4
  <2>4. QED
    BY <2>1, <2>2, <2>3
<1>5. InsertsDistinct'
  <2> SUFFICES ASSUME NEW u \in Tx, NEW v \in Tx, u # v, Inserted(u)', Inserted(v)'
               PROVE  ~SameKey(u, tx[v])' /\ (tx[u].batch \cap tx[v].batch)' = {}
    BY DEF InsertsDistinct
  <2>1. tx'[u] = tx[u] /\ tx'[v] = tx[v]
    BY <1>1 DEF End
  <2>2. QED
    BY <2>1 DEF IInv, InsertsDistinct, Inserted, SameKey
<1>6. QED
  BY <1>2, <1>3, <1>4, <1>5 DEF IInv

\* What the last call of a transaction leaves behind is well typed.
LEMMA AnsweredType ==
  ASSUME TypeOK, NEW t \in Tx,
         NEW a \in {"none", "ok", "invalid", "insufficient", "duplicate", "refused",
                    "error"},
         tx' = Answered(t, a)
  PROVE  /\ tx' \in [Tx -> TxState]
         /\ tx'[t].pc = "idle"
         /\ \A u \in Tx : u # t => tx'[u] = tx[u]
<1> DEFINE rest == [Idle EXCEPT !.op = tx[t].op, !.user = tx[t].user,
                                !.key = tx[t].key, !.batch = tx[t].batch,
                                !.answer = a]
<1>1. rest \in TxState /\ rest.pc = "idle"
  BY TxFields, IdleType, ZenonT(60) DEF TxState, Idle
<1>2. tx' = [tx EXCEPT ![t] = rest]
  BY DEF Answered
<1> HIDE DEF rest
<1>3. QED
  BY <1>1, <1>2 DEF TypeOK

LEMMA UnlockedType ==
  ASSUME TypeOK, NEW t, ReleaseLocks(t)
  PROVE  /\ prodLock' \in [Products -> Tx \cup {None}]
         /\ orderLock' \in [OrderIds -> Tx \cup {None}]
         /\ \A p \in Products :
              prodLock'[p] = IF prodLock[p] = t THEN None ELSE prodLock[p]
         /\ \A o \in OrderIds :
              orderLock'[o] = IF orderLock[o] = t THEN None ELSE orderLock[o]
BY DEF TypeOK, ReleaseLocks, Unlocked

\* Whatever makes a transaction roll back, nothing of it remains.
LEMMA RollbackInv ==
  ASSUME IInv, NEW t \in Tx,
         NEW a \in {"none", "ok", "invalid", "insufficient", "duplicate", "refused",
                    "error"},
         Rollback(t, a)
  PROVE  IInv'
<1>1. ReleaseLocks(t) /\ tx' = Answered(t, a) /\ UNCHANGED <<supply, stock, orders, clock>>
  BY DEF Rollback
<1>2. draft' = [p \in Products |-> IF prodLock[p] = t THEN stock[p] ELSE draft[p]]
  BY DEF Rollback, DiscardDrafts
<1>3. TypeOK
  BY DEF IInv
<1>4. draft' \in [Products -> Nat]
  BY <1>2, <1>3 DEF TypeOK
<1>5. TypeOK'
  BY <1>1, <1>3, <1>4, AnsweredType, UnlockedType DEF TypeOK
<1>6. End(t)
  BY <1>1, <1>2, <1>3, AnsweredType, UnlockedType DEF End
<1>7. Placed(orders)' = Placed(orders)
  BY <1>1 DEF Placed
<1>8. \A u \in Tx : Inserted(u) => \A x \in Placed(orders) : ~SameKey(u, orders[x])
  BY DEF IInv, TxShape, CreateShape, Creating, Active, Inserted
<1>9. OrdersStay(t)
  BY <1>1, <1>7, <1>8 DEF OrdersStay, Placed
<1>10. RowsExist'
  <2>1. \A p \in Products : prodLock'[p] # None => prodLock[p] # None
    BY <1>6 DEF End
  <2>2. QED
    BY <1>1, <1>7, <2>1 DEF IInv, RowsExist, Catalog
<1>11. OneOrderPerKey' /\ UnitsFinite' /\ StockConserved'
  BY <1>1 DEF IInv, OneOrderPerKey, UnitsFinite, StockConserved, Placed, Live, Catalog
<1>12. QED
  BY <1>5, <1>6, <1>9, <1>10, <1>11, EndInv

-----------------------------------------------------------------------------
(* OrderStore.Create                                                       *)

\* An idle transaction holds no row.
LEMMA IdleHoldsNothing ==
  ASSUME IInv, NEW t \in Tx, ~Active(t)
  PROVE  /\ \A p \in Products : prodLock[p] # t
         /\ \A o \in OrderIds : orderLock[o] # t
BY NoneIsNoTx DEF IInv, LocksHeldByOpenTx

LEMMA BeginCreateInv ==
  ASSUME IInv, NEW r \in Requests, NEW u \in Users, NEW k \in Keys,
         NEW items \in Payloads, BeginCreate(r, u, k, items)
  PROVE  IInv'
<1> DEFINE new == [Idle EXCEPT !.pc = "lock", !.op = "create", !.user = u, !.key = k,
                               !.items = items, !.began = clock]
<1>1. TypeOK /\ clock \in Nat /\ r \in Tx /\ items \in Seq(Item) /\ Len(items) \in Nat
  BY PayloadAssumption DEF IInv, TypeOK, Tx
<1>2. /\ new \in TxState /\ new.pc = "lock" /\ new.op = "create" /\ new.user = u
      /\ new.key = k /\ new.items = items /\ new.began = clock /\ new.seen = 0
      /\ new.batch = {}
  BY <1>1 DEF TxState, Idle, NoPair
<1>3. tx' = [tx EXCEPT ![r] = new]
  BY DEF BeginCreate
<1>4. UNCHANGED <<supply, stock, draft, prodLock, orders, orderLock, clock>>
  BY DEF BeginCreate
<1> HIDE DEF new
<1>5. tx'[r] = new /\ \A v \in Tx : v # r => tx'[v] = tx[v]
  BY <1>1, <1>3 DEF TypeOK
<1>6. TypeOK'
  BY <1>1, <1>2, <1>3, <1>4 DEF TypeOK
<1>7. Local(r)
  BY <1>4, <1>5 DEF Local
<1>8. Active(r)' /\ Creating(r)' /\ ~Cancelling(r)' /\ ~Inserted(r)'
  BY <1>2, <1>5 DEF Active, Creating, Cancelling, Inserted
<1>9. CreateShape(r)'
  BY <1>1, <1>2, <1>4, <1>5, <1>8 DEF CreateShape
<1>10. TxShape(r)'
  BY <1>2, <1>5, <1>8, <1>9 DEF TxShape
<1>11. \A p \in Products : prodLock'[p] # r
  BY <1>1, <1>4, IdleHoldsNothing DEF BeginCreate
<1>12. QED
  BY <1>1, <1>6, <1>7, <1>8, <1>10, <1>11, LocalInv DEF InsertsApart

LEMMA LockItemFields ==
  ASSUME IInv, NEW r \in Requests, LockItem(r)
  PROVE  /\ Creating(r) /\ CreateShape(r) /\ tx[r].pc = "lock"
         /\ tx[r].seen + 1 \in 1 .. Len(tx[r].items)
         /\ tx[r].seen + 1 \in DOMAIN tx[r].items
         /\ tx[r].items[tx[r].seen + 1] = NextItem(r)
         /\ NextItem(r).product \in Products /\ NextItem(r).quantity \in Nat
<1>1. TypeOK /\ r \in Tx /\ tx[r].items \in Seq(Item) /\ tx[r].seen \in Nat
  BY TxFields DEF IInv, Tx
<1>2. Creating(r) /\ CreateShape(r) /\ tx[r].pc = "lock"
  <2>1. tx[r].pc = "lock" /\ Active(r)
    BY DEF LockItem, Active
  <2>2. TxShape(r)
    BY <1>1 DEF IInv
  <2>3. ~Cancelling(r)
    BY <2>1, <2>2 DEF TxShape, CancelShape
  <2>4. QED
    BY <2>1, <2>2, <2>3 DEF TxShape, Creating, Cancelling
<1>3. tx[r].seen + 1 \in 1 .. Len(tx[r].items) /\ tx[r].items[tx[r].seen + 1] = NextItem(r)
  BY <1>1, <1>2 DEF LockItem, AllSeen, CreateShape, NextItem
<1>4. NextItem(r).product \in Products /\ NextItem(r).quantity \in Nat
  BY <1>1, <1>3, ItemType
<1>5. QED
  BY <1>1, <1>2, <1>3, <1>4

LEMMA LockItemInv ==
  ASSUME IInv, NEW r \in Requests, LockItem(r)
  PROVE  IInv'
<1> DEFINE i == tx[r].seen + 1
           p == NextItem(r).product
           q == NextItem(r).quantity
<1>1. TypeOK /\ r \in Tx /\ tx[r].items \in Seq(Item) /\ tx[r].seen \in Nat
  BY TxFields DEF IInv, Tx
<1>2. Creating(r) /\ CreateShape(r) /\ tx[r].pc = "lock"
  BY LockItemFields
<1>3. i \in 1 .. Len(tx[r].items) /\ tx[r].items[i] = NextItem(r)
  BY LockItemFields
<1>4. p \in Products /\ q \in Nat
  BY LockItemFields
<1>5. CASE Rollback(r, "invalid") \/ Rollback(r, "insufficient")
  BY <1>1, <1>5, RollbackInv
<1>6. CASE /\ p \in Catalog
           /\ ~(draft[p] < q)
           /\ prodLock' = [prodLock EXCEPT ![p] = r]
           /\ tx' = [tx EXCEPT ![r].seen = @ + 1]
           /\ UNCHANGED <<supply, stock, draft, orders, orderLock, clock>>
  <2>1. prodLock[p] \in {None, r}
    BY DEF LockItem
  <2> HIDE DEF i, p, q
  <2>2. /\ tx'[r] = [tx[r] EXCEPT !.seen = i]
        /\ \A v \in Tx : v # r => tx'[v] = tx[v]
    BY <1>1, <1>6 DEF TypeOK, i
  <2>3. tx'[r] \in TxState
    BY <1>1, <1>3, <2>2, TxFields DEF TxState
  <2>4. TypeOK'
    <3>1. tx' \in [Tx -> TxState]
      BY <1>1, <1>6, <2>2, <2>3 DEF TypeOK
    <3>2. prodLock' \in [Products -> Tx \cup {None}]
      BY <1>1, <1>4, <1>6 DEF TypeOK
    <3>3. QED
      BY <1>1, <1>6, <3>1, <3>2 DEF TypeOK
  <2>5. prodLock'[p] = r /\ \A x \in Products : x # p => prodLock'[x] = prodLock[x]
    BY <1>1, <1>4, <1>6 DEF TypeOK
  <2>6. Local(r)
    BY <1>6, <2>1, <2>2, <2>5 DEF Local
  <2>7. /\ tx'[r].pc = "lock" /\ tx'[r].op = "create" /\ tx'[r].seen = i
        /\ tx'[r].items = tx[r].items /\ tx'[r].user = tx[r].user
        /\ tx'[r].key = tx[r].key /\ tx'[r].began = tx[r].began
    BY <1>1, <1>2, <2>2, TxFields DEF TxState, Creating
  <2>8. Active(r)' /\ Creating(r)' /\ ~Cancelling(r)' /\ ~Inserted(r)'
    BY <2>7 DEF Active, Creating, Cancelling, Inserted
  <2>9. draft[p] \in Nat
    BY <1>1, <1>4 DEF TypeOK
  <2>10. ASSUME NEW n \in 1 .. i
         PROVE  /\ prodLock'[tx[r].items[n].product] = r
                /\ tx[r].items[n].quantity <= draft[tx[r].items[n].product]
    <3>1. CASE n = i
      BY <3>1, <1>3, <1>4, <1>6, <2>5, <2>9 DEF p, q
    <3>2. CASE n # i
      <4>1. n \in 1 .. tx[r].seen /\ n \in 1 .. Len(tx[r].items)
        BY <3>2, <1>1, <1>3 DEF i
      <4>2. tx[r].items[n].product \in Products
        BY <4>1, <1>1, ItemType
      <4>3. /\ prodLock[tx[r].items[n].product] = r
            /\ tx[r].items[n].quantity <= draft[tx[r].items[n].product]
        BY <4>1, <1>2 DEF CreateShape
      <4>4. QED
        BY <4>2, <4>3, <2>5
    <3>3. QED
      BY <3>1, <3>2
  <2>11. CreateShape(r)'
    BY <1>2, <1>3, <1>6, <2>7, <2>8, <2>10 DEF CreateShape
  <2>12. TxShape(r)'
    BY <2>7, <2>8, <2>11 DEF TxShape
  <2>13. ASSUME NEW x \in Products, prodLock'[x] = r
         PROVE  x \in Catalog /\ DraftOf(r, x)'
    <3>1. prodLock[x] = r \/ x = p
      BY <2>5, <2>13
    <3>2. x \in Catalog
      BY <3>1, <1>1, <1>6, NoneIsNoTx DEF IInv, RowsExist
    <3>3. draft[x] = stock[x]
      BY <3>1, <1>1, <1>2, <2>1, NoneIsNoTx DEF IInv, DraftInv, DraftOf
    <3>4. QED
      BY <3>2, <3>3, <1>6, <2>7, <2>8 DEF DraftOf
  <2>14. QED
    BY <1>1, <2>4, <2>6, <2>8, <2>12, <2>13, LocalInv DEF InsertsApart
<1>7. QED
  BY <1>5, <1>6 DEF LockItem, ForUpdate

LEMMA InsertOrderInv ==
  ASSUME IInv, NEW r \in Requests, NEW o \in OrderIds, InsertOrder(r, o)
  PROVE  IInv'
<1>1. TypeOK /\ r \in Tx /\ tx[r].pc = "lock" /\ AllSeen(r)
  BY DEF IInv, Tx, InsertOrder
<1>2. Creating(r) /\ CreateShape(r)
  BY <1>1 DEF IInv, TxShape, CancelShape, Cancelling, Creating, Active
<1>3. UNCHANGED <<supply, stock, draft, prodLock, orders, orderLock, clock>>
  BY DEF InsertOrder
<1>4. /\ tx'[r] = [tx[r] EXCEPT !.pc = "write", !.batch = {o}]
      /\ \A v \in Tx : v # r => tx'[v] = tx[v]
  BY <1>1 DEF InsertOrder, TypeOK
<1>5. tx'[r] \in TxState
  <2>1. tx[r] \in TxState /\ {o} \in SUBSET OrderIds
    BY <1>1, TxFields
  <2>2. [tx[r] EXCEPT !.pc = "write", !.batch = {o}] \in TxState
    BY <2>1 DEF TxState
  <2>3. QED
    BY <1>4, <2>2
<1>6. /\ tx'[r].pc = "write" /\ tx'[r].op = "create" /\ tx'[r].seen = tx[r].seen
      /\ tx'[r].items = tx[r].items /\ tx'[r].user = tx[r].user
      /\ tx'[r].key = tx[r].key /\ tx'[r].began = tx[r].began /\ tx'[r].batch = {o}
  BY <1>1, <1>2, <1>4, TxFields DEF TxState, Creating
<1>7. TypeOK'
  <2>1. tx' \in [Tx -> TxState]
    BY <1>1, <1>4, <1>5 DEF TypeOK, InsertOrder
  <2>2. QED
    BY <1>1, <1>3, <2>1 DEF TypeOK
<1>8. Local(r)
  BY <1>3, <1>4 DEF Local
<1>9. Active(r)' /\ Creating(r)' /\ ~Cancelling(r)' /\ Inserted(r)'
  BY <1>6 DEF Active, Creating, Cancelling, Inserted
<1>10. CreateShape(r)'
  <2>1. /\ tx'[r].seen = Len(tx'[r].items)
        /\ orders'[o] = NoOrder
        /\ \A x \in Placed(orders)' : ~SameKey(r, orders[x])'
    BY <1>1, <1>3, <1>6 DEF AllSeen, InsertOrder, KeyFree, KeyTaken, SameKey, Placed
  <2>2. \A n \in 1 .. tx'[r].seen :
          /\ prodLock'[tx'[r].items[n].product] = r
          /\ tx'[r].items[n].quantity <= draft'[tx'[r].items[n].product]
    BY <1>1, <1>2, <1>3, <1>6 DEF CreateShape
  <2>3. /\ tx'[r].user \in Users /\ tx'[r].key \in Keys /\ tx'[r].items \in Payloads
        /\ tx'[r].seen <= Len(tx'[r].items) /\ tx'[r].began <= clock'
    BY <1>2, <1>3, <1>6 DEF CreateShape
  <2>4. QED
    BY <1>6, <2>1, <2>2, <2>3 DEF CreateShape
<1>11. TxShape(r)'
  BY <1>6, <1>9, <1>10 DEF TxShape
<1>12. ASSUME NEW x \in Products, prodLock'[x] = r
       PROVE  x \in Catalog /\ DraftOf(r, x)'
  BY <1>1, <1>2, <1>3, <1>6, <1>9, <1>12, NoneIsNoTx
  DEF IInv, RowsExist, DraftInv, DraftOf
<1>13. InsertsApart(r)'
  <2> SUFFICES ASSUME NEW u \in Tx \ {r}, Inserted(u)'
               PROVE  ~SameKey(u, tx[r])' /\ (tx[u].batch \cap tx[r].batch)' = {}
    BY DEF InsertsApart
  <2>1. tx'[u] = tx[u] /\ Inserted(u)
    BY <1>4 DEF Inserted
  <2>2. ~SameKey(r, tx[u]) /\ o \notin tx[u].batch
    BY <2>1 DEF InsertOrder, KeyFree, KeyInFlight
  <2>3. QED
    BY <2>1, <2>2, <1>6 DEF SameKey
<1>14. QED
  BY <1>1, <1>7, <1>8, <1>9, <1>11, <1>12, <1>13, LocalInv

LEMMA WriteItemsInv ==
  ASSUME IInv, NEW r \in Requests, WriteItems(r)
  PROVE  IInv'
<1> DEFINE taken == Quantities(tx[r].items)
<1>1. /\ TypeOK /\ r \in Tx /\ tx[r].pc = "write"
      /\ tx[r] \in TxState /\ tx[r].items \in Seq(Item)
  BY TxFields DEF IInv, Tx, WriteItems
<1>2. Creating(r) /\ CreateShape(r) /\ Inserted(r)
  BY <1>1 DEF IInv, TxShape, CancelShape, Cancelling, Creating, Active, Inserted
<1>3. CASE Rollback(r, "error")
  BY <1>1, <1>3, RollbackInv
<1>4. CASE /\ ~ProductTwice(tx[r].items)
           /\ ~\E p \in Products : draft[p] < taken[p]
           /\ draft' = [p \in Products |-> draft[p] - taken[p]]
           /\ tx' = [tx EXCEPT ![r].pc = "commit"]
           /\ UNCHANGED <<supply, stock, prodLock, orders, orderLock, clock>>
  <2>1. /\ taken \in [Products -> Nat]
        /\ \A p \in Products :
             taken[p] > 0 => \E i \in 1 .. Len(tx[r].items) : tx[r].items[i].product = p
    BY <1>1, QuantitiesType
  <2> HIDE DEF taken
  <2>2. \A p \in Products : taken[p] > 0 => prodLock[p] = r
    BY <1>2, <2>1 DEF CreateShape
  <2>3. /\ tx'[r] = [tx[r] EXCEPT !.pc = "commit"]
        /\ \A v \in Tx : v # r => tx'[v] = tx[v]
    BY <1>1, <1>4 DEF TypeOK
  <2>4. tx'[r] \in TxState
    BY <1>1, <2>3 DEF TxState
  <2>5. /\ tx'[r].pc = "commit" /\ tx'[r].op = "create" /\ tx'[r].seen = tx[r].seen
        /\ tx'[r].items = tx[r].items /\ tx'[r].user = tx[r].user
        /\ tx'[r].key = tx[r].key /\ tx'[r].began = tx[r].began
        /\ tx'[r].batch = tx[r].batch
    BY <1>1, <1>2, <2>3 DEF TxState, Creating
  <2>6. TypeOK'
    <3>1. tx' \in [Tx -> TxState]
      BY <1>1, <1>4, <2>3, <2>4 DEF TypeOK
    <3>2. \A p \in Products : draft[p] - taken[p] \in Nat
      BY <1>1, <1>4, <2>1 DEF TypeOK
    <3>3. draft' \in [Products -> Nat]
      BY <1>4, <3>2
    <3>4. QED
      BY <1>1, <1>4, <3>1, <3>3 DEF TypeOK
  <2>7. \A p \in Products : draft'[p] = draft[p] \/ prodLock'[p] = r
    <3> SUFFICES ASSUME NEW p \in Products, prodLock[p] # r PROVE draft'[p] = draft[p]
      BY <1>4
    <3>1. taken[p] = 0
      BY <2>1, <2>2
    <3>2. draft[p] \in Nat
      BY <1>1 DEF TypeOK
    <3>3. QED
      BY <1>4, <3>1, <3>2
  <2>8. Local(r)
    BY <1>4, <2>3, <2>7 DEF Local
  <2>9. Active(r)' /\ Creating(r)' /\ ~Cancelling(r)' /\ Inserted(r)'
    BY <2>5 DEF Active, Creating, Cancelling, Inserted
  <2>10. CreateShape(r)'
    <3>1. \A n \in 1 .. tx'[r].seen : prodLock'[tx'[r].items[n].product] = r
      BY <1>2, <1>4, <2>5 DEF CreateShape
    <3>2. /\ tx'[r].seen = Len(tx'[r].items)
          /\ \E o \in OrderIds : tx'[r].batch = {o} /\ orders'[o] = NoOrder
      BY <1>2, <1>4, <2>5 DEF CreateShape
    <3>3. \A x \in Placed(orders)' : ~SameKey(r, orders[x])'
      BY <1>2, <1>4, <2>5 DEF CreateShape, SameKey, Placed
    <3>4. /\ tx'[r].user \in Users /\ tx'[r].key \in Keys /\ tx'[r].items \in Payloads
          /\ tx'[r].seen <= Len(tx'[r].items) /\ tx'[r].began <= clock'
          /\ ~ProductTwice(tx'[r].items)
      BY <1>2, <1>4, <2>5 DEF CreateShape
    <3>5. QED
      BY <2>5, <3>1, <3>2, <3>3, <3>4 DEF CreateShape
  <2>11. TxShape(r)'
    BY <2>5, <2>9, <2>10 DEF TxShape
  <2>12. ASSUME NEW x \in Products, prodLock'[x] = r
         PROVE  x \in Catalog /\ DraftOf(r, x)'
    <3>1. x \in Catalog
      BY <1>1, <1>4, <2>12, NoneIsNoTx DEF IInv, RowsExist
    <3>2. draft[x] = stock[x]
      BY <1>1, <1>2, <1>4, <2>12, NoneIsNoTx DEF IInv, DraftInv, DraftOf
    <3>3. draft'[x] = stock'[x] - Quantities(tx'[r].items)[x]
      BY <1>4, <2>5, <3>2 DEF taken
    <3>4. QED
      BY <2>5, <2>9, <3>1, <3>3 DEF DraftOf
  <2>13. InsertsApart(r)'
    <3> SUFFICES ASSUME NEW u \in Tx \ {r}, Inserted(u)'
                 PROVE  ~SameKey(u, tx[r])' /\ (tx[u].batch \cap tx[r].batch)' = {}
      BY DEF InsertsApart
    <3>1. tx'[u] = tx[u] /\ Inserted(u)
      BY <2>3 DEF Inserted
    <3>2. ~SameKey(u, tx[r]) /\ tx[u].batch \cap tx[r].batch = {}
      BY <1>1, <1>2, <3>1 DEF IInv, InsertsDistinct
    <3>3. QED
      BY <2>5, <3>1, <3>2 DEF SameKey
  <2>14. QED
    BY <1>1, <2>6, <2>8, <2>9, <2>11, <2>12, <2>13, LocalInv
<1>5. QED
  BY <1>3, <1>4 DEF WriteItems

-----------------------------------------------------------------------------
(* OrderStore.Cancel and OrderStore.CancelStale                            *)

\* A transaction that has not inserted an orders row is apart from the others.
LEMMA CancellingApart ==
  ASSUME NEW t, Cancelling(t)
  PROVE  InsertsApart(t) /\ ~Creating(t)
BY DEF Cancelling, InsertsApart, Inserted, Creating

\* The first state of a transaction that will put back the items of S.
Fresh(S, d, op) ==
  [Idle EXCEPT !.pc = "restock", !.op = op, !.batch = S, !.began = clock,
               !.cur = d, !.todo = ItemPairs(orders, S)]

LEMMA FreshType ==
  ASSUME TypeOK, NEW S \in SUBSET Placed(orders),
         NEW d \in ItemPairs(orders, S), NEW op \in {"cancel", "stale"}
  PROVE  /\ Fresh(S, d, op) \in TxState
         /\ Fresh(S, d, op).pc = "restock"
         /\ Fresh(S, d, op).op = op
         /\ Fresh(S, d, op).batch = S
         /\ Fresh(S, d, op).cur = d
         /\ Fresh(S, d, op).todo = ItemPairs(orders, S)
         /\ Fresh(S, d, op).marked = {}
<1>1. ASSUME NEW B \in SUBSET OrderIds, NEW D \in SUBSET Pairs, NEW c \in Pairs,
             NEW n \in Nat
      PROVE  [Idle EXCEPT !.pc = "restock", !.op = op, !.batch = B, !.began = n,
                          !.cur = c, !.todo = D] \in TxState
  BY IdleType, ZenonT(60) DEF TxState
<1>2. S \in SUBSET OrderIds /\ ItemPairs(orders, S) \in SUBSET Pairs /\ d \in Pairs
  BY PairOf DEF Placed
<1>3. clock \in Nat
  BY DEF TypeOK
<1>4. Fresh(S, d, op) \in TxState
  BY <1>1, <1>2, <1>3 DEF Fresh
<1>5. QED
  BY <1>4 DEF Fresh, Idle

\* Beginning a Cancel or a CancelStale puts nothing back yet.
LEMMA FreshInv ==
  ASSUME IInv, NEW t \in Tx, NEW S \in SUBSET Placed(orders), NEW op \in {"cancel", "stale"},
         NEW d \in ItemPairs(orders, S), ~Active(t),
         IF op = "stale" THEN t \in Janitors ELSE t \in Requests,
         tx' = [tx EXCEPT ![t] = Fresh(S, d, op)],
         UNCHANGED <<supply, stock, draft, prodLock, orders, clock>>,
         orderLock' \in [OrderIds -> Tx \cup {None}],
         \A o \in OrderIds :
           orderLock'[o] = orderLock[o] \/ (orderLock[o] = None /\ orderLock'[o] = t),
         op = "stale" => \A o \in S : orderLock'[o] = t /\ orders[o].status = "pending"
  PROVE  IInv'
<1>1. TypeOK
  BY DEF IInv
<1>2. /\ tx'[t] = Fresh(S, d, op)
      /\ \A v \in Tx : v # t => tx'[v] = tx[v]
  BY <1>1 DEF TypeOK
<1>3. /\ tx'[t] \in TxState /\ tx'[t].pc = "restock" /\ tx'[t].op = op /\ tx'[t].batch = S
      /\ tx'[t].cur = d /\ tx'[t].todo = ItemPairs(orders, S) /\ tx'[t].marked = {}
  BY <1>1, <1>2, FreshType
<1>4. TypeOK'
  BY <1>1, <1>2, <1>3 DEF TypeOK
<1>5. Local(t)
  BY <1>2 DEF Local
<1>6. Active(t)' /\ Cancelling(t)'
  BY <1>3 DEF Active, Cancelling
<1>7. Placed(orders)' = Placed(orders)
  BY DEF Placed
<1>8. \A o \in S, p \in Products :
        orders[o].items[p] > 0 => <<o, p>> \in ItemPairs(orders, S)
  BY DEF ItemPairs
<1>9. \A o \in S : \E x \in ItemPairs(orders, S) : x[1] = o
  <2> TAKE o \in S
  <2>1. PICK p \in Products : orders[o].items[p] > 0
    BY DEF IInv, RowsExist
  <2>2. <<o, p>> \in ItemPairs(orders, S) /\ <<o, p>>[1] = o
    BY <2>1, <1>8
  <2>3. QED
    BY <2>2
<1>10. CancelShape(t)'
  BY <1>3, <1>7, <1>8, <1>9 DEF CancelShape
<1>11. TxShape(t)'
  BY <1>3, <1>6, <1>10, CancellingApart DEF TxShape, Cancelling, Creating
<1>12. \A p \in Products : prodLock'[p] # t
  BY <1>1, IdleHoldsNothing
<1>13. InsertsApart(t)'
  BY <1>3 DEF InsertsApart, Inserted
<1>14. QED
  BY <1>4, <1>5, <1>6, <1>11, <1>12, <1>13, LocalInv

LEMMA BeginCancelInv ==
  ASSUME IInv, NEW r \in Requests, NEW o \in OrderIds, BeginCancel(r, o)
  PROVE  IInv'
<1>1. PICK d \in ItemPairs(orders, {o}) : tx' = [tx EXCEPT ![r] = Fresh({o}, d, "cancel")]
  BY DEF BeginCancel, Fresh
<1>2. r \in Tx /\ ~Active(r) /\ {o} \in SUBSET Placed(orders)
  BY DEF Tx, BeginCancel
<1>3. orderLock' = orderLock /\ orderLock \in [OrderIds -> Tx \cup {None}]
  BY DEF BeginCancel, IInv, TypeOK
<1>4. UNCHANGED <<supply, stock, draft, prodLock, orders, clock>>
  BY DEF BeginCancel
<1>5. QED
  BY <1>1, <1>2, <1>3, <1>4, FreshInv

LEMMA BeginStaleInv ==
  ASSUME IInv, NEW j \in Janitors, NEW S \in SUBSET OrderIds, BeginStale(j, S)
  PROVE  IInv'
<1>1. PICK d \in ItemPairs(orders, S) : tx' = [tx EXCEPT ![j] = Fresh(S, d, "stale")]
  BY DEF BeginStale, Fresh
<1>2. \A o \in S : Stale(o) /\ orderLock[o] = None
  BY DEF BeginStale, Batches, Oldest
<1>3. \A o \in S : o \in Placed(orders) /\ orders[o].status = "pending"
  BY <1>2 DEF Stale, Pending
<1>4. j \in Tx /\ ~Active(j) /\ S \in SUBSET Placed(orders)
  BY <1>3 DEF Tx, BeginStale
<1>5. orderLock' = [o \in OrderIds |-> IF o \in S THEN j ELSE orderLock[o]]
  BY DEF BeginStale, HoldBatch
<1>6. /\ orderLock' \in [OrderIds -> Tx \cup {None}]
      /\ \A o \in OrderIds :
           orderLock'[o] = orderLock[o] \/ (orderLock[o] = None /\ orderLock'[o] = j)
      /\ \A o \in S : orderLock'[o] = j /\ orders[o].status = "pending"
  BY <1>2, <1>3, <1>4, <1>5 DEF IInv, TypeOK
<1>7. UNCHANGED <<supply, stock, draft, prodLock, orders, clock>>
  BY DEF BeginStale
<1>8. QED
  BY <1>1, <1>4, <1>6, <1>7, FreshInv

\* Putting one item back: the draft gains its units, and it leaves the list.
LEMMA RestockItemInv ==
  ASSUME IInv, NEW t \in Tx, tx[t].op \in {"cancel", "stale"}, RestockItem(t)
  PROVE  IInv'
<1> DEFINE o == tx[t].cur[1]
           p == tx[t].cur[2]
           rest == tx[t].todo \ {tx[t].cur}
           same == {d \in rest : d[1] = o}
<1>1. TypeOK /\ tx[t] \in TxState /\ tx[t].pc = "restock"
  BY TxFields DEF IInv, RestockItem
<1>2. Active(t) /\ Cancelling(t) /\ CancelShape(t)
  BY <1>1 DEF IInv, TxShape, Cancelling, Active
<1>3. /\ tx[t].batch \in SUBSET Placed(orders)
      /\ tx[t].cur \in tx[t].todo
      /\ tx[t].todo \subseteq ItemPairs(orders, tx[t].batch)
  BY <1>1, <1>2 DEF CancelShape
<1>4. /\ tx[t].cur = <<o, p>> /\ o \in tx[t].batch /\ p \in Products
      /\ tx[t].cur \in Pairs /\ orders[o].items[p] \in Nat \ {0}
  BY <1>1, <1>3, PairOf
<1>5. rest \in SUBSET Pairs /\ same \subseteq rest /\ rest \subseteq tx[t].todo
  BY <1>1, TxFields
<1>6. /\ prodLock[p] \in {None, t}
      /\ prodLock' = [prodLock EXCEPT ![p] = t]
      /\ draft' = [draft EXCEPT ![p] = @ + orders[o].items[p]]
      /\ UNCHANGED <<supply, stock, orders, orderLock, clock>>
  BY DEF RestockItem, PutBack
<1>7. \/ same = {} /\ tx' = [tx EXCEPT ![t].todo = rest, ![t].pc = "mark"]
      \/ \E d \in same : tx' = [tx EXCEPT ![t].todo = rest, ![t].cur = d]
  BY DEF RestockItem
<1>8. same = {d \in rest : d[1] = o}
  OBVIOUS
<1>9. rest = tx[t].todo \ {<<o, p>>}
  BY <1>4
<1> HIDE DEF o, p, rest, same
<1>10. /\ tx'[t] \in TxState
       /\ \A v \in Tx : v # t => tx'[v] = tx[v]
       /\ tx' \in [Tx -> TxState]
       /\ tx'[t].op = tx[t].op /\ tx'[t].batch = tx[t].batch
       /\ tx'[t].marked = tx[t].marked /\ tx'[t].todo = rest
       /\ \/ tx'[t].pc = "mark" /\ same = {} /\ tx'[t].cur = tx[t].cur
          \/ tx'[t].pc = "restock" /\ tx'[t].cur \in same
  <2>1. CASE same = {} /\ tx' = [tx EXCEPT ![t].todo = rest, ![t].pc = "mark"]
    <3>1. /\ tx'[t] = [tx[t] EXCEPT !.todo = rest, !.pc = "mark"]
          /\ \A v \in Tx : v # t => tx'[v] = tx[v]
      BY <1>1, <2>1 DEF TypeOK
    <3>2. [tx[t] EXCEPT !.todo = rest, !.pc = "mark"] \in TxState
      BY <1>1, <1>5 DEF TxState
    <3>3. tx' \in [Tx -> TxState]
      BY <1>1, <2>1, <3>1, <3>2 DEF TypeOK
    <3>4. QED
      BY <1>1, <2>1, <3>1, <3>2, <3>3 DEF TxState
  <2>2. CASE \E d \in same : tx' = [tx EXCEPT ![t].todo = rest, ![t].cur = d]
    <3>1. PICK d \in same : tx' = [tx EXCEPT ![t].todo = rest, ![t].cur = d]
      BY <2>2
    <3>2. /\ tx'[t] = [tx[t] EXCEPT !.todo = rest, !.cur = d]
          /\ \A v \in Tx : v # t => tx'[v] = tx[v]
      BY <1>1, <3>1 DEF TypeOK
    <3>3. d \in Pairs
      BY <1>5
    <3>4. [tx[t] EXCEPT !.todo = rest, !.cur = d] \in TxState
      BY <1>1, <1>5, <3>3 DEF TxState
    <3>5. tx' \in [Tx -> TxState]
      BY <1>1, <3>1, <3>2, <3>4 DEF TypeOK
    <3>6. QED
      BY <1>1, <3>2, <3>4, <3>5 DEF TxState
  <2>3. QED
    BY <1>7, <2>1, <2>2
<1>11. /\ prodLock'[p] = t
       /\ draft'[p] = draft[p] + orders[o].items[p]
       /\ \A x \in Products : x # p => prodLock'[x] = prodLock[x] /\ draft'[x] = draft[x]
  BY <1>1, <1>4, <1>6 DEF TypeOK
<1>12. TypeOK'
  <2>1. draft[p] + orders[o].items[p] \in Nat
    BY <1>1, <1>4 DEF TypeOK
  <2>2. draft' \in [Products -> Nat]
    BY <1>1, <1>6, <2>1 DEF TypeOK
  <2>3. prodLock' \in [Products -> Tx \cup {None}]
    BY <1>1, <1>6 DEF TypeOK
  <2>4. QED
    BY <1>1, <1>6, <1>10, <2>2, <2>3 DEF TypeOK
<1>13. Local(t)
  BY <1>6, <1>10, <1>11 DEF Local
<1>14. Active(t)' /\ Cancelling(t)'
  BY <1>10 DEF Active, Cancelling
<1>15. CancelShape(t)'
  <2>1. Placed(orders)' = Placed(orders)
    BY <1>6 DEF Placed
  <2>2. IF tx'[t].op = "stale" THEN t \in Janitors
                               ELSE t \in Requests /\ tx'[t].pc # "abandoned"
    BY <1>2, <1>10 DEF CancelShape
  <2>3. /\ tx'[t].todo \subseteq ItemPairs(orders, tx'[t].batch)
        /\ \A d \in tx'[t].todo : d[1] \notin tx'[t].marked
    BY <1>2, <1>3, <1>5, <1>10 DEF CancelShape
  <2>4. \A x \in tx'[t].batch, y \in Products :
          orders[x].items[y] > 0 /\ <<x, y>> \notin tx'[t].todo => prodLock'[y] = t
    <3> SUFFICES ASSUME NEW x \in tx[t].batch, NEW y \in Products, y # p,
                        orders[x].items[y] > 0, <<x, y>> \notin rest
                 PROVE  prodLock[y] = t
      BY <1>10, <1>11
    <3>1. <<x, y>> \notin tx[t].todo
      BY <1>9
    <3>2. QED
      BY <3>1, <1>2 DEF CancelShape
  <2>5. tx'[t].pc = "restock" => tx'[t].cur \in tx'[t].todo
    BY <1>5, <1>10
  <2>6. tx'[t].pc = "mark" =>
          /\ tx'[t].cur \in ItemPairs(orders, tx'[t].batch)
          /\ tx'[t].cur[1] \notin tx'[t].marked
          /\ \A d \in tx'[t].todo : d[1] # tx'[t].cur[1]
    <3> SUFFICES ASSUME same = {}, tx'[t].cur = tx[t].cur
                 PROVE  /\ tx[t].cur \in ItemPairs(orders, tx[t].batch)
                        /\ tx[t].cur[1] \notin tx[t].marked
                        /\ \A d \in rest : d[1] # tx[t].cur[1]
      BY <1>10
    <3>1. \A d \in rest : d[1] # o
      BY <1>8
    <3>2. QED
      BY <3>1, <1>2, <1>3 DEF CancelShape, o
  <2>7. \A x \in tx'[t].batch :
          \/ x \in tx'[t].marked
          \/ x = tx'[t].cur[1]
          \/ \E d \in tx'[t].todo : d[1] = x
    <3> SUFFICES ASSUME NEW x \in tx[t].batch, x \notin tx[t].marked, x # tx'[t].cur[1]
                 PROVE  \E d \in rest : d[1] = x
      BY <1>10
    <3>1. tx'[t].cur[1] = o
      BY <1>8, <1>10 DEF o
    <3>2. tx[t].cur[1] = o
      BY DEF o
    <3>3. PICK d \in tx[t].todo : d[1] = x
      BY <1>1, <1>2, <3>1, <3>2 DEF CancelShape
    <3>4. d # tx[t].cur
      BY <3>1, <3>2, <3>3
    <3>5. QED
      BY <3>3, <3>4 DEF rest
  <2>8. /\ tx'[t].batch \subseteq Placed(orders)
        /\ tx'[t].marked \subseteq tx'[t].batch
        /\ \A x \in tx'[t].marked : orderLock[x] = t /\ orders[x].status = "pending"
        /\ tx'[t].op = "stale" =>
             \A x \in tx'[t].batch : orderLock[x] = t /\ orders[x].status = "pending"
    BY <1>2, <1>10 DEF CancelShape
  <2>9. tx'[t].pc \in {"restock", "mark"}
    BY <1>10
  <2> HIDE DEF Placed, ItemPairs
  <2>10. QED
    BY <1>6, <2>1, <2>2, <2>3, <2>4, <2>5, <2>6, <2>7, <2>8, <2>9 DEF CancelShape
<1>16. TxShape(t)'
  BY <1>10, <1>14, <1>15 DEF TxShape, Cancelling, Creating
<1>17. ASSUME NEW x \in Products, prodLock'[x] = t
       PROVE  x \in Catalog /\ DraftOf(t, x)'
  <2>1. x \in Catalog
    <3>1. CASE x = p
      <4>1. o \in Placed(orders) /\ orders[o].items[p] > 0
        BY <1>3, <1>4
      <4>2. QED
        BY <3>1, <4>1, <1>4 DEF IInv, RowsExist
    <3>2. CASE x # p
      BY <3>2, <1>11, <1>17, NoneIsNoTx DEF IInv, RowsExist
    <3>3. QED
      BY <3>1, <3>2
  <2>2. /\ IsFiniteSet(Units(orders, Restocked(t, x), x))
        /\ draft[x] = stock[x] + Cardinality(Units(orders, Restocked(t, x), x))
    <3>1. CASE prodLock[x] = t
      BY <3>1, <1>1, <1>2, NoneIsNoTx DEF IInv, DraftInv, DraftOf
    <3>2. CASE prodLock[x] # t
      <4>1. x = p /\ prodLock[x] = None
        BY <3>2, <1>6, <1>11, <1>17
      <4>2. \A y \in Restocked(t, x) : orders[y].items[x] = 0
        <5> SUFFICES ASSUME NEW y \in tx[t].batch, <<y, x>> \notin tx[t].todo
                     PROVE  orders[y].items[x] = 0
          BY DEF Restocked
        <5>1. ~(orders[y].items[x] > 0)
          BY <3>2, <1>2 DEF CancelShape
        <5>2. orders[y].items[x] \in Nat
          BY <1>1, <1>3, PlacedType
        <5>3. QED
          BY <5>1, <5>2
      <4>3. /\ IsFiniteSet(Units(orders, Restocked(t, x), x))
            /\ Cardinality(Units(orders, Restocked(t, x), x)) = 0
        BY <4>2, UnitsNone, FS_EmptySet
      <4>4. draft[x] = stock[x] /\ stock[x] \in Nat
        BY <4>1, <1>1 DEF IInv, DraftInv, TypeOK
      <4>5. QED
        BY <4>3, <4>4
    <3>3. QED
      BY <3>1, <3>2
  <2>3. /\ IsFiniteSet(Units(orders, Restocked(t, x)', x))
        /\ draft'[x] = stock[x] + Cardinality(Units(orders, Restocked(t, x)', x))
    <3>1. CASE x # p
      <4>1. Restocked(t, x)' = Restocked(t, x)
        BY <3>1, <1>9, <1>10 DEF Restocked
      <4>2. QED
        BY <4>1, <2>2, <3>1, <1>11
    <3>2. CASE x = p
      <4>1. Restocked(t, x)' = Restocked(t, x) \cup {o} /\ o \notin Restocked(t, x)
        <5>1. tx'[t].batch = tx[t].batch /\ o \in tx[t].batch /\ <<o, x>> \in tx[t].todo
          BY <3>2, <1>3, <1>4, <1>10
        <5>2. \A y : <<y, x>> \in tx'[t].todo <=> <<y, x>> \in tx[t].todo /\ y # o
          BY <3>2, <1>9, <1>10
        <5>3. QED
          BY <5>1, <5>2 DEF Restocked
      <4>2. PICK q \in Nat : orders[o].items[x] = q
        BY <3>2, <1>4
      <4>3. PICK S : S = Restocked(t, x)
        OBVIOUS
      <4>4. PICK T : T = Restocked(t, x)'
        OBVIOUS
      <4>5. o \notin S /\ T = S \cup {o} /\ IsFiniteSet(Units(orders, S, x))
        BY <2>2, <4>1, <4>3, <4>4
      <4>6. /\ IsFiniteSet(Units(orders, T, x))
            /\ Cardinality(Units(orders, T, x)) = Cardinality(Units(orders, S, x)) + q
        BY <4>2, <4>5, UnitsAdd
      <4>7. /\ draft[x] = stock[x] + Cardinality(Units(orders, S, x))
            /\ Cardinality(Units(orders, S, x)) \in Nat
            /\ stock[x] \in Nat
        BY <2>2, <4>3, <4>5, <1>1, FS_CardinalityType DEF TypeOK
      <4>8. draft'[x] = draft[x] + q
        BY <3>2, <4>2, <1>11
      <4>9. QED
        BY <4>4, <4>6, <4>7, <4>8
    <3>3. QED
      BY <3>1, <3>2
  <2>4. QED
    BY <2>1, <2>3, <1>6, <1>14, CancellingApart DEF DraftOf, Cancelling, Creating
<1>18. InsertsApart(t)'
  BY <1>10 DEF InsertsApart, Inserted
<1>19. QED
  BY <1>12, <1>13, <1>14, <1>16, <1>17, <1>18, LocalInv

\* Marking an order whose items are all back, its row free or already held.
LEMMA MarkOrderInv ==
  ASSUME IInv, NEW t \in Tx, tx[t].pc = "mark", tx[t].op \in {"cancel", "stale"},
         orderLock[tx[t].cur[1]] \in {None, t},
         ~Settled(tx[t].cur[1]), MarkOrder(t)
  PROVE  IInv'
<1> DEFINE o == tx[t].cur[1]
           done == tx[t].marked \cup {o}
<1>1. TypeOK /\ tx[t] \in TxState
  BY TxFields DEF IInv
<1>2. Active(t) /\ Cancelling(t) /\ CancelShape(t)
  BY <1>1 DEF IInv, TxShape, Cancelling, Active
<1>3. /\ tx[t].batch \in SUBSET Placed(orders)
      /\ tx[t].cur \in ItemPairs(orders, tx[t].batch)
      /\ tx[t].todo \subseteq ItemPairs(orders, tx[t].batch)
      /\ tx[t].marked \subseteq tx[t].batch
      /\ \A d \in tx[t].todo : d[1] # o /\ d[1] \notin tx[t].marked
  BY <1>2 DEF CancelShape
<1>4. o \in tx[t].batch /\ o \in OrderIds /\ orders[o].status = "pending"
  <2>1. o \in tx[t].batch
    BY <1>1, <1>3, PairOf
  <2>2. orders[o].status \in Status /\ o \in OrderIds
    BY <1>1, <1>3, <2>1, PlacedType
  <2>3. QED
    BY <2>1, <2>2 DEF Status, Settled
<1>5. done \in SUBSET OrderIds /\ done \subseteq tx[t].batch
  BY <1>1, <1>3, <1>4, TxFields
<1>6. /\ orderLock' = [orderLock EXCEPT ![o] = t]
      /\ UNCHANGED <<supply, stock, draft, prodLock, orders, clock>>
  BY DEF MarkOrder, HoldOrder
<1>7. \/ tx[t].todo = {} /\ tx' = [tx EXCEPT ![t].marked = done, ![t].pc = "commit"]
      \/ \E d \in tx[t].todo :
           tx' = [tx EXCEPT ![t].marked = done, ![t].pc = "restock", ![t].cur = d]
  BY DEF MarkOrder
<1>8. orderLock[o] \in {None, t}
  OBVIOUS
<1>9. o = tx[t].cur[1] /\ done = tx[t].marked \cup {o}
  OBVIOUS
<1> HIDE DEF o, done
<1>10. /\ tx'[t] \in TxState
       /\ \A v \in Tx : v # t => tx'[v] = tx[v]
       /\ tx' \in [Tx -> TxState]
       /\ tx'[t].op = tx[t].op /\ tx'[t].batch = tx[t].batch
       /\ tx'[t].marked = done /\ tx'[t].todo = tx[t].todo
       /\ \/ tx'[t].pc = "commit" /\ tx[t].todo = {}
          \/ tx'[t].pc = "restock" /\ tx'[t].cur \in tx[t].todo
  <2>1. CASE tx[t].todo = {} /\ tx' = [tx EXCEPT ![t].marked = done, ![t].pc = "commit"]
    <3>1. /\ tx'[t] = [tx[t] EXCEPT !.marked = done, !.pc = "commit"]
          /\ \A v \in Tx : v # t => tx'[v] = tx[v]
      BY <1>1, <2>1 DEF TypeOK
    <3>2. [tx[t] EXCEPT !.marked = done, !.pc = "commit"] \in TxState
      BY <1>1, <1>5 DEF TxState
    <3>3. tx' \in [Tx -> TxState]
      BY <1>1, <2>1, <3>1, <3>2 DEF TypeOK
    <3>4. QED
      BY <1>1, <2>1, <3>1, <3>2, <3>3 DEF TxState
  <2>2. CASE \E d \in tx[t].todo :
               tx' = [tx EXCEPT ![t].marked = done, ![t].pc = "restock", ![t].cur = d]
    <3>1. PICK d \in tx[t].todo :
            tx' = [tx EXCEPT ![t].marked = done, ![t].pc = "restock", ![t].cur = d]
      BY <2>2
    <3>2. /\ tx'[t] = [tx[t] EXCEPT !.marked = done, !.pc = "restock", !.cur = d]
          /\ \A v \in Tx : v # t => tx'[v] = tx[v]
      BY <1>1, <3>1 DEF TypeOK
    <3>3. d \in Pairs
      BY <1>1, TxFields
    <3>4. [tx[t] EXCEPT !.marked = done, !.pc = "restock", !.cur = d] \in TxState
      BY <1>1, <1>5, <3>3 DEF TxState
    <3>5. tx' \in [Tx -> TxState]
      BY <1>1, <3>1, <3>2, <3>4 DEF TypeOK
    <3>6. QED
      BY <1>1, <3>2, <3>4, <3>5 DEF TxState
  <2>3. QED
    BY <1>7, <2>1, <2>2
<1>11. orderLock'[o] = t /\ \A x \in OrderIds : x # o => orderLock'[x] = orderLock[x]
  BY <1>1, <1>4, <1>6 DEF TypeOK
<1>12. TypeOK'
  <2>1. orderLock' \in [OrderIds -> Tx \cup {None}]
    BY <1>1, <1>6 DEF TypeOK
  <2>2. QED
    BY <1>1, <1>6, <1>10, <2>1 DEF TypeOK
<1>13. Local(t)
  BY <1>6, <1>8, <1>10, <1>11 DEF Local
<1>14. Active(t)' /\ Cancelling(t)' /\ tx'[t].pc # "abandoned"
  BY <1>10 DEF Active, Cancelling
<1>15. CancelShape(t)'
  <2>1. Placed(orders)' = Placed(orders)
    BY <1>6 DEF Placed
  <2>2. IF tx'[t].op = "stale" THEN t \in Janitors
                               ELSE t \in Requests /\ tx'[t].pc # "abandoned"
    BY <1>2, <1>10, <1>14 DEF CancelShape
  <2>3. \A x \in tx'[t].marked : orderLock'[x] = t /\ orders[x].status = "pending"
    <3> SUFFICES ASSUME NEW x \in done
                 PROVE  orderLock'[x] = t /\ orders[x].status = "pending"
      BY <1>10
    <3>1. CASE x = o
      BY <3>1, <1>4, <1>11
    <3>2. CASE x # o
      BY <3>2, <1>2, <1>3, <1>5, <1>9, <1>11 DEF CancelShape, Placed
    <3>3. QED
      BY <3>1, <3>2
  <2>4. tx'[t].op = "stale" =>
          \A x \in tx'[t].batch : orderLock'[x] = t /\ orders[x].status = "pending"
    BY <1>2, <1>3, <1>10, <1>11 DEF CancelShape, Placed
  <2>5. \A d \in tx'[t].todo : d[1] \notin tx'[t].marked
    BY <1>3, <1>9, <1>10
  <2>6. \A x \in tx[t].batch : x \in done \/ \E d \in tx[t].todo : d[1] = x
    BY <1>2, <1>9 DEF CancelShape
  <2>7. tx'[t].pc \in {"restock", "mark"} =>
          \A x \in tx'[t].batch :
            \/ x \in tx'[t].marked
            \/ x = tx'[t].cur[1]
            \/ \E d \in tx'[t].todo : d[1] = x
    BY <1>10, <2>6
  <2>8. tx'[t].pc = "commit" => tx'[t].todo = {} /\ tx'[t].marked = tx'[t].batch
    BY <1>5, <1>10, <2>6
  <2>9. \A x \in tx'[t].batch, y \in Products :
          orders[x].items[y] > 0 /\ <<x, y>> \notin tx'[t].todo => prodLock[y] = t
    BY <1>2, <1>10 DEF CancelShape
  <2>10. /\ tx'[t].pc \in {"restock", "commit"}
         /\ tx'[t].pc = "restock" => tx'[t].cur \in tx'[t].todo
         /\ tx'[t].batch \subseteq Placed(orders)
         /\ tx'[t].todo \subseteq ItemPairs(orders, tx'[t].batch)
         /\ tx'[t].marked \subseteq tx'[t].batch
    BY <1>3, <1>5, <1>10
  <2>11. QED
    BY <1>6, <2>1, <2>2, <2>3, <2>4, <2>5, <2>7, <2>8, <2>9, <2>10 DEF CancelShape
<1>16. TxShape(t)'
  BY <1>10, <1>14, <1>15 DEF TxShape, Cancelling, Creating
<1>17. ASSUME NEW x \in Products, prodLock'[x] = t
       PROVE  x \in Catalog /\ DraftOf(t, x)'
  <2>1. x \in Catalog
    BY <1>6, <1>17, NoneIsNoTx DEF IInv, RowsExist
  <2>2. /\ IsFiniteSet(Units(orders, Restocked(t, x), x))
        /\ draft[x] = stock[x] + Cardinality(Units(orders, Restocked(t, x), x))
    BY <1>2, <1>6, <1>17, NoneIsNoTx DEF IInv, DraftInv, DraftOf
  <2>3. Restocked(t, x)' = Restocked(t, x)
    BY <1>10 DEF Restocked
  <2>4. ~Creating(t)'
    BY <1>10 DEF Creating
  <2>5. QED
    BY <2>1, <2>2, <2>3, <2>4, <1>6 DEF DraftOf
<1>18. InsertsApart(t)'
  BY <1>10 DEF InsertsApart, Inserted
<1>19. QED
  BY <1>12, <1>13, <1>14, <1>16, <1>17, <1>18, LocalInv

\* A janitor that returns early leaves its transaction open, its rows held.
LEMMA AbandonInv ==
  ASSUME IInv, NEW t \in Janitors, Active(t), Abandon(t)
  PROVE  IInv'
<1>1. TypeOK /\ t \in Tx /\ tx[t] \in TxState /\ t \notin Requests
  BY TxFields, TxAssumption DEF IInv, Tx
<1>2. Cancelling(t) /\ CancelShape(t) /\ tx[t].op = "stale"
  <2>1. TxShape(t)
    BY <1>1 DEF IInv
  <2>2. ~Creating(t)
    BY <1>1, <2>1 DEF TxShape, CreateShape
  <2>3. Cancelling(t) /\ CancelShape(t)
    BY <2>1, <2>2 DEF TxShape, Creating, Cancelling
  <2>4. QED
    BY <1>1, <2>3 DEF CancelShape, Cancelling
<1>3. /\ tx' = [tx EXCEPT ![t].pc = "abandoned"]
      /\ UNCHANGED <<supply, stock, draft, prodLock, orders, orderLock, clock>>
  BY DEF Abandon
<1>4. /\ tx'[t] = [tx[t] EXCEPT !.pc = "abandoned"]
      /\ \A v \in Tx : v # t => tx'[v] = tx[v]
  BY <1>1, <1>3 DEF TypeOK
<1>5. tx'[t] \in TxState
  BY <1>1, <1>4 DEF TxState
<1>6. /\ tx'[t].pc = "abandoned" /\ tx'[t].op = "stale" /\ tx'[t].batch = tx[t].batch
      /\ tx'[t].todo = tx[t].todo /\ tx'[t].marked = tx[t].marked
  BY <1>1, <1>2, <1>4 DEF TxState
<1>7. TypeOK'
  <2>1. tx' \in [Tx -> TxState]
    BY <1>1, <1>3, <1>4, <1>5 DEF TypeOK
  <2>2. QED
    BY <1>1, <1>3, <2>1 DEF TypeOK
<1>8. Local(t)
  BY <1>3, <1>4 DEF Local
<1>9. Active(t)' /\ Cancelling(t)' /\ ~Creating(t)'
  BY <1>6 DEF Active, Cancelling, Creating
<1>10. CancelShape(t)'
  BY <1>2, <1>3, <1>6 DEF CancelShape, ItemPairs, Placed
<1>11. TxShape(t)'
  BY <1>6, <1>9, <1>10 DEF TxShape
<1>12. ASSUME NEW x \in Products, prodLock'[x] = t
       PROVE  x \in Catalog /\ DraftOf(t, x)'
  BY <1>1, <1>3, <1>6, <1>9, <1>12, NoneIsNoTx DEF IInv, RowsExist, DraftOf
<1>13. InsertsApart(t)'
  BY <1>6 DEF InsertsApart, Inserted
<1>14. QED
  BY <1>1, <1>7, <1>8, <1>9, <1>11, <1>12, <1>13, LocalInv

\* A janitor that finds nothing opens a transaction that holds nothing.
LEMMA BeginStaleEmptyInv ==
  ASSUME IInv, NEW j \in Janitors, BeginStaleEmpty(j)
  PROVE  IInv'
<1> DEFINE new == [Idle EXCEPT !.pc = "abandoned", !.op = "stale"]
<1>1. TypeOK /\ j \in Tx /\ ~Active(j)
  BY DEF IInv, Tx, BeginStaleEmpty
<1>2. /\ new \in TxState /\ new.pc = "abandoned" /\ new.op = "stale"
      /\ new.batch = {} /\ new.todo = {} /\ new.marked = {}
  BY IdleType DEF TxState, Idle
<1>3. /\ tx' = [tx EXCEPT ![j] = new]
      /\ UNCHANGED <<supply, stock, draft, prodLock, orders, orderLock, clock>>
  BY DEF BeginStaleEmpty
<1> HIDE DEF new
<1>4. tx'[j] = new /\ \A v \in Tx : v # j => tx'[v] = tx[v]
  BY <1>1, <1>3 DEF TypeOK
<1>5. TypeOK'
  BY <1>1, <1>2, <1>3 DEF TypeOK
<1>6. Local(j)
  BY <1>3, <1>4 DEF Local
<1>7. Active(j)' /\ Cancelling(j)' /\ ~Creating(j)'
  BY <1>2, <1>4 DEF Active, Cancelling, Creating
<1>8. CancelShape(j)'
  BY <1>2, <1>4 DEF CancelShape
<1>9. TxShape(j)'
  BY <1>2, <1>4, <1>7, <1>8 DEF TxShape
<1>10. \A p \in Products : prodLock'[p] # j
  BY <1>1, <1>3, IdleHoldsNothing
<1>11. InsertsApart(j)'
  BY <1>2, <1>4 DEF InsertsApart, Inserted
<1>12. QED
  BY <1>1, <1>5, <1>6, <1>7, <1>9, <1>10, <1>11, LocalInv

-----------------------------------------------------------------------------
(* COMMIT                                                                  *)

LEMMA CommitEnd ==
  ASSUME IInv, NEW t \in Tx, NEW a \in {"ok", "error"}, Commit(t, a),
         orders' \in [OrderIds -> Order \cup {NoOrder}]
  PROVE  /\ TypeOK'
         /\ End(t)
         /\ \A p \in Products : stock'[p] = IF prodLock[p] = t THEN draft[p] ELSE stock[p]
<1>1. TypeOK /\ ReleaseLocks(t) /\ tx' = Answered(t, a) /\ UNCHANGED <<supply, draft, clock>>
  BY DEF IInv, Commit
<1>2. stock' = [p \in Products |-> IF prodLock[p] = t THEN draft[p] ELSE stock[p]]
  BY DEF Commit, PublishDrafts
<1>3. stock' \in [Products -> Nat]
  BY <1>1, <1>2 DEF TypeOK
<1>4. TypeOK'
  BY <1>1, <1>3, AnsweredType, UnlockedType DEF TypeOK
<1>5. End(t)
  BY <1>1, <1>2, AnsweredType, UnlockedType DEF End
<1>6. QED
  BY <1>2, <1>4, <1>5

LEMMA CommitCreateInv ==
  ASSUME IInv, NEW r \in Requests, NEW a \in {"ok", "error"}, CommitCreate(r, a)
  PROVE  IInv'
<1>1. TypeOK /\ r \in Tx /\ tx[r].pc = "commit" /\ tx[r].op = "create" /\ Commit(r, a)
  BY DEF IInv, Tx, CommitCreate
<1>2. Creating(r) /\ CreateShape(r) /\ Inserted(r)
  BY <1>1 DEF IInv, TxShape, Creating, Active, Inserted
<1>3. PICK o \in OrderIds : tx[r].batch = {o} /\ orders[o] = NoOrder
  BY <1>2 DEF CreateShape
<1>4. tx[r].items \in Seq(Item) /\ tx[r].began \in Nat /\ ~ProductTwice(tx[r].items)
  BY <1>1, <1>2, TxFields DEF CreateShape
<1>5. PICK taken \in [Products -> Nat] : taken = Quantities(tx[r].items)
  BY <1>4, QuantitiesType
<1>6. PICK new : new = NewOrder(r)
  OBVIOUS
<1>7. /\ new \in Order /\ new # NoOrder /\ new.items = taken /\ new.status = "pending"
      /\ new.user = tx[r].user /\ new.key = tx[r].key
  BY <1>2, <1>4, <1>5, <1>6, NoOrderAssumption DEF NewOrder, Order, Status, CreateShape
<1>8. /\ orders \in [OrderIds -> Order \cup {NoOrder}]
      /\ orders' = [x \in OrderIds |-> IF x \in {o} THEN new ELSE orders[x]]
  BY <1>1, <1>3, <1>6 DEF CommitCreate, TypeOK
<1>9. orders'[o] = new /\ \A x \in OrderIds : x # o => orders'[x] = orders[x]
  BY <1>8
<1>10. orders' \in [OrderIds -> Order \cup {NoOrder}]
  BY <1>7, <1>8
<1>11. /\ TypeOK' /\ End(r)
       /\ \A p \in Products : stock'[p] = IF prodLock[p] = r THEN draft[p] ELSE stock[p]
  BY <1>1, <1>10, CommitEnd
<1>12. /\ Placed(orders)' = Placed(orders) \cup {o} /\ o \notin Placed(orders)
       /\ Live(orders)' = Live(orders) \cup {o} /\ o \notin Live(orders)
  <2>1. Placed(orders)' = Placed(orders) \cup {o} /\ o \notin Placed(orders)
    BY <1>3, <1>7, <1>9 DEF Placed
  <2>2. QED
    BY <2>1, <1>7, <1>9 DEF Live, Placed
<1>13. \A p \in Products : taken[p] > 0 => prodLock[p] = r /\ p \in Catalog
  <2> SUFFICES ASSUME NEW p \in Products, taken[p] > 0 PROVE prodLock[p] = r /\ p \in Catalog
    OBVIOUS
  <2>1. PICK i \in 1 .. Len(tx[r].items) : tx[r].items[i].product = p
    BY <1>4, <1>5, QuantitiesType
  <2>2. prodLock[p] = r
    BY <1>2, <2>1 DEF CreateShape
  <2>3. QED
    BY <2>2, <1>1, NoneIsNoTx DEF IInv, RowsExist
<1>14. \A p \in Products : stock[p] \in Nat /\ taken[p] \in Nat /\ stock'[p] = stock[p] - taken[p]
  <2> TAKE p \in Products
  <2>1. stock[p] \in Nat /\ taken[p] \in Nat
    BY <1>1, <1>5 DEF TypeOK
  <2>2. CASE prodLock[p] = r
    <3>1. DraftOf(r, p)
      BY <2>2, <1>1, NoneIsNoTx DEF IInv, DraftInv
    <3>2. draft[p] = stock[p] - taken[p]
      BY <3>1, <1>1, <1>2, <1>5 DEF DraftOf
    <3>3. QED
      BY <2>1, <2>2, <3>2, <1>11
  <2>3. CASE prodLock[p] # r
    <3>1. taken[p] = 0
      BY <2>1, <2>3, <1>13
    <3>2. QED
      BY <2>1, <2>3, <3>1, <1>11
  <2>4. QED
    BY <2>2, <2>3
<1>15. OrdersStay(r)
  <2>1. \A x \in Placed(orders) : orders'[x] = orders[x] /\ orders[x] # NoOrder
    BY <1>9, <1>12 DEF Placed
  <2>2. ASSUME NEW u \in Tx \ {r}, Inserted(u)
        PROVE  /\ \A x \in tx[u].batch : orders'[x] = orders[x]
               /\ \A x \in Placed(orders)' : ~SameKey(u, orders'[x])
    <3>1. ~SameKey(u, tx[r]) /\ o \notin tx[u].batch
      BY <1>1, <1>2, <1>3, <2>2 DEF IInv, InsertsDistinct
    <3>2. CreateShape(u)
      BY <2>2 DEF IInv, TxShape, Creating, Active, Inserted
    <3>3. \A x \in Placed(orders) : ~SameKey(u, orders[x])
      BY <2>2, <3>2 DEF CreateShape
    <3>4. tx[u].batch \subseteq OrderIds
      BY <1>1, TxFields
    <3>5. QED
      BY <2>1, <3>1, <3>3, <3>4, <1>7, <1>9, <1>12 DEF SameKey
  <2>3. QED
    BY <2>1, <2>2 DEF OrdersStay
<1>16. RowsExist'
  <2>1. \A p \in Products : prodLock'[p] # None => prodLock[p] # None
    BY <1>11 DEF End
  <2>2. Catalog' = Catalog
    BY <1>11 DEF End, Catalog
  <2>3. \E p \in Products : taken[p] > 0
    <3>1. 1 \in 1 .. Len(tx[r].items)
      BY <1>2, <1>4, PayloadAssumption DEF CreateShape
    <3>2. /\ tx[r].items[1].product \in Products
          /\ taken[tx[r].items[1].product] \in Nat \ {0}
      BY <3>1, <1>4, <1>5, QuantitiesOfLine
    <3>3. QED
      BY <3>2
  <2>4. QED
    BY <2>1, <2>2, <2>3, <1>7, <1>9, <1>12, <1>13 DEF IInv, RowsExist, Placed
<1>17. OneOrderPerKey'
  <2>1. \A x \in Placed(orders) : ~(orders[x].user = new.user /\ orders[x].key = new.key)
    BY <1>2, <1>7 DEF CreateShape, SameKey
  <2>2. QED
    BY <2>1, <1>9, <1>12 DEF IInv, OneOrderPerKey, Placed
<1>18. ASSUME NEW p \in Products
       PROVE  /\ IsFiniteSet(Units(orders, Live(orders), p))'
              /\ Cardinality(Units(orders, Live(orders), p))'
                   = Cardinality(Units(orders, Live(orders), p)) + taken[p]
  <2>1. Units(orders', Live(orders), p) = Units(orders, Live(orders), p)
    <3>1. \A x \in Live(orders) : orders'[x].items = orders[x].items
      BY <1>9, <1>12 DEF Live, Placed
    <3>2. QED
      BY <3>1, UnitsSame
  <2>2. IsFiniteSet(Units(orders', Live(orders), p))
    BY <2>1 DEF IInv, UnitsFinite
  <2>3. PICK q \in Nat : q = taken[p]
    BY <1>5
  <2>4. orders'[o].items[p] = q /\ o \notin Live(orders)
    BY <2>3, <1>7, <1>9, <1>12
  <2>5. PICK f : f = orders'
    OBVIOUS
  <2>6. PICK S : S = Live(orders)
    OBVIOUS
  <2>7. PICK T : T = Live(orders)'
    OBVIOUS
  <2>8. IsFiniteSet(Units(f, S, p)) /\ f[o].items[p] = q
    BY <2>2, <2>4, <2>5, <2>6
  <2>9. o \notin S /\ T = S \cup {o}
    BY <2>4, <2>6, <2>7, <1>12
  <2>10. /\ IsFiniteSet(Units(f, T, p))
         /\ Cardinality(Units(f, T, p)) = Cardinality(Units(f, S, p)) + q
    BY <2>8, <2>9, UnitsAdd
  <2>11. QED
    BY <2>1, <2>3, <2>5, <2>6, <2>7, <2>10
<1>19. UnitsFinite'
  BY <1>18 DEF UnitsFinite
<1>20. StockConserved'
  <2> SUFFICES ASSUME NEW p \in Catalog
               PROVE  stock'[p] + Cardinality(Units(orders, Live(orders), p))' = supply[p]
    BY <1>11 DEF StockConserved, Catalog, End
  <2>1. p \in Products
    BY DEF Catalog
  <2>2. Cardinality(Units(orders, Live(orders), p)) \in Nat
    BY <2>1, FS_CardinalityType DEF IInv, UnitsFinite
  <2>3. stock[p] + Cardinality(Units(orders, Live(orders), p)) = supply[p]
    BY DEF IInv, StockConserved
  <2>4. QED
    BY <2>1, <2>2, <2>3, <1>14, <1>18
<1>21. QED
  BY <1>1, <1>11, <1>15, <1>16, <1>17, <1>19, <1>20, EndInv

\* COMMIT of a Cancel or CancelStale: every order of the batch is marked, every
\* item of theirs is in a draft.
LEMMA CommitCancelledInv ==
  ASSUME IInv, NEW t \in Tx, NEW a \in {"ok", "error"},
         tx[t].pc = "commit", tx[t].op \in {"cancel", "stale"},
         CancelMarked(t), Commit(t, a)
  PROVE  IInv'
<1>1. TypeOK /\ orders \in [OrderIds -> Order \cup {NoOrder}]
  BY DEF IInv, TypeOK
<1>2. Cancelling(t) /\ CancelShape(t)
  BY DEF IInv, TxShape, Cancelling, Active
<1>3. PICK S \in SUBSET OrderIds : S = tx[t].batch
  BY <1>1, TxFields
<1>4. /\ S = tx[t].marked /\ tx[t].todo = {} /\ S \subseteq Placed(orders)
      /\ \A o \in S : orderLock[o] = t /\ orders[o].status = "pending"
  BY <1>2, <1>3 DEF CancelShape
<1>5. S \subseteq Live(orders)
  BY <1>4 DEF Live
<1>6. orders' = [o \in OrderIds |-> IF o \in S THEN [orders[o] EXCEPT !.status = "cancelled"]
                                              ELSE orders[o]]
  BY <1>4 DEF CancelMarked
<1>7. ASSUME NEW o \in S
      PROVE  /\ orders'[o] \in Order
             /\ orders'[o].status = "cancelled"
             /\ orders'[o].items = orders[o].items
             /\ orders'[o].user = orders[o].user
             /\ orders'[o].key = orders[o].key
  <2>1. orders[o] \in Order
    BY <1>1, <1>4, PlacedType
  <2>2. orders'[o] = [orders[o] EXCEPT !.status = "cancelled"]
    BY <1>6
  <2>3. QED
    BY <2>1, <2>2 DEF Order, Status
<1>8. \A o \in OrderIds : o \notin S => orders'[o] = orders[o]
  BY <1>6
<1>9. orders' \in [OrderIds -> Order \cup {NoOrder}]
  <2>1. \A o \in OrderIds : orders'[o] \in Order \cup {NoOrder}
    BY <1>1, <1>7, <1>8
  <2>2. QED
    BY <2>1, <1>6
<1>10. /\ TypeOK' /\ End(t)
       /\ \A p \in Products : stock'[p] = IF prodLock[p] = t THEN draft[p] ELSE stock[p]
  BY <1>9, CommitEnd
<1>11. Placed(orders)' = Placed(orders) /\ \A o \in Placed(orders) : o \in OrderIds
  BY <1>4, <1>7, <1>8, NoOrderAssumption DEF Placed
<1>12. Live(orders)' = Live(orders) \ S
  BY <1>7, <1>8, <1>11 DEF Live
<1>13. \A o \in Placed(orders) :
         /\ orders'[o].items = orders[o].items
         /\ orders'[o].user = orders[o].user
         /\ orders'[o].key = orders[o].key
  BY <1>7, <1>8, <1>11
<1>14. OrdersStay(t)
  <2>1. \A o \in Placed(orders) : orders'[o] # NoOrder /\ orders'[o].items = orders[o].items
    BY <1>11, <1>13 DEF Placed
  <2>2. ASSUME NEW u \in Tx \ {t}, NEW o \in Placed(orders), orderLock[o] = u
        PROVE  orders'[o] = orders[o]
    BY <2>2, <1>4, <1>8, <1>11
  <2>3. ASSUME NEW u \in Tx \ {t}, Inserted(u)
        PROVE  /\ \A o \in tx[u].batch : orders'[o] = orders[o]
               /\ \A x \in Placed(orders)' : ~SameKey(u, orders'[x])
    <3>1. CreateShape(u)
      BY <2>3 DEF IInv, TxShape, Creating, Active, Inserted
    <3>2. PICK o \in OrderIds : tx[u].batch = {o} /\ orders[o] = NoOrder
      BY <2>3, <3>1 DEF CreateShape
    <3>3. o \notin S
      BY <3>2, <1>4 DEF Placed
    <3>4. \A x \in Placed(orders) : ~SameKey(u, orders[x])
      BY <2>3, <3>1 DEF CreateShape
    <3>5. QED
      BY <3>2, <3>3, <3>4, <1>8, <1>11, <1>13 DEF SameKey
  <2>4. QED
    BY <2>1, <2>2, <2>3 DEF OrdersStay
<1>15. RowsExist'
  <2>1. \A p \in Products : prodLock'[p] # None => prodLock[p] # None
    BY <1>10 DEF End
  <2>2. Catalog' = Catalog
    BY <1>10 DEF End, Catalog
  <2>3. QED
    BY <2>1, <2>2, <1>11, <1>13 DEF IInv, RowsExist
<1>16. OneOrderPerKey'
  BY <1>11, <1>13 DEF IInv, OneOrderPerKey
<1>17. ASSUME NEW p \in Products
       PROVE  /\ IsFiniteSet(Units(orders, S, p))
              /\ IsFiniteSet(Units(orders, Live(orders), p))'
              /\ Cardinality(Units(orders, Live(orders), p))
                   = Cardinality(Units(orders, Live(orders), p))'
                       + Cardinality(Units(orders, S, p))
  <2>1. IsFiniteSet(Units(orders, Live(orders), p))
    BY DEF IInv, UnitsFinite
  <2>2. /\ IsFiniteSet(Units(orders, S, p))
        /\ IsFiniteSet(Units(orders, Live(orders) \ S, p))
        /\ Cardinality(Units(orders, Live(orders), p))
             = Cardinality(Units(orders, Live(orders) \ S, p)) + Cardinality(Units(orders, S, p))
    BY <2>1, <1>5, UnitsRemove
  <2>3. \A o \in Live(orders) \ S : orders'[o].items = orders[o].items
    BY <1>13, LiveIsPlaced
  <2>4. Units(orders', Live(orders) \ S, p) = Units(orders, Live(orders) \ S, p)
    BY <2>3, UnitsSame
  <2>5. QED
    BY <2>2, <2>4, <1>12
<1>18. ASSUME NEW p \in Products
       PROVE  /\ stock[p] \in Nat
              /\ stock'[p] = stock[p] + Cardinality(Units(orders, S, p))
  <2>1. stock[p] \in Nat
    BY <1>1 DEF TypeOK
  <2>2. Restocked(t, p) = S
    BY <1>3, <1>4 DEF Restocked
  <2>3. CASE prodLock[p] = t
    <3>1. DraftOf(t, p)
      BY <2>3, NoneIsNoTx DEF IInv, DraftInv
    <3>2. draft[p] = stock[p] + Cardinality(Units(orders, S, p))
      BY <3>1, <2>2, <1>2 DEF DraftOf
    <3>3. QED
      BY <2>1, <2>3, <3>2, <1>10
  <2>4. CASE prodLock[p] # t
    <3>1. \A o \in S : orders[o].items[p] = 0
      <4> SUFFICES ASSUME NEW o \in S PROVE orders[o].items[p] = 0
        OBVIOUS
      <4>1. ~(orders[o].items[p] > 0)
        BY <2>4, <1>2, <1>3, <1>4 DEF CancelShape
      <4>2. orders[o].items[p] \in Nat
        BY <1>1, <1>4, PlacedType
      <4>3. QED
        BY <4>1, <4>2
    <3>2. Cardinality(Units(orders, S, p)) = 0
      BY <3>1, UnitsNone, FS_EmptySet
    <3>3. QED
      BY <2>1, <2>4, <3>2, <1>10
  <2>5. QED
    BY <2>3, <2>4
<1>19. UnitsFinite'
  BY <1>17 DEF UnitsFinite
<1>20. StockConserved'
  <2> SUFFICES ASSUME NEW p \in Catalog
               PROVE  stock'[p] + Cardinality(Units(orders, Live(orders), p))' = supply[p]
    BY <1>10 DEF StockConserved, Catalog, End
  <2>1. p \in Products
    BY DEF Catalog
  <2>2. /\ Cardinality(Units(orders, S, p)) \in Nat
        /\ Cardinality(Units(orders, Live(orders), p))' \in Nat
    BY <2>1, <1>17, FS_CardinalityType
  <2>3. stock[p] + Cardinality(Units(orders, Live(orders), p)) = supply[p]
    BY DEF IInv, StockConserved
  <2>4. QED
    BY <2>1, <2>2, <2>3, <1>17, <1>18
<1>21. QED
  BY <1>10, <1>14, <1>15, <1>16, <1>19, <1>20, EndInv

-----------------------------------------------------------------------------
(* Confirm, the clock and new products                                     *)

LEMMA ConfirmInv ==
  ASSUME IInv, NEW r \in Requests, NEW o \in OrderIds, Confirm(r, o)
  PROVE  IInv'
<1> DEFINE pending == ~Settled(o)
           new == [Idle EXCEPT !.op = "confirm", !.batch = {o},
                               !.answer = IF Settled(o) THEN "refused" ELSE "ok"]
<1>1. /\ TypeOK /\ r \in Tx /\ ~Active(r) /\ o \in Placed(orders) /\ orderLock[o] = None
      /\ UNCHANGED <<supply, stock, draft, prodLock, orderLock, clock>>
      /\ orders' = IF pending THEN [orders EXCEPT ![o].status = "confirmed"] ELSE orders
      /\ tx' = [tx EXCEPT ![r] = new]
  BY DEF IInv, Tx, Confirm
<1>2. new \in TxState /\ new.pc = "idle"
  <2>1. ASSUME NEW a \in {"ok", "refused"}, NEW B \in SUBSET OrderIds
        PROVE  /\ [Idle EXCEPT !.op = "confirm", !.batch = B, !.answer = a] \in TxState
               /\ [Idle EXCEPT !.op = "confirm", !.batch = B, !.answer = a].pc = "idle"
    BY IdleType DEF TxState, Idle
  <2>2. {o} \in SUBSET OrderIds
    OBVIOUS
  <2>3. QED
    BY <2>1, <2>2
<1> HIDE DEF new
<1>3. orders[o] \in Order /\ orders \in [OrderIds -> Order \cup {NoOrder}]
  BY <1>1, PlacedType DEF TypeOK
<1>4. \A x \in OrderIds : x # o => orders'[x] = orders[x]
  BY <1>1, <1>3
<1>5. /\ orders'[o] \in Order
      /\ orders'[o].items = orders[o].items
      /\ orders'[o].user = orders[o].user
      /\ orders'[o].key = orders[o].key
      /\ orders'[o].status = "cancelled" <=> orders[o].status = "cancelled"
  <2>1. CASE pending
    <3>1. orders'[o] = [orders[o] EXCEPT !.status = "confirmed"]
      BY <2>1, <1>1, <1>3
    <3>2. QED
      BY <2>1, <3>1, <1>3 DEF Order, Status, Settled
  <2>2. CASE ~pending
    BY <2>2, <1>1, <1>3
  <2>3. QED
    BY <2>1, <2>2
<1>6. orders' \in [OrderIds -> Order \cup {NoOrder}]
  <2>1. CASE pending
    <3>1. \A x \in OrderIds : orders'[x] \in Order \cup {NoOrder}
      BY <1>3, <1>4, <1>5
    <3>2. DOMAIN orders' = OrderIds /\ orders' = [x \in OrderIds |-> orders'[x]]
      BY <2>1, <1>1, <1>3
    <3>3. QED
      BY <3>1, <3>2
  <2>2. CASE ~pending
    BY <2>2, <1>1, <1>3
  <2>3. QED
    BY <2>1, <2>2
<1> HIDE DEF pending
<1>7. tx'[r].pc = "idle" /\ \A u \in Tx : u # r => tx'[u] = tx[u]
  BY <1>1, <1>2 DEF TypeOK
<1>8. TypeOK'
  BY <1>1, <1>2, <1>6 DEF TypeOK
<1>9. End(r)
  <2>1. /\ \A p \in Products : prodLock[p] # r
        /\ \A x \in OrderIds : orderLock[x] # r
    BY <1>1, IdleHoldsNothing
  <2>2. QED
    BY <2>1, <1>1, <1>7 DEF End
<1>10. Placed(orders)' = Placed(orders) /\ \A x \in Placed(orders) : x \in OrderIds
  BY <1>1, <1>4, <1>5, NoOrderAssumption DEF Placed
<1>11. \A x \in Placed(orders) :
         /\ orders'[x].items = orders[x].items
         /\ orders'[x].user = orders[x].user
         /\ orders'[x].key = orders[x].key
         /\ orders'[x].status = "cancelled" <=> orders[x].status = "cancelled"
  BY <1>4, <1>5, <1>10
<1>12. OrdersStay(r)
  <2>1. \A x \in Placed(orders) : orders'[x] # NoOrder /\ orders'[x].items = orders[x].items
    BY <1>10, <1>11 DEF Placed
  <2>2. \A u \in Tx \ {r}, x \in Placed(orders) : orderLock[x] = u => orders'[x] = orders[x]
    BY <1>1, <1>4, <1>10, NoneIsNoTx
  <2>3. ASSUME NEW u \in Tx \ {r}, Inserted(u)
        PROVE  /\ \A x \in tx[u].batch : orders'[x] = orders[x]
               /\ \A x \in Placed(orders)' : ~SameKey(u, orders'[x])
    <3>1. CreateShape(u)
      BY <2>3 DEF IInv, TxShape, Creating, Active, Inserted
    <3>2. PICK x \in OrderIds : tx[u].batch = {x} /\ orders[x] = NoOrder
      BY <2>3, <3>1 DEF CreateShape
    <3>3. x # o
      BY <3>2, <1>1 DEF Placed
    <3>4. \A y \in Placed(orders) : ~SameKey(u, orders[y])
      BY <2>3, <3>1 DEF CreateShape
    <3>5. QED
      BY <3>2, <3>3, <3>4, <1>4, <1>10, <1>11 DEF SameKey
  <2>4. QED
    BY <2>1, <2>2, <2>3 DEF OrdersStay
<1>13. RowsExist' /\ OneOrderPerKey'
  <2>1. Catalog' = Catalog /\ prodLock' = prodLock
    BY <1>1 DEF Catalog
  <2>2. RowsExist'
    BY <2>1, <1>10, <1>11 DEF IInv, RowsExist
  <2>3. OneOrderPerKey'
    BY <1>10, <1>11 DEF IInv, OneOrderPerKey
  <2>4. QED
    BY <2>2, <2>3
<1>14. Live(orders)' = Live(orders)
  BY <1>10, <1>11 DEF Live
<1>15. \A p \in Products : Units(orders, Live(orders), p)' = Units(orders, Live(orders), p)
  <2> TAKE p \in Products
  <2>1. \A x \in Live(orders) : orders'[x].items = orders[x].items
    BY <1>11, LiveIsPlaced
  <2>2. Units(orders', Live(orders), p) = Units(orders, Live(orders), p)
    BY <2>1, UnitsSame
  <2>3. QED
    BY <2>2, <1>14
<1>16. UnitsFinite' /\ StockConserved'
  BY <1>1, <1>15 DEF IInv, UnitsFinite, StockConserved, Catalog
<1>17. QED
  BY <1>1, <1>8, <1>9, <1>12, <1>13, <1>16, EndInv

\* A step that moves no transaction and leaves the rows of existing products.
LEMMA ServerInv ==
  ASSUME IInv, TypeOK', UNCHANGED <<prodLock, orders, orderLock, tx>>, clock <= clock',
         Catalog \subseteq Catalog',
         \A p \in Products :
           \/ draft'[p] = draft[p] /\ stock'[p] = stock[p]
           \/ p \notin Catalog /\ draft'[p] = stock'[p],
         StockConserved'
  PROVE  IInv'
<1>1. Placed(orders)' = Placed(orders) /\ Live(orders)' = Live(orders)
  BY DEF Placed, Live
<1>2. ASSUME NEW u \in Tx PROVE Untouched(u)
  <2>1. \A p \in Products : prodLock[p] = u => draft'[p] = draft[p] /\ stock'[p] = stock[p]
    BY NoneIsNoTx DEF IInv, RowsExist
  <2>2. Inserted(u) => \A x \in Placed(orders) : ~SameKey(u, orders[x])
    BY DEF IInv, TxShape, CreateShape, Creating, Active, Inserted
  <2>3. QED
    BY <2>1, <2>2, <1>1 DEF Untouched, Placed
<1>3. \A u \in Tx : TxShape(u)'
  BY <1>2, ShapeFrame DEF IInv
<1>4. LocksHeldByOpenTx'
  BY DEF IInv, LocksHeldByOpenTx, Active
<1>5. DraftInv'
  <2> SUFFICES ASSUME NEW p \in Products
               PROVE  /\ prodLock'[p] = None => draft'[p] = stock'[p]
                      /\ prodLock'[p] # None => DraftOf(prodLock[p], p)'
    BY DEF DraftInv
  <2>1. CASE prodLock[p] = None
    BY <2>1 DEF IInv, DraftInv
  <2>2. CASE prodLock[p] # None
    <3>1. PICK u \in Tx : u = prodLock[p]
      BY <2>2 DEF IInv, TypeOK
    <3>2. Untouched(u) /\ TypeOK /\ TxShape(u) /\ DraftOf(u, p)
      BY <2>2, <3>1, <1>2 DEF IInv, DraftInv
    <3>3. DraftOf(u, p)'
      BY <3>1, <3>2, DraftFrame
    <3>4. QED
      BY <2>2, <3>1, <3>3
  <2>3. QED
    BY <2>1, <2>2
<1>6. RowsExist'
  BY <1>1 DEF IInv, RowsExist
<1>7. InsertsDistinct' /\ OneOrderPerKey' /\ UnitsFinite'
  BY <1>1 DEF IInv, InsertsDistinct, Inserted, SameKey, OneOrderPerKey, UnitsFinite
<1>8. QED
  BY <1>3, <1>4, <1>5, <1>6, <1>7 DEF IInv

LEMMA TickInv == IInv /\ Tick => IInv'
<1> SUFFICES ASSUME IInv, Tick PROVE IInv'
  OBVIOUS
<1>1. TypeOK' /\ clock <= clock'
  BY DEF IInv, TypeOK, Tick
<1>2. Catalog' = Catalog /\ StockConserved'
  BY DEF Tick, Catalog, IInv, StockConserved, Live, Placed
<1>3. QED
  BY <1>1, <1>2, ServerInv DEF Tick

LEMMA CreateProductInv ==
  ASSUME IInv, NEW p \in Products, NEW n \in StockLevels, CreateProduct(p, n)
  PROVE  IInv'
<1>1. TypeOK /\ n \in Nat /\ n # NoProduct /\ p \notin Catalog
  BY BoundsAssumption DEF IInv, NoProduct, CreateProduct
<1>2. /\ UNCHANGED <<prodLock, orders, orderLock, tx, clock>>
      /\ supply' = [supply EXCEPT ![p] = n]
      /\ stock' = [stock EXCEPT ![p] = n]
      /\ draft' = [draft EXCEPT ![p] = n]
  BY DEF CreateProduct
<1>3. TypeOK' /\ clock <= clock'
  BY <1>1, <1>2 DEF TypeOK
<1>4. /\ supply'[p] = n /\ stock'[p] = n /\ draft'[p] = n
      /\ \A x \in Products : x # p =>
           supply'[x] = supply[x] /\ stock'[x] = stock[x] /\ draft'[x] = draft[x]
  BY <1>1, <1>2 DEF TypeOK
<1>5. Catalog' = Catalog \cup {p}
  BY <1>1, <1>4 DEF Catalog
<1>6. \A x \in Products : Units(orders, Live(orders), x)' = Units(orders, Live(orders), x)
  BY <1>2 DEF Live, Placed
<1>7. Cardinality(Units(orders, Live(orders), p)) = 0
  <2>1. \A o \in Live(orders) : orders[o].items[p] = 0
    <3> SUFFICES ASSUME NEW o \in Live(orders) PROVE orders[o].items[p] = 0
      OBVIOUS
    <3>1. o \in Placed(orders)
      BY LiveIsPlaced
    <3>2. orders[o].items[p] \in Nat
      BY <3>1, <1>1, PlacedType
    <3>3. ~(orders[o].items[p] > 0)
      BY <3>1, <1>1 DEF IInv, RowsExist
    <3>4. QED
      BY <3>2, <3>3
  <2>2. QED
    BY <2>1, UnitsNone, FS_EmptySet
<1>8. StockConserved'
  <2> SUFFICES ASSUME NEW x \in Catalog'
               PROVE  stock'[x] + Cardinality(Units(orders, Live(orders), x))' = supply'[x]
    BY DEF StockConserved
  <2>1. CASE x = p
    BY <2>1, <1>1, <1>4, <1>6, <1>7
  <2>2. CASE x # p
    <3>1. x \in Catalog /\ x \in Products
      BY <2>2, <1>5 DEF Catalog
    <3>2. QED
      BY <2>2, <3>1, <1>4, <1>6 DEF IInv, StockConserved
  <2>3. QED
    BY <2>1, <2>2
<1>9. \A x \in Products :
        \/ draft'[x] = draft[x] /\ stock'[x] = stock[x]
        \/ x \notin Catalog /\ draft'[x] = stock'[x]
  BY <1>1, <1>4
<1>10. QED
  BY <1>2, <1>3, <1>5, <1>8, <1>9, ServerInv

-----------------------------------------------------------------------------
(* The invariant holds for ever.                                           *)

LEMMA InitInv == Init => IInv
<1> SUFFICES ASSUME Init PROVE IInv
  OBVIOUS
<1>1. TypeOK
  BY IdleType DEF Init, TypeOK
<1>2. Placed(orders) = {} /\ Live(orders) = {} /\ Catalog = {}
  BY DEF Init, Placed, Live, Catalog
<1>3. \A t \in Tx : tx[t].pc = "idle"
  BY DEF Init, Idle
<1>4. \A t \in Tx : TxShape(t)
  BY <1>3 DEF TxShape, Active, Creating, Cancelling
<1>5. LocksHeldByOpenTx /\ DraftInv /\ RowsExist
  BY <1>2 DEF Init, LocksHeldByOpenTx, DraftInv, RowsExist
<1>6. InsertsDistinct
  BY <1>3 DEF InsertsDistinct, Inserted
<1>7. OneOrderPerKey /\ StockConserved
  BY <1>2 DEF OneOrderPerKey, StockConserved
<1>8. UnitsFinite
  BY <1>2, UnitsNone DEF UnitsFinite
<1>9. QED
  BY <1>1, <1>4, <1>5, <1>6, <1>7, <1>8 DEF IInv

LEMMA NewRequestInv ==
  ASSUME IInv, NEW r \in Requests, NewRequest(r)
  PROVE  IInv'
BY BeginCreateInv, BeginCancelInv, ConfirmInv DEF NewRequest

\* A COMMIT, whether or not its reply arrives.
LEMMA CommitAnyInv ==
  ASSUME IInv, NEW t \in Tx, NEW a \in {"ok", "error"}, CommitAny(t, a)
  PROVE  IInv'
<1>1. CASE CommitCreate(t, a)
  <2>1. t \in Requests
    BY <1>1 DEF CommitCreate, IInv, TxShape, Creating, Active, CreateShape
  <2>2. QED
    BY <1>1, <2>1, CommitCreateInv
<1>2. CASE CommitCancel(t, a)
  BY <1>2, CommitCancelledInv DEF CommitCancel
<1>3. CASE CommitStale(t, a)
  BY <1>3, CommitCancelledInv DEF CommitStale
<1>4. QED
  BY <1>1, <1>2, <1>3 DEF CommitAny

LEMMA RequestStepInv ==
  ASSUME IInv, NEW r \in Requests, RequestStep(r)
  PROVE  IInv'
<1>1. r \in Tx
  BY DEF Tx
<1>2. CASE LockItem(r)
  BY <1>2, LockItemInv
<1>3. CASE \E o \in OrderIds : InsertOrder(r, o)
  BY <1>3, InsertOrderInv
<1>4. CASE InsertRefused(r)
  BY <1>1, <1>4, RollbackInv DEF InsertRefused
<1>5. CASE WriteItems(r)
  BY <1>5, WriteItemsInv
<1>6. CASE CommitCreate(r, "ok") \/ CommitCancel(r, "ok")
  BY <1>1, <1>6, CommitAnyInv DEF CommitAny
<1>7. CASE CancelRestock(r)
  BY <1>1, <1>7, RestockItemInv DEF CancelRestock
<1>8. CASE CancelMark(r)
  <2>1. CASE Rollback(r, "refused")
    BY <1>1, <2>1, RollbackInv
  <2>2. CASE ~Settled(tx[r].cur[1]) /\ MarkOrder(r)
    BY <1>1, <1>8, <2>2, MarkOrderInv DEF CancelMark
  <2>3. QED
    BY <1>8, <2>1, <2>2 DEF CancelMark
<1>9. QED
  BY <1>2, <1>3, <1>4, <1>5, <1>6, <1>7, <1>8 DEF RequestStep

LEMMA JanitorStepInv ==
  ASSUME IInv, NEW j \in Janitors, JanitorStep(j)
  PROVE  IInv'
<1>1. j \in Tx
  BY DEF Tx
<1>2. CASE StaleRestock(j)
  BY <1>1, <1>2, RestockItemInv DEF StaleRestock
<1>3. CASE StaleMark(j)
  <2>1. tx[j].pc = "mark" /\ tx[j].op = "stale" /\ Active(j)
    BY <1>3 DEF StaleMark, Active
  <2>2. CASE Abandon(j)
    BY <2>1, <2>2, AbandonInv
  <2>3. CASE ~Settled(tx[j].cur[1]) /\ MarkOrder(j)
    <3>1. TypeOK /\ Cancelling(j) /\ CancelShape(j)
      BY <1>1, <2>1 DEF IInv, TxShape, Cancelling
    <3>2. /\ tx[j].batch \in SUBSET Placed(orders)
          /\ tx[j].cur \in ItemPairs(orders, tx[j].batch)
          /\ \A o \in tx[j].batch : orderLock[o] = j
      BY <2>1, <3>1 DEF CancelShape
    <3>3. orderLock[tx[j].cur[1]] = j
      BY <3>1, <3>2, PairOf
    <3>4. QED
      BY <1>1, <2>1, <2>3, <3>3, MarkOrderInv
  <2>4. QED
    BY <1>3, <2>2, <2>3 DEF StaleMark
<1>4. CASE CommitStale(j, "ok")
  BY <1>1, <1>4, CommitAnyInv DEF CommitAny
<1>5. CASE RollbackAbandoned(j)
  BY <1>1, <1>5, RollbackInv DEF RollbackAbandoned
<1>6. QED
  BY <1>2, <1>3, <1>4, <1>5 DEF JanitorStep

LEMMA FaultInv ==
  ASSUME IInv, NEW t \in Tx, TxTimeout(t) \/ CommitUnanswered(t)
  PROVE  IInv'
<1>1. CASE TxTimeout(t)
  BY <1>1, AbandonInv, RollbackInv DEF TxTimeout
<1>2. CASE CommitUnanswered(t)
  BY <1>2, CommitAnyInv DEF CommitUnanswered
<1>3. QED
  BY <1>1, <1>2

LEMMA NextInv == IInv /\ [Next]_vars => IInv'
<1> SUFFICES ASSUME IInv, [Next]_vars PROVE IInv'
  OBVIOUS
<1>1. CASE Tick
  BY <1>1, TickInv
<1>2. CASE \E p \in Products, n \in StockLevels : CreateProduct(p, n)
  BY <1>2, CreateProductInv
<1>3. CASE \E r \in Requests : NewRequest(r) \/ RequestStep(r)
  BY <1>3, NewRequestInv, RequestStepInv
<1>4. CASE \E j \in Janitors : JanitorTick(j) \/ JanitorStep(j)
  BY <1>4, BeginStaleInv, BeginStaleEmptyInv, JanitorStepInv DEF JanitorTick
<1>5. CASE \E t \in Tx : DeadlockVictim(t)
  BY <1>5, RollbackInv DEF DeadlockVictim
<1>6. CASE Fault
  BY <1>6, FaultInv DEF Fault
<1>7. CASE UNCHANGED vars
  <2>1. TypeOK' /\ Catalog' = Catalog /\ StockConserved' /\ clock <= clock'
    BY <1>7 DEF vars, IInv, TypeOK, Catalog, StockConserved, Live, Placed
  <2>2. QED
    BY <1>7, <2>1, ServerInv DEF vars
<1>8. QED
  BY <1>1, <1>2, <1>3, <1>4, <1>5, <1>6, <1>7 DEF Next

\* What every open transaction has written, locked and still to do agrees with the
\* rows, wherever the others are and however they end.
THEOREM OrderStoreInvariant == Spec => []IInv
BY InitInv, NextInv, PTL DEF Spec

-----------------------------------------------------------------------------
(* What follows for the program.                                           *)

\* Every row and every transaction keeps its type; stock_quantity is never
\* negative, in no committed and in no uncommitted version of its row.
THEOREM OrderStoreTypeOK == Spec => []TypeOK
<1>1. IInv => TypeOK
  BY DEF IInv
<1>2. QED
  BY <1>1, OrderStoreInvariant, PTL

\* No interleaving of creations, cancellations and janitor rounds, no timeout,
\* deadlock or lost COMMIT reply loses a unit, sells it twice or puts it back twice.
THEOREM OrderStoreStockConserved == Spec => []StockConserved
<1>1. IInv => StockConserved
  BY DEF IInv
<1>2. QED
  BY <1>1, OrderStoreInvariant, PTL

\* However many clients retry with one key at once, a user gets one order for it.
THEOREM OrderStoreOneOrderPerKey == Spec => []OneOrderPerKey
<1>1. IInv => OneOrderPerKey
  BY DEF IInv
<1>2. QED
  BY <1>1, OrderStoreInvariant, PTL

\* No path out of Create, Cancel or CancelStale leaves a row locked.
THEOREM OrderStoreLocksHeldByOpenTx == Spec => []LocksHeldByOpenTx
<1>1. IInv => LocksHeldByOpenTx
  BY DEF IInv
<1>2. QED
  BY <1>1, OrderStoreInvariant, PTL

\* Between the stock check of Create and its subtraction nobody takes the stock.
THEOREM OrderStoreCheckedStockStays == Spec => []CheckedStockStays
<1>1. IInv => CheckedStockStays
  <2> SUFFICES ASSUME IInv, NEW r \in Requests, tx[r].pc = "write",
                      NEW i \in DOMAIN tx[r].items
               PROVE  tx[r].items[i].quantity <= draft[tx[r].items[i].product]
    BY DEF CheckedStockStays
  <2>1. TypeOK /\ r \in Tx /\ tx[r].items \in Seq(Item)
    BY TxFields DEF IInv, Tx
  <2>2. CreateShape(r) /\ Inserted(r)
    BY <2>1 DEF IInv, TxShape, CancelShape, Cancelling, Creating, Active, Inserted
  <2>3. i \in 1 .. tx[r].seen
    BY <2>1, <2>2 DEF CreateShape
  <2>4. QED
    BY <2>2, <2>3 DEF CreateShape
<1>2. QED
  BY <1>1, OrderStoreInvariant, PTL

\* The orders of a janitor round are pending until it ends: the early return
\* ErrOrderCannotBeCancelled of CancelStale is unreachable.
THEOREM OrderStoreBatchStaysPending == Spec => []BatchStaysPending
<1>1. IInv => BatchStaysPending
  <2> SUFFICES ASSUME IInv, NEW j \in Janitors, Active(j)
               PROVE  tx[j].batch \subseteq Pending(orders)
    BY DEF BatchStaysPending
  <2>1. j \in Tx /\ j \notin Requests
    BY TxAssumption DEF Tx
  <2>2. ~Creating(j)
    BY <2>1 DEF IInv, TxShape, CreateShape
  <2>3. CancelShape(j) /\ tx[j].op \in {"cancel", "stale"}
    BY <2>1, <2>2 DEF IInv, TxShape, Creating, Cancelling
  <2>4. tx[j].op = "stale"
    BY <2>1, <2>3 DEF CancelShape
  <2>5. QED
    BY <2>3, <2>4 DEF CancelShape, Pending
<1>2. QED
  BY <1>1, OrderStoreInvariant, PTL

\* An order keeps its row, or goes from pending to confirmed or cancelled.
Settles(o) ==
  orders'[o] = orders[o]
  \/ /\ orders[o].status = "pending"
     /\ orders'[o] \in {[orders[o] EXCEPT !.status = s] : s \in {"confirmed", "cancelled"}}

LEMMA SettlesOnCancel ==
  ASSUME IInv, NEW t \in Tx, tx[t].pc = "commit", tx[t].op \in {"cancel", "stale"},
         CancelMarked(t), NEW o \in Placed(orders)
  PROVE  Settles(o)
<1>1. CancelShape(t) /\ o \in OrderIds
  BY DEF IInv, TxShape, Cancelling, Active, Placed
<1>2. CASE o \in tx[t].marked
  <2>1. orders[o].status = "pending"
    BY <1>1, <1>2 DEF CancelShape
  <2>2. orders'[o] = [orders[o] EXCEPT !.status = "cancelled"]
    BY <1>1, <1>2 DEF CancelMarked
  <2>3. QED
    BY <2>1, <2>2 DEF Settles
<1>3. CASE o \notin tx[t].marked
  BY <1>1, <1>3 DEF CancelMarked, Settles
<1>4. QED
  BY <1>2, <1>3

LEMMA SettlesOnCommit ==
  ASSUME IInv, NEW t \in Tx, NEW a, CommitAny(t, a), NEW o \in Placed(orders)
  PROVE  Settles(o)
<1>1. CASE CommitCreate(t, a)
  <2>1. CreateShape(t) /\ Inserted(t)
    BY <1>1 DEF CommitCreate, IInv, TxShape, Creating, Active, Inserted
  <2>2. o \notin tx[t].batch /\ o \in OrderIds
    BY <2>1 DEF CreateShape, Placed
  <2>3. QED
    BY <1>1, <2>2 DEF CommitCreate, Settles
<1>2. CASE CommitCancel(t, a)
  BY <1>2, SettlesOnCancel DEF CommitCancel
<1>3. CASE CommitStale(t, a)
  BY <1>3, SettlesOnCancel DEF CommitStale
<1>4. QED
  BY <1>1, <1>2, <1>3 DEF CommitAny

LEMMA SettlesOnConfirm ==
  ASSUME IInv, NEW r \in Requests, NEW x \in OrderIds, Confirm(r, x),
         NEW o \in Placed(orders)
  PROVE  Settles(o)
<1>1. TypeOK /\ o \in OrderIds /\ orders \in [OrderIds -> Order \cup {NoOrder}]
  BY DEF IInv, TypeOK, Placed
<1>2. CASE Settled(x) \/ o # x
  BY <1>1, <1>2 DEF Confirm, Settles
<1>3. CASE ~Settled(x) /\ o = x
  <2>1. orders[o].status \in Status
    BY <1>1, PlacedType
  <2>2. orders[o].status = "pending"
    BY <1>3, <2>1 DEF Settled, Status
  <2>3. orders'[o] = [orders[o] EXCEPT !.status = "confirmed"]
    BY <1>1, <1>3 DEF Confirm
  <2>4. QED
    BY <2>2, <2>3 DEF Settles
<1>4. QED
  BY <1>2, <1>3

Hidden == UNCHANGED <<supply, stock, orders, clock>>

\* What a transaction does before its COMMIT shows nowhere.
LEMMA InnerSteps ==
  ASSUME Next, ~Tick, ~\E p \in Products, n \in StockLevels : CreateProduct(p, n),
         ~\E t \in Tx, a \in {"ok", "error"} : CommitAny(t, a),
         ~\E r \in Requests, o \in OrderIds : Confirm(r, o)
  PROVE  Hidden
<1>1. ASSUME NEW r \in Requests, NewRequest(r) PROVE Hidden
  BY <1>1 DEF Hidden, NewRequest, BeginCreate, BeginCancel
<1>2. ASSUME NEW r \in Requests, RequestStep(r) PROVE Hidden
  <2>1. r \in Tx /\ ~CommitCreate(r, "ok") /\ ~CommitCancel(r, "ok")
    BY DEF Tx, CommitAny
  <2>2. ASSUME NEW a \in {"insufficient", "invalid", "duplicate", "error", "refused"},
               Rollback(r, a)
        PROVE  Hidden
    BY <2>2 DEF Hidden, Rollback
  <2>3. CASE LockItem(r)
    <3>1. \/ Rollback(r, "invalid") \/ Rollback(r, "insufficient")
          \/ UNCHANGED <<supply, stock, draft, orders, orderLock, clock>>
      BY <2>3 DEF LockItem
    <3>2. QED
      BY <2>2, <3>1 DEF Hidden
  <2>4. CASE (\E o \in OrderIds : InsertOrder(r, o)) \/ InsertRefused(r)
    BY <2>2, <2>4 DEF Hidden, InsertOrder, InsertRefused
  <2>5. CASE WriteItems(r)
    BY <2>2, <2>5 DEF Hidden, WriteItems
  <2>6. CASE CancelRestock(r)
    BY <2>6 DEF Hidden, CancelRestock, RestockItem
  <2>7. CASE CancelMark(r)
    BY <2>2, <2>7 DEF Hidden, CancelMark, MarkOrder
  <2>8. QED
    BY <1>2, <2>1, <2>3, <2>4, <2>5, <2>6, <2>7 DEF RequestStep
<1>3. ASSUME NEW j \in Janitors, JanitorTick(j) \/ JanitorStep(j) PROVE Hidden
  <2>1. j \in Tx /\ ~CommitStale(j, "ok")
    BY DEF Tx, CommitAny
  <2>2. CASE JanitorTick(j)
    BY <2>2 DEF Hidden, JanitorTick, BeginStale, BeginStaleEmpty
  <2>3. CASE StaleRestock(j)
    BY <2>3 DEF Hidden, StaleRestock, RestockItem
  <2>4. CASE StaleMark(j)
    BY <2>4 DEF Hidden, StaleMark, MarkOrder, Abandon
  <2>5. CASE RollbackAbandoned(j)
    BY <2>5 DEF Hidden, RollbackAbandoned, Rollback
  <2>6. QED
    BY <1>3, <2>1, <2>2, <2>3, <2>4, <2>5 DEF JanitorStep
<1>4. ASSUME NEW t \in Tx, DeadlockVictim(t) \/ TxTimeout(t) PROVE Hidden
  BY <1>4 DEF Hidden, DeadlockVictim, TxTimeout, Rollback, Abandon
<1>5. ASSUME NEW t \in Tx PROVE ~CommitUnanswered(t)
  BY DEF CommitUnanswered
<1>6. QED
  BY <1>1, <1>2, <1>3, <1>4, <1>5 DEF Next, Fault

\* A committed order is never deleted or rewritten, and settles at most once.
THEOREM OrderStoreOrdersSettleOnce == Spec => OrdersSettleOnce
<1>1. ASSUME IInv, [Next]_vars, NEW o \in Placed(orders)
      PROVE  Settles(o)
  <2>1. CASE UNCHANGED vars
    BY <2>1 DEF vars, Settles
  <2>2. CASE \E t \in Tx, a \in {"ok", "error"} : CommitAny(t, a)
    BY <1>1, <2>2, SettlesOnCommit
  <2>3. CASE \E r \in Requests, x \in OrderIds : Confirm(r, x)
    BY <1>1, <2>3, SettlesOnConfirm
  <2>4. CASE Tick \/ \E p \in Products, n \in StockLevels : CreateProduct(p, n)
    BY <2>4 DEF Tick, CreateProduct, Settles
  <2>5. QED
    BY <1>1, <2>1, <2>2, <2>3, <2>4, InnerSteps DEF Hidden, Settles
<1>2. IInv /\ [Next]_vars =>
        [\A o \in Placed(orders) :
           orders'[o] = orders[o]
           \/ /\ orders[o].status = "pending"
              /\ orders'[o] \in {[orders[o] EXCEPT !.status = s] :
                                   s \in {"confirmed", "cancelled"}}]_vars
  BY <1>1 DEF Settles
<1>3. QED
  BY <1>2, OrderStoreInvariant, PTL DEF Spec, OrdersSettleOnce

-----------------------------------------------------------------------------
(* What the caller was told stays true: CallsInv is inductive beside IInv.  *)

\* A step that settles orders keeps everything else of their rows.
LEMMA SettledRows ==
  ASSUME TypeOK, NEW o \in Placed(orders), Settles(o)
  PROVE  /\ o \in Placed(orders)'
         /\ orders'[o].user = orders[o].user
         /\ orders'[o].key = orders[o].key
         /\ orders'[o].placedAt = orders[o].placedAt
         /\ orders[o].status \in {"cancelled", "confirmed"} => orders'[o] = orders[o]
<1>1. o \in OrderIds /\ orders[o] \in Order
  BY PlacedType
<1>2. CASE orders'[o] = orders[o]
  BY <1>2 DEF Placed
<1>3. ASSUME orders[o].status = "pending", NEW s \in {"confirmed", "cancelled"},
             orders'[o] = [orders[o] EXCEPT !.status = s]
      PROVE  /\ o \in Placed(orders)'
             /\ orders'[o].user = orders[o].user
             /\ orders'[o].key = orders[o].key
             /\ orders'[o].placedAt = orders[o].placedAt
  <2>1. orders'[o] \in Order
    BY <1>1, <1>3 DEF Order, Status
  <2>2. QED
    BY <1>1, <1>3, <2>1, NoOrderAssumption DEF Placed, Order
<1>4. QED
  BY <1>2, <1>3 DEF Settles

\* The step leaves what the call of u is about as it is.
SameCall(u) ==
  /\ tx'[u].op = tx[u].op
  /\ tx'[u].user = tx[u].user
  /\ tx'[u].key = tx[u].key
  /\ tx'[u].batch = tx[u].batch
  /\ tx'[u].answer = tx[u].answer
  /\ Active(u)' <=> Active(u)
  /\ tx[u].pc = "abandoned" => tx'[u].pc = "abandoned"

RowsSettle ==
  /\ \A o \in Placed(orders) : Settles(o)
  /\ clock <= clock'

LEMMA CallFrame ==
  ASSUME IInv, IInv', NEW u \in Tx, CallOK(u), SameCall(u), RowsSettle
  PROVE  CallOK(u)'
<1>1. TypeOK /\ TypeOK' /\ tx[u].batch \subseteq OrderIds
  BY TxFields DEF IInv
<1>2. \A o \in Placed(orders) :
        /\ o \in Placed(orders)'
        /\ orders'[o].user = orders[o].user
        /\ orders'[o].key = orders[o].key
        /\ orders'[o].placedAt = orders[o].placedAt
        /\ orders[o].status \in {"cancelled", "confirmed"} => orders'[o] = orders[o]
  BY <1>1, SettledRows DEF RowsSettle
<1>3. CallShape(u)'
  <2>1. CASE Active(u) /\ tx[u].op = "stale"
    <3>1. /\ tx[u].pc # "abandoned" => tx[u].batch # {}
          /\ Cardinality(tx[u].batch) <= BatchLimit
          /\ \A o \in tx[u].batch : Stale(o)
      BY <2>1 DEF CallOK, CallShape
    <3>2. \A o \in tx[u].batch : orders'[o].status = "pending"
      BY <2>1, <1>1 DEF SameCall, IInv, TxShape, Cancelling, CancelShape
    <3>3. ASSUME NEW o \in tx[u].batch PROVE Stale(o)'
      <4>1. o \in Placed(orders) /\ orders[o].placedAt + CancelPendingInterval < clock
        BY <3>1 DEF Stale, Pending
      <4>2. /\ orders[o].placedAt \in Nat /\ clock \in Nat /\ clock' \in Nat
            /\ CancelPendingInterval \in Nat
        BY <1>1, <4>1, PlacedType, BoundsAssumption DEF TypeOK, Order
      <4>3. orders'[o].placedAt + CancelPendingInterval < clock'
        BY <1>2, <4>1, <4>2 DEF RowsSettle
      <4>4. QED
        BY <1>2, <3>2, <4>1, <4>3 DEF Stale, Pending
    <3>4. QED
      BY <2>1, <3>1, <3>3 DEF SameCall, CallShape
  <2>2. CASE ~(Active(u) /\ tx[u].op = "stale")
    BY <2>2, <1>2 DEF SameCall, CallOK, CallShape
  <2>3. QED
    BY <2>1, <2>2
<1>4. StillTrue(u)'
  <2>1. SUFFICES ASSUME tx'[u].pc = "idle", tx'[u].answer = "ok", NEW o \in tx'[u].batch
                 PROVE  /\ o \in Placed(orders)'
                        /\ tx'[u].op = "create" => SameKey(u, orders[o])'
                        /\ tx'[u].op \in {"cancel", "stale"} => orders'[o].status = "cancelled"
                        /\ tx'[u].op = "confirm" => orders'[o].status = "confirmed"
    BY DEF StillTrue
  <2>2. /\ o \in Placed(orders)
        /\ tx[u].op = "create" => SameKey(u, orders[o])
        /\ tx[u].op \in {"cancel", "stale"} => orders[o].status = "cancelled"
        /\ tx[u].op = "confirm" => orders[o].status = "confirmed"
    BY <2>1 DEF CallOK, StillTrue, SameCall, Active
  <2>3. QED
    BY <1>2, <2>2 DEF SameCall, SameKey
<1>5. StillRefused(u)'
  <2>1. ASSUME tx'[u].pc = "idle", tx'[u].answer = "duplicate"
        PROVE  \E x \in Placed(orders)' : SameKey(u, orders[x])'
    <3>1. PICK x \in Placed(orders) : SameKey(u, orders[x])
      BY <2>1 DEF CallOK, StillRefused, SameCall, Active
    <3>2. QED
      BY <1>2, <3>1 DEF SameCall, SameKey
  <2>2. ASSUME tx'[u].pc = "idle", tx'[u].answer = "refused", NEW o \in tx'[u].batch
        PROVE  orders'[o].status \in {"cancelled", "confirmed"}
    <3>1. o \in Placed(orders) /\ orders[o].status \in {"cancelled", "confirmed"}
      BY <2>2 DEF CallOK, CallShape, StillRefused, SameCall, Active
    <3>2. QED
      BY <1>2, <3>1
  <2>3. QED
    BY <2>1, <2>2 DEF StillRefused
<1>6. QED
  BY <1>3, <1>4, <1>5 DEF CallOK

\* A step of t leaves the other calls alone, so it is enough to look at that of t.
LEMMA OneCall ==
  ASSUME IInv, IInv', CallsInv, NEW t \in Tx, \A u \in Tx : u # t => tx'[u] = tx[u],
         RowsSettle, CallOK(t)'
  PROVE  CallsInv'
<1>1. ASSUME NEW u \in Tx, u # t PROVE CallOK(u)'
  BY <1>1, CallFrame DEF CallsInv, SameCall, Active
<1>2. QED
  BY <1>1 DEF CallsInv

LEMMA SameOrders ==
  ASSUME IInv, IInv', orders' = orders, clock' = clock
  PROVE  RowsSettle /\ Placed(orders)' = Placed(orders)
BY DEF RowsSettle, Settles, IInv, TypeOK, Placed

\* Within a call nothing has been told yet.
LEMMA InnerCalls ==
  ASSUME IInv, IInv', CallsInv, NEW t \in Tx, \A u \in Tx : u # t => tx'[u] = tx[u],
         orders' = orders, clock' = clock,
         SameCall(t) \/ (Active(t)' /\ tx'[t].op = "create")
  PROVE  CallsInv'
<1>1. RowsSettle
  BY SameOrders
<1>2. CASE SameCall(t)
  BY <1>1, <1>2, CallFrame, OneCall DEF CallsInv
<1>3. CASE Active(t)' /\ tx'[t].op = "create"
  <2>1. CallOK(t)'
    BY <1>3 DEF CallOK, CallShape, StillTrue, StillRefused, Active
  <2>2. QED
    BY <1>1, <2>1, OneCall
<1>4. QED
  BY <1>2, <1>3

LEMMA AnsweredFields ==
  ASSUME TypeOK, NEW t \in Tx, NEW a, tx' = Answered(t, a)
  PROVE  /\ tx'[t].pc = "idle"
         /\ tx'[t].op = tx[t].op
         /\ tx'[t].user = tx[t].user
         /\ tx'[t].key = tx[t].key
         /\ tx'[t].batch = tx[t].batch
         /\ tx'[t].answer = a
         /\ \A u \in Tx : u # t => tx'[u] = tx[u]
<1> DEFINE rest == [Idle EXCEPT !.op = tx[t].op, !.user = tx[t].user,
                                !.key = tx[t].key, !.batch = tx[t].batch,
                                !.answer = a]
<1>1. /\ rest.pc = "idle" /\ rest.op = tx[t].op /\ rest.user = tx[t].user
      /\ rest.key = tx[t].key /\ rest.batch = tx[t].batch /\ rest.answer = a
  BY DEF Idle
<1>2. tx' = [tx EXCEPT ![t] = rest]
  BY DEF Answered
<1> HIDE DEF rest
<1>3. QED
  BY <1>1, <1>2 DEF TypeOK

\* A call that ends in an error: only two of them say something about the rows.
LEMMA RollbackCalls ==
  ASSUME IInv, IInv', CallsInv, NEW t \in Tx,
         NEW a \in {"invalid", "insufficient", "duplicate", "refused", "error"},
         Rollback(t, a),
         a = "duplicate" => \E x \in Placed(orders) : SameKey(t, orders[x]),
         a = "refused" => \A o \in tx[t].batch :
                            o \in Placed(orders) /\ Settled(o)
  PROVE  CallsInv'
<1>1. tx' = Answered(t, a) /\ orders' = orders /\ clock' = clock
  BY DEF Rollback
<1>2. TypeOK
  BY DEF IInv
<1>3. /\ tx'[t].pc = "idle" /\ tx'[t].user = tx[t].user /\ tx'[t].key = tx[t].key
      /\ tx'[t].batch = tx[t].batch /\ tx'[t].answer = a
      /\ \A u \in Tx : u # t => tx'[u] = tx[u]
  BY <1>1, <1>2, AnsweredFields
<1>4. RowsSettle /\ Placed(orders)' = Placed(orders)
  BY <1>1, SameOrders
<1>5. CallShape(t)' /\ StillTrue(t)'
  BY <1>3, <1>4 DEF CallShape, StillTrue, Active
<1>6. StillRefused(t)'
  BY <1>1, <1>3, <1>4 DEF StillRefused, SameKey, Settled
<1>7. QED
  BY <1>3, <1>4, <1>5, <1>6, OneCall DEF CallOK

LEMMA BeginCreateCalls ==
  ASSUME IInv, IInv', CallsInv, NEW r \in Requests, NEW u \in Users, NEW k \in Keys,
         NEW items \in Payloads, BeginCreate(r, u, k, items)
  PROVE  CallsInv'
<1> DEFINE new == [Idle EXCEPT !.pc = "lock", !.op = "create", !.user = u, !.key = k,
                               !.items = items, !.began = clock]
<1>1. new.pc = "lock" /\ new.op = "create"
  BY DEF Idle
<1>2. tx' = [tx EXCEPT ![r] = new] /\ orders' = orders /\ clock' = clock
  BY DEF BeginCreate
<1> HIDE DEF new
<1>3. r \in Tx /\ tx'[r] = new /\ \A t \in Tx : t # r => tx'[t] = tx[t]
  BY <1>2 DEF IInv, TypeOK, Tx
<1>4. QED
  BY <1>1, <1>2, <1>3, InnerCalls DEF Active

LEMMA BeginCancelCalls ==
  ASSUME IInv, IInv', CallsInv, NEW r \in Requests, NEW o \in OrderIds, BeginCancel(r, o)
  PROVE  CallsInv'
<1>1. PICK d \in ItemPairs(orders, {o}) : tx' = [tx EXCEPT ![r] = Fresh({o}, d, "cancel")]
  BY DEF BeginCancel, Fresh
<1>2. TypeOK /\ r \in Tx /\ {o} \in SUBSET Placed(orders) /\ orders' = orders /\ clock' = clock
  BY DEF IInv, Tx, BeginCancel
<1>3. /\ tx'[r] = Fresh({o}, d, "cancel")
      /\ \A t \in Tx : t # r => tx'[t] = tx[t]
  BY <1>1, <1>2 DEF TypeOK
<1>4. tx'[r].pc = "restock" /\ tx'[r].op = "cancel" /\ tx'[r].batch = {o}
  BY <1>3 DEF Fresh, Idle
<1>5. CallOK(r)'
  BY <1>4 DEF CallOK, CallShape, StillTrue, StillRefused, Active
<1>6. QED
  BY <1>2, <1>3, <1>5, SameOrders, OneCall

\* A janitor round: the rows of its query.
LEMMA BeginStaleCalls ==
  ASSUME IInv, IInv', CallsInv, NEW j \in Janitors, NEW S \in SUBSET OrderIds,
         BeginStale(j, S)
  PROVE  CallsInv'
<1>1. PICK d \in ItemPairs(orders, S) : tx' = [tx EXCEPT ![j] = Fresh(S, d, "stale")]
  BY DEF BeginStale, Fresh
<1>2. S # {} /\ \A o \in S : Stale(o)
  BY DEF BeginStale, Batches, Oldest
<1>3. Cardinality(S) <= BatchLimit
  BY BoundsAssumption DEF BeginStale, Batches, Oldest
<1>4. /\ TypeOK /\ j \in Tx /\ S \in SUBSET Placed(orders) /\ orders' = orders
      /\ clock' = clock
  BY <1>2 DEF IInv, Tx, BeginStale, Stale, Pending
<1>5. /\ tx'[j] = Fresh(S, d, "stale")
      /\ \A t \in Tx : t # j => tx'[t] = tx[t]
  BY <1>1, <1>4 DEF TypeOK
<1>6. tx'[j].pc = "restock" /\ tx'[j].op = "stale" /\ tx'[j].batch = S
  BY <1>5 DEF Fresh, Idle
<1>7. \A o \in S : Stale(o)'
  BY <1>2, <1>4 DEF Stale, Pending, Placed
<1>8. CallOK(j)'
  BY <1>2, <1>3, <1>6, <1>7 DEF CallOK, CallShape, StillTrue, StillRefused, Active
<1>9. QED
  BY <1>4, <1>5, <1>8, SameOrders, OneCall

LEMMA BeginStaleEmptyCalls ==
  ASSUME IInv, IInv', CallsInv, NEW j \in Janitors, BeginStaleEmpty(j)
  PROVE  CallsInv'
<1> DEFINE new == [Idle EXCEPT !.pc = "abandoned", !.op = "stale"]
<1>1. new.pc = "abandoned" /\ new.op = "stale" /\ new.batch = {}
  BY DEF Idle
<1>2. tx' = [tx EXCEPT ![j] = new] /\ orders' = orders /\ clock' = clock
  BY DEF BeginStaleEmpty
<1> HIDE DEF new
<1>3. j \in Tx /\ tx'[j] = new /\ \A t \in Tx : t # j => tx'[t] = tx[t]
  BY <1>2 DEF IInv, TypeOK, Tx
<1>4. Cardinality({}) <= BatchLimit
  BY FS_EmptySet, BoundsAssumption
<1>5. CallOK(j)'
  BY <1>1, <1>3, <1>4 DEF CallOK, CallShape, StillTrue, StillRefused, Active
<1>6. QED
  BY <1>2, <1>3, <1>5, SameOrders, OneCall

LEMMA ConfirmCalls ==
  ASSUME IInv, IInv', CallsInv, NEW r \in Requests, NEW o \in OrderIds, Confirm(r, o)
  PROVE  CallsInv'
<1> DEFINE new == [Idle EXCEPT !.op = "confirm", !.batch = {o},
                               !.answer = IF Settled(o) THEN "refused" ELSE "ok"]
<1>1. /\ new.pc = "idle" /\ new.op = "confirm" /\ new.batch = {o}
      /\ new.answer = IF Settled(o) THEN "refused" ELSE "ok"
  BY DEF Idle
<1>2. tx' = [tx EXCEPT ![r] = new] /\ clock' = clock /\ o \in Placed(orders)
  BY DEF Confirm
<1> HIDE DEF new
<1>3. r \in Tx /\ tx'[r] = new /\ \A t \in Tx : t # r => tx'[t] = tx[t]
  BY <1>2 DEF IInv, TypeOK, Tx
<1>4. RowsSettle
  BY <1>2, SettlesOnConfirm DEF RowsSettle, IInv, TypeOK
<1>5. o \in Placed(orders)'
  BY <1>2, <1>4, SettledRows DEF RowsSettle, IInv
<1>6. IF Settled(o) THEN orders'[o].status \in {"cancelled", "confirmed"}
                    ELSE orders'[o].status = "confirmed"
  <2>1. orders[o] \in Order /\ orders \in [OrderIds -> Order \cup {NoOrder}]
    BY <1>2, PlacedType DEF IInv, TypeOK
  <2>2. QED
    BY <2>1 DEF Confirm, Settled, Order
<1>7. CallOK(r)'
  BY <1>1, <1>3, <1>5, <1>6 DEF CallOK, CallShape, StillTrue, StillRefused, Active
<1>8. QED
  BY <1>3, <1>4, <1>7, OneCall

LEMMA LockItemCalls ==
  ASSUME IInv, IInv', CallsInv, NEW r \in Requests, LockItem(r)
  PROVE  CallsInv'
<1>1. r \in Tx /\ TypeOK
  BY DEF Tx, IInv
<1>2. CASE Rollback(r, "invalid") \/ Rollback(r, "insufficient")
  BY <1>1, <1>2, RollbackCalls
<1>3. CASE /\ tx' = [tx EXCEPT ![r].seen = @ + 1]
           /\ UNCHANGED <<orders, clock>>
  <2>1. tx'[r] = [tx[r] EXCEPT !.seen = @ + 1] /\ \A t \in Tx : t # r => tx'[t] = tx[t]
    BY <1>1, <1>3 DEF TypeOK
  <2>2. SameCall(r)
    BY <1>1, <2>1, TxFields DEF SameCall, Active, TxState
  <2>3. QED
    BY <1>1, <1>3, <2>1, <2>2, InnerCalls
<1>4. QED
  BY <1>2, <1>3 DEF LockItem

LEMMA InsertOrderCalls ==
  ASSUME IInv, IInv', CallsInv, NEW r \in Requests, NEW o \in OrderIds, InsertOrder(r, o)
  PROVE  CallsInv'
<1>1. r \in Tx /\ TypeOK /\ tx[r].pc = "lock"
  BY DEF Tx, IInv, InsertOrder
<1>2. tx' = [tx EXCEPT ![r].pc = "write", ![r].batch = {o}] /\ orders' = orders
      /\ clock' = clock
  BY DEF InsertOrder
<1>3. /\ tx'[r] = [tx[r] EXCEPT !.pc = "write", !.batch = {o}]
      /\ \A t \in Tx : t # r => tx'[t] = tx[t]
  BY <1>1, <1>2 DEF TypeOK
<1>4. tx[r].op = "create"
  BY <1>1 DEF IInv, TxShape, Cancelling, CancelShape, Active
<1>5. tx'[r].pc = "write" /\ tx'[r].op = "create"
  BY <1>1, <1>3, <1>4, TxFields DEF TxState
<1>6. QED
  BY <1>1, <1>2, <1>3, <1>5, InnerCalls DEF Active

\* ErrDuplicateIdempotencyKey: the row that is in the way is committed.
LEMMA InsertRefusedCalls ==
  ASSUME IInv, IInv', CallsInv, NEW r \in Requests, InsertRefused(r)
  PROVE  CallsInv'
BY RollbackCalls DEF InsertRefused, KeyTaken, Tx

LEMMA WriteItemsCalls ==
  ASSUME IInv, IInv', CallsInv, NEW r \in Requests, WriteItems(r)
  PROVE  CallsInv'
<1>1. r \in Tx /\ TypeOK /\ tx[r].pc = "write"
  BY DEF Tx, IInv, WriteItems
<1>2. CASE Rollback(r, "error")
  BY <1>1, <1>2, RollbackCalls
<1>3. CASE tx' = [tx EXCEPT ![r].pc = "commit"] /\ UNCHANGED <<orders, clock>>
  <2>1. tx'[r] = [tx[r] EXCEPT !.pc = "commit"] /\ \A t \in Tx : t # r => tx'[t] = tx[t]
    BY <1>1, <1>3 DEF TypeOK
  <2>2. SameCall(r)
    BY <1>1, <2>1, TxFields DEF SameCall, Active, TxState
  <2>3. QED
    BY <1>1, <1>3, <2>1, <2>2, InnerCalls
<1>4. QED
  BY <1>2, <1>3 DEF WriteItems

LEMMA RestockItemCalls ==
  ASSUME IInv, IInv', CallsInv, NEW t \in Tx, RestockItem(t)
  PROVE  CallsInv'
<1> DEFINE rest == tx[t].todo \ {tx[t].cur}
           same == {d \in rest : d[1] = tx[t].cur[1]}
<1>1. TypeOK /\ tx[t].pc = "restock" /\ orders' = orders /\ clock' = clock
  BY DEF IInv, RestockItem
<1>2. \/ tx' = [tx EXCEPT ![t].todo = rest, ![t].pc = "mark"]
      \/ \E d \in same : tx' = [tx EXCEPT ![t].todo = rest, ![t].cur = d]
  BY DEF RestockItem
<1> HIDE DEF rest, same
<1>3. CASE tx' = [tx EXCEPT ![t].todo = rest, ![t].pc = "mark"]
  <2>1. /\ tx'[t] = [tx[t] EXCEPT !.todo = rest, !.pc = "mark"]
        /\ \A u \in Tx : u # t => tx'[u] = tx[u]
    BY <1>1, <1>3 DEF TypeOK
  <2>2. SameCall(t)
    BY <1>1, <2>1, TxFields DEF SameCall, Active, TxState
  <2>3. QED
    BY <1>1, <2>1, <2>2, InnerCalls
<1>4. CASE \E d \in same : tx' = [tx EXCEPT ![t].todo = rest, ![t].cur = d]
  <2>1. PICK d \in same : tx' = [tx EXCEPT ![t].todo = rest, ![t].cur = d]
    BY <1>4
  <2>2. /\ tx'[t] = [tx[t] EXCEPT !.todo = rest, !.cur = d]
        /\ \A u \in Tx : u # t => tx'[u] = tx[u]
    BY <1>1, <2>1 DEF TypeOK
  <2>3. SameCall(t)
    BY <1>1, <2>2, TxFields DEF SameCall, Active, TxState
  <2>4. QED
    BY <1>1, <2>2, <2>3, InnerCalls
<1>5. QED
  BY <1>2, <1>3, <1>4

LEMMA MarkOrderCalls ==
  ASSUME IInv, IInv', CallsInv, NEW t \in Tx, tx[t].pc = "mark", MarkOrder(t)
  PROVE  CallsInv'
<1> DEFINE done == tx[t].marked \cup {tx[t].cur[1]}
<1>1. TypeOK /\ orders' = orders /\ clock' = clock
  BY DEF IInv, MarkOrder
<1>2. \/ tx' = [tx EXCEPT ![t].marked = done, ![t].pc = "commit"]
      \/ \E d \in tx[t].todo :
           tx' = [tx EXCEPT ![t].marked = done, ![t].pc = "restock", ![t].cur = d]
  BY DEF MarkOrder
<1> HIDE DEF done
<1>3. CASE tx' = [tx EXCEPT ![t].marked = done, ![t].pc = "commit"]
  <2>1. /\ tx'[t] = [tx[t] EXCEPT !.marked = done, !.pc = "commit"]
        /\ \A u \in Tx : u # t => tx'[u] = tx[u]
    BY <1>1, <1>3 DEF TypeOK
  <2>2. SameCall(t)
    BY <1>1, <2>1, TxFields DEF SameCall, Active, TxState
  <2>3. QED
    BY <1>1, <2>1, <2>2, InnerCalls
<1>4. CASE \E d \in tx[t].todo :
             tx' = [tx EXCEPT ![t].marked = done, ![t].pc = "restock", ![t].cur = d]
  <2>1. PICK d \in tx[t].todo :
          tx' = [tx EXCEPT ![t].marked = done, ![t].pc = "restock", ![t].cur = d]
    BY <1>4
  <2>2. /\ tx'[t] = [tx[t] EXCEPT !.marked = done, !.pc = "restock", !.cur = d]
        /\ \A u \in Tx : u # t => tx'[u] = tx[u]
    BY <1>1, <2>1 DEF TypeOK
  <2>3. SameCall(t)
    BY <1>1, <2>2, TxFields DEF SameCall, Active, TxState
  <2>4. QED
    BY <1>1, <2>2, <2>3, InnerCalls
<1>5. QED
  BY <1>2, <1>3, <1>4

LEMMA AbandonCalls ==
  ASSUME IInv, IInv', CallsInv, NEW t \in Tx, Active(t), Abandon(t)
  PROVE  CallsInv'
<1>1. /\ TypeOK /\ orders' = orders /\ clock' = clock
      /\ tx' = [tx EXCEPT ![t].pc = "abandoned"]
  BY DEF IInv, Abandon
<1>2. tx'[t] = [tx[t] EXCEPT !.pc = "abandoned"] /\ \A u \in Tx : u # t => tx'[u] = tx[u]
  BY <1>1 DEF TypeOK
<1>3. SameCall(t)
  BY <1>1, <1>2, TxFields DEF SameCall, Active, TxState
<1>4. QED
  BY <1>1, <1>2, <1>3, InnerCalls

\* The orders of a COMMIT are there afterwards, as the caller will be told.
LEMMA CommitAnyCalls ==
  ASSUME IInv, IInv', CallsInv, NEW t \in Tx, NEW a \in {"ok", "error"}, CommitAny(t, a)
  PROVE  CallsInv'
<1>1. TypeOK /\ tx[t].pc = "commit" /\ tx' = Answered(t, a) /\ clock' = clock
  BY DEF IInv, CommitAny, CommitCreate, CommitCancel, CommitStale, Commit
<1>2. /\ tx'[t].pc = "idle" /\ tx'[t].op = tx[t].op /\ tx'[t].user = tx[t].user
      /\ tx'[t].key = tx[t].key /\ tx'[t].batch = tx[t].batch /\ tx'[t].answer = a
      /\ \A u \in Tx : u # t => tx'[u] = tx[u]
  BY <1>1, AnsweredFields
<1>3. RowsSettle
  BY <1>1, SettlesOnCommit DEF RowsSettle, TypeOK
<1>4. CallShape(t)' /\ StillRefused(t)'
  BY <1>2 DEF CallShape, StillRefused, Active
<1>5. CASE CommitCreate(t, a)
  <2>1. \A o \in tx[t].batch : o \in OrderIds /\ orders'[o] = NewOrder(t)
    BY <1>1, <1>5, TxFields DEF CommitCreate
  <2>2. NewOrder(t) \in Order /\ tx[t].op = "create"
    <3>1. CreateShape(t) /\ tx[t].op = "create"
      BY <1>1, <1>5 DEF CommitCreate, IInv, TxShape, Creating, Active
    <3>2. tx[t].items \in Seq(Item) /\ tx[t].began \in Nat
      BY <1>1, TxFields
    <3>3. Quantities(tx[t].items) \in [Products -> Nat]
      BY <3>2, QuantitiesType
    <3>4. QED
      BY <3>1, <3>2, <3>3 DEF CreateShape, NewOrder, Order, Status
  <2>3. \A o \in tx[t].batch : o \in Placed(orders)' /\ SameKey(t, orders[o])'
    BY <1>2, <2>1, <2>2, NoOrderAssumption DEF Placed, SameKey, NewOrder
  <2>4. StillTrue(t)'
    BY <1>2, <2>2, <2>3 DEF StillTrue
  <2>5. QED
    BY <1>2, <1>3, <1>4, <2>4, OneCall DEF CallOK
<1>6. CASE CommitCancel(t, a) \/ CommitStale(t, a)
  <2>1. CancelMarked(t) /\ tx[t].op \in {"cancel", "stale"}
    BY <1>6 DEF CommitCancel, CommitStale
  <2>2. CancelShape(t)
    BY <1>1, <2>1 DEF IInv, TxShape, Cancelling, Active
  <2>3. tx[t].marked = tx[t].batch /\ tx[t].batch \subseteq Placed(orders)
    BY <1>1, <2>2 DEF CancelShape
  <2>4. \A o \in tx[t].batch : orders[o] \in Order /\ o \in OrderIds
    BY <1>1, <2>3, PlacedType
  <2>5. \A o \in tx[t].batch : orders'[o] = [orders[o] EXCEPT !.status = "cancelled"]
    BY <2>1, <2>3, <2>4 DEF CancelMarked
  <2>6. \A o \in tx[t].batch : orders'[o].status = "cancelled"
    BY <2>4, <2>5 DEF Order
  <2>7. \A o \in tx[t].batch : o \in Placed(orders)'
    BY <1>1, <1>3, <2>3, SettledRows DEF RowsSettle
  <2>8. StillTrue(t)'
    BY <1>2, <2>1, <2>6, <2>7 DEF StillTrue
  <2>9. QED
    BY <1>2, <1>3, <1>4, <2>8, OneCall DEF CallOK
<1>7. QED
  BY <1>5, <1>6 DEF CommitAny

\* ErrOrderCannotBeCancelled of Cancel: the order restocked is the one it is about.
LEMMA CancelMarkCalls ==
  ASSUME IInv, IInv', CallsInv, NEW r \in Requests, CancelMark(r)
  PROVE  CallsInv'
<1>1. r \in Tx /\ TypeOK /\ tx[r].pc = "mark" /\ tx[r].op = "cancel"
  BY DEF Tx, IInv, CancelMark
<1>2. CASE Settled(tx[r].cur[1]) /\ Rollback(r, "refused")
  <2>1. PICK o \in OrderIds : tx[r].batch = {o}
    BY <1>1 DEF CallsInv, CallOK, CallShape, Active
  <2>2. CancelShape(r)
    BY <1>1 DEF IInv, TxShape, Cancelling, Active
  <2>3. tx[r].batch \in SUBSET Placed(orders) /\ tx[r].cur \in ItemPairs(orders, tx[r].batch)
    BY <1>1, <2>2 DEF CancelShape
  <2>4. tx[r].cur[1] \in tx[r].batch
    BY <1>1, <2>3, PairOf
  <2>5. \A x \in tx[r].batch : x \in Placed(orders) /\ Settled(x)
    BY <1>2, <2>1, <2>3, <2>4
  <2>6. QED
    BY <1>1, <1>2, <2>5, RollbackCalls
<1>3. CASE MarkOrder(r)
  BY <1>1, <1>3, MarkOrderCalls
<1>4. QED
  BY <1>2, <1>3 DEF CancelMark

LEMMA RequestStepCalls ==
  ASSUME IInv, IInv', CallsInv, NEW r \in Requests, RequestStep(r)
  PROVE  CallsInv'
<1>1. r \in Tx
  BY DEF Tx
<1>2. CASE CommitCreate(r, "ok") \/ CommitCancel(r, "ok")
  BY <1>1, <1>2, CommitAnyCalls DEF CommitAny
<1>3. CASE LockItem(r) \/ (\E o \in OrderIds : InsertOrder(r, o)) \/ InsertRefused(r)
  BY <1>3, LockItemCalls, InsertOrderCalls, InsertRefusedCalls
<1>4. CASE WriteItems(r) \/ CancelRestock(r) \/ CancelMark(r)
  BY <1>1, <1>4, WriteItemsCalls, RestockItemCalls, CancelMarkCalls DEF CancelRestock
<1>5. QED
  BY <1>2, <1>3, <1>4 DEF RequestStep

LEMMA JanitorStepCalls ==
  ASSUME IInv, IInv', CallsInv, NEW j \in Janitors, JanitorStep(j)
  PROVE  CallsInv'
<1>1. j \in Tx
  BY DEF Tx
<1>2. CASE StaleRestock(j)
  BY <1>1, <1>2, RestockItemCalls DEF StaleRestock
<1>3. CASE StaleMark(j)
  BY <1>1, <1>3, AbandonCalls, MarkOrderCalls DEF StaleMark, Active
<1>4. CASE CommitStale(j, "ok")
  BY <1>1, <1>4, CommitAnyCalls DEF CommitAny
<1>5. CASE RollbackAbandoned(j)
  BY <1>1, <1>5, RollbackCalls DEF RollbackAbandoned
<1>6. QED
  BY <1>2, <1>3, <1>4, <1>5 DEF JanitorStep

LEMMA FaultCalls ==
  ASSUME IInv, IInv', CallsInv, NEW t \in Tx, TxTimeout(t) \/ CommitUnanswered(t)
  PROVE  CallsInv'
<1>1. CASE TxTimeout(t)
  BY <1>1, AbandonCalls, RollbackCalls DEF TxTimeout
<1>2. CASE CommitUnanswered(t)
  BY <1>2, CommitAnyCalls DEF CommitUnanswered
<1>3. QED
  BY <1>1, <1>2

LEMMA CallsNext == IInv /\ CallsInv /\ [Next]_vars => CallsInv'
<1> SUFFICES ASSUME IInv, CallsInv, [Next]_vars PROVE CallsInv'
  OBVIOUS
<1>1. IInv'
  BY NextInv
<1>2. ASSUME UNCHANGED <<orders, tx>>, clock <= clock' PROVE CallsInv'
  <2>1. RowsSettle
    BY <1>2 DEF RowsSettle, Settles
  <2>2. \A u \in Tx : CallOK(u)'
    BY <1>1, <1>2, <2>1, CallFrame DEF CallsInv, SameCall, Active
  <2>3. QED
    BY <2>2 DEF CallsInv
<1>3. CASE Tick \/ (\E p \in Products, n \in StockLevels : CreateProduct(p, n))
           \/ UNCHANGED vars
  <2>1. clock <= clock'
    BY <1>3 DEF Tick, CreateProduct, vars, IInv, TypeOK
  <2>2. QED
    BY <1>2, <1>3, <2>1 DEF Tick, CreateProduct, vars
<1>4. CASE \E r \in Requests : NewRequest(r) \/ RequestStep(r)
  BY <1>1, <1>4, BeginCreateCalls, BeginCancelCalls, ConfirmCalls, RequestStepCalls
  DEF NewRequest
<1>5. CASE \E j \in Janitors : JanitorTick(j) \/ JanitorStep(j)
  BY <1>1, <1>5, BeginStaleCalls, BeginStaleEmptyCalls, JanitorStepCalls DEF JanitorTick
<1>6. CASE \E t \in Tx : DeadlockVictim(t)
  BY <1>1, <1>6, RollbackCalls DEF DeadlockVictim
<1>7. CASE Fault
  BY <1>1, <1>7, FaultCalls DEF Fault
<1>8. QED
  BY <1>3, <1>4, <1>5, <1>6, <1>7 DEF Next

LEMMA CallsInit == Init => CallsInv
BY DEF Init, Idle, CallsInv, CallOK, CallShape, StillTrue, StillRefused, Active

\* What a call is about while it runs, and what its caller knows afterwards.
THEOREM OrderStoreCalls == Spec => []CallsInv
BY CallsInit, CallsNext, OrderStoreInvariant, PTL DEF Spec

\* Whatever else commits, times out or deadlocks afterwards, the rows are as a nil
\* error of Create, Cancel, Confirm or CancelStale said.
THEOREM OrderStoreSuccessStands == Spec => []SuccessStands
<1>1. CallsInv => SuccessStands
  BY DEF CallsInv, CallOK, SuccessStands
<1>2. QED
  BY <1>1, OrderStoreCalls, PTL

\* Who was told ErrDuplicateIdempotencyKey finds the order, and who was told
\* ErrOrderCannotBeCancelled had asked about an order that is settled for good.
THEOREM OrderStoreRefusalsJustified == Spec => []RefusalsJustified
<1>1. CallsInv => RefusalsJustified
  BY DEF CallsInv, CallOK, RefusalsJustified
<1>2. QED
  BY <1>1, OrderStoreCalls, PTL

-----------------------------------------------------------------------------
(* OrderStore implements Inventory: a COMMIT is one operation of it, Confirm *)
(* is one or shows nothing, and no other step of a transaction shows.        *)

\* The units that come back with the orders S of t are those in its drafts.
LEMMA CancelledDraft ==
  ASSUME IInv, NEW t \in Tx, tx[t].pc = "commit", tx[t].op \in {"cancel", "stale"},
         NEW p \in Products
  PROVE  (IF prodLock[p] = t THEN draft[p] ELSE stock[p])
           = stock[p] + Cardinality(Units(orders, tx[t].batch, p))
<1>1. TypeOK /\ Cancelling(t) /\ CancelShape(t)
  BY DEF IInv, TxShape, Cancelling, Active
<1>2. tx[t].todo = {} /\ tx[t].batch \in SUBSET Placed(orders)
  BY <1>1 DEF CancelShape
<1>3. Restocked(t, p) = tx[t].batch
  BY <1>2 DEF Restocked
<1>4. CASE prodLock[p] = t
  <2>1. DraftOf(t, p)
    BY <1>4, NoneIsNoTx DEF IInv, DraftInv
  <2>2. QED
    BY <1>1, <1>3, <1>4, <2>1 DEF DraftOf
<1>5. CASE prodLock[p] # t
  <2>1. \A o \in tx[t].batch : orders[o].items[p] = 0
    <3> TAKE o \in tx[t].batch
    <3>1. orders[o].items[p] \in Nat
      BY <1>1, <1>2, PlacedType
    <3>2. ~(orders[o].items[p] > 0)
      BY <1>1, <1>2, <1>5 DEF CancelShape
    <3>3. QED
      BY <3>1, <3>2
  <2>2. Cardinality(Units(orders, tx[t].batch, p)) = 0
    BY <2>1, UnitsNone, FS_EmptySet
  <2>3. stock[p] \in Nat
    BY <1>1 DEF TypeOK
  <2>4. QED
    BY <1>5, <2>2, <2>3
<1>6. QED
  BY <1>4, <1>5

\* The definitions of Ledger mean the same in Abstract.
LEMMA SameLedger ==
  /\ Abstract!Placed(orders) = Placed(orders)
  /\ Abstract!Pending(orders) = Pending(orders)
  /\ Abstract!Catalog = Catalog
<1>1. Abstract!Placed(orders) = Placed(orders)
  BY DEF Abstract!Placed, Placed
<1>2. Abstract!Pending(orders) = Pending(orders)
  BY <1>1 DEF Abstract!Pending, Pending
<1>3. Abstract!Catalog = Catalog
  BY DEF Abstract!Catalog, Catalog, Abstract!NoProduct, NoProduct
<1>4. QED
  BY <1>1, <1>2, <1>3

LEMMA SameCardinality ==
  ASSUME NEW S
  PROVE  Abstract!Cardinality(S) = Cardinality(S)
BY DEF Abstract!Cardinality, Cardinality

LEMMA SameUnits ==
  ASSUME NEW S, NEW p
  PROVE  Abstract!Units(orders, S, p) = Units(orders, S, p)
BY DEF Abstract!Units, Units

\* COMMIT of Cancel and of CancelStale.
LEMMA CommitReleases ==
  ASSUME IInv, NEW t \in Tx, NEW a, CommitCancel(t, a) \/ CommitStale(t, a)
  PROVE  Abstract!Release(tx[t].batch)
<1>1. /\ TypeOK /\ tx[t].pc = "commit" /\ tx[t].op \in {"cancel", "stale"}
      /\ CancelMarked(t) /\ Commit(t, a)
  BY DEF IInv, CommitCancel, CommitStale
<1>2. CancelShape(t)
  BY <1>1 DEF IInv, TxShape, Cancelling, Active
<1>3. /\ tx[t].marked = tx[t].batch
      /\ tx[t].batch \subseteq Placed(orders)
      /\ \A o \in tx[t].marked : orders[o].status = "pending"
  BY <1>1, <1>2 DEF CancelShape
<1>4. tx[t].batch \subseteq Pending(orders)
  BY <1>3 DEF Pending
<1>5. stock' = [p \in Products |-> stock[p] + Cardinality(Units(orders, tx[t].batch, p))]
  BY <1>1, CancelledDraft DEF Commit, PublishDrafts
<1>6. UNCHANGED <<supply, clock>>
  BY <1>1 DEF Commit
<1>7. orders' = [o \in OrderIds |->
                   IF o \in tx[t].batch THEN [orders[o] EXCEPT !.status = "cancelled"]
                                        ELSE orders[o]]
  BY <1>1, <1>3 DEF CancelMarked
<1>8. stock' = [p \in Products |->
                  stock[p] + Abstract!Cardinality(Abstract!Units(orders, tx[t].batch, p))]
  BY <1>5, SameUnits, SameCardinality
<1>9. QED
  BY <1>4, <1>6, <1>7, <1>8, SameLedger DEF Abstract!Release

LEMMA CommitCancelImplements ==
  ASSUME IInv, CallsInv, NEW t \in Tx, NEW a, CommitCancel(t, a)
  PROVE  Abstract!Next
<1>1. PICK o \in OrderIds : tx[t].batch = {o}
  BY DEF CommitCancel, CallsInv, CallOK, CallShape, Active
<1>2. Abstract!Cancel(o)
  BY <1>1, CommitReleases DEF Abstract!Cancel
<1>3. QED
  BY <1>2 DEF Abstract!Next

LEMMA CommitStaleImplements ==
  ASSUME IInv, CallsInv, NEW t \in Tx, NEW a, CommitStale(t, a)
  PROVE  Abstract!Next
<1> DEFINE S == tx[t].batch
<1>1. /\ S # {}
      /\ Cardinality(S) <= BatchLimit
      /\ \A o \in S : Stale(o)
  BY DEF CommitStale, CallsInv, CallOK, CallShape, Active
<1>2. \A o \in S : Abstract!Stale(o)
  BY <1>1, SameLedger DEF Stale, Abstract!Stale
<1>3. Abstract!Release(S) /\ S \in SUBSET OrderIds
  BY CommitReleases, TxFields DEF IInv
<1>4. Abstract!CancelStale(S)
  BY <1>1, <1>2, <1>3, SameCardinality DEF Abstract!CancelStale
<1>5. QED
  BY <1>3, <1>4 DEF Abstract!Next

\* COMMIT of Create: what it takes is in stock when it commits.
LEMMA CommitCreateImplements ==
  ASSUME IInv, NEW t \in Tx, NEW a, CommitCreate(t, a)
  PROVE  Abstract!Next
<1> DEFINE basket == Quantities(tx[t].items)
<1>1. /\ TypeOK /\ tx[t].pc = "commit" /\ tx[t].op = "create" /\ Creating(t)
      /\ CreateShape(t) /\ Inserted(t) /\ Commit(t, a)
  BY DEF IInv, CommitCreate, TxShape, Creating, Active, Inserted
<1>2. PICK o \in OrderIds : tx[t].batch = {o} /\ orders[o] = NoOrder
  BY <1>1 DEF CreateShape
<1>3. /\ tx[t].items \in Seq(Item) /\ Len(tx[t].items) \in Nat \ {0}
      /\ tx[t].seen = Len(tx[t].items) /\ ~ProductTwice(tx[t].items)
      /\ tx[t].user \in Users /\ tx[t].key \in Keys /\ tx[t].items \in Payloads
  <2>1. tx[t].items \in Seq(Item) \ {<<>>}
    BY <1>1, PayloadAssumption DEF CreateShape
  <2>2. QED
    BY <1>1, <2>1 DEF CreateShape
<1>4. tx[t].began \in 0 .. clock
  BY <1>1, TxFields DEF CreateShape, TypeOK
<1>5. /\ basket \in [Products -> Nat]
      /\ basket \in {Quantities(items) : items \in Payloads}
  BY <1>3, QuantitiesType
<1>6. \E p \in Products : basket[p] > 0
  BY <1>3, QuantitiesOfLine
<1>7. ASSUME NEW p \in Products, prodLock[p] = t
      PROVE  draft[p] = stock[p] - basket[p]
  <2>1. DraftOf(t, p)
    BY <1>7, NoneIsNoTx DEF IInv, DraftInv
  <2>2. QED
    BY <1>1, <2>1 DEF DraftOf
<1>8. ASSUME NEW p \in Products, basket[p] > 0
      PROVE  prodLock[p] = t
  <2>1. PICK i \in 1 .. Len(tx[t].items) : tx[t].items[i].product = p
    BY <1>3, <1>8, QuantitiesType
  <2>2. QED
    BY <1>1, <1>3, <2>1 DEF CreateShape
<1>9. Abstract!InStock(basket)
  <2> SUFFICES ASSUME NEW p \in Products, basket[p] > 0
               PROVE  p \in Catalog /\ basket[p] <= stock[p]
    BY SameLedger DEF Abstract!InStock
  <2>1. prodLock[p] = t /\ draft[p] = stock[p] - basket[p]
    BY <1>7, <1>8
  <2>2. draft[p] \in Nat /\ stock[p] \in Nat /\ basket[p] \in Nat
    BY <1>1, <1>5 DEF TypeOK
  <2>3. p \in Catalog
    BY <2>1, NoneIsNoTx DEF IInv, RowsExist
  <2>4. QED
    BY <2>1, <2>2, <2>3
<1>10. stock' = [p \in Products |-> stock[p] - basket[p]]
  <2>1. \A p \in Products :
          (IF prodLock[p] = t THEN draft[p] ELSE stock[p]) = stock[p] - basket[p]
    <3> TAKE p \in Products
    <3>1. CASE prodLock[p] = t
      BY <3>1, <1>7
    <3>2. CASE prodLock[p] # t
      <4>1. basket[p] = 0 /\ stock[p] \in Nat
        BY <3>2, <1>1, <1>5, <1>8 DEF TypeOK
      <4>2. QED
        BY <3>2, <4>1
    <3>3. QED
      BY <3>1, <3>2
  <2>2. stock' = [p \in Products |-> IF prodLock[p] = t THEN draft[p] ELSE stock[p]]
    BY <1>1 DEF Commit, PublishDrafts
  <2> HIDE DEF basket
  <2>3. QED
    BY <2>1, <2>2
<1>11. orders' = [orders EXCEPT ![o] =
                    [user |-> tx[t].user, key |-> tx[t].key, items |-> basket,
                     status |-> "pending", placedAt |-> tx[t].began]]
  BY <1>1, <1>2 DEF CommitCreate, NewOrder, TypeOK
<1>12. \A x \in Placed(orders) : ~(orders[x].user = tx[t].user /\ orders[x].key = tx[t].key)
  BY <1>1 DEF CreateShape, SameKey
<1>13. UNCHANGED <<supply, clock>>
  BY <1>1 DEF Commit
<1> HIDE DEF basket
<1>14. Abstract!Place(o, tx[t].user, tx[t].key, basket, tx[t].began)
  BY <1>2, <1>6, <1>9, <1>10, <1>11, <1>12, <1>13, SameLedger DEF Abstract!Place
<1>15. QED
  BY <1>3, <1>4, <1>5, <1>14 DEF Abstract!Next

LEMMA ConfirmImplements ==
  ASSUME IInv, NEW r \in Requests, NEW o \in OrderIds, Confirm(r, o)
  PROVE  Abstract!Next \/ UNCHANGED Abstract!vars
<1>1. TypeOK /\ o \in Placed(orders) /\ UNCHANGED <<supply, stock, clock>>
  BY DEF IInv, Confirm
<1>2. CASE Settled(o)
  BY <1>1, <1>2 DEF Confirm, Abstract!vars
<1>3. CASE ~Settled(o)
  <2>1. orders[o].status = "pending"
    BY <1>1, <1>3, PlacedType DEF Settled, Status
  <2>2. Abstract!Confirm(o)
    BY <1>1, <1>3, <2>1, SameLedger DEF Confirm, Abstract!Confirm, Pending
  <2>3. QED
    BY <2>2 DEF Abstract!Next
<1>4. QED
  BY <1>2, <1>3

LEMMA StoreStepImplements ==
  ASSUME IInv, CallsInv, [Next]_vars
  PROVE  [Abstract!Next]_Abstract!vars
<1>1. CASE UNCHANGED vars
  BY <1>1 DEF vars, Abstract!vars
<1>2. CASE \E t \in Tx, a \in {"ok", "error"} : CommitAny(t, a)
  BY <1>2, CommitCreateImplements, CommitCancelImplements, CommitStaleImplements
  DEF CommitAny
<1>3. CASE \E r \in Requests, o \in OrderIds : Confirm(r, o)
  BY <1>3, ConfirmImplements
<1>4. CASE Tick
  BY <1>4 DEF Tick, Abstract!Tick, Abstract!Next
<1>5. CASE \E p \in Products, n \in StockLevels : CreateProduct(p, n)
  BY <1>5, SameLedger DEF CreateProduct, Abstract!CreateProduct, Abstract!Next
<1>6. QED
  BY <1>1, <1>2, <1>3, <1>4, <1>5, InnerSteps DEF Hidden, Abstract!vars

\* What Inventory assumes of its constants holds of these payloads, so its theorems hold
\* of the rows of OrderStore.
LEMMA PayloadsAreBaskets ==
  /\ {Quantities(items) : items \in Payloads} \subseteq [Products -> Nat]
  /\ StockLevels \subseteq Nat
  /\ CancelPendingInterval \in Nat
  /\ BatchLimit \in Nat \ {0}
  /\ MaxClock \in Nat
<1>1. ASSUME NEW items \in Payloads PROVE Quantities(items) \in [Products -> Nat]
  BY <1>1, PayloadAssumption, QuantitiesType
<1>2. QED
  BY <1>1, BoundsAssumption

\* However the SQL statements of transactions interleave, wait, time out, deadlock or
\* lose their answer, products and orders change as if every operation were atomic.
THEOREM OrderStoreImplementsInventory == Spec => ImplementsInventory
<1>1. Init => Abstract!Init
  BY DEF Init, Abstract!Init, Abstract!NoProduct, NoProduct
<1>2. QED
  BY <1>1, StoreStepImplements, OrderStoreInvariant, OrderStoreCalls, PTL
  DEF Spec, ImplementsInventory, Abstract!Spec

\* Orders that get or change a row in a step show its status afterwards.
LEMMA StatusesNext ==
  ASSUME NEW S \in SUBSET OrderIds, NEW s,
         \A o \in S : orders'[o] \in Order /\ orders'[o].status = s,
         \A o \in OrderIds \ S : orders'[o] = orders[o]
  PROVE  \A o \in OrderIds :
           Statuses(orders)'[o] = IF o \in S THEN s ELSE Statuses(orders)[o]
BY NoOrderAssumption DEF Statuses

LEMMA PlaceAppears ==
  ASSUME TypeOK, NEW o \in OrderIds, NEW u \in Users, NEW k \in Keys,
         NEW basket \in {Quantities(items) : items \in Payloads}, NEW at \in 0 .. clock,
         Abstract!Place(o, u, k, basket, at)
  PROVE  Life!LifeNext
<1> DEFINE x == [user |-> u, key |-> k, items |-> basket, status |-> "pending",
                 placedAt |-> at]
<1>1. x \in Order /\ x.status = "pending"
  BY PayloadsAreBaskets DEF Order, Status, TypeOK
<1>2. orders[o] = NoOrder /\ orders' = [orders EXCEPT ![o] = x]
  BY DEF Abstract!Place
<1> HIDE DEF x
<1>3. /\ \A z \in {o} : orders'[z] \in Order /\ orders'[z].status = "pending"
      /\ \A z \in OrderIds \ {o} : orders'[z] = orders[z]
  BY <1>1, <1>2 DEF TypeOK
<1>4. \A z \in OrderIds :
        Statuses(orders)'[z] = IF z \in {o} THEN "pending" ELSE Statuses(orders)[z]
  BY <1>3, StatusesNext
<1>5. Life!Place(o)
  BY <1>2, <1>4 DEF Life!Place, Statuses
<1>6. QED
  BY <1>5 DEF Life!LifeNext

LEMMA ReleaseSettles ==
  ASSUME TypeOK, NEW S \in SUBSET OrderIds, S # {}, Abstract!Release(S)
  PROVE  Life!LifeNext
<1>1. \A z \in S : orders[z] \in Order /\ orders[z].status = "pending"
  BY SameLedger DEF Abstract!Release, Pending, Placed, TypeOK
<1>2. /\ \A z \in S : orders'[z] = [orders[z] EXCEPT !.status = "cancelled"]
      /\ \A z \in OrderIds \ S : orders'[z] = orders[z]
  BY DEF Abstract!Release
<1>3. \A z \in S : orders'[z] \in Order /\ orders'[z].status = "cancelled"
  BY <1>1, <1>2 DEF Order, Status
<1>4. \A z \in OrderIds :
        Statuses(orders)'[z] = IF z \in S THEN "cancelled" ELSE Statuses(orders)[z]
  BY <1>2, <1>3, StatusesNext
<1>5. \A z \in S : Statuses(orders)[z] = "pending"
  BY <1>1, NoOrderAssumption DEF Statuses
<1>6. QED
  BY <1>4, <1>5 DEF Life!LifeNext, Life!Cancel, Life!Unsettled, Statuses

LEMMA ConfirmSettles ==
  ASSUME TypeOK, NEW o \in OrderIds, Abstract!Confirm(o)
  PROVE  Life!LifeNext
<1>1. /\ orders[o] \in Order /\ orders[o].status = "pending"
      /\ orders' = [orders EXCEPT ![o].status = "confirmed"]
  BY SameLedger DEF Abstract!Confirm, Pending, Placed, TypeOK
<1>2. /\ \A z \in {o} : orders'[z] \in Order /\ orders'[z].status = "confirmed"
      /\ \A z \in OrderIds \ {o} : orders'[z] = orders[z]
  BY <1>1 DEF Order, Status, TypeOK
<1>3. \A z \in OrderIds :
        Statuses(orders)'[z] = IF z \in {o} THEN "confirmed" ELSE Statuses(orders)[z]
  BY <1>2, StatusesNext
<1>4. Statuses(orders)[o] = "pending"
  BY <1>1, NoOrderAssumption DEF Statuses
<1>5. Life!Confirm(o)
  BY <1>3, <1>4 DEF Life!Confirm, Life!Unsettled, Statuses
<1>6. QED
  BY <1>5 DEF Life!LifeNext

\* What the order cache relies on holds of the SQL statements themselves: an order appears
\* pending by one COMMIT and settles by one, and no rollback is ever seen.
THEOREM OrderStoreImplementsOrderLife == Spec => ImplementsOrderLife
<1>1. Init => Life!LifeInit
  BY DEF Init, Life!LifeInit, Statuses
<1>2. IInv /\ CallsInv /\ [Next]_vars => [Life!LifeNext]_(Statuses(orders))
  <2> SUFFICES ASSUME IInv, CallsInv, [Next]_vars
               PROVE  Life!LifeNext \/ UNCHANGED Statuses(orders)
    OBVIOUS
  <2>1. TypeOK /\ [Abstract!Next]_Abstract!vars
    BY StoreStepImplements DEF IInv
  <2>2. CASE UNCHANGED orders
    BY <2>2 DEF Statuses
  <2>3. CASE \E o \in OrderIds, u \in Users, k \in Keys,
                basket \in {Quantities(items) : items \in Payloads},
                at \in 0 .. clock : Abstract!Place(o, u, k, basket, at)
    BY <2>1, <2>3, PlaceAppears
  <2>4. CASE \E o \in OrderIds : Abstract!Cancel(o)
    BY <2>1, <2>4, ReleaseSettles DEF Abstract!Cancel
  <2>5. CASE \E S \in SUBSET OrderIds : Abstract!CancelStale(S)
    BY <2>1, <2>5, ReleaseSettles DEF Abstract!CancelStale
  <2>6. CASE \E o \in OrderIds : Abstract!Confirm(o)
    BY <2>1, <2>6, ConfirmSettles
  <2>7. QED
    BY <2>1, <2>2, <2>3, <2>4, <2>5, <2>6
    DEF Abstract!Next, Abstract!vars, Abstract!Tick, Abstract!CreateProduct
<1>3. QED
  BY <1>1, <1>2, OrderStoreInvariant, OrderStoreCalls, PTL
  DEF Spec, ImplementsOrderLife, Life!LifeSpec
=============================================================================
