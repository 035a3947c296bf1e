--------------------------- MODULE OrderStoreInv ----------------------------
(***************************************************************************)
(* The inductive invariant of OrderStore: what each transaction has done   *)
(* so far, what its drafts therefore are, and which rows it holds.  TLC    *)
(* checks it on small instances; OrderStoreProofs proves it inductive.     *)
(***************************************************************************)
EXTENDS OrderStore

Creating(t) == Active(t) /\ tx[t].op = "create"

\* Cancel and CancelStale; an abandoned CancelStale included.
Cancelling(t) == Active(t) /\ tx[t].op \in {"cancel", "stale"}

(***************************************************************************)
(* A Create holds the product rows it has seen, and they have the stock it  *)
(* needs; once its orders row is inserted it has seen them all, and the row *)
(* is in nobody else's way.                                                 *)
(***************************************************************************)
CreateShape(t) ==
  /\ t \in Requests
  /\ tx[t].pc \in {"lock", "write", "commit"}
  /\ tx[t].user \in Users
  /\ tx[t].key \in Keys
  /\ tx[t].items \in Payloads
  /\ tx[t].seen <= Len(tx[t].items)
  /\ tx[t].began <= clock
  /\ \A i \in 1 .. tx[t].seen :
       /\ prodLock[tx[t].items[i].product] = t
       /\ tx[t].pc # "commit" =>
            tx[t].items[i].quantity <= draft[tx[t].items[i].product]
  /\ Inserted(t) =>
       /\ tx[t].seen = Len(tx[t].items)
       /\ \E o \in OrderIds : tx[t].batch = {o} /\ orders[o] = NoOrder
       /\ \A x \in Placed(orders) : ~SameKey(t, orders[x])
  /\ tx[t].pc = "commit" => ~ProductTwice(tx[t].items)

(***************************************************************************)
(* A Cancel or CancelStale has put back every item it has taken off its    *)
(* list, holding the product's row, and marked only orders with nothing    *)
(* left on the list.                                                       *)
(***************************************************************************)
CancelShape(t) ==
  /\ tx[t].pc \in {"restock", "mark", "commit", "abandoned"}
  /\ IF tx[t].op = "stale" THEN t \in Janitors
                           ELSE t \in Requests /\ tx[t].pc # "abandoned"
  /\ tx[t].batch \subseteq Placed(orders)
  /\ tx[t].todo \subseteq ItemPairs(orders, tx[t].batch)
  /\ tx[t].marked \subseteq tx[t].batch
  /\ \A o \in tx[t].marked : orderLock[o] = t /\ orders[o].status = "pending"
  /\ \A d \in tx[t].todo : d[1] \notin tx[t].marked
  /\ tx[t].op = "stale" =>
       \A o \in tx[t].batch : orderLock[o] = t /\ orders[o].status = "pending"
  /\ \A o \in tx[t].batch, p \in Products :
       orders[o].items[p] > 0 /\ <<o, p>> \notin tx[t].todo => prodLock[p] = t
  /\ tx[t].pc = "restock" => tx[t].cur \in tx[t].todo
  /\ tx[t].pc = "mark" =>
       /\ tx[t].cur \in ItemPairs(orders, tx[t].batch)
       /\ tx[t].cur[1] \notin tx[t].marked
       /\ \A d \in tx[t].todo : d[1] # tx[t].cur[1]
  /\ tx[t].pc \in {"restock", "mark"} =>
       \A o \in tx[t].batch :
         \/ o \in tx[t].marked
         \/ o = tx[t].cur[1]
         \/ \E d \in tx[t].todo : d[1] = o
  /\ tx[t].pc = "commit" => tx[t].todo = {} /\ tx[t].marked = tx[t].batch

TxShape(t) ==
  /\ Active(t) => tx[t].op \in {"create", "cancel", "stale"}
  /\ Creating(t) => CreateShape(t)
  /\ Cancelling(t) => CancelShape(t)

\* The orders of t whose item of product p is back in the draft of p.
Restocked(t, p) == {o \in tx[t].batch : <<o, p>> \notin tx[t].todo}

\* What the holder of a row has done to it: taken its order's quantity out, or
\* put units back.  Drafts of an abandoned transaction are never published.
DraftOf(t, p) ==
  /\ Creating(t) =>
       draft[p] = IF tx[t].pc = "commit" THEN stock[p] - Quantities(tx[t].items)[p]
                                         ELSE stock[p]
  /\ Cancelling(t) /\ tx[t].pc # "abandoned" =>
       /\ IsFiniteSet(Units(orders, Restocked(t, p), p))
       /\ draft[p] = stock[p] + Cardinality(Units(orders, Restocked(t, p), p))

DraftInv ==
  \A p \in Products :
    /\ prodLock[p] = None => draft[p] = stock[p]
    /\ prodLock[p] # None => DraftOf(prodLock[p], p)

\* Rows that are ordered or held exist.
RowsExist ==
  /\ \A p \in Products : prodLock[p] # None => p \in Catalog
  /\ \A o \in Placed(orders), p \in Products :
       orders[o].items[p] > 0 => p \in Catalog
  /\ \A o \in Placed(orders) : \E p \in Products : orders[o].items[p] > 0

\* Two transactions between INSERT and COMMIT have different keys and ids.
InsertsDistinct ==
  \A t, u \in Tx : t # u /\ Inserted(t) /\ Inserted(u) =>
    ~SameKey(t, tx[u]) /\ tx[t].batch \cap tx[u].batch = {}

UnitsFinite == \A p \in Products : IsFiniteSet(Units(orders, Live(orders), p))

IInv ==
  /\ TypeOK
  /\ LocksHeldByOpenTx
  /\ \A t \in Tx : TxShape(t)
  /\ DraftInv
  /\ RowsExist
  /\ InsertsDistinct
  /\ OneOrderPerKey
  /\ UnitsFinite
  /\ StockConserved

(***************************************************************************)
(* What the calls are about, for SuccessStands, RefusalsJustified and the  *)
(* refinement of Inventory: a Cancel is about the one order it names, a    *)
(* janitor round about at most BatchLimit orders, all of them stale, and   *)
(* who was refused was refused for rows that exist.                        *)
(***************************************************************************)
CallShape(t) ==
  /\ Active(t) /\ tx[t].op = "cancel" => \E o \in OrderIds : tx[t].batch = {o}
  /\ Active(t) /\ tx[t].op = "stale" =>
       /\ tx[t].pc # "abandoned" => tx[t].batch # {}
       /\ Cardinality(tx[t].batch) <= BatchLimit
       /\ \A o \in tx[t].batch : Stale(o)
  /\ ~Active(t) /\ tx[t].answer = "refused" => tx[t].batch \subseteq Placed(orders)

CallOK(t) == CallShape(t) /\ StillTrue(t) /\ StillRefused(t)

CallsInv == \A t \in Tx : CallOK(t)
=============================================================================
