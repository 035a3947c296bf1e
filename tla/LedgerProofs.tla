---------------------------- MODULE LedgerProofs ----------------------------
(***************************************************************************)
(* Lemmas about Units: how the units of a product change when an order is  *)
(* added to or taken out of a set of orders.                               *)
(***************************************************************************)
EXTENDS Ledger, FiniteSetTheorems, TLAPS

\* What an element of Units is.
LEMMA UnitsMember ==
  ASSUME NEW f, NEW S, NEW p, NEW u
  PROVE  u \in Units(f, S, p)
           <=> \E o \in S : \E n \in 1 .. f[o].items[p] : u = <<o, n>>
BY DEF Units

\* Units depends only on the items of the orders in the set.
LEMMA UnitsFrame ==
  ASSUME NEW f, NEW g, NEW S, NEW p,
         \A o \in S : f[o].items[p] = g[o].items[p]
  PROVE  Units(f, S, p) = Units(g, S, p)
BY DEF Units

\* No orders, no units.
LEMMA UnitsNone ==
  ASSUME NEW f, NEW S, NEW p, \A o \in S : f[o].items[p] = 0
  PROVE  Units(f, S, p) = {} /\ IsFiniteSet(Units(f, S, p))
<1>1. \A u : u \notin Units(f, S, p)
  BY UnitsMember
<1>2. QED
  BY <1>1, FS_EmptySet

\* A set of pairs with one first component is as large as its second components.
LEMMA TagCardinality ==
  ASSUME NEW o, NEW q \in Nat
  PROVE  IsFiniteSet({o} \X (1 .. q)) /\ Cardinality({o} \X (1 .. q)) = q
<1>1. IsFiniteSet({o}) /\ Cardinality({o}) = 1
  BY FS_Singleton
<1>2. IsFiniteSet(1 .. q) /\ Cardinality(1 .. q) = IF 1 > q THEN 0 ELSE q - 1 + 1
  BY FS_Interval
<1>3. Cardinality(1 .. q) = q
  BY <1>2
<1>4. /\ IsFiniteSet({o} \X (1 .. q))
      /\ Cardinality({o} \X (1 .. q)) = Cardinality({o}) * Cardinality(1 .. q)
  BY <1>1, <1>2, FS_Product
<1>5. Cardinality({o} \X (1 .. q)) = 1 * q
  BY <1>1, <1>3, <1>4
<1>6. QED
  BY <1>4, <1>5

\* The units of one order are as many as its quantity.
LEMMA UnitsOne ==
  ASSUME NEW f, NEW o, NEW p, NEW q \in Nat, f[o].items[p] = q
  PROVE  /\ IsFiniteSet(Units(f, {o}, p))
         /\ Cardinality(Units(f, {o}, p)) = q
<1>1. Units(f, {o}, p) = {o} \X (1 .. q)
  BY DEF Units
<1>2. /\ IsFiniteSet({o} \X (1 .. q))
      /\ Cardinality({o} \X (1 .. q)) = q
  BY TagCardinality
<1>3. QED
  BY <1>1, <1>2

\* Sets with no element in common have the sum of their sizes.
LEMMA DisjointUnion ==
  ASSUME NEW A, NEW B, IsFiniteSet(A), IsFiniteSet(B), A \cap B = {}
  PROVE  /\ IsFiniteSet(A \cup B)
         /\ Cardinality(A \cup B) = Cardinality(A) + Cardinality(B)
<1>1. /\ IsFiniteSet(A \cup B)
      /\ Cardinality(A \cup B)
           = Cardinality(A) + Cardinality(B) - Cardinality(A \cap B)
  BY FS_Union
<1>2. Cardinality(A \cap B) = 0
  BY FS_EmptySet
<1>3. Cardinality(A) \in Nat /\ Cardinality(B) \in Nat
  BY FS_CardinalityType
<1>4. QED
  BY <1>1, <1>2, <1>3

\* Adding an order adds its quantity.
LEMMA UnitsAdd ==
  ASSUME NEW f, NEW S, NEW o, NEW p, NEW q \in Nat, NEW T,
         o \notin S, T = S \cup {o}, f[o].items[p] = q, IsFiniteSet(Units(f, S, p))
  PROVE  /\ IsFiniteSet(Units(f, T, p))
         /\ Cardinality(Units(f, T, p)) = Cardinality(Units(f, S, p)) + q
<1>1. Units(f, T, p) = Units(f, S, p) \cup Units(f, {o}, p)
  BY DEF Units
<1>2. Units(f, S, p) \cap Units(f, {o}, p) = {}
  BY UnitsMember
<1>3. IsFiniteSet(Units(f, {o}, p)) /\ Cardinality(Units(f, {o}, p)) = q
  BY UnitsOne
<1>4. /\ IsFiniteSet(Units(f, S, p) \cup Units(f, {o}, p))
      /\ Cardinality(Units(f, S, p) \cup Units(f, {o}, p))
           = Cardinality(Units(f, S, p)) + Cardinality(Units(f, {o}, p))
  BY <1>2, <1>3, DisjointUnion
<1>5. QED
  BY <1>1, <1>3, <1>4

\* Taking a subset away takes its size away.
LEMMA SubsetDifference ==
  ASSUME NEW A, NEW B, IsFiniteSet(A), B \subseteq A
  PROVE  /\ IsFiniteSet(B)
         /\ IsFiniteSet(A \ B)
         /\ Cardinality(A) = Cardinality(A \ B) + Cardinality(B)
<1>1. IsFiniteSet(B)
  BY FS_Subset
<1>2. IsFiniteSet(A \ B)
  BY FS_Difference
<1>3. (A \ B) \cup B = A /\ (A \ B) \cap B = {}
  OBVIOUS
<1>4. Cardinality((A \ B) \cup B) = Cardinality(A \ B) + Cardinality(B)
  BY <1>1, <1>2, <1>3, DisjointUnion
<1>5. QED
  BY <1>1, <1>2, <1>3, <1>4

\* Taking orders out of a set takes their units out.
LEMMA UnitsRemove ==
  ASSUME NEW f, NEW S, NEW T, NEW p, T \subseteq S,
         IsFiniteSet(Units(f, S, p))
  PROVE  /\ IsFiniteSet(Units(f, T, p))
         /\ IsFiniteSet(Units(f, S \ T, p))
         /\ Cardinality(Units(f, S, p))
              = Cardinality(Units(f, S \ T, p)) + Cardinality(Units(f, T, p))
<1>1. Units(f, T, p) \subseteq Units(f, S, p)
  BY UnitsMember
<1>2. Units(f, S \ T, p) = Units(f, S, p) \ Units(f, T, p)
  BY UnitsMember
<1>3. /\ IsFiniteSet(Units(f, T, p))
      /\ IsFiniteSet(Units(f, S, p) \ Units(f, T, p))
      /\ Cardinality(Units(f, S, p))
           = Cardinality(Units(f, S, p) \ Units(f, T, p)) + Cardinality(Units(f, T, p))
  BY <1>1, SubsetDifference
<1>4. QED
  BY <1>2, <1>3
=============================================================================
