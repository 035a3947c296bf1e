--------------------------- MODULE MCOrderStore -----------------------------
(* Small instances of OrderStore, with its inductive invariant, for TLC. *)
EXTENDS OrderStoreInv, TLC

CONSTANTS p1, p2

Line(p, n) == [product |-> p, quantity |-> n]

\* Two products asked for in both orders: lock-order inversion between clients.
CrossPayloads == {<<Line(p1, 1), Line(p2, 1)>>, <<Line(p2, 1), Line(p1, 1)>>}

\* Two lines for one product that each find the stock of 2 sufficient and together
\* ask for 3; and a product of its own: two orders with one key need not meet on a
\* products row.
TwiceNamed == <<Line(p1, 2), Line(p1, 1)>>

ContendPayloads == {<<Line(p1, 2)>>, TwiceNamed, <<Line(p2, 1)>>}

\* A product named once, and twice within what is in stock.
JanitorPayloads == {<<Line(p1, 1)>>, <<Line(p1, 1), Line(p1, 1)>>}

Symmetry ==
  Permutations(OrderIds) \cup Permutations(Keys) \cup Permutations(Requests)
=============================================================================
