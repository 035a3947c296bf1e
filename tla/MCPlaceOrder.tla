---------------------------- MODULE MCPlaceOrder -----------------------------
(* A small instance of PlaceOrder for TLC. *)
EXTENDS PlaceOrder

CONSTANTS u1, k1

\* A retry of a key may ask for something else than the request before it.
MCBaskets == {[p \in Products |-> n] : n \in {1, 2}}

MCIntents == {<<u1, k1>>}
=============================================================================
