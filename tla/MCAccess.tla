------------------------------ MODULE MCAccess ------------------------------
(* A small instance of Access for TLC. *)
EXTENDS Access, TLC

Symmetry == Permutations(Requests) \cup Permutations(Jobs)
=============================================================================
