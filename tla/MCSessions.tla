---------------------------- MODULE MCSessions ------------------------------
(* A small instance of Sessions for TLC. *)
EXTENDS Sessions, TLC

Symmetry == Permutations(UserIds) \cup Permutations(Emails) \cup Permutations(Clients)
=============================================================================
