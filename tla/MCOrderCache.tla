---------------------------- MODULE MCOrderCache -----------------------------
(* Small instances of the order cache, with Redis that crashes, for TLC. *)
EXTENDS OrderCacheCrash, TLC

Symmetry == Permutations(Requests) \cup Permutations(Jobs)
=============================================================================
