-------------------------- MODULE MCDynamicMemPool ---------------------------
(* The places where a pool can be allocated are interchangeable. *)
EXTENDS DynamicMemPool, TLC

Symmetry == Permutations(Pools)
=============================================================================
