--------------------------- MODULE MCDeferredFree ---------------------------
(* DeferredFree for TLC. *)
EXTENDS DeferredFree, TLC

Symmetric == Permutations(Reqs) \cup Permutations(Blocks)
=============================================================================
