--------------------------- MODULE MCMemoryStore ---------------------------
(* Model-checking instance of MemoryStore.                                   *)
EXTENDS MemoryStore, TLC

CONSTANTS t1, t2

Symmetry == Permutations({t1, t2})
=============================================================================
