--------------------------- MODULE MCStoragePersist ---------------------------
(* Model-checking StoragePersist: calls are interchangeable.               *)
EXTENDS StoragePersist, TLC

Symmetry == Permutations(Callers)
===============================================================================
