----------------------------- MODULE MCEventStream -----------------------------
(* Model-checking EventStream: sessions are interchangeable.               *)
EXTENDS EventStream, TLC

Symmetry == Permutations(Sessions)
===============================================================================
