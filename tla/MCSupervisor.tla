----------------------------- MODULE MCSupervisor -----------------------------
(* Constants for model-checking Supervisor. *)
EXTENDS Supervisor, TLC

\* ten-second ticks: the 1 s .. 8 s backoff of five attempts is below a tick
NoDelay == [n \in 0 .. MaxRestarts - 1 |-> 0]

Symmetry == Permutations(Attempts) \cup Permutations(Engines)
===============================================================================
