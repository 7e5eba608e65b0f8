------------------------------ MODULE EngineSlot ------------------------------
(***************************************************************************)
(* What `Supervisor::engine()` promises its callers: a slot that holds one *)
(* engine or none.  An engine is gained only by an empty slot and lost     *)
(* before another takes its place, so a caller that sees the engine change *)
(* has always been answered `Terminated` in between.                       *)
(***************************************************************************)
CONSTANTS Engines, NoEngine

VARIABLE current

Init == current = NoEngine

Gain == /\ current = NoEngine
        /\ current' \in Engines

Lose == /\ current # NoEngine
        /\ current' = NoEngine

Next == Gain \/ Lose

Spec == Init /\ [][Next]_current
===============================================================================
