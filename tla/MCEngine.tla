------------------------------- MODULE MCEngine -----------------------------
(***************************************************************************)
(* The parts under a session (crates/engine, crates/engine-cdp): installing *)
(* an engine, launching it, scoping the references of a page, and the small *)
(* buffers of a page.  They share no state: part says which one a behaviour *)
(* exercises, the others stay as they began.                                *)
(***************************************************************************)
EXTENDS EngineStore, EngineLaunch, RefScope, PageBuffers, TLC

VARIABLE part

all == <<part, vars, bufferVars, launchVars, scopeVars>>

MCInit ==
    /\ part \in {"store", "launch", "scope", "captures", "requests"}
    /\ Init /\ BuffersInit /\ LaunchInit /\ ScopeInit
    \* to start with version 2 is to start with 1 and see nothing newer
    /\ stable # 2
    /\ part # "store" => stable = 0 /\ home \in {[c \in Callers |-> p] : p \in Processes}

MCNext ==
    \/ part = "store" /\ Next /\ UNCHANGED <<part, bufferVars, launchVars, scopeVars>>
    \/ part = "launch" /\ LaunchNext /\ UNCHANGED <<part, vars, bufferVars, scopeVars>>
    \/ part = "scope" /\ ScopeNext /\ UNCHANGED <<part, vars, bufferVars, launchVars>>
    \/ part = "captures" /\ CaptureNext
       /\ UNCHANGED <<part, vars, launchVars, scopeVars>>
    \/ part = "requests" /\ RequestNext
       /\ UNCHANGED <<part, vars, launchVars, scopeVars>>

MCSpec == MCInit /\ [][MCNext]_all

Symmetry == Permutations(Callers) \cup Permutations(Processes) \cup Permutations(Elements)
=============================================================================
