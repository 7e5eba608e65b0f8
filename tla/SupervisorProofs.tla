--------------------------- MODULE SupervisorProofs ---------------------------
(***************************************************************************)
(* Theorems about Supervisor for every number of callers, heartbeats and   *)
(* engines and for every restart policy.                                   *)
(***************************************************************************)
EXTENDS Supervisor, FiniteSetTheorems, TLAPS

(* A history holds finitely many attempts.                                 *)
FiniteInv ==
    /\ IsFiniteSet(phase.history)
    /\ \A t \in Tasks : IsFiniteSet(hist[t])
    /\ IsFiniteSet(spent)

(* The ticket is held by whoever is inside bring_up, and by nobody else.   *)
TicketInv == \A t \in Tasks : pc[t] \in BringUp => ticket = t

(* A phase has an engine exactly when it is Running; it is never Running   *)
(* while the ticket's holder is past its engine check; a launched engine   *)
(* waits in its launcher's hands.                                          *)
PhaseInv ==
    /\ phase.kind = "Running" <=> phase.engine # None
    /\ \A t \in Tasks : pc[t] \in Launching => phase.kind # "Running"
    /\ \A t \in Tasks : pc[t] = "install" => eng[t] # None

(* The attempts that count are young and in every history a decision is    *)
(* read from; about to record one more, the local history still has room.  *)
HistoryInv ==
    /\ \A a \in spent : age[a] < Window
    /\ spent \subseteq phase.history
    /\ \A t \in Tasks : pc[t] \in Launching => spent \subseteq hist[t]
    /\ \A t \in Tasks : pc[t] \in {"backoff", "record"}
                            => Cardinality(hist[t]) < MaxRestarts

IInv == /\ TypeOK /\ FiniteInv
        /\ TicketInv /\ PhaseInv
        /\ HistoryInv /\ BreakerBound
-------------------------------------------------------------------------------
(* Type correctness. *)

\* The initial state has its types.
LEMMA InitType == Init => TypeOK
<1>. SUFFICES ASSUME Init PROVE TypeOK
  OBVIOUS
<1>. USE TasksAssumption, PolicyAssumption DEF Init, Tasks
<1>1. phase \in [kind : Kinds, engine : Engines \cup {None}, history : SUBSET Attempts]
  BY DEF Vacant, Kinds
<1>2. pc \in [Tasks -> CallerLabels \cup BeatLabels]
  BY DEF CallerLabels, BeatLabels
<1>3. age \in [Attempts -> 0 .. Window]
  OBVIOUS
<1>. QED
  BY <1>1, <1>2, <1>3 DEF TypeOK

\* Every step keeps the types; the delay is looked up by the size of a history.
LEMMA NextType == TypeOK /\ FiniteInv /\ [Next]_vars => TypeOK'
<1>. SUFFICES ASSUME TypeOK, FiniteInv, [Next]_vars PROVE TypeOK'
  OBVIOUS
<1>. USE TasksAssumption, PolicyAssumption
<1>. USE DEF TypeOK, Tasks, Kinds, CallerLabels, BeatLabels, BringUp, Launching
<1>1. ASSUME NEW t \in Tasks, TakeTicket(t) PROVE TypeOK'
  BY <1>1 DEF TakeTicket, Go, Vacant, Running, Young, LiveEngines, Held
<1>2. ASSUME NEW t \in Tasks, Check(t) PROVE TypeOK'
  BY <1>2 DEF Check, Go, Vacant, Running, Young, LiveEngines, Held
<1>3. ASSUME NEW t \in Tasks, Refuse(t) PROVE TypeOK'
  BY <1>3 DEF Refuse, Go, Vacant, Running, Young, LiveEngines, Held
<1>4. ASSUME NEW t \in Tasks, Allow(t) PROVE TypeOK'
  <2>. DEFINE young == Young(hist[t])
  <2>1. IsFiniteSet(young) /\ Cardinality(young) \in Nat
    BY FS_Subset, FS_CardinalityType DEF Young, FiniteInv
  <2>2. Cardinality(young) # 0 => Delay[Cardinality(young) - 1] \in Nat
    BY <1>4, <2>1 DEF Allow
  <2>3. young \in SUBSET Attempts
    BY DEF Young
  <2>. QED
    BY <1>4, <2>1, <2>2, <2>3 DEF Allow, Go
<1>5. ASSUME NEW t \in Tasks, WaitedOut(t) PROVE TypeOK'
  BY <1>5 DEF WaitedOut, Go, Vacant, Running, Young, LiveEngines, Held
<1>6. ASSUME NEW t \in Tasks, Record(t) PROVE TypeOK'
  BY <1>6 DEF Record, Go, Vacant, Running, Young, LiveEngines, Held
<1>7. ASSUME NEW t \in Tasks, LaunchOk(t) PROVE TypeOK'
  BY <1>7 DEF LaunchOk, Go, Vacant, Running, Young, LiveEngines, Held
<1>8. ASSUME NEW t \in Tasks, LaunchErr(t) PROVE TypeOK'
  BY <1>8 DEF LaunchErr, Go, Vacant, Running, Young, LiveEngines, Held
<1>9. ASSUME NEW t \in Tasks, Install(t) PROVE TypeOK'
  BY <1>9 DEF Install, Go, Vacant, Running, Young, LiveEngines, Held
<1>10. ASSUME NEW t \in Callers, CallStart(t) PROVE TypeOK'
  BY <1>10 DEF CallStart, Go, Vacant, Running, Young, LiveEngines, Held
<1>11. ASSUME NEW t \in Callers, EnterStart(t) PROVE TypeOK'
  BY <1>11 DEF EnterStart, Go, Vacant, Running, Young, LiveEngines, Held
<1>12. ASSUME NEW t \in Callers, Spawn(t) PROVE TypeOK'
  <2>1. PICK b \in Beats : /\ pc' = [pc EXCEPT ![t] = "idle", ![b] = "sleep"]
                           /\ slot' = b
                           /\ aborted' = aborted \ {b}
                           /\ left' = [left EXCEPT ![b] = Interval]
    BY <1>12 DEF Spawn
  <2>2. pc' \in [Tasks -> CallerLabels \cup BeatLabels]
    BY <2>1
  <2>. QED
    BY <1>12, <2>1, <2>2 DEF Spawn
<1>13. ASSUME NEW t \in Callers, CallShutdown(t) PROVE TypeOK'
  BY <1>13 DEF CallShutdown, Go, Vacant, Running, Young, LiveEngines, Held
<1>14. ASSUME NEW t \in Callers, Abort(t) PROVE TypeOK'
  BY <1>14 DEF Abort, Go, Vacant, Running, Young, LiveEngines, Held
<1>15. ASSUME NEW t \in Callers, TakeEngine(t) PROVE TypeOK'
  BY <1>15 DEF TakeEngine, Go, Vacant, Running, Young, LiveEngines, Held
<1>16. ASSUME NEW t \in Callers, StopEngine(t) PROVE TypeOK'
  BY <1>16 DEF StopEngine, Go, Vacant, Running, Young, LiveEngines, Held
<1>17. ASSUME NEW t \in Beats, Beat(t) PROVE TypeOK'
  BY <1>17 DEF Beat, Go, Vacant, Running, Young, LiveEngines, Held
<1>18. ASSUME NEW t \in Beats, ProbeHealthy(t) PROVE TypeOK'
  BY <1>18 DEF ProbeHealthy, Go, Vacant, Running, Young, LiveEngines, Held
<1>19. ASSUME NEW t \in Beats, ProbeFailed(t) PROVE TypeOK'
  BY <1>19 DEF ProbeFailed, Go, Vacant, Running, Young, LiveEngines, Held
<1>20. ASSUME NEW t \in Beats, NoteHealthy(t) PROVE TypeOK'
  BY <1>20 DEF NoteHealthy, Go, Vacant, Running, Young, LiveEngines, Held
<1>21. ASSUME NEW t \in Beats, Mourn(t) PROVE TypeOK'
  BY <1>21 DEF Mourn, Go, Vacant, Running, Young, LiveEngines, Held
<1>22. ASSUME NEW t \in Beats, Answered(t) PROVE TypeOK'
  BY <1>22 DEF Answered, Go, Vacant, Running, Young, LiveEngines, Held
<1>23. ASSUME NEW t \in Beats, Cancel(t) PROVE TypeOK'
  BY <1>23 DEF Cancel, Go, Vacant, Running, Young, LiveEngines, Held
<1>24. ASSUME NEW e \in Engines, Crash(e) PROVE TypeOK'
  BY <1>24 DEF Crash, Go, Vacant, Running, Young, LiveEngines, Held
<1>25. CASE Tick
  BY <1>25 DEF Tick, Go, Vacant, Running, Young, LiveEngines, Held
<1>26. CASE SeeRestart
  BY <1>26 DEF SeeRestart, Go, Vacant, Running, Young, LiveEngines, Held
<1>27. CASE UNCHANGED vars
  BY <1>27 DEF vars, Go, Vacant, Running, Young, LiveEngines, Held
<1>. QED
  BY <1>1, <1>2, <1>3, <1>4, <1>5, <1>6, <1>7, <1>8, <1>9, <1>10, <1>11,
     <1>12, <1>13, <1>14, <1>15, <1>16, <1>17, <1>18, <1>19, <1>20, <1>21,
     <1>22, <1>23, <1>24, <1>25, <1>26, <1>27
     DEF Next, BringUpStep, CallerStep, BeatStep

\* Histories stay finite: a step adds at most one attempt to each.
LEMMA NextFinite == TypeOK /\ FiniteInv /\ [Next]_vars => FiniteInv'
<1>. SUFFICES ASSUME TypeOK, FiniteInv, [Next]_vars PROVE FiniteInv'
  OBVIOUS
<1>. USE FS_EmptySet, FS_Subset, FS_AddElement, TasksAssumption
<1>. USE DEF TypeOK, FiniteInv, Tasks
<1>1. ASSUME NEW t \in Tasks, TakeTicket(t) PROVE FiniteInv'
  BY <1>1 DEF TakeTicket, Vacant, Running, Young
<1>2. ASSUME NEW t \in Tasks, Check(t) PROVE FiniteInv'
  <2>1. phase' = phase /\ spent' = spent
    BY <1>2 DEF Check
  <2>2. ASSUME NEW u \in Tasks PROVE IsFiniteSet(hist'[u])
    <3>1. hist'[u] = hist[u] \/ hist'[u] = phase.history
      BY ONLY <1>2, TypeOK, t \in Tasks, u \in Tasks DEF Check, TypeOK
    <3>2. IsFiniteSet(hist[u]) /\ IsFiniteSet(phase.history)
      BY ONLY FiniteInv, u \in Tasks DEF FiniteInv
    <3>. QED
      BY ONLY <3>1, <3>2
  <2>. QED
    BY <2>1, <2>2
<1>3. ASSUME NEW t \in Tasks, Refuse(t) PROVE FiniteInv'
  BY <1>3 DEF Refuse, Vacant, Running, Young
<1>4. ASSUME NEW t \in Tasks, Allow(t) PROVE FiniteInv'
  BY <1>4 DEF Allow, Vacant, Running, Young
<1>5. ASSUME NEW t \in Tasks, WaitedOut(t) PROVE FiniteInv'
  BY <1>5 DEF WaitedOut, Vacant, Running, Young
<1>6. ASSUME NEW t \in Tasks, Record(t) PROVE FiniteInv'
  <2>1. PICK a \in Attempts : /\ hist' = [hist EXCEPT ![t] = hist[t] \cup {a}]
                              /\ phase' = Vacant("Replacing", hist[t] \cup {a})
                              /\ spent' = spent \cup {a}
    BY <1>6 DEF Record
  <2>2. IsFiniteSet(hist[t] \cup {a}) /\ IsFiniteSet(spent \cup {a})
    BY FS_AddElement
  <2>. QED
    BY <2>1, <2>2 DEF Vacant
<1>7. ASSUME NEW t \in Tasks, LaunchOk(t) PROVE FiniteInv'
  BY <1>7 DEF LaunchOk, Vacant, Running, Young
<1>8. ASSUME NEW t \in Tasks, LaunchErr(t) PROVE FiniteInv'
  BY <1>8 DEF LaunchErr, Vacant, Running, Young
<1>9. ASSUME NEW t \in Tasks, Install(t) PROVE FiniteInv'
  BY <1>9 DEF Install, Vacant, Running, Young
<1>10. ASSUME NEW t \in Callers, CallStart(t) PROVE FiniteInv'
  BY <1>10 DEF CallStart, Vacant, Running, Young
<1>11. ASSUME NEW t \in Callers, EnterStart(t) PROVE FiniteInv'
  BY <1>11 DEF EnterStart, Vacant, Running, Young
<1>12. ASSUME NEW t \in Callers, Spawn(t) PROVE FiniteInv'
  BY <1>12 DEF Spawn, Vacant, Running, Young
<1>13. ASSUME NEW t \in Callers, CallShutdown(t) PROVE FiniteInv'
  BY <1>13 DEF CallShutdown, Vacant, Running, Young
<1>14. ASSUME NEW t \in Callers, Abort(t) PROVE FiniteInv'
  BY <1>14 DEF Abort, Vacant, Running, Young
<1>15. ASSUME NEW t \in Callers, TakeEngine(t) PROVE FiniteInv'
  BY <1>15 DEF TakeEngine, Vacant, Running, Young
<1>16. ASSUME NEW t \in Callers, StopEngine(t) PROVE FiniteInv'
  BY <1>16 DEF StopEngine, Vacant, Running, Young
<1>17. ASSUME NEW t \in Beats, Beat(t) PROVE FiniteInv'
  BY <1>17 DEF Beat, Vacant, Running, Young
<1>18. ASSUME NEW t \in Beats, ProbeHealthy(t) PROVE FiniteInv'
  BY <1>18 DEF ProbeHealthy, Vacant, Running, Young
<1>19. ASSUME NEW t \in Beats, ProbeFailed(t) PROVE FiniteInv'
  BY <1>19 DEF ProbeFailed, Vacant, Running, Young
<1>20. ASSUME NEW t \in Beats, NoteHealthy(t) PROVE FiniteInv'
  BY <1>20 DEF NoteHealthy, Vacant, Running, Young
<1>21. ASSUME NEW t \in Beats, Mourn(t) PROVE FiniteInv'
  BY <1>21 DEF Mourn, Vacant, Running, Young
<1>22. ASSUME NEW t \in Beats, Answered(t) PROVE FiniteInv'
  BY <1>22 DEF Answered, Vacant, Running, Young
<1>23. ASSUME NEW t \in Beats, Cancel(t) PROVE FiniteInv'
  BY <1>23 DEF Cancel, Vacant, Running, Young
<1>24. ASSUME NEW e \in Engines, Crash(e) PROVE FiniteInv'
  BY <1>24 DEF Crash, Vacant, Running, Young
<1>25. CASE Tick
  BY <1>25 DEF Tick, Vacant, Running, Young
<1>26. CASE SeeRestart
  BY <1>26 DEF SeeRestart, Vacant, Running, Young
<1>27. CASE UNCHANGED vars
  BY <1>27 DEF vars, Vacant, Running, Young
<1>. QED
  BY <1>1, <1>2, <1>3, <1>4, <1>5, <1>6, <1>7, <1>8, <1>9, <1>10, <1>11,
     <1>12, <1>13, <1>14, <1>15, <1>16, <1>17, <1>18, <1>19, <1>20, <1>21,
     <1>22, <1>23, <1>24, <1>25, <1>26, <1>27
     DEF Next, BringUpStep, CallerStep, BeatStep

(* Type correctness: no interleaving of start, heartbeats, abort and       *)
(* shutdown takes a variable of the supervisor out of its type.            *)
THEOREM TypeCorrect == Spec => []TypeOK
<1>1. Init => TypeOK /\ FiniteInv
  BY InitType, FS_EmptySet DEF Init, FiniteInv, Vacant
<1>2. TypeOK /\ FiniteInv /\ [Next]_vars => (TypeOK /\ FiniteInv)'
  BY NextType, NextFinite
<1>. QED
  BY <1>1, <1>2, PTL DEF Spec

-------------------------------------------------------------------------------
(* The breaker and the single replacement. *)

\* Whoever is inside bring_up keeps the ticket until it leaves.
LEMMA NextTicket == TypeOK /\ TicketInv /\ [Next]_vars => TicketInv'
<1>. SUFFICES ASSUME TypeOK, TicketInv, [Next]_vars PROVE TicketInv'
  OBVIOUS
<1>. USE TasksAssumption DEF TypeOK, TicketInv, Tasks, BringUp, Launching
<1>1. ASSUME NEW t \in Tasks, TakeTicket(t) PROVE TicketInv'
  BY <1>1 DEF TakeTicket, Go
<1>2. ASSUME NEW t \in Tasks, Check(t) PROVE TicketInv'
  BY <1>2 DEF Check, Go
<1>3. ASSUME NEW t \in Tasks, Refuse(t) PROVE TicketInv'
  BY <1>3 DEF Refuse, Go
<1>4. ASSUME NEW t \in Tasks, Allow(t) PROVE TicketInv'
  BY <1>4 DEF Allow, Go
<1>5. ASSUME NEW t \in Tasks, WaitedOut(t) PROVE TicketInv'
  BY <1>5 DEF WaitedOut, Go
<1>6. ASSUME NEW t \in Tasks, Record(t) PROVE TicketInv'
  BY <1>6 DEF Record, Go
<1>7. ASSUME NEW t \in Tasks, LaunchOk(t) PROVE TicketInv'
  BY <1>7 DEF LaunchOk, Go
<1>8. ASSUME NEW t \in Tasks, LaunchErr(t) PROVE TicketInv'
  BY <1>8 DEF LaunchErr, Go
<1>9. ASSUME NEW t \in Tasks, Install(t) PROVE TicketInv'
  BY <1>9 DEF Install, Go
<1>10. ASSUME NEW t \in Callers, CallStart(t) PROVE TicketInv'
  BY <1>10 DEF CallStart, Go
<1>11. ASSUME NEW t \in Callers, EnterStart(t) PROVE TicketInv'
  BY <1>11 DEF EnterStart, Go
<1>12. ASSUME NEW t \in Callers, Spawn(t) PROVE TicketInv'
  BY <1>12 DEF Spawn, Go
<1>13. ASSUME NEW t \in Callers, CallShutdown(t) PROVE TicketInv'
  BY <1>13 DEF CallShutdown, Go
<1>14. ASSUME NEW t \in Callers, Abort(t) PROVE TicketInv'
  BY <1>14 DEF Abort, Go
<1>15. ASSUME NEW t \in Callers, TakeEngine(t) PROVE TicketInv'
  BY <1>15 DEF TakeEngine, Go
<1>16. ASSUME NEW t \in Callers, StopEngine(t) PROVE TicketInv'
  BY <1>16 DEF StopEngine, Go
<1>17. ASSUME NEW t \in Beats, Beat(t) PROVE TicketInv'
  BY <1>17 DEF Beat, Go
<1>18. ASSUME NEW t \in Beats, ProbeHealthy(t) PROVE TicketInv'
  BY <1>18 DEF ProbeHealthy, Go
<1>19. ASSUME NEW t \in Beats, ProbeFailed(t) PROVE TicketInv'
  BY <1>19 DEF ProbeFailed, Go
<1>20. ASSUME NEW t \in Beats, NoteHealthy(t) PROVE TicketInv'
  BY <1>20 DEF NoteHealthy, Go
<1>21. ASSUME NEW t \in Beats, Mourn(t) PROVE TicketInv'
  BY <1>21 DEF Mourn, Go
<1>22. ASSUME NEW t \in Beats, Answered(t) PROVE TicketInv'
  BY <1>22 DEF Answered, Go
<1>23. ASSUME NEW t \in Beats, Cancel(t) PROVE TicketInv'
  BY <1>23 DEF Cancel, Go
<1>24. ASSUME NEW e \in Engines, Crash(e) PROVE TicketInv'
  BY <1>24 DEF Crash, Go
<1>25. CASE Tick
  BY <1>25 DEF Tick, Go
<1>26. CASE SeeRestart
  BY <1>26 DEF SeeRestart, Go
<1>27. CASE UNCHANGED vars
  BY <1>27 DEF vars, Go
<1>. QED
  BY <1>1, <1>2, <1>3, <1>4, <1>5, <1>6, <1>7, <1>8, <1>9, <1>10, <1>11,
     <1>12, <1>13, <1>14, <1>15, <1>16, <1>17, <1>18, <1>19, <1>20, <1>21,
     <1>22, <1>23, <1>24, <1>25, <1>26, <1>27
     DEF Next, BringUpStep, CallerStep, BeatStep

\* Only the ticket holder fills the phase, and it found it empty.
LEMMA NextPhase == TypeOK /\ TicketInv /\ PhaseInv /\ [Next]_vars => PhaseInv'
<1>. SUFFICES ASSUME TypeOK, TicketInv, PhaseInv, [Next]_vars PROVE PhaseInv'
  OBVIOUS
<1>. USE TasksAssumption
<1>. USE DEF TypeOK, TicketInv, PhaseInv, Tasks, BringUp, Launching
<1>1. ASSUME NEW t \in Tasks, TakeTicket(t) PROVE PhaseInv'
  BY <1>1 DEF TakeTicket, Go, Vacant, Running
<1>2. ASSUME NEW t \in Tasks, Check(t) PROVE PhaseInv'
  BY <1>2 DEF Check, Go, Vacant, Running
<1>3. ASSUME NEW t \in Tasks, Refuse(t) PROVE PhaseInv'
  BY <1>3 DEF Refuse, Go, Vacant, Running
<1>4. ASSUME NEW t \in Tasks, Allow(t) PROVE PhaseInv'
  BY <1>4 DEF Allow, Go, Vacant, Running
<1>5. ASSUME NEW t \in Tasks, WaitedOut(t) PROVE PhaseInv'
  BY <1>5 DEF WaitedOut, Go, Vacant, Running
<1>6. ASSUME NEW t \in Tasks, Record(t) PROVE PhaseInv'
  BY <1>6 DEF Record, Go, Vacant, Running
<1>7. ASSUME NEW t \in Tasks, LaunchOk(t) PROVE PhaseInv'
  BY <1>7 DEF LaunchOk, Go, Vacant, Running
<1>8. ASSUME NEW t \in Tasks, LaunchErr(t) PROVE PhaseInv'
  BY <1>8 DEF LaunchErr, Go, Vacant, Running
<1>9. ASSUME NEW t \in Tasks, Install(t) PROVE PhaseInv'
  BY <1>9 DEF Install, Go, Vacant, Running
<1>10. ASSUME NEW t \in Callers, CallStart(t) PROVE PhaseInv'
  BY <1>10 DEF CallStart, Go, Vacant, Running
<1>11. ASSUME NEW t \in Callers, EnterStart(t) PROVE PhaseInv'
  BY <1>11 DEF EnterStart, Go, Vacant, Running
<1>12. ASSUME NEW t \in Callers, Spawn(t) PROVE PhaseInv'
  BY <1>12 DEF Spawn, Go, Vacant, Running
<1>13. ASSUME NEW t \in Callers, CallShutdown(t) PROVE PhaseInv'
  BY <1>13 DEF CallShutdown, Go, Vacant, Running
<1>14. ASSUME NEW t \in Callers, Abort(t) PROVE PhaseInv'
  BY <1>14 DEF Abort, Go, Vacant, Running
<1>15. ASSUME NEW t \in Callers, TakeEngine(t) PROVE PhaseInv'
  BY <1>15 DEF TakeEngine, Go, Vacant, Running
<1>16. ASSUME NEW t \in Callers, StopEngine(t) PROVE PhaseInv'
  BY <1>16 DEF StopEngine, Go, Vacant, Running
<1>17. ASSUME NEW t \in Beats, Beat(t) PROVE PhaseInv'
  BY <1>17 DEF Beat, Go, Vacant, Running
<1>18. ASSUME NEW t \in Beats, ProbeHealthy(t) PROVE PhaseInv'
  BY <1>18 DEF ProbeHealthy, Go, Vacant, Running
<1>19. ASSUME NEW t \in Beats, ProbeFailed(t) PROVE PhaseInv'
  BY <1>19 DEF ProbeFailed, Go, Vacant, Running
<1>20. ASSUME NEW t \in Beats, NoteHealthy(t) PROVE PhaseInv'
  BY <1>20 DEF NoteHealthy, Go, Vacant, Running
<1>21. ASSUME NEW t \in Beats, Mourn(t) PROVE PhaseInv'
  BY <1>21 DEF Mourn, Go, Vacant, Running
<1>22. ASSUME NEW t \in Beats, Answered(t) PROVE PhaseInv'
  BY <1>22 DEF Answered, Go, Vacant, Running
<1>23. ASSUME NEW t \in Beats, Cancel(t) PROVE PhaseInv'
  BY <1>23 DEF Cancel, Go, Vacant, Running
<1>24. ASSUME NEW e \in Engines, Crash(e) PROVE PhaseInv'
  BY <1>24 DEF Crash, Go, Vacant, Running
<1>25. CASE Tick
  BY <1>25 DEF Tick, Go, Vacant, Running
<1>26. CASE SeeRestart
  BY <1>26 DEF SeeRestart, Go, Vacant, Running
<1>27. CASE UNCHANGED vars
  BY <1>27 DEF vars, Go, Vacant, Running
<1>. QED
  BY <1>1, <1>2, <1>3, <1>4, <1>5, <1>6, <1>7, <1>8, <1>9, <1>10, <1>11,
     <1>12, <1>13, <1>14, <1>15, <1>16, <1>17, <1>18, <1>19, <1>20, <1>21,
     <1>22, <1>23, <1>24, <1>25, <1>26, <1>27
     DEF Next, BringUpStep, CallerStep, BeatStep

\* A local history that was pruned and extended keeps every attempt that counts.
LEMMA NextHistory ==
  TypeOK /\ FiniteInv /\ TicketInv /\ PhaseInv /\ HistoryInv /\ [Next]_vars
    => HistoryInv'
<1>. SUFFICES ASSUME TypeOK, FiniteInv, TicketInv, PhaseInv, HistoryInv, [Next]_vars
              PROVE  HistoryInv'
  OBVIOUS
<1>. USE TasksAssumption, PolicyAssumption
<1>. USE DEF TypeOK, TicketInv, PhaseInv, HistoryInv, Tasks, BringUp, Launching
<1>1. ASSUME NEW t \in Tasks, TakeTicket(t) PROVE HistoryInv'
  BY <1>1 DEF TakeTicket, Go, Vacant, Running, Young
<1>2. ASSUME NEW t \in Tasks, Check(t) PROVE HistoryInv'
  BY <1>2 DEF Check, Go, Vacant, Running, Young
<1>3. ASSUME NEW t \in Tasks, Refuse(t) PROVE HistoryInv'
  BY <1>3 DEF Refuse, Go, Vacant, Running, Young
<1>4. ASSUME NEW t \in Tasks, Allow(t) PROVE HistoryInv'
  BY <1>4 DEF Allow, Go, Vacant, Running, Young
<1>5. ASSUME NEW t \in Tasks, WaitedOut(t) PROVE HistoryInv'
  BY <1>5 DEF WaitedOut, Go, Vacant, Running, Young
<1>6. ASSUME NEW t \in Tasks, Record(t) PROVE HistoryInv'
  BY <1>6 DEF Record, Go, Vacant, Running, Young
<1>7. ASSUME NEW t \in Tasks, LaunchOk(t) PROVE HistoryInv'
  BY <1>7 DEF LaunchOk, Go, Vacant, Running, Young
<1>8. ASSUME NEW t \in Tasks, LaunchErr(t) PROVE HistoryInv'
  BY <1>8 DEF LaunchErr, Go, Vacant, Running, Young
<1>9. ASSUME NEW t \in Tasks, Install(t) PROVE HistoryInv'
  BY <1>9 DEF Install, Go, Vacant, Running, Young
<1>10. ASSUME NEW t \in Callers, CallStart(t) PROVE HistoryInv'
  BY <1>10 DEF CallStart, Go, Vacant, Running, Young
<1>11. ASSUME NEW t \in Callers, EnterStart(t) PROVE HistoryInv'
  BY <1>11 DEF EnterStart, Go, Vacant, Running, Young
<1>12. ASSUME NEW t \in Callers, Spawn(t) PROVE HistoryInv'
  BY <1>12 DEF Spawn, Go, Vacant, Running, Young
<1>13. ASSUME NEW t \in Callers, CallShutdown(t) PROVE HistoryInv'
  BY <1>13 DEF CallShutdown, Go, Vacant, Running, Young
<1>14. ASSUME NEW t \in Callers, Abort(t) PROVE HistoryInv'
  BY <1>14 DEF Abort, Go, Vacant, Running, Young
<1>15. ASSUME NEW t \in Callers, TakeEngine(t) PROVE HistoryInv'
  BY <1>15 DEF TakeEngine, Go, Vacant, Running, Young
<1>16. ASSUME NEW t \in Callers, StopEngine(t) PROVE HistoryInv'
  BY <1>16 DEF StopEngine, Go, Vacant, Running, Young
<1>17. ASSUME NEW t \in Beats, Beat(t) PROVE HistoryInv'
  BY <1>17 DEF Beat, Go, Vacant, Running, Young
<1>18. ASSUME NEW t \in Beats, ProbeHealthy(t) PROVE HistoryInv'
  BY <1>18 DEF ProbeHealthy, Go, Vacant, Running, Young
<1>19. ASSUME NEW t \in Beats, ProbeFailed(t) PROVE HistoryInv'
  BY <1>19 DEF ProbeFailed, Go, Vacant, Running, Young
<1>20. ASSUME NEW t \in Beats, NoteHealthy(t) PROVE HistoryInv'
  BY <1>20 DEF NoteHealthy, Go, Vacant, Running, Young
<1>21. ASSUME NEW t \in Beats, Mourn(t) PROVE HistoryInv'
  BY <1>21 DEF Mourn, Go, Vacant, Running, Young
<1>22. ASSUME NEW t \in Beats, Answered(t) PROVE HistoryInv'
  BY <1>22 DEF Answered, Go, Vacant, Running, Young
<1>23. ASSUME NEW t \in Beats, Cancel(t) PROVE HistoryInv'
  BY <1>23 DEF Cancel, Go, Vacant, Running, Young
<1>24. ASSUME NEW e \in Engines, Crash(e) PROVE HistoryInv'
  BY <1>24 DEF Crash, Go, Vacant, Running, Young
<1>25. CASE Tick
  BY <1>25 DEF Tick, Go, Vacant, Running, Young
<1>26. CASE SeeRestart
  BY <1>26 DEF SeeRestart, Go, Vacant, Running, Young
<1>27. CASE UNCHANGED vars
  BY <1>27 DEF vars, Go, Vacant, Running, Young
<1>. QED
  BY <1>1, <1>2, <1>3, <1>4, <1>5, <1>6, <1>7, <1>8, <1>9, <1>10, <1>11,
     <1>12, <1>13, <1>14, <1>15, <1>16, <1>17, <1>18, <1>19, <1>20, <1>21,
     <1>22, <1>23, <1>24, <1>25, <1>26, <1>27
     DEF Next, BringUpStep, CallerStep, BeatStep

\* An attempt is recorded only into a history with room for it.
LEMMA NextBound ==
  TypeOK /\ FiniteInv /\ HistoryInv /\ BreakerBound /\ [Next]_vars => BreakerBound'
<1>. SUFFICES ASSUME TypeOK, FiniteInv, HistoryInv, BreakerBound, [Next]_vars
              PROVE  BreakerBound'
  OBVIOUS
<1>1. ASSUME spent' \subseteq spent PROVE BreakerBound'
  BY <1>1, FS_Subset, FS_CardinalityType, PolicyAssumption
     DEF BreakerBound, FiniteInv
<1>2. ASSUME NEW t \in Tasks, Record(t) PROVE BreakerBound'
  <2>1. PICK a \in Attempts \ UsedAttempts : spent' = spent \cup {a}
    BY <1>2 DEF Record
  <2>2. spent \subseteq hist[t] /\ Cardinality(hist[t]) < MaxRestarts
    BY <1>2 DEF Record, HistoryInv, Launching
  <2>3. Cardinality(spent) <= Cardinality(hist[t])
    BY <2>2, FS_Subset DEF FiniteInv
  <2>4. Cardinality(spent \cup {a}) <= Cardinality(spent) + 1
    <3>1. IsFiniteSet(spent) /\ Cardinality(spent) \in Nat
      BY FS_CardinalityType DEF FiniteInv
    <3>2. Cardinality(spent \cup {a})
            = IF a \in spent THEN Cardinality(spent) ELSE Cardinality(spent) + 1
      BY <3>1, FS_AddElement, Zenon
    <3>. QED
      BY <3>1, <3>2
  <2>. QED
    BY <2>1, <2>2, <2>3, <2>4, FS_CardinalityType, FS_AddElement, PolicyAssumption
       DEF BreakerBound, FiniteInv
<1>3. [Next]_vars => spent' \subseteq spent \/ \E t \in Tasks : Record(t)
  BY DEF Next, vars, BringUpStep, CallerStep, BeatStep, TakeTicket, Check, Refuse,
     Allow, WaitedOut, LaunchOk, LaunchErr, Install, CallStart, EnterStart, Spawn,
     CallShutdown, Abort, TakeEngine, StopEngine, Beat, ProbeHealthy, ProbeFailed,
     NoteHealthy, Mourn, Answered, Cancel, Crash, Tick, SeeRestart
<1>. QED
  BY <1>1, <1>2, <1>3

(* Every reachable state satisfies the strengthening: the types, finite     *)
(* histories, one ticket, and the histories every phase carries together.   *)
THEOREM Inductive == Spec => []IInv
<1>1. Init => IInv
  BY InitType, FS_EmptySet, PolicyAssumption, TasksAssumption
     DEF Init, IInv, FiniteInv, TicketInv, PhaseInv, HistoryInv, BreakerBound, Vacant,
         BringUp, Launching, Tasks
<1>2. IInv /\ [Next]_vars => IInv'
  BY NextType, NextFinite, NextTicket, NextPhase, NextHistory, NextBound DEF IInv
<1>. QED
  BY <1>1, <1>2, PTL DEF Spec

(* However start, heartbeats and shutdown interleave, at most MaxRestarts  *)
(* launches are attempted in one window that nothing closed.               *)
THEOREM BreakerHolds == Spec => []BreakerBound
  BY Inductive, PTL DEF IInv

(* Never two launches at a time, and none beside a running engine.         *)
THEOREM RelaunchOnce == Spec => []EnginesSound
<1>1. IInv => OneEngine
  <2>. SUFFICES ASSUME IInv PROVE OneEngine
    OBVIOUS
  <2>. DEFINE launching == {t \in Tasks : pc[t] \in {"record", "launch", "install"}}
  <2>1. phase.kind = "Running" => launching = {}
    BY DEF IInv, PhaseInv, Launching
  <2>2. launching \subseteq {ticket}
    BY DEF IInv, TicketInv, BringUp, Launching
  <2>3. Cardinality(launching) <= 1
    <3>1. IsFiniteSet({ticket}) /\ Cardinality({ticket}) = 1
      BY FS_Singleton
    <3>2. Cardinality(launching) <= Cardinality({ticket})
      BY <2>2, <3>1, FS_Subset
    <3>. QED
      BY <3>1, <3>2
  <2>. QED
    BY <2>1, <2>3 DEF OneEngine
<1>2. IInv => EnginesSound
  BY <1>1 DEF IInv, EnginesSound
<1>. QED
  BY <1>2, Inductive, PTL

(* Supervisor implements the slot its callers read: every step gains an    *)
(* engine in an empty slot, loses one, or leaves the slot alone.           *)
THEOREM Refinement == Spec => ImplementsSlot
<1>1. Init => Slot!Init
  BY DEF Init, Slot!Init, Vacant
<1>2. ASSUME IInv, [Next]_vars PROVE [Slot!Next]_(phase.engine)
  <2>. USE TasksAssumption DEF IInv, TypeOK, PhaseInv, Slot!Next, Slot!Gain, Slot!Lose
  <2>1. ASSUME NEW t \in Tasks, Install(t) PROVE Slot!Gain
    <3>1. phase.engine = None
      BY <1>2, <2>1 DEF Install, Launching
    <3>2. eng[t] \in Engines
      BY <1>2, <2>1 DEF Install
    <3>3. phase'.engine = eng[t]
      BY <1>2, <2>1 DEF Install, Running
    <3>. QED
      BY <1>2, <3>1, <3>2, <3>3
  <2>2. \/ phase'.engine = None
        \/ phase'.engine = phase.engine
        \/ \E t \in Tasks : Install(t)
    BY <1>2 DEF Next, vars, BringUpStep, CallerStep, BeatStep, TakeTicket, Check, Refuse,
       Allow, WaitedOut, Record, LaunchOk, LaunchErr, CallStart, EnterStart, Spawn,
       CallShutdown, Abort, TakeEngine, StopEngine, Beat, ProbeHealthy, ProbeFailed,
       NoteHealthy, Mourn, Answered, Cancel, Crash, Tick, SeeRestart, Vacant, Running
  <2>. QED
    BY <1>2, <2>1, <2>2
<1>. QED
  BY <1>1, <1>2, Inductive, PTL DEF Spec, ImplementsSlot, Slot!Spec
===============================================================================
