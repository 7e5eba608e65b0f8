------------------------------- MODULE MCLives -------------------------------
(***************************************************************************)
(* What must eventually happen: the client that follows the events catches  *)
(* up, the screencast tasks end, an engine that is gone comes back.  The    *)
(* three share no state: part says which one a behaviour exercises, the     *)
(* others stay as they began.                                               *)
(***************************************************************************)
EXTENDS Screencast

CONSTANTS Sessions, RingCapacity, ChannelCapacity, MaxEvents, MaxDue,
          Callers, Beats, Engines, Attempts, NoTask,
          MaxRestarts, Window, Delay, Interval, LaunchBudget

VARIABLES part,
          log, rings, opened, closing, busy, ws,
          phase, ticket, lock, slot, aborted, pc, hist, eng, left, age, live,
          changed, spent

Events == INSTANCE EventStream
Supervisor == INSTANCE Supervisor WITH None <- NoTask

ASSUME /\ Events!CapacityAssumption
       /\ Supervisor!TasksAssumption /\ Supervisor!PolicyAssumption

\* backoff by attempts already in the window: one tick, doubled, capped at two
MCDelay == [n \in 0 .. MaxRestarts - 1 |-> IF n = 0 THEN 1 ELSE 2]

eventVars == <<log, rings, opened, closing, busy, ws>>
superVars == <<phase, ticket, lock, slot, aborted, pc, hist, eng, left, age, live,
               changed, spent>>
all == <<part, vars, eventVars, superVars>>

Follow(A)    == part = "events"     /\ A /\ UNCHANGED <<part, vars, superVars>>
Watch(A)     == part = "screencast" /\ A /\ UNCHANGED <<part, eventVars, superVars>>
Supervise(A) == part = "supervisor" /\ A /\ UNCHANGED <<part, vars, eventVars>>

MCInit ==
    /\ part \in {"events", "screencast", "supervisor"}
    /\ Init /\ Events!Init /\ Supervisor!Init
MCNext == Follow(Events!Next) \/ Watch(Next) \/ Supervise(Supervisor!Next)

(* The fairness of each module, for its own part.                          *)
FollowFairness ==
    /\ WF_all(Follow(Events!Turn(Events!Drain))) /\ WF_all(Follow(Events!Turn(Events!Live)))
    /\ WF_all(Follow(Events!Turn(Events!Elapse)))
    /\ SF_all(Follow(Events!Turn(Events!Tick))) /\ SF_all(Follow(Events!Turn(Events!Pong)))
WatchFairness ==
    /\ \A s \in Streams : /\ WF_all(Watch(Frame(s)))
                          /\ WF_all(Watch(Restart(s)))
                          /\ WF_all(Watch(Stop(s)))
    /\ \A c \in Connections : /\ WF_all(Watch(Start(c) \/ StartFails(c)))
                              /\ WF_all(Watch(Forward(c)))
SuperviseFairness ==
    /\ \A c \in Callers : WF_all(Supervise(Supervisor!CallerTurn(c)))
    /\ \A b \in Beats : WF_all(Supervise(Supervisor!BeatTurn(b)))
    /\ WF_all(Supervise(Supervisor!Tick))
(* A launcher that is asked again and again succeeds eventually.           *)
LaunchesSucceed ==
    SF_all(Supervise(\E t \in Callers \cup Beats : Supervisor!LaunchOk(t)))

MCSpec ==
    /\ MCInit /\ [][MCNext]_all
    /\ FollowFairness /\ WatchFairness /\ SuperviseFairness /\ LaunchesSucceed

---------------------------------------------------------------------------
(* What was published after a client subscribed is sent to it or passed by  *)
(* the watermark, or the connection ends (ws.rs, the refill after a lag).   *)
CatchesUp == Events!CatchesUp

(* A connection whose peer vanished is eventually given up (ws.rs, the      *)
(* keepalive).                                                              *)
VanishedIsReleased == Events!VanishedIsReleased

(* While its heartbeat lives, an engine that is gone comes back, whatever   *)
(* the breaker said meanwhile (supervisor/mod.rs, heartbeat).               *)
Recovers == Supervisor!Recovers
=============================================================================
