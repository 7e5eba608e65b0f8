------------------------------ MODULE Supervisor ------------------------------
(***************************************************************************)
(* The engine supervisor (crates/engine/src/supervisor/mod.rs) and its     *)
(* restart policy (policy.rs): the initial `start`, the heartbeat task,    *)
(* `shutdown` with its abort, and the one restart path `bring_up` they     *)
(* share.  Each action is the code between two lock acquisitions or        *)
(* awaits, so the tasks interleave as on the multi-threaded runtime.       *)
(*                                                                         *)
(* Instants are not kept: an attempt carries its age in ticks, which stops *)
(* growing at Window because `prune` cannot tell older attempts apart.     *)
(***************************************************************************)
EXTENDS Integers, FiniteSets

CONSTANTS
    Callers,       \* tasks that call start() or shutdown()
    Beats,         \* heartbeat tasks, one per successful start()
    Engines,       \* identities of launched engine processes
    Attempts,      \* identities of launch attempts
    None,          \* no task, no engine
    MaxRestarts,   \* RestartPolicy::max_restarts
    Window,        \* RestartPolicy::window, in ticks
    Delay,         \* RestartPolicy::backoff by attempts in the window, in ticks
    Interval,      \* heartbeat_interval, in ticks
    LaunchBudget   \* the deadline one launch attempt runs under, in ticks

Tasks == Callers \cup Beats

ASSUME TasksAssumption == /\ Callers \cap Beats = {}
                          /\ None \notin Tasks \cup Engines
\* RestartPolicy::new floors max_restarts at one
ASSUME PolicyAssumption == /\ MaxRestarts \in Nat \ {0}
                           /\ Window \in Nat \ {0}
                           /\ Interval \in Nat
                           /\ LaunchBudget \in Nat
                           /\ Delay \in [0 .. MaxRestarts - 1 -> Nat]

VARIABLES
    phase,      \* Supervised::phase: kind, engine, attempts in its RestartHistory
    ticket,     \* Supervised::replacing, the holder of the replacement ticket
    lock,       \* holder of the Supervisor::heartbeat mutex
    slot,       \* the JoinHandle under that mutex
    aborted,    \* heartbeat tasks whose handle was aborted
    pc,         \* where each task stands
    hist,       \* bring_up's local RestartHistory
    eng,        \* the engine handle a task holds across an await
    left,       \* ticks left on the timer a task waits for
    age,        \* age of each attempt, Window once outside the window
    live,       \* engine processes that have not exited
    changed,    \* the restarts watch has a value its receiver has not seen
    spent       \* history: attempts in the window since it was last closed

vars == <<phase, ticket, lock, slot, aborted, pc, hist, eng, left, age, live,
          changed, spent>>
-------------------------------------------------------------------------------
Kinds == {"Idle", "Running", "Replacing", "BreakerOpen"}

\* a phase without an engine
Vacant(kind, h) == [kind |-> kind, engine |-> None, history |-> h]
Running(e, h)   == [kind |-> "Running", engine |-> e, history |-> h]

\* prune: what is left of a history at this instant
Young(h) == {a \in h : age[a] < Window}

\* a task inside bring_up, holding the ticket, past the engine check
Launching == {"decide", "backoff", "record", "launch", "install"}
BringUp   == {"check"} \cup Launching

\* between two awaits a task takes no time
Executing == (Launching \ {"backoff", "launch"})
             \cup {"check", "take", "healthy", "mourn", "up", "refused"}

\* the awaits of a heartbeat task: where abort() takes effect
Awaits == {"sleep", "probe", "ticket", "backoff", "launch"}

\* handles that keep an engine process alive; Drop reaps the rest
Held == {phase.engine} \cup {eng[t] : t \in Tasks}
LiveEngines == live \cap Held

UsedAttempts ==
    phase.history \cup spent \cup UNION {hist[t] : t \in Tasks}

Go(t, l) == pc' = [pc EXCEPT ![t] = l]

Init ==
    /\ phase = Vacant("Idle", {})
    /\ ticket = None /\ lock = None /\ slot = None
    /\ aborted = {}
    /\ pc = [t \in Tasks |-> IF t \in Callers THEN "idle" ELSE "dead"]
    /\ hist = [t \in Tasks |-> {}]
    /\ eng = [t \in Tasks |-> None]
    /\ left = [t \in Tasks |-> 0]
    /\ age = [a \in Attempts |-> Window]
    /\ live = {} /\ spent = {}
    /\ changed = FALSE
-------------------------------------------------------------------------------
(* bring_up, run by a caller inside start() or by a heartbeat task.        *)

\* mutant: the ticket is taken without waiting for its holder
TakeTicketHeld(t) ==
    /\ pc[t] = "ticket"
    /\ ticket' = t
    /\ Go(t, "check")
    /\ UNCHANGED <<phase, lock, slot, aborted, hist, eng, left, age, live,
                   changed, spent>>

\* replacing.lock(): a free ticket is granted at once
TakeTicket(t) ==
    /\ pc[t] = "ticket" /\ ticket = None
    /\ ticket' = t
    /\ Go(t, "check")
    /\ UNCHANGED <<phase, lock, slot, aborted, hist, eng, left, age, live,
                   changed, spent>>

\* mutant: no second look once the ticket is granted
CheckSkipped(t) ==
    /\ pc[t] = "check"
    /\ hist' = [hist EXCEPT ![t] = phase.history]
    /\ Go(t, "decide")
    /\ UNCHANGED <<phase, ticket, lock, slot, aborted, eng, left, age, live,
                   changed, spent>>

\* an engine may have come up while this call queued for the ticket
Check(t) ==
    /\ pc[t] = "check"
    /\ IF phase.kind = "Running"
       THEN /\ ticket' = None
            /\ Go(t, "up")
            /\ UNCHANGED hist
       ELSE /\ hist' = [hist EXCEPT ![t] = phase.history]
            /\ Go(t, "decide")
            /\ UNCHANGED ticket
    /\ UNCHANGED <<phase, lock, slot, aborted, eng, left, age, live, changed,
                   spent>>

\* decide: Open
Refuse(t) ==
    /\ pc[t] = "decide"
    /\ Cardinality(Young(hist[t])) >= MaxRestarts
    /\ phase' = Vacant("BreakerOpen", Young(hist[t]))
    /\ hist' = [hist EXCEPT ![t] = {}]
    /\ ticket' = None
    /\ Go(t, "refused")
    /\ UNCHANGED <<lock, slot, aborted, eng, left, age, live, changed, spent>>

\* decide: Allowed(delay), zero for the first attempt of an empty window
Allow(t) ==
    /\ pc[t] = "decide"
    /\ LET young == Young(hist[t])
           count == Cardinality(young)
       IN  /\ count < MaxRestarts
           /\ hist' = [hist EXCEPT ![t] = young]
           /\ left' = [left EXCEPT ![t] = IF count = 0 THEN 0 ELSE Delay[count - 1]]
    /\ Go(t, "backoff")
    /\ UNCHANGED <<phase, ticket, lock, slot, aborted, eng, age, live, changed,
                   spent>>

WaitedOut(t) ==
    /\ pc[t] = "backoff" /\ left[t] = 0 /\ t \notin aborted
    /\ Go(t, "record")
    /\ UNCHANGED <<phase, ticket, lock, slot, aborted, hist, eng, left, age,
                   live, changed, spent>>

\* the attempt is recorded before it runs
Record(t) ==
    /\ pc[t] = "record"
    /\ \E a \in Attempts \ UsedAttempts :
          /\ age' = [age EXCEPT ![a] = 0]
          /\ hist' = [hist EXCEPT ![t] = @ \cup {a}]
          /\ phase' = Vacant("Replacing", hist[t] \cup {a})
          /\ spent' = spent \cup {a}
    /\ left' = [left EXCEPT ![t] = LaunchBudget]
    /\ Go(t, "launch")
    /\ UNCHANGED <<ticket, lock, slot, aborted, eng, live, changed>>

\* launcher.launch(): a new process, in this task's hands only
LaunchOk(t) ==
    /\ pc[t] = "launch" /\ t \notin aborted
    /\ \E e \in Engines \ Held :
          /\ eng' = [eng EXCEPT ![t] = e]
          /\ live' = LiveEngines \cup {e}
    /\ left' = [left EXCEPT ![t] = 0]
    /\ Go(t, "install")
    /\ UNCHANGED <<phase, ticket, lock, slot, aborted, hist, age, changed, spent>>

LaunchErr(t) ==
    /\ pc[t] = "launch" /\ t \notin aborted
    /\ left' = [left EXCEPT ![t] = 0]
    /\ Go(t, "decide")
    /\ UNCHANGED <<phase, ticket, lock, slot, aborted, hist, eng, age, live,
                   changed, spent>>

Install(t) ==
    /\ pc[t] = "install"
    /\ phase' = Running(eng[t], hist[t])
    /\ eng' = [eng EXCEPT ![t] = None]
    /\ hist' = [hist EXCEPT ![t] = {}]
    /\ ticket' = None
    /\ Go(t, "up")
    /\ UNCHANGED <<lock, slot, aborted, left, age, live, changed, spent>>

BringUpStep(t) ==
    \/ Check(t) \/ Refuse(t) \/ Allow(t) \/ WaitedOut(t)
    \/ Record(t) \/ LaunchOk(t) \/ LaunchErr(t) \/ Install(t)
-------------------------------------------------------------------------------
(* Supervisor::start *)

CallStart(c) ==
    /\ pc[c] = "idle"
    /\ Go(c, "start")
    /\ UNCHANGED <<phase, ticket, lock, slot, aborted, hist, eng, left, age,
                   live, changed, spent>>

\* heartbeat.lock(): a repeated start is a no-op, the first one keeps the lock
EnterStart(c) ==
    /\ pc[c] = "start" /\ lock = None
    /\ IF slot # None
       THEN Go(c, "idle") /\ UNCHANGED lock
       ELSE Go(c, "ticket") /\ lock' = c
    /\ UNCHANGED <<phase, ticket, slot, aborted, hist, eng, left, age, live,
                   changed, spent>>

\* the heartbeat starts whether bring_up succeeded or the breaker refused
Spawn(c) ==
    /\ pc[c] \in {"up", "refused"}
    /\ \E b \in Beats :
          /\ pc[b] = "dead"
          /\ slot' = b
          /\ aborted' = aborted \ {b}
          /\ pc' = [pc EXCEPT ![c] = "idle", ![b] = "sleep"]
          /\ left' = [left EXCEPT ![b] = Interval]
    /\ lock' = None
    /\ UNCHANGED <<phase, ticket, hist, eng, age, live, changed, spent>>
-------------------------------------------------------------------------------
(* Supervisor::shutdown *)

CallShutdown(c) ==
    /\ pc[c] = "idle"
    /\ Go(c, "abort")
    /\ UNCHANGED <<phase, ticket, lock, slot, aborted, hist, eng, left, age,
                   live, changed, spent>>

\* the handle is taken and aborted; nobody awaits the task's end
Abort(c) ==
    /\ pc[c] = "abort" /\ lock = None
    /\ aborted' = IF slot = None THEN aborted ELSE aborted \cup {slot}
    /\ slot' = None
    /\ Go(c, "take")
    /\ UNCHANGED <<phase, ticket, lock, hist, eng, left, age, live, changed,
                   spent>>

TakeEngine(c) ==
    /\ pc[c] = "take"
    /\ eng' = [eng EXCEPT ![c] = phase.engine]
    /\ phase' = Vacant("Idle", {})
    /\ spent' = {}
    /\ Go(c, IF phase.engine = None THEN "idle" ELSE "stop")
    /\ UNCHANGED <<ticket, lock, slot, aborted, hist, left, age, live, changed>>

\* engine.shutdown() returned, or failed with only a log line; either way
\* the last handle goes with it
StopEngine(c) ==
    /\ pc[c] = "stop"
    /\ live' = live \ {eng[c]}
    /\ eng' = [eng EXCEPT ![c] = None]
    /\ Go(c, "idle")
    /\ UNCHANGED <<phase, ticket, lock, slot, aborted, hist, left, age, changed,
                   spent>>
-------------------------------------------------------------------------------
(* heartbeat_loop *)

\* the interval elapsed: read the engine out of the phase, if there is one
Beat(b) ==
    /\ pc[b] = "sleep" /\ left[b] = 0 /\ b \notin aborted
    /\ eng' = [eng EXCEPT ![b] = phase.engine]
    /\ Go(b, IF phase.engine = None THEN "mourn" ELSE "probe")
    /\ UNCHANGED <<phase, ticket, lock, slot, aborted, hist, left, age, live,
                   changed, spent>>

ProbeHealthy(b) ==
    /\ pc[b] = "probe" /\ b \notin aborted
    /\ eng[b] \in live
    /\ eng' = [eng EXCEPT ![b] = None]
    /\ Go(b, "healthy")
    /\ UNCHANGED <<phase, ticket, lock, slot, aborted, hist, left, age, live,
                   changed, spent>>

\* unhealthy, or the probe failed: a live engine can be condemned too
ProbeFailed(b) ==
    /\ pc[b] = "probe" /\ b \notin aborted
    /\ eng' = [eng EXCEPT ![b] = None]
    /\ Go(b, "mourn")
    /\ UNCHANGED <<phase, ticket, lock, slot, aborted, hist, left, age, live,
                   changed, spent>>

\* note_healthy acts on whatever runs by now
NoteHealthy(b) ==
    /\ pc[b] = "healthy"
    /\ IF phase.kind = "Running"
       THEN phase' = Running(phase.engine, {}) /\ spent' = {}
       ELSE UNCHANGED <<phase, spent>>
    /\ left' = [left EXCEPT ![b] = Interval]
    /\ Go(b, "sleep")
    /\ UNCHANGED <<ticket, lock, slot, aborted, hist, eng, age, live, changed>>

\* mutant: the condemned engine takes its restart record with it
MournForgetful(b) ==
    /\ pc[b] = "mourn"
    /\ phase' = IF phase.kind = "Running" THEN Vacant("Replacing", {}) ELSE phase
    /\ Go(b, "ticket")
    /\ UNCHANGED <<ticket, lock, slot, aborted, hist, eng, left, age, live,
                   changed, spent>>

\* mourn keeps the restart record of the engine it drops
Mourn(b) ==
    /\ pc[b] = "mourn"
    /\ phase' = IF phase.kind = "Running"
                THEN Vacant("Replacing", phase.history) ELSE phase
    /\ Go(b, "ticket")
    /\ UNCHANGED <<ticket, lock, slot, aborted, hist, eng, left, age, live,
                   changed, spent>>

\* mutant: the loop ends, instead of going on, when the breaker refuses
AnsweredAndGone(b) ==
    /\ pc[b] \in {"up", "refused"}
    /\ changed' = (changed \/ pc[b] = "up")
    /\ left' = [left EXCEPT ![b] = Interval]
    /\ Go(b, IF pc[b] = "up" THEN "sleep" ELSE "dead")
    /\ UNCHANGED <<phase, ticket, lock, slot, aborted, hist, eng, age, live,
                   spent>>

\* bring_up answered: announce the replacement, or wait for the window to drain
Answered(b) ==
    /\ pc[b] \in {"up", "refused"}
    /\ changed' = (changed \/ pc[b] = "up")
    /\ left' = [left EXCEPT ![b] = Interval]
    /\ Go(b, "sleep")
    /\ UNCHANGED <<phase, ticket, lock, slot, aborted, hist, eng, age, live,
                   spent>>

\* the runtime drops an aborted task at its await, ticket and handle with it
Cancel(b) ==
    /\ b \in aborted /\ pc[b] \in Awaits
    /\ ticket' = IF ticket = b THEN None ELSE ticket
    /\ hist' = [hist EXCEPT ![b] = {}]
    /\ eng' = [eng EXCEPT ![b] = None]
    /\ left' = [left EXCEPT ![b] = 0]
    /\ Go(b, "dead")
    /\ UNCHANGED <<phase, lock, slot, aborted, age, live, changed, spent>>
-------------------------------------------------------------------------------
(* The surroundings. *)

\* a tick passes; a launch at its deadline returns before the next one
Tick ==
    /\ \A t \in Tasks : /\ pc[t] \notin Executing
                        /\ pc[t] = "launch" => left[t] > 0
    /\ age' = [a \in Attempts |-> IF age[a] < Window THEN age[a] + 1 ELSE Window]
    /\ left' = [t \in Tasks |-> IF left[t] > 0 THEN left[t] - 1 ELSE 0]
    /\ spent' = {a \in spent : age'[a] < Window}
    /\ UNCHANGED <<phase, ticket, lock, slot, aborted, pc, hist, eng, live,
                   changed>>

\* the browser process exits on its own
Crash(e) ==
    /\ e \in LiveEngines
    /\ live' = live \ {e}
    /\ UNCHANGED <<phase, ticket, lock, slot, aborted, pc, hist, eng, left, age,
                   changed, spent>>

\* the recovery watcher wakes for the latest count
SeeRestart ==
    /\ changed
    /\ changed' = FALSE
    /\ UNCHANGED <<phase, ticket, lock, slot, aborted, pc, hist, eng, left, age,
                   live, spent>>
-------------------------------------------------------------------------------
CallerStep(c) ==
    \/ EnterStart(c) \/ Spawn(c)
    \/ Abort(c) \/ TakeEngine(c) \/ StopEngine(c)

BeatStep(b) ==
    \/ Beat(b) \/ ProbeHealthy(b) \/ ProbeFailed(b) \/ NoteHealthy(b)
    \/ Mourn(b) \/ Answered(b) \/ Cancel(b)

Next ==
    \/ \E t \in Tasks : TakeTicket(t) \/ BringUpStep(t)
    \/ \E c \in Callers : CallStart(c) \/ CallShutdown(c) \/ CallerStep(c)
    \/ \E b \in Beats : BeatStep(b)
    \/ \E e \in Engines : Crash(e)
    \/ Tick
    \/ SeeRestart

Spec == Init /\ [][Next]_vars

CallerTurn(c) == TakeTicket(c) \/ BringUpStep(c) \/ CallerStep(c)
BeatTurn(b)   == TakeTicket(b) \/ BringUpStep(b) \/ BeatStep(b)

(* Every task the runtime has is polled again, and time passes.            *)
Fairness ==
    /\ \A c \in Callers : WF_vars(CallerTurn(c))
    /\ \A b \in Beats : WF_vars(BeatTurn(b))
    /\ WF_vars(Tick)

(* A launcher that is asked again and again succeeds eventually.           *)
LaunchesSucceed == SF_vars(\E t \in Tasks : LaunchOk(t))

FairSpec == Spec /\ Fairness
LuckySpec == FairSpec /\ LaunchesSucceed
-------------------------------------------------------------------------------
(* Properties. *)

CallerLabels == {"idle", "start", "abort", "take", "stop", "ticket", "up", "refused"}
                \cup BringUp
BeatLabels == {"dead", "sleep", "probe", "healthy", "mourn", "ticket", "up", "refused"}
              \cup BringUp

TypeOK ==
    /\ phase \in [kind : Kinds, engine : Engines \cup {None}, history : SUBSET Attempts]
    /\ ticket \in Tasks \cup {None}
    /\ lock \in Callers \cup {None}
    /\ slot \in Beats \cup {None}
    /\ aborted \subseteq Beats
    /\ pc \in [Tasks -> CallerLabels \cup BeatLabels]
    /\ hist \in [Tasks -> SUBSET Attempts]
    /\ eng \in [Tasks -> Engines \cup {None}]
    /\ left \in [Tasks -> Nat]
    /\ age \in [Attempts -> 0 .. Window]
    /\ live \subseteq Engines
    /\ changed \in BOOLEAN
    /\ spent \subseteq Attempts

(* The breaker counts what it should: unless a healthy probe or a shutdown *)
(* closed the window in between, no more than MaxRestarts launch attempts  *)
(* fall into one window, whichever of start() and the heartbeats made them *)
(* and however their phases were overwritten on the way.                   *)
BreakerBound == Cardinality(spent) <= MaxRestarts

(* Concurrent failures relaunch once: an engine is running, or one is being *)
(* launched by one task, never two at a time, even when an aborted heartbeat *)
(* is still inside bring_up as the next start() begins its own.            *)
OneEngine ==
    LET launching == {t \in Tasks : pc[t] \in {"record", "launch", "install"}}
    IN  /\ phase.kind = "Running" => launching = {}
        /\ Cardinality(launching) <= 1

(* One engine at a time, in a state whose every part has its type          *)
(* (supervisor/mod.rs, bring_up).                                          *)
EnginesSound == TypeOK /\ OneEngine

(* engine() promises a slot that is emptied before it is filled again.     *)
Slot == INSTANCE EngineSlot WITH NoEngine <- None, current <- phase.engine
ImplementsSlot == Slot!Spec

(* The heartbeat keeps retrying after the breaker's window drains: while a *)
(* heartbeat is installed, an engine comes back without anyone asking.     *)
Recovers == (slot # None) ~> (phase.kind = "Running" \/ slot = None)

(* shutdown() stops the heartbeat and clears the engine: with no heartbeat *)
(* and no call under way, no engine is left in the phase.                  *)
ShutdownClears ==
    (slot = None /\ \A c \in Callers : pc[c] = "idle") => phase.kind # "Running"

(* start() answers: a launch that fails for good exhausts the breaker and  *)
(* the caller gets Terminated.                                             *)
StartReturns == \A c \in Callers : (lock = c) ~> (lock # c)
===============================================================================
