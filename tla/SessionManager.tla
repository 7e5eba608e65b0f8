---------------------------- MODULE SessionManager ----------------------------
(***************************************************************************)
(* The manager (crates/session/src/manager.rs): the engine slot, the       *)
(* startup lock, the session map and the recovery watcher.  Clients ask    *)
(* for sessions and close them, supervisors lose and replace their engine  *)
(* (Supervisor.tla, seen from here as engine() and the restart count), the *)
(* watcher rebuilds every open session on the new engine outside the map's *)
(* lock, and the server may be shut down.                                  *)
(***************************************************************************)
EXTENDS Naturals, FiniteSets

CONSTANTS
    Clients, Names,   \* tasks, and the session ids they use
    Nobody,           \* no holder of a lock
    MaxSessions,      \* SessionConfig::max_sessions
    Rounds,           \* RECOVERY_ROUNDS
    MaxSupervisors,   \* bound: engine starts
    MaxEngines,       \* bound: engines that ever exist
    MaxContexts       \* bound: browser contexts ever created

ASSUME ManagerAssumption ==
    /\ Nobody \notin Clients
    /\ MaxSessions \in Nat \ {0} /\ Rounds \in Nat \ {0}
    /\ MaxSupervisors \in Nat /\ MaxEngines \in Nat /\ MaxContexts \in Nat

VARIABLES
    slot,      \* Inner::engine: the running supervisor, 0 when none
    starter,   \* who holds Inner::starting
    maplock,   \* who holds Inner::sessions across an await
    open,      \* Inner::sessions: the session object of each id, 0 when none
    objects,   \* session objects ever created; one is named by its number
    name,      \* the id of each object
    ctx,       \* Session::context of each object
    cleared,   \* history: the objects a shutdown dropped from the map
    refused,   \* history: the objects a live engine refused a new context
    overtaken, \* history: the objects whose engine was replaced before the watcher
               \* had its baseline, and those the watcher of a stopped supervisor
               \* gave a context that was lost by then
    unclosed,  \* history: the contexts that a close failed to dispose of
    contexts,  \* contexts ever created
    live,      \* contexts that exist in a live engine
    home,      \* the supervisor whose engine each context lives in
    sups,      \* supervisors ever started
    sup,       \* each of them: whether it runs, its engine, its restart count
    engines,   \* engines ever launched
    watch,     \* the recovery task of each supervisor
    job        \* where each client's call stands

vars == <<slot, starter, maplock, open, objects, name, ctx, cleared, refused,
          overtaken, unclosed, contexts, live, home, sups, sup, engines, watch, job>>
browser  == <<contexts, live, home, unclosed, sups, sup, engines>>
sessions == <<open, objects, name, ctx, cleared, refused, overtaken>>

Objects  == 1 .. MaxContexts
Contexts == 1 .. MaxContexts
Sups     == 1 .. MaxSupervisors

Free   == [at |-> "idle", name |-> "none", run |-> 0, obj |-> 0, ctx |-> 0,
           eng |-> 0, known |-> {}]
Asleep == [at |-> "off", seen |-> 0, run |-> 0, round |-> 0, todo |-> {},
           failed |-> {}, obj |-> 0, ctx |-> 0, eng |-> 0]

Init ==
    /\ slot = 0 /\ starter = Nobody /\ maplock = Nobody
    /\ open = [n \in Names |-> 0] /\ objects = 0
    /\ name = [o \in Objects |-> "none"] /\ ctx = [o \in Objects |-> 0]
    /\ cleared = {} /\ refused = {} /\ overtaken = {} /\ unclosed = {}
    /\ contexts = 0 /\ live = {} /\ home = [x \in Contexts |-> 0]
    /\ sups = 0 /\ engines = 0
    /\ sup = [u \in Sups |-> [runs |-> FALSE, engine |-> 0, restarts |-> 0]]
    /\ watch = [u \in Sups |-> Asleep]
    /\ job = [c \in Clients |-> Free]

At(c, l)  == job[c].at = l
Put(c, j) == job' = [job EXCEPT ![c] = j]
Engine(u) == sup[u].engine

OpenObjects == {open[n] : n \in Names} \ {0}

\* create_context on the engine of supervisor u
NewContext(u) ==
    /\ contexts < MaxContexts
    /\ contexts' = contexts + 1
    /\ live' = live \cup {contexts + 1}
    /\ home' = [home EXCEPT ![contexts + 1] = u]
    /\ UNCHANGED unclosed

\* what a supervisor's engine takes with it
Lost(u) == {x \in live : home[x] = u}

\* Session::close tolerates that closing its context fails
Closing(x) ==
    \/ live' = live \ {x} /\ UNCHANGED unclosed
    \/ UNCHANGED live /\ unclosed' = unclosed \cup {x}
-------------------------------------------------------------------------------
(* session *)

Request(c, n) ==
    /\ At(c, "idle")
    /\ Put(c, [Free EXCEPT !.at = IF slot # 0 THEN "lock" ELSE "queue", !.name = n,
                           !.run = slot])
    /\ UNCHANGED <<slot, starter, maplock, sessions, browser, watch>>

\* whoever queued looks at the slot again (a mutant of Queue leaves it out)
QueueBlind(c) ==
    /\ At(c, "queue") /\ starter = Nobody
    /\ starter' = c /\ Put(c, [job[c] EXCEPT !.at = "launch"])
    /\ UNCHANGED <<slot, maplock, sessions, browser, watch>>

Queue(c) ==
    /\ At(c, "queue") /\ starter = Nobody
    /\ IF slot # 0
       THEN Put(c, [job[c] EXCEPT !.at = "lock", !.run = slot]) /\ UNCHANGED starter
       ELSE starter' = c /\ Put(c, [job[c] EXCEPT !.at = "launch"])
    /\ UNCHANGED <<slot, maplock, sessions, browser, watch>>

\* start_running: the supervisor brought its engine up, the watcher is spawned
Launch(c) ==
    /\ At(c, "launch") /\ sups < MaxSupervisors /\ engines < MaxEngines
    /\ sups' = sups + 1 /\ engines' = engines + 1
    /\ sup' = [sup EXCEPT ![sups + 1] = [runs |-> TRUE, engine |-> engines + 1,
                                         restarts |-> 0]]
    /\ watch' = [watch EXCEPT ![sups + 1] = [Asleep EXCEPT !.at = "start"]]
    /\ Put(c, [job[c] EXCEPT !.at = "install", !.run = sups + 1])
    /\ UNCHANGED <<slot, starter, maplock, sessions, contexts, live, home, unclosed>>

\* a start that failed, or a just started engine already lost: the
\* supervisor is shut down again
GiveUp(c) ==
    /\ \/ At(c, "launch")
       \/ At(c, "install") /\ Engine(job[c].run) = 0
    /\ sup' = IF job[c].run = 0 THEN sup ELSE [sup EXCEPT ![job[c].run].runs = FALSE]
    /\ starter' = Nobody /\ Put(c, Free)
    /\ UNCHANGED <<slot, maplock, sessions, contexts, live, home, unclosed, sups,
                   engines, watch>>

Install(c) ==
    /\ At(c, "install") /\ Engine(job[c].run) # 0
    /\ slot' = job[c].run
    /\ starter' = Nobody /\ Put(c, [job[c] EXCEPT !.at = "lock"])
    /\ UNCHANGED <<maplock, sessions, browser, watch>>

\* the lock is dropped before the round trip (a mutant of Lock)
LockBriefly(c) ==
    LET j == job[c] IN
    /\ At(c, "lock") /\ maplock = Nobody
    /\ IF open[j.name] # 0 \/ Cardinality(OpenObjects) >= MaxSessions \/ Engine(j.run) = 0
       THEN Put(c, Free)
       ELSE Put(c, [j EXCEPT !.at = "create", !.eng = Engine(j.run)])
    /\ UNCHANGED <<slot, starter, maplock, sessions, browser, watch>>

\* under the map's lock: the session that is there, a refusal at the cap or
\* without an engine, or the lock kept across the engine round trip
Lock(c) ==
    LET j == job[c] IN
    /\ At(c, "lock") /\ maplock = Nobody
    /\ IF open[j.name] # 0 \/ Cardinality(OpenObjects) >= MaxSessions \/ Engine(j.run) = 0
       THEN Put(c, Free) /\ UNCHANGED maplock
       ELSE Put(c, [j EXCEPT !.at = "create", !.eng = Engine(j.run)]) /\ maplock' = c
    /\ UNCHANGED <<slot, starter, sessions, browser, watch>>

Create(c) ==
    LET j == job[c]
        o == objects + 1
    IN  /\ At(c, "create") /\ Engine(j.run) = j.eng /\ objects < MaxContexts
        /\ NewContext(j.run)
        /\ objects' = o
        /\ name' = [name EXCEPT ![o] = j.name]
        /\ ctx' = [ctx EXCEPT ![o] = contexts + 1]
        /\ open' = [open EXCEPT ![j.name] = o]
        /\ maplock' = Nobody /\ Put(c, Free)
        /\ UNCHANGED <<slot, starter, cleared, refused, overtaken, sups, sup, engines,
                       watch>>

CreateFails(c) ==
    /\ At(c, "create")
    /\ maplock' = Nobody /\ Put(c, Free)
    /\ UNCHANGED <<slot, starter, sessions, browser, watch>>
-------------------------------------------------------------------------------
(* close_session: out of the map first, the context afterwards *)

Remove(c, n) ==
    /\ At(c, "idle") /\ maplock = Nobody /\ open[n] # 0
    /\ open' = [open EXCEPT ![n] = 0]
    /\ Put(c, [Free EXCEPT !.at = "close", !.obj = open[n]])
    /\ UNCHANGED <<slot, starter, maplock, objects, name, ctx, cleared, refused,
                   overtaken,
                   browser, watch>>

\* Session::close: the context read out, then closed
ReadContext(c) ==
    /\ At(c, "close")
    /\ Put(c, [job[c] EXCEPT !.at = "dispose", !.ctx = ctx[job[c].obj]])
    /\ UNCHANGED <<slot, starter, maplock, sessions, browser, watch>>

Dispose(c) ==
    /\ At(c, "dispose")
    /\ Closing(job[c].ctx)
    /\ Put(c, Free)
    /\ UNCHANGED <<slot, starter, maplock, sessions, contexts, home, sups, sup,
                   engines,
                   watch>>
-------------------------------------------------------------------------------
(* shutdown: the slot, the map, then the supervisor.  known is the history *)
(* of which supervisors ran when it began.                                 *)

TakeSlot(c) ==
    /\ At(c, "idle")
    /\ slot' = 0
    /\ Put(c, [Free EXCEPT !.at = "clear", !.run = slot,
                           !.known = {u \in Sups : sup[u].runs}])
    /\ UNCHANGED <<starter, maplock, sessions, browser, watch>>

ClearMap(c) ==
    /\ At(c, "clear") /\ maplock = Nobody
    /\ open' = [n \in Names |-> 0] /\ cleared' = cleared \cup OpenObjects
    /\ Put(c, [job[c] EXCEPT !.at = "halt"])
    /\ UNCHANGED <<slot, starter, maplock, objects, name, ctx, refused, overtaken,
                   browser,
                   watch>>

\* Supervisor::shutdown, which takes the engine and everything in it
Halt(c) ==
    LET u == job[c].run IN
    /\ At(c, "halt")
    /\ IF u = 0
       THEN UNCHANGED <<sup, live>>
       ELSE /\ sup' = [sup EXCEPT ![u].runs = FALSE, ![u].engine = 0]
            /\ live' = live \ Lost(u)
    /\ Put(c, Free)
    /\ UNCHANGED <<slot, starter, maplock, sessions, contexts, home, unclosed, sups,
                   engines, watch>>
-------------------------------------------------------------------------------
(* A supervisor from the manager's side. *)

EngineDies(u) ==
    /\ Engine(u) # 0
    /\ sup' = [sup EXCEPT ![u].engine = 0]
    /\ live' = live \ Lost(u)
    /\ UNCHANGED <<slot, starter, maplock, sessions, contexts, home, unclosed, sups,
                   engines,
                   watch, job>>

Replace(u) ==
    /\ sup[u].runs /\ Engine(u) = 0 /\ engines < MaxEngines
    /\ engines' = engines + 1
    /\ sup' = [sup EXCEPT ![u].engine = engines + 1, ![u].restarts = @ + 1]
    /\ UNCHANGED <<slot, starter, maplock, sessions, contexts, live, home, unclosed,
                   sups,
                   watch, job>>
-------------------------------------------------------------------------------
(* The recovery watcher of supervisor u. *)

Wat(u, l)    == watch[u].at = l
Turn(u, w)   == watch' = [watch EXCEPT ![u] = w]
quiet        == <<slot, starter, maplock, job>>

\* the spawned task takes the restart count of this moment for its baseline, a
\* replacement before it included: what that replacement took is not rebuilt
Baseline(u) ==
    /\ Wat(u, "start")
    /\ Turn(u, [Asleep EXCEPT !.at = "idle", !.seen = sup[u].restarts])
    /\ overtaken' = IF Engine(u) = 0 THEN overtaken
                    ELSE overtaken \cup
                         {o \in OpenObjects : home[ctx[o]] = u /\ ctx[o] \notin live}
    /\ UNCHANGED <<quiet, open, objects, name, ctx, cleared, refused, browser>>

\* replacements noticed while rebuilding count as handled (a mutant of Rest)
RestSwallowing(u) == [Asleep EXCEPT !.at = "idle", !.seen = sup[u].restarts]

\* back to waiting for a change past the last one seen
Rest(u) == [Asleep EXCEPT !.at = "idle", !.seen = watch[u].seen]

\* the restart count changed, by however much; without a slot it is ignored
Notice(u) ==
    /\ Wat(u, "idle") /\ watch[u].seen # sup[u].restarts
    /\ Turn(u, [Asleep EXCEPT !.at = IF slot = 0 THEN "idle" ELSE "list",
                              !.seen = sup[u].restarts, !.run = slot])
    /\ UNCHANGED <<quiet, sessions, browser>>

List(u) ==
    /\ Wat(u, "list") /\ maplock = Nobody
    /\ Turn(u, IF OpenObjects = {} THEN Rest(u)
               ELSE [watch[u] EXCEPT !.at = "round", !.todo = OpenObjects])
    /\ UNCHANGED <<quiet, sessions, browser>>

\* each round asks for the engine anew; without one the rest is left to the
\* replacement that is coming
Round(u) ==
    LET w == watch[u] IN
    /\ Wat(u, "round")
    /\ Turn(u, IF Engine(w.run) = 0 \/ w.todo = {} \/ w.round = Rounds THEN Rest(u)
               ELSE [w EXCEPT !.at = "check", !.eng = Engine(w.run)])
    /\ UNCHANGED <<quiet, sessions, browser>>

EndRound(u) ==
    LET w == watch[u] IN
    /\ Wat(u, "check") /\ w.todo = {}
    /\ Turn(u, [w EXCEPT !.at = "round", !.round = @ + 1, !.todo = w.failed,
                         !.failed = {}])
    /\ UNCHANGED <<quiet, sessions, browser>>

\* session_is_open asks by id
IsOpen(o) == open[name[o]] # 0

Check(u) ==
    LET w == watch[u] IN
    /\ Wat(u, "check") /\ maplock = Nobody
    /\ \E o \in w.todo :
          Turn(u, [w EXCEPT !.at = IF IsOpen(o) THEN "create" ELSE "check",
                            !.todo = @ \ {o}, !.obj = o])
    /\ UNCHANGED <<quiet, sessions, browser>>

Rebuild(u) ==
    LET w == watch[u] IN
    /\ Wat(u, "create") /\ w.eng = Engine(w.run)
    /\ NewContext(w.run)
    /\ Turn(u, [w EXCEPT !.at = "swap", !.ctx = contexts + 1])
    /\ UNCHANGED <<quiet, sessions, sups, sup, engines>>

RebuildFails(u) ==
    LET w == watch[u] IN
    /\ Wat(u, "create")
    /\ Turn(u, [w EXCEPT !.at = "check", !.failed = @ \cup {w.obj}])
    /\ refused' = IF w.eng = Engine(w.run) THEN refused \cup {w.obj} ELSE refused
    /\ UNCHANGED <<quiet, open, objects, name, ctx, cleared, overtaken, browser>>

\* Session::recover swaps the context in (its pages: SessionPages.tla)
Swap(u) ==
    LET w == watch[u] IN
    /\ Wat(u, "swap")
    /\ ctx' = [ctx EXCEPT ![w.obj] = w.ctx]
    /\ Turn(u, [w EXCEPT !.at = "recheck"])
    /\ overtaken' = IF w.run # u /\ w.ctx \notin live THEN overtaken \cup {w.obj}
                    ELSE overtaken
    /\ UNCHANGED <<quiet, open, objects, name, cleared, refused, browser>>

\* no second look (a mutant of Recheck)
RecheckNever(u) ==
    /\ Wat(u, "recheck")
    /\ Turn(u, [watch[u] EXCEPT !.at = "check"])
    /\ UNCHANGED <<quiet, sessions, browser>>

\* a session closed meanwhile has its new context closed here
Recheck(u) ==
    LET w == watch[u] IN
    /\ Wat(u, "recheck") /\ maplock = Nobody
    /\ IF IsOpen(w.obj) THEN UNCHANGED <<live, unclosed>> ELSE Closing(ctx[w.obj])
    /\ Turn(u, [w EXCEPT !.at = "check"])
    /\ UNCHANGED <<quiet, sessions, contexts, home, sups, sup, engines>>
-------------------------------------------------------------------------------
CallStep(c) ==
    \/ Queue(c) \/ Launch(c) \/ GiveUp(c) \/ Install(c) \/ Lock(c)
    \/ Create(c) \/ CreateFails(c)
    \/ ReadContext(c) \/ Dispose(c) \/ ClearMap(c) \/ Halt(c)

WatchStep(u) ==
    \/ Baseline(u) \/ Notice(u) \/ List(u) \/ Round(u) \/ EndRound(u) \/ Check(u)
    \/ Rebuild(u) \/ RebuildFails(u) \/ Swap(u) \/ Recheck(u)

Next ==
    \/ \E c \in Clients : CallStep(c) \/ TakeSlot(c)
                          \/ \E n \in Names : Request(c, n) \/ Remove(c, n)
    \/ \E u \in Sups : WatchStep(u) \/ EngineDies(u) \/ Replace(u)

Spec == Init /\ [][Next]_vars
-------------------------------------------------------------------------------
(* Every part of the state has its type; whoever waits for a context holds *)
(* the map.                                                                *)
TypeOK ==
    /\ slot \in 0 .. sups /\ starter \in Clients \cup {Nobody}
    /\ maplock \in Clients \cup {Nobody}
    /\ open \in [Names -> 0 .. objects] /\ objects \in 0 .. MaxContexts
    /\ ctx \in [Objects -> 0 .. contexts] /\ contexts \in 0 .. MaxContexts
    /\ live \subseteq 1 .. contexts
    /\ \A c \in Clients : At(c, "create") <=> maplock = c
    /\ \A u \in Sups : watch[u].todo \cup watch[u].failed \subseteq 1 .. objects

(* The cap on sessions holds, although several clients ask at once and a   *)
(* creation is an await inside the decision (SessionManager::session).     *)
WithinCap == Cardinality(OpenObjects) <= MaxSessions

(* Clients that ask for one id at once share one session: an open session  *)
(* leaves the map by being closed, never by being replaced.                *)
NeverReplaced == [][\A n \in Names : open[n] # 0 => open'[n] \in {0, open[n]}]_vars

(* Two first requests launch one browser: a second supervisor runs only    *)
(* when the manager was shut down in between (ensure_running).             *)
OneBrowser ==
    (\A c \in Clients : ~At(c, "clear") /\ ~At(c, "halt"))
        => Cardinality({u \in Sups : sup[u].runs}) <= 1

(* What a client may rely on while others ask, close and shut down: the     *)
(* parts of the state fit, the cap holds, one browser runs (manager.rs).    *)
OneBrowserPerManager == TypeOK /\ WithinCap /\ OneBrowser

Settled ==
    /\ \A c \in Clients : job[c].at = "idle"
    /\ \A u \in Sups : watch[u].at \in {"off", "idle"}

(* A closed session holds no context in a live engine once the dust has    *)
(* settled, however its close and a rebuild interleaved (the membership    *)
(* checks of the recovery task), but for a context that the engine failed  *)
(* to close, as long as its id is not taken up again and no shutdown took  *)
(* it out of the map.                                                      *)
ClosedHoldsNothing ==
    Settled => \A o \in (1 .. objects) \ cleared :
        o \in OpenObjects \/ (\E p \in (1 .. objects) \ {o} : name[p] = name[o])
            \/ ctx[o] \notin live \/ ctx[o] \in unclosed

(* manager.rs, recovery task: a session closed in the meantime "must not   *)
(* be rebuilt into a context nobody will ever close again", its id taken   *)
(* up again or not.                                                        *)
ReusedIdHoldsNothing ==
    Settled => \A o \in 1 .. objects : o \notin OpenObjects => ctx[o] \notin live

(* docs/sessions.md 1: "one session holds exactly one browser context":    *)
(* no context of the live engine belongs to nobody.                        *)
OneContextPerSession == Settled => live \subseteq {ctx[o] : o \in OpenObjects}

(* manager.rs, shutdown: "Shuts the engine down": when it answers, every   *)
(* supervisor that was running when it was called is stopped.              *)
ShutdownStops ==
    [][\A c \in Clients : At(c, "halt") /\ job'[c].at = "idle"
                             => \A u \in job[c].known : ~sup'[u].runs]_vars

Stale(n) == open[n] # 0 /\ ctx[open[n]] \notin live

\* an open session's context is gone, the supervisor it lived in has an engine
\* again, and its watcher rests with no restart left to notice
Missed(n) ==
    /\ Stale(n) /\ slot # 0 /\ home[ctx[open[n]]] = slot
    /\ Engine(slot) # 0
    /\ Wat(slot, "idle") /\ watch[slot].seen = sup[slot].restarts

(* No replacement is missed, whatever died while sessions were rebuilt (the *)
(* rounds of the recovery task, manager.rs); but for a session that engine, *)
(* alive, refused a context in a round, one whose context a replacement     *)
(* took before the watcher had its baseline, and one that the watcher of a  *)
(* supervisor stopped long ago finished rebuilding on an engine since lost. *)
NoneMissed == \A n \in Names : Missed(n) => open[n] \in refused \cup overtaken

(* manager.rs: "the watcher - the sole recovery driver": a session is left  *)
(* without a context only by an engine that refused it one.                 *)
SoleDriver == \A n \in Names : Missed(n) => open[n] \in refused
===============================================================================
