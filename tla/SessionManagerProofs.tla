-------------------------- MODULE SessionManagerProofs --------------------------
(***************************************************************************)
(* The manager for any number of clients, ids and supervisors.  First the  *)
(* map of sessions: the cap, and that nobody's session is replaced.  Then  *)
(* the engine slot, the contexts and the recovery task: what each step     *)
(* does (lemmas named ...Does), the parts of the inductive invariant, one  *)
(* lemma for each that every step keeps it, and the theorems they give.    *)
(* Last, the connections of the MCP server in front of it.                 *)
(***************************************************************************)
EXTENDS SessionManager, McpServe, FiniteSetTheorems, TLAPS

Fields == DOMAIN Free

\* a call of session() from its request to its answer
Asking == {"queue", "launch", "install", "lock", "create"}

\* every call is a record of these fields, one that asks has an id
CallInv ==
    /\ DOMAIN job = Clients
    /\ \A c \in Clients : DOMAIN job[c] = Fields
    /\ \A c \in Clients : job[c].at \in Asking => job[c].name \in Names

MapInv ==
    /\ objects \in Nat /\ open \in [Names -> Nat]
    /\ IsFiniteSet(OpenObjects) /\ Cardinality(OpenObjects) <= MaxSessions

\* what Lock saw is still so while the engine is asked for a context: the
\* map has not been released since
CreateInv ==
    \A c \in Clients : job[c].at = "create" =>
        /\ maplock = c
        /\ open[job[c].name] = 0
        /\ Cardinality(OpenObjects) < MaxSessions

IInv == CallInv /\ MapInv /\ CreateInv

LEMMA FreeFields ==
    Fields = {"at", "name", "run", "obj", "ctx", "eng", "known"} /\ Free.at = "idle"
  BY DEF Fields, Free

(* A call that goes on without touching the map keeps the invariant.       *)
LEMMA Aside ==
    ASSUME IInv, NEW c \in Clients, NEW j,
           Put(c, j), DOMAIN j = Fields, j.at # "create",
           j.at \in Asking => j.name \in Names,
           job[c].at # "create", UNCHANGED <<objects, open, maplock>>
    PROVE  IInv'
  <1>1. CallInv'
    BY DEF IInv, CallInv, Put
  <1>2. MapInv'
    BY DEF IInv, MapInv, OpenObjects
  <1>3. CreateInv'
    BY DEF IInv, CallInv, CreateInv, Put, OpenObjects
  <1> QED
    BY <1>1, <1>2, <1>3 DEF IInv

(* A map that only loses sessions stays finite and within the cap.         *)
LEMMA Fewer ==
    ASSUME MapInv, MaxSessions \in Nat, OpenObjects' \subseteq OpenObjects,
           objects' = objects, open' \in [Names -> Nat]
    PROVE  MapInv'
  <1>1. IsFiniteSet(OpenObjects') /\ Cardinality(OpenObjects') <= Cardinality(OpenObjects)
    BY FS_Subset DEF MapInv
  <1>2. Cardinality(OpenObjects) \in Nat /\ Cardinality(OpenObjects') \in Nat
    BY <1>1, FS_CardinalityType DEF MapInv
  <1> QED
    BY <1>1, <1>2 DEF MapInv

(* session(): the map is locked for the engine round trip, or not at all   *)
(* (manager.rs, SessionManager::session).                                  *)
LEMMA LockKeeps == ASSUME IInv, NEW c \in Clients, Lock(c) PROVE IInv'
  <1> DEFINE j == job[c]
  <1>0. j.at = "lock" /\ maplock = Nobody /\ DOMAIN j = Fields /\ j.name \in Names
    BY DEF Lock, At, IInv, CallInv, Asking
  <1>1. CASE Put(c, Free) /\ UNCHANGED maplock
    <2>1. UNCHANGED <<objects, open, maplock>>
      BY <1>1 DEF Lock, sessions
    <2>2. DOMAIN Free = Fields /\ Free.at # "create" /\ Free.at \notin Asking
      BY FreeFields DEF Fields, Asking
    <2> HIDE DEF Fields
    <2> QED
      BY <1>0, <1>1, <2>1, <2>2, Aside
  <1>2. CASE /\ Put(c, [j EXCEPT !.at = "create", !.eng = Engine(j.run)])
             /\ maplock' = c /\ open[j.name] = 0
             /\ ~ Cardinality(OpenObjects) >= MaxSessions
    <2> DEFINE k == [j EXCEPT !.at = "create", !.eng = Engine(j.run)]
    <2>1. DOMAIN k = Fields /\ k.at = "create" /\ k.name = j.name
      BY <1>0, FreeFields
    <2>2. \A d \in Clients : job[d].at # "create"
      BY <1>0, ManagerAssumption DEF IInv, CreateInv
    <2>3. Cardinality(OpenObjects) < MaxSessions
      BY <1>2, FS_CardinalityType, ManagerAssumption DEF IInv, MapInv
    <2>4. UNCHANGED <<objects, open>>
      BY DEF Lock, sessions
    <2>5. job' = [job EXCEPT ![c] = k]
      BY <1>2 DEF Put
    <2> HIDE DEF k
    <2>6. CallInv'
      BY <1>0, <2>1, <2>5 DEF IInv, CallInv
    <2>7. MapInv'
      BY <2>4 DEF IInv, MapInv, OpenObjects
    <2>8. CreateInv'
      BY <1>2, <2>1, <2>2, <2>3, <2>4, <2>5 DEF IInv, CallInv, CreateInv, OpenObjects
    <2> QED
      BY <2>6, <2>7, <2>8 DEF IInv
  <1> QED
    BY <1>1, <1>2 DEF Lock

(* A session is put where none was, and the cap had room for it            *)
(* (manager.rs, SessionManager::session).                                  *)
LEMMA CreateKeeps == ASSUME IInv, NEW c \in Clients, Create(c) PROVE IInv'
  <1> DEFINE j == job[c]
             o == objects + 1
  <1>0. /\ j.at = "create" /\ j.name \in Names /\ maplock = c
        /\ Cardinality(OpenObjects) < MaxSessions
        /\ objects \in Nat /\ open \in [Names -> Nat]
    BY DEF Create, At, IInv, CallInv, MapInv, CreateInv, Asking
  <1>1. /\ objects' = o /\ open' = [open EXCEPT ![j.name] = o]
        /\ maplock' = Nobody /\ job' = [job EXCEPT ![c] = Free]
    BY DEF Create, Put
  <1>2. CallInv'
    BY <1>1, FreeFields DEF IInv, CallInv, Fields, Asking
  <1>3. MapInv'
    <2>1. OpenObjects' \subseteq OpenObjects \cup {o}
      BY <1>0, <1>1 DEF OpenObjects
    <2>2. /\ IsFiniteSet(OpenObjects \cup {o})
          /\ Cardinality(OpenObjects \cup {o}) <= Cardinality(OpenObjects) + 1
      BY FS_AddElement, FS_CardinalityType DEF IInv, MapInv
    <2>3. /\ IsFiniteSet(OpenObjects')
          /\ Cardinality(OpenObjects') <= Cardinality(OpenObjects \cup {o})
      BY <2>1, <2>2, FS_Subset
    <2>4. /\ Cardinality(OpenObjects) \in Nat /\ Cardinality(OpenObjects') \in Nat
          /\ Cardinality(OpenObjects \cup {o}) \in Nat /\ MaxSessions \in Nat
      BY <2>2, <2>3, FS_CardinalityType, ManagerAssumption DEF IInv, MapInv
    <2> QED
      BY <1>0, <1>1, <2>2, <2>3, <2>4 DEF MapInv
  <1>4. CreateInv'
    <2>1. \A d \in Clients : job'[d].at # "create"
      BY <1>0, <1>1, FreeFields DEF IInv, CallInv, CreateInv
    <2> QED
      BY <2>1 DEF CreateInv
  <1> QED
    BY <1>2, <1>3, <1>4 DEF IInv

(* A context that cannot be had releases the map as it was.                *)
LEMMA CreateFailsKeeps == ASSUME IInv, NEW c \in Clients, CreateFails(c) PROVE IInv'
  <1>1. /\ job[c].at = "create" /\ maplock = c
        /\ job' = [job EXCEPT ![c] = Free] /\ UNCHANGED <<objects, open>>
    BY DEF CreateFails, At, Put, sessions, IInv, CreateInv
  <1>2. CallInv'
    BY <1>1, FreeFields DEF IInv, CallInv, Fields, Asking
  <1>3. MapInv'
    BY <1>1 DEF IInv, MapInv, OpenObjects
  <1>4. CreateInv'
    BY <1>1, FreeFields DEF IInv, CallInv, CreateInv
  <1> QED
    BY <1>2, <1>3, <1>4 DEF IInv

(* Sessions leave the map while no creation holds it: one of them          *)
(* (close_session) or all (shutdown).                                      *)
LEMMA LeaveKeeps ==
    ASSUME IInv, NEW c \in Clients, maplock = Nobody, UNCHANGED <<objects, maplock>>,
           open' \in [Names -> Nat], \A n \in Names : open'[n] \in {0, open[n]},
           NEW j, Put(c, j), DOMAIN j = Fields, j.at \notin Asking
    PROVE  IInv'
  <1>1. \A d \in Clients : job[d].at # "create"
    BY ManagerAssumption DEF IInv, CreateInv
  <1>2. CallInv'
    BY DEF IInv, CallInv, Put
  <1>3. MapInv'
    <2>1. OpenObjects' \subseteq OpenObjects
      BY DEF OpenObjects
    <2> QED
      BY <2>1, Fewer, ManagerAssumption DEF IInv
  <1>4. CreateInv'
    BY <1>1 DEF IInv, CallInv, CreateInv, Put, Asking
  <1> QED
    BY <1>2, <1>3, <1>4 DEF IInv

LEMMA RemoveKeeps ==
    ASSUME IInv, NEW c \in Clients, NEW n \in Names, Remove(c, n) PROVE IInv'
  <1> DEFINE j == [Free EXCEPT !.at = "close", !.obj = open[n]]
  <1>1. DOMAIN j = Fields /\ j.at = "close"
    BY FreeFields DEF Fields
  <1>2. /\ Put(c, j) /\ maplock = Nobody /\ UNCHANGED <<objects, maplock>>
        /\ open' = [open EXCEPT ![n] = 0] /\ open \in [Names -> Nat]
    BY DEF Remove, IInv, MapInv
  <1>3. open' \in [Names -> Nat] /\ \A m \in Names : open'[m] \in {0, open[m]}
    BY <1>2
  <1> HIDE DEF j
  <1> QED
    BY <1>1, <1>2, <1>3, LeaveKeeps DEF Asking

LEMMA ClearKeeps == ASSUME IInv, NEW c \in Clients, ClearMap(c) PROVE IInv'
  <1> DEFINE j == [job[c] EXCEPT !.at = "halt"]
  <1>1. DOMAIN j = Fields /\ j.at = "halt"
    BY FreeFields DEF IInv, CallInv
  <1>2. /\ Put(c, j) /\ maplock = Nobody /\ UNCHANGED <<objects, maplock>>
        /\ open' = [n \in Names |-> 0]
    BY DEF ClearMap
  <1>3. open' \in [Names -> Nat] /\ \A m \in Names : open'[m] \in {0, open[m]}
    BY <1>2
  <1> HIDE DEF j
  <1> QED
    BY <1>1, <1>2, <1>3, LeaveKeeps DEF Asking

(* The rest of a call leaves the map alone (manager.rs, ensure_running,    *)
(* close_session and shutdown).                                            *)
LEMMA CallKeeps ==
    ASSUME IInv, NEW c \in Clients,
           \/ \E n \in Names : Request(c, n)
           \/ Queue(c) \/ Launch(c) \/ GiveUp(c) \/ Install(c)
           \/ ReadContext(c) \/ Dispose(c) \/ TakeSlot(c) \/ Halt(c)
    PROVE  IInv'
  <1> DEFINE k == job'[c]
             Goes == /\ Put(c, k) /\ DOMAIN k = Fields /\ k.at # "create"
                     /\ k.at \in Asking => k.name \in Names
                     /\ job[c].at # "create" /\ UNCHANGED <<objects, open, maplock>>
  <1>0. /\ DOMAIN job = Clients /\ DOMAIN job[c] = Fields
        /\ job[c].at \in Asking => job[c].name \in Names
    BY DEF IInv, CallInv
  <1> USE FreeFields DEF Fields, Asking, At, sessions, Put
  <1>1. ASSUME NEW n \in Names, Request(c, n) PROVE Goes
    <2> DEFINE a == IF slot # 0 THEN "lock" ELSE "queue"
    <2>0. a \in {"lock", "queue"}
      OBVIOUS
    <2>1. /\ At(c, "idle") /\ Put(c, [Free EXCEPT !.at = a, !.name = n, !.run = slot])
          /\ UNCHANGED <<slot, starter, maplock, sessions, browser, watch>>
      BY <1>1, Zenon DEF Request
    <2> HIDE DEF a
    <2>2. k = [Free EXCEPT !.at = a, !.name = n, !.run = slot]
      BY <1>0, <2>1
    <2>3. k.at = a /\ k.name = n /\ DOMAIN k = Fields
      BY <2>2
    <2> QED
      BY <1>0, <2>0, <2>1, <2>2, <2>3
  <1>2. ASSUME Queue(c) PROVE Goes
    BY <1>0, <1>2 DEF Queue
  <1>3. ASSUME Launch(c) PROVE Goes
    BY <1>0, <1>3 DEF Launch
  <1>4. ASSUME GiveUp(c) PROVE Goes
    BY <1>0, <1>4 DEF GiveUp
  <1>5. ASSUME Install(c) PROVE Goes
    BY <1>0, <1>5 DEF Install
  <1>6. ASSUME ReadContext(c) PROVE Goes
    BY <1>0, <1>6 DEF ReadContext
  <1>7. ASSUME Dispose(c) PROVE Goes
    BY <1>0, <1>7 DEF Dispose
  <1>8. ASSUME TakeSlot(c) PROVE Goes
    BY <1>0, <1>8 DEF TakeSlot
  <1>9. ASSUME Halt(c) PROVE Goes
    BY <1>0, <1>9 DEF Halt
  <1>10. Goes
    BY <1>1, <1>2, <1>3, <1>4, <1>5, <1>6, <1>7, <1>8, <1>9
  <1> HIDE DEF k
  <1> QED
    BY <1>10, Aside

LEMMA OthersKeep ==
    ASSUME IInv, UNCHANGED <<objects, open, maplock, job>>
    PROVE  IInv'
  BY DEF IInv, CallInv, MapInv, CreateInv, OpenObjects

(* The watchers and the supervisors never touch the map, the slot or a     *)
(* call (manager.rs, the recovery task).                                   *)
LEMMA WatchLeaves ==
    ASSUME NEW u \in Sups, WatchStep(u) \/ EngineDies(u) \/ Replace(u)
    PROVE  UNCHANGED <<slot, starter, maplock, job, objects, open, name, cleared, sups>>
  <1>1. CASE Notice(u)
    <2>1. UNCHANGED <<quiet, sessions, browser>>
      BY <1>1, Zenon DEF Notice
    <2> QED
      BY <2>1 DEF quiet, sessions, browser
  <1>2. CASE List(u) \/ Round(u) \/ EndRound(u)
    BY <1>2 DEF List, Round, EndRound, quiet, sessions, browser
  <1>3. CASE Check(u)
    <2>1. UNCHANGED <<quiet, sessions, browser>>
      BY <1>3, Zenon DEF Check
    <2> QED
      BY <2>1 DEF quiet, sessions, browser
  <1>4. CASE Baseline(u) \/ Rebuild(u) \/ RebuildFails(u) \/ Swap(u) \/ Recheck(u)
    BY <1>4 DEF Baseline, Rebuild, RebuildFails, Swap, Recheck, quiet, sessions, browser
  <1>5. CASE EngineDies(u) \/ Replace(u)
    BY <1>5 DEF EngineDies, Replace, sessions
  <1> QED
    BY <1>1, <1>2, <1>3, <1>4, <1>5 DEF WatchStep

LEMMA StepKeeps == IInv /\ [Next]_vars => IInv'
  <1> SUFFICES ASSUME IInv, [Next]_vars PROVE IInv'
    OBVIOUS
  <1>1. ASSUME NEW c \in Clients, CallStep(c) PROVE IInv'
    BY <1>1, LockKeeps, CreateKeeps, CreateFailsKeeps, ClearKeeps, CallKeeps DEF CallStep
  <1>2. ASSUME NEW c \in Clients, TakeSlot(c) PROVE IInv'
    BY <1>2, CallKeeps
  <1>3. ASSUME NEW c \in Clients, NEW n \in Names, Request(c, n) PROVE IInv'
    BY <1>3, CallKeeps
  <1>4. ASSUME NEW c \in Clients, NEW n \in Names, Remove(c, n) PROVE IInv'
    BY <1>4, RemoveKeeps
  <1>5. ASSUME NEW u \in Sups, WatchStep(u) \/ EngineDies(u) \/ Replace(u) PROVE IInv'
    BY <1>5, WatchLeaves, OthersKeep
  <1>6. CASE UNCHANGED vars
    BY <1>6, OthersKeep DEF vars
  <1> QED
    BY <1>1, <1>2, <1>3, <1>4, <1>5, <1>6 DEF Next

LEMMA Starts == Init => IInv
  <1> SUFFICES ASSUME Init PROVE IInv
    OBVIOUS
  <1>1. OpenObjects = {}
    BY DEF Init, OpenObjects
  <1>2. IsFiniteSet(OpenObjects) /\ Cardinality(OpenObjects) = 0
    BY <1>1, FS_EmptySet
  <1>3. CallInv
    BY FreeFields DEF Init, CallInv, Asking, Fields
  <1>4. MapInv
    BY <1>2, ManagerAssumption DEF Init, MapInv
  <1> QED
    BY <1>3, <1>4, FreeFields DEF Init, IInv, CreateInv

(* An inductive invariant of the manager's map: what Lock saw holds until  *)
(* the engine answered, because nobody else gets the map meanwhile.        *)
THEOREM Inductive == Spec => []IInv
  BY Starts, StepKeeps, PTL DEF Spec

(* The cap on sessions holds for any number of clients, although a         *)
(* creation is an await inside the decision (manager.rs, session).         *)
THEOREM CapHolds == Spec => []WithinCap
  <1>1. IInv => WithinCap
    BY DEF IInv, MapInv, WithinCap
  <1> QED
    BY <1>1, Inductive, PTL

(* An open session leaves the map by being closed, never by being          *)
(* replaced, whoever asks for its id (manager.rs, session).                *)
THEOREM Shared == Spec => NeverReplaced
  <1> DEFINE Keeps == \A n \in Names : open[n] # 0 => open'[n] \in {0, open[n]}
  <1>1. ASSUME IInv, [Next]_vars PROVE Keeps
    <2>1. ASSUME NEW c \in Clients, Create(c) PROVE Keeps
      BY <1>1, <2>1 DEF IInv, CallInv, MapInv, CreateInv, Create, At, Asking
    <2>2. ASSUME NEW c \in Clients, NEW n \in Names, Remove(c, n) PROVE Keeps
      BY <1>1, <2>2 DEF IInv, MapInv, Remove
    <2>3. ASSUME NEW c \in Clients, ClearMap(c) PROVE Keeps
      BY <2>3 DEF ClearMap
    <2>4. ASSUME NEW c \in Clients,
                 \/ Queue(c) \/ Launch(c) \/ GiveUp(c) \/ Install(c) \/ Lock(c)
                 \/ CreateFails(c) \/ ReadContext(c) \/ Dispose(c) \/ TakeSlot(c) \/ Halt(c)
          PROVE  open' = open
      BY <2>4 DEF Queue, Launch, GiveUp, Install, Lock, CreateFails, ReadContext, Dispose,
                  TakeSlot, Halt, sessions
    <2>6. ASSUME NEW c \in Clients, NEW n \in Names, Request(c, n) PROVE open' = open
      <3>1. UNCHANGED <<slot, starter, maplock, sessions, browser, watch>>
        BY <2>6, Zenon DEF Request
      <3> QED
        BY <3>1 DEF sessions
    <2>5. ASSUME NEW u \in Sups, WatchStep(u) \/ EngineDies(u) \/ Replace(u)
          PROVE  open' = open
      BY <2>5, WatchLeaves
    <2> QED
      BY <1>1, <2>1, <2>2, <2>3, <2>4, <2>5, <2>6 DEF Next, CallStep, vars
  <1>2. IInv /\ [Next]_vars => [Keeps]_vars
    BY <1>1
  <1> QED
    BY <1>2, Inductive, PTL DEF Spec, NeverReplaced

-------------------------------------------------------------------------------
(* The shapes and the numbers of the state.                                *)

Stages == {"idle", "queue", "launch", "install", "lock", "create", "close", "dispose",
           "clear", "halt"}
Watching == {"off", "start", "idle", "list", "round", "check", "create", "swap", "recheck"}

JobSet   == [at : Stages, name : Names \cup {"none"}, run : Nat, obj : Nat, ctx : Nat,
             eng : Nat, known : SUBSET Sups]
WatchSet == [at : Watching, seen : Nat, run : Nat, round : Nat, todo : SUBSET Nat,
             failed : SUBSET Nat, obj : Nat, ctx : Nat, eng : Nat]
SupSet   == [runs : BOOLEAN, engine : Nat, restarts : Nat]

JobType   == job \in [Clients -> JobSet]
WatchType == watch \in [Sups -> WatchSet]
SupType   == sup \in [Sups -> SupSet]

\* numbers count up to their bounds
CountInv ==
    /\ slot \in Nat /\ sups \in Nat /\ engines \in Nat /\ objects \in Nat /\ contexts \in Nat
    /\ slot <= sups /\ sups <= MaxSupervisors
    /\ objects <= MaxContexts /\ contexts <= MaxContexts

\* what has a number was made before
RangeInv ==
    /\ open \in [Names -> 0 .. objects] /\ name \in [Objects -> Names \cup {"none"}]
    /\ ctx \in [Objects -> 0 .. contexts] /\ home \in [Contexts -> 0 .. sups]
    /\ live \subseteq 1 .. contexts

CallBounds ==
    \A c \in Clients :
        /\ job[c].run <= sups /\ job[c].obj <= objects /\ job[c].ctx <= contexts
        /\ job[c].at \in {"close", "dispose"} => job[c].obj # 0
        /\ job[c].at \in {"lock", "create", "install"} => job[c].run # 0

WatchBounds ==
    \A u \in Sups :
        /\ watch[u].run <= sups /\ watch[u].obj <= objects /\ watch[u].ctx <= contexts
        /\ watch[u].todo \cup watch[u].failed \subseteq 1 .. objects
        /\ u > sups => watch[u].at = "off"
        /\ watch[u].at \in {"create", "swap", "recheck"} => watch[u].obj # 0
        /\ watch[u].at \notin {"off", "start", "idle"} => watch[u].run # 0

HoldersOK == starter \in Clients \cup {Nobody} /\ maplock \in Clients \cup {Nobody}

NumberInv == CountInv /\ RangeInv /\ CallBounds /\ WatchBounds

Shapes == JobType /\ WatchType /\ SupType

Typed == Shapes /\ NumberInv /\ HoldersOK

\* what a step of one call, supervisor or watcher leaves of the others
Others(c) == \A d \in Clients \ {c} : job'[d] = job[d]
Supervisors(u) == \A v \in Sups \ {u} : sup'[v] = sup[v]
Watchers(u) == \A v \in Sups \ {u} : watch'[v] = watch[v]

LEMMA PutIs ==
    ASSUME JobType, NEW c \in Clients, NEW j \in JobSet, Put(c, j)
    PROVE  JobType' /\ Others(c) /\ job'[c] = j
  BY DEF JobType, Put, Others

LEMMA TurnIs ==
    ASSUME WatchType, NEW u \in Sups, NEW w \in WatchSet, Turn(u, w)
    PROVE  WatchType' /\ Watchers(u) /\ watch'[u] = w
  BY DEF WatchType, Turn, Watchers

LEMMA FreeIs ==
    Free \in JobSet /\ Free.at = "idle" /\ Free.run = 0 /\ Free.obj = 0 /\ Free.ctx = 0
  BY DEF Free, JobSet, Stages

LEMMA AsleepIs ==
    /\ Asleep \in WatchSet /\ Asleep.at = "off"
    /\ Asleep.run = 0 /\ Asleep.obj = 0 /\ Asleep.ctx = 0
    /\ Asleep.todo = {} /\ Asleep.failed = {} /\ Asleep.round = 0 /\ Asleep.seen = 0
  BY DEF Asleep, WatchSet, Watching

LEMMA Rests ==
    ASSUME WatchType, NEW u \in Sups
    PROVE  /\ Rest(u) \in WatchSet /\ Rest(u).at = "idle" /\ Rest(u).seen = watch[u].seen
           /\ Rest(u).run = 0 /\ Rest(u).obj = 0 /\ Rest(u).ctx = 0
           /\ Rest(u).todo = {} /\ Rest(u).failed = {}
  BY DEF WatchType, WatchSet, Watching, Rest, Asleep

LEMMA SupPut ==
    ASSUME SupType, NEW u \in Sups, NEW v \in SupSet, sup' = [sup EXCEPT ![u] = v]
    PROVE  SupType' /\ Supervisors(u) /\ sup'[u] = v
  BY DEF SupType, Supervisors

LEMMA RestIs ==
    ASSUME Typed, NEW u \in Sups
    PROVE  /\ Rest(u).at = "idle" /\ Rest(u).seen = watch[u].seen /\ Rest(u).run = 0
           /\ Rest(u).obj = 0 /\ Rest(u).ctx = 0 /\ Rest(u).todo = {} /\ Rest(u).failed = {}
  BY Rests DEF Typed, Shapes

LEMMA JobFields ==
    ASSUME Typed, NEW c \in Clients
    PROVE  /\ job[c] \in JobSet /\ job[c].at \in Stages /\ job[c].name \in Names \cup {"none"}
           /\ job[c].run \in Nat /\ job[c].obj \in Nat /\ job[c].ctx \in Nat
  BY DEF Typed, Shapes, JobType, JobSet

LEMMA WatchFields ==
    ASSUME Typed, NEW u \in Sups
    PROVE  /\ watch[u] \in WatchSet /\ watch[u].run \in Nat /\ watch[u].obj \in Nat
           /\ watch[u].ctx \in Nat /\ watch[u].seen \in Nat /\ watch[u].eng \in Nat
           /\ watch[u].todo \subseteq Nat /\ watch[u].failed \subseteq Nat
  BY DEF Typed, Shapes, WatchType, WatchSet

LEMMA Counts ==
    ASSUME Typed
    PROVE  CountInv /\ RangeInv /\ CallBounds /\ WatchBounds /\ HoldersOK /\ Shapes
  BY DEF Typed, NumberInv

LEMMA SupFields ==
    ASSUME Typed, NEW u \in Sups
    PROVE  sup[u] \in SupSet /\ sup[u].engine \in Nat /\ sup[u].restarts \in Nat
  BY DEF Typed, Shapes, SupType, SupSet

(* What the calls leave alone, but for the two that make something.        *)
LEMMA CallLeaves ==
    ASSUME NEW c \in Clients,
           \/ \E n \in Names : Request(c, n) \/ Remove(c, n)
           \/ Queue(c) \/ GiveUp(c) \/ Install(c) \/ Lock(c) \/ CreateFails(c)
           \/ ReadContext(c) \/ Dispose(c) \/ TakeSlot(c) \/ ClearMap(c) \/ Halt(c)
    PROVE  UNCHANGED <<objects, name, ctx, refused, overtaken, contexts, home, sups, watch>>
  <1>1. ASSUME NEW n \in Names, Request(c, n) \/ Remove(c, n)
        PROVE  UNCHANGED <<objects, name, ctx, refused, overtaken, contexts, home, sups, watch>>
    <2>1. CASE Request(c, n)
      <3>1. UNCHANGED <<slot, starter, maplock, sessions, browser, watch>>
        BY <2>1, Zenon DEF Request
      <3> QED
        BY <3>1 DEF sessions, browser
    <2>2. CASE Remove(c, n)
      BY <2>2 DEF Remove, browser
    <2> QED
      BY <1>1, <2>1, <2>2
  <1>2. CASE Queue(c) \/ Install(c) \/ Lock(c) \/ CreateFails(c)
    BY <1>2 DEF Queue, Install, Lock, CreateFails, sessions, browser
  <1>3. CASE ReadContext(c) \/ TakeSlot(c) \/ ClearMap(c)
    BY <1>3 DEF ReadContext, TakeSlot, ClearMap, sessions, browser
  <1>4. CASE GiveUp(c) \/ Dispose(c) \/ Halt(c)
    BY <1>4 DEF GiveUp, Dispose, Halt, sessions
  <1> QED
    BY <1>1, <1>2, <1>3, <1>4

-------------------------------------------------------------------------------
(* What each step does.                                                    *)

LEMMA RequestDoes ==
    ASSUME Typed, NEW c \in Clients, NEW n \in Names, Request(c, n)
    PROVE  /\ JobType' /\ Others(c) /\ job[c].at = "idle"
           /\ job'[c].at \in {"lock", "queue"} /\ (job'[c].at = "lock" <=> slot # 0)
           /\ job'[c].run = slot /\ job'[c].obj = 0 /\ job'[c].ctx = 0
           /\ UNCHANGED <<slot, starter, maplock, sessions, browser, watch>>
  <1> DEFINE a == IF slot # 0 THEN "lock" ELSE "queue"
             k == [Free EXCEPT !.at = a, !.name = n, !.run = slot]
  <1>1. a \in {"lock", "queue"} /\ (a = "lock" <=> slot # 0)
    OBVIOUS
  <1>2. job[c].at = "idle" /\ Put(c, k)
        /\ UNCHANGED <<slot, starter, maplock, sessions, browser, watch>>
    BY Zenon DEF Request, At
  <1> HIDE DEF a
  <1>3. k \in JobSet /\ k.at = a /\ k.run = slot /\ k.obj = 0 /\ k.ctx = 0
    BY <1>1, Counts DEF Free, JobSet, Stages, CountInv
  <1> HIDE DEF k
  <1> QED
    BY <1>1, <1>2, <1>3, PutIs, Counts DEF Shapes

LEMMA QueueDoes ==
    ASSUME Typed, NEW c \in Clients, Queue(c)
    PROVE  /\ JobType' /\ Others(c) /\ job[c].at = "queue" /\ starter = Nobody
           /\ \/ slot # 0 /\ job'[c].at = "lock" /\ job'[c].run = slot /\ starter' = Nobody
              \/ slot = 0 /\ job'[c].at = "launch" /\ job'[c].run = job[c].run /\ starter' = c
           /\ job'[c].obj = job[c].obj /\ job'[c].ctx = job[c].ctx
           /\ UNCHANGED <<slot, maplock, sessions, browser, watch>>
  <1>1. job[c] \in JobSet
    BY DEF JobType, Typed, Shapes
  <1>2. CASE /\ slot # 0 /\ Put(c, [job[c] EXCEPT !.at = "lock", !.run = slot])
             /\ UNCHANGED starter
    <2> DEFINE k == [job[c] EXCEPT !.at = "lock", !.run = slot]
    <2>0. slot \in Nat
      BY Counts DEF CountInv
    <2>1. /\ k \in JobSet /\ k.at = "lock" /\ k.run = slot
          /\ k.obj = job[c].obj /\ k.ctx = job[c].ctx
      BY <1>1, <2>0 DEF JobSet, Stages
    <2>2. Put(c, k)
      BY <1>2
    <2> HIDE DEF k
    <2> QED
      BY <1>2, <2>1, <2>2, PutIs DEF Queue, At, Typed, Shapes
  <1>3. CASE slot = 0 /\ Put(c, [job[c] EXCEPT !.at = "launch"]) /\ starter' = c
    <2> DEFINE k == [job[c] EXCEPT !.at = "launch"]
    <2>1. /\ k \in JobSet /\ k.at = "launch" /\ k.run = job[c].run
          /\ k.obj = job[c].obj /\ k.ctx = job[c].ctx
      BY <1>1 DEF JobSet, Stages
    <2>2. Put(c, k)
      BY <1>3
    <2> HIDE DEF k
    <2> QED
      BY <1>3, <2>1, <2>2, PutIs DEF Queue, At, Typed, Shapes
  <1> QED
    BY <1>2, <1>3 DEF Queue

LEMMA LaunchDoes ==
    ASSUME Typed, NEW c \in Clients, Launch(c)
    PROVE  /\ JobType' /\ Others(c) /\ job[c].at = "launch" /\ job'[c].at = "install"
           /\ sups + 1 \in Sups /\ sups' = sups + 1 /\ engines' = engines + 1
           /\ job'[c].run = sups + 1 /\ job'[c].obj = job[c].obj /\ job'[c].ctx = job[c].ctx
           /\ WatchType' /\ Watchers(sups + 1)
           /\ watch'[sups + 1] = [Asleep EXCEPT !.at = "start"]
           /\ SupType' /\ Supervisors(sups + 1)
           /\ sup'[sups + 1] = [runs |-> TRUE, engine |-> engines + 1, restarts |-> 0]
           /\ UNCHANGED <<slot, starter, maplock, sessions, contexts, live, home, unclosed>>
  <1>0. sups \in Nat /\ engines \in Nat /\ job[c] \in JobSet
    BY Counts, JobFields DEF CountInv
  <1>1. /\ job[c].at = "launch" /\ sups + 1 \in Sups
        /\ sups' = sups + 1 /\ engines' = engines + 1
        /\ UNCHANGED <<slot, starter, maplock, sessions, contexts, live, home, unclosed>>
    BY <1>0, ManagerAssumption DEF Launch, At, Sups
  <1>2. /\ JobType' /\ Others(c) /\ job'[c].at = "install"
        /\ job'[c].run = sups + 1 /\ job'[c].obj = job[c].obj /\ job'[c].ctx = job[c].ctx
    <2> DEFINE r == sups + 1
               k == [job[c] EXCEPT !.at = "install", !.run = r]
    <2>0. r \in Nat
      BY <1>0
    <2> HIDE DEF r
    <2>1. /\ k \in JobSet /\ k.at = "install" /\ k.run = r
          /\ k.obj = job[c].obj /\ k.ctx = job[c].ctx
      BY <1>0, <2>0 DEF JobSet, Stages
    <2>2. Put(c, k)
      BY DEF Launch, r
    <2> HIDE DEF k
    <2> QED
      BY <2>1, <2>2, PutIs DEF Typed, Shapes, r
  <1>3. WatchType' /\ Watchers(sups + 1) /\ watch'[sups + 1] = [Asleep EXCEPT !.at = "start"]
    <2> DEFINE w == [Asleep EXCEPT !.at = "start"]
    <2>1. w \in WatchSet
      BY DEF Asleep, WatchSet, Watching
    <2>2. Turn(sups + 1, w)
      BY DEF Launch, Turn
    <2> HIDE DEF w
    <2>3. WatchType' /\ Watchers(sups + 1) /\ watch'[sups + 1] = w
      BY <1>1, <2>1, <2>2, TurnIs DEF Typed, Shapes
    <2> QED
      BY <2>3 DEF w
  <1>4. SupType' /\ Supervisors(sups + 1)
        /\ sup'[sups + 1] = [runs |-> TRUE, engine |-> engines + 1, restarts |-> 0]
    <2> DEFINE v == [runs |-> TRUE, engine |-> engines + 1, restarts |-> 0]
    <2>1. v \in SupSet
      BY <1>0 DEF SupSet
    <2>2. sup' = [sup EXCEPT ![sups + 1] = v]
      BY DEF Launch
    <2> HIDE DEF v
    <2>3. SupType' /\ Supervisors(sups + 1) /\ sup'[sups + 1] = v
      BY <1>1, <2>1, <2>2, SupPut DEF Typed, Shapes
    <2> QED
      BY <2>3 DEF v
  <1> QED
    BY <1>1, <1>2, <1>3, <1>4

LEMMA GiveUpDoes ==
    ASSUME Typed, NEW c \in Clients, GiveUp(c)
    PROVE  /\ JobType' /\ Others(c) /\ job'[c] = Free
           /\ job[c].at \in {"launch", "install"}
           /\ SupType' /\ Supervisors(job[c].run)
           /\ job[c].run # 0 => /\ job[c].run \in Sups /\ sup'[job[c].run].runs = FALSE
                                /\ sup'[job[c].run].engine = sup[job[c].run].engine
                                /\ sup'[job[c].run].restarts = sup[job[c].run].restarts
           /\ starter' = Nobody
           /\ UNCHANGED <<slot, maplock, sessions, contexts, live, home, unclosed, sups, engines, watch>>
  <1> DEFINE u == job[c].run
  <1>1. /\ job[c].at \in {"launch", "install"} /\ Put(c, Free) /\ starter' = Nobody
        /\ sup' = IF u = 0 THEN sup ELSE [sup EXCEPT ![u].runs = FALSE]
        /\ UNCHANGED <<slot, maplock, sessions, contexts, live, home, unclosed, sups, engines, watch>>
    BY DEF GiveUp, At
  <1>2. u \in Nat /\ u <= sups /\ sups \in Nat /\ sups <= MaxSupervisors
    BY Counts, JobFields DEF CountInv, CallBounds
  <1>3. JobType' /\ Others(c) /\ job'[c] = Free
    BY <1>1, FreeIs, PutIs DEF Typed, Shapes
  <1>4. CASE u = 0
    BY <1>1, <1>3, <1>4 DEF Typed, Shapes, SupType, Supervisors
  <1>5. CASE u # 0
    <2>1. u \in Sups /\ sup[u] \in SupSet
      BY <1>2, <1>5, ManagerAssumption DEF Sups, Typed, Shapes, SupType
    <2> DEFINE v == [sup[u] EXCEPT !.runs = FALSE]
    <2>2. sup' = [sup EXCEPT ![u] = v]
      BY <1>1, <1>5
    <2>4. /\ v \in SupSet /\ v.runs = FALSE
          /\ v.engine = sup[u].engine /\ v.restarts = sup[u].restarts
      BY <2>1 DEF SupSet
    <2> HIDE DEF v
    <2>3. /\ SupType' /\ Supervisors(u) /\ sup'[u].runs = FALSE
          /\ sup'[u].engine = sup[u].engine /\ sup'[u].restarts = sup[u].restarts
      BY <2>1, <2>2, <2>4, SupPut DEF Typed, Shapes
    <2> QED
      BY <1>1, <1>3, <2>1, <2>3
  <1> QED
    BY <1>4, <1>5

LEMMA InstallDoes ==
    ASSUME Typed, NEW c \in Clients, Install(c)
    PROVE  /\ JobType' /\ Others(c) /\ job[c].at = "install" /\ job'[c].at = "lock"
           /\ job'[c].run = job[c].run /\ job'[c].obj = job[c].obj /\ job'[c].ctx = job[c].ctx
           /\ slot' = job[c].run /\ starter' = Nobody
           /\ UNCHANGED <<maplock, sessions, browser, watch>>
  <1> DEFINE k == [job[c] EXCEPT !.at = "lock"]
  <1>1. /\ k \in JobSet /\ k.at = "lock" /\ k.run = job[c].run
        /\ k.obj = job[c].obj /\ k.ctx = job[c].ctx
    BY DEF Typed, Shapes, JobType, JobSet, Stages
  <1>2. Put(c, k)
    BY DEF Install
  <1> HIDE DEF k
  <1> QED
    BY <1>1, <1>2, PutIs DEF Typed, Shapes, Install, At

LEMMA LockDoes ==
    ASSUME Typed, NEW c \in Clients, Lock(c)
    PROVE  /\ JobType' /\ Others(c) /\ job[c].at = "lock" /\ maplock = Nobody
           /\ \/ job'[c] = Free /\ maplock' = Nobody
              \/ /\ job'[c].at = "create" /\ job'[c].run = job[c].run
                 /\ job'[c].obj = job[c].obj /\ job'[c].ctx = job[c].ctx
                 /\ maplock' = c
           /\ UNCHANGED <<slot, starter, sessions, browser, watch>>
  <1> DEFINE j == job[c]
             k == [j EXCEPT !.at = "create", !.eng = Engine(j.run)]
  <1>1. /\ j.at = "lock" /\ maplock = Nobody
        /\ UNCHANGED <<slot, starter, sessions, browser, watch>>
    BY DEF Lock, At
  <1>2. CASE Put(c, Free) /\ UNCHANGED maplock
    BY <1>1, <1>2, FreeIs, PutIs DEF Typed, Shapes
  <1>3. CASE Put(c, k) /\ maplock' = c
    <2>1. j \in JobSet /\ j.run \in Sups
      BY <1>1, ManagerAssumption, Counts, JobFields DEF CountInv, CallBounds, Sups
    <2>2. Engine(j.run) \in Nat
      BY <2>1 DEF Engine, Typed, Shapes, SupType, SupSet
    <2>3. k \in JobSet /\ k.at = "create" /\ k.run = j.run /\ k.obj = j.obj /\ k.ctx = j.ctx
      BY <2>1, <2>2 DEF JobSet, Stages
    <2> HIDE DEF k
    <2> QED
      BY <1>1, <1>3, <2>3, PutIs DEF Typed, Shapes
  <1> QED
    BY <1>2, <1>3 DEF Lock

LEMMA CreateDoes ==
    ASSUME Typed, NEW c \in Clients, Create(c)
    PROVE  /\ JobType' /\ Others(c) /\ job'[c] = Free /\ job[c].at = "create"
           /\ objects + 1 \in Objects /\ contexts + 1 \in Contexts
           /\ objects' = objects + 1 /\ contexts' = contexts + 1
           /\ live' = live \cup {contexts + 1} /\ unclosed' = unclosed
           /\ home' = [home EXCEPT ![contexts + 1] = job[c].run]
           /\ name' = [name EXCEPT ![objects + 1] = job[c].name]
           /\ ctx' = [ctx EXCEPT ![objects + 1] = contexts + 1]
           /\ open' = [open EXCEPT ![job[c].name] = objects + 1]
           /\ maplock' = Nobody
           /\ UNCHANGED <<slot, starter, cleared, refused, overtaken, sups, sup, engines,
                          watch>>
  BY FreeIs, PutIs, Counts, ManagerAssumption
     DEF Create, NewContext, At, Shapes, CountInv, Objects, Contexts

LEMMA CreateFailsDoes ==
    ASSUME Typed, NEW c \in Clients, CreateFails(c)
    PROVE  /\ JobType' /\ Others(c) /\ job'[c] = Free /\ job[c].at = "create"
           /\ maplock' = Nobody
           /\ UNCHANGED <<slot, starter, sessions, browser, watch>>
  BY FreeIs, PutIs DEF Typed, Shapes, CreateFails, At

LEMMA RemoveDoes ==
    ASSUME Typed, NEW c \in Clients, NEW n \in Names, Remove(c, n)
    PROVE  /\ JobType' /\ Others(c) /\ job[c].at = "idle" /\ job'[c].at = "close"
           /\ job'[c].obj = open[n] /\ job'[c].run = 0 /\ job'[c].ctx = 0
           /\ maplock = Nobody /\ open[n] # 0 /\ open' = [open EXCEPT ![n] = 0]
           /\ UNCHANGED <<slot, starter, maplock, objects, name, ctx, cleared, refused,
                          overtaken, browser, watch>>
  <1> DEFINE k == [Free EXCEPT !.at = "close", !.obj = open[n]]
  <1>1. open[n] \in Nat
    BY Counts DEF CountInv, RangeInv
  <1>2. k \in JobSet /\ k.at = "close" /\ k.obj = open[n] /\ k.run = 0 /\ k.ctx = 0
    BY <1>1 DEF Free, JobSet, Stages
  <1>3. Put(c, k)
    BY DEF Remove
  <1> HIDE DEF k
  <1> QED
    BY <1>2, <1>3, PutIs DEF Remove, At, Typed, Shapes

LEMMA ReadContextDoes ==
    ASSUME Typed, NEW c \in Clients, ReadContext(c)
    PROVE  /\ JobType' /\ Others(c) /\ job[c].at = "close" /\ job'[c].at = "dispose"
           /\ job[c].obj \in 1 .. objects
           /\ job'[c].obj = job[c].obj /\ job'[c].run = job[c].run
           /\ job'[c].ctx = ctx[job[c].obj]
           /\ UNCHANGED <<slot, starter, maplock, sessions, browser, watch>>
  <1>1. job[c] \in JobSet /\ job[c].at = "close" /\ job[c].obj \in 1 .. objects
    BY Counts, JobFields DEF ReadContext, At, CountInv, CallBounds
  <1>2. ctx[job[c].obj] \in Nat
    BY <1>1, ManagerAssumption, Counts DEF CountInv, RangeInv, Objects
  <1> DEFINE k == [job[c] EXCEPT !.at = "dispose", !.ctx = ctx[job[c].obj]]
  <1>3. k \in JobSet /\ k.at = "dispose" /\ k.run = job[c].run /\ k.obj = job[c].obj
        /\ k.ctx = ctx[job[c].obj]
    BY <1>1, <1>2 DEF JobSet, Stages
  <1>4. Put(c, k)
    BY DEF ReadContext
  <1> HIDE DEF k
  <1> QED
    BY <1>1, <1>3, <1>4, PutIs DEF ReadContext, Typed, Shapes

LEMMA DisposeDoes ==
    ASSUME Typed, NEW c \in Clients, Dispose(c)
    PROVE  /\ JobType' /\ Others(c) /\ job'[c] = Free /\ job[c].at = "dispose"
           /\ live' \subseteq live /\ unclosed \subseteq unclosed'
           /\ job[c].ctx \notin live' \/ job[c].ctx \in unclosed'
           /\ \A x \in live : x # job[c].ctx => x \in live'
           /\ UNCHANGED <<slot, starter, maplock, sessions, contexts, home, sups, sup, engines,
                          watch>>
  BY FreeIs, PutIs DEF Typed, Shapes, Dispose, Closing, At

LEMMA TakeSlotDoes ==
    ASSUME Typed, NEW c \in Clients, TakeSlot(c)
    PROVE  /\ JobType' /\ Others(c) /\ job[c].at = "idle" /\ job'[c].at = "clear"
           /\ job'[c].run = slot /\ job'[c].obj = 0 /\ job'[c].ctx = 0 /\ slot' = 0
           /\ UNCHANGED <<starter, maplock, sessions, browser, watch>>
  <1> DEFINE k == [Free EXCEPT !.at = "clear", !.run = slot,
                               !.known = {u \in Sups : sup[u].runs}]
  <1>1. k \in JobSet /\ k.at = "clear" /\ k.run = slot /\ k.obj = 0 /\ k.ctx = 0
    BY Counts DEF Free, JobSet, Stages, CountInv
  <1>2. Put(c, k)
    BY DEF TakeSlot
  <1> HIDE DEF k
  <1> QED
    BY <1>1, <1>2, PutIs, Counts DEF TakeSlot, At, Shapes

LEMMA ClearMapDoes ==
    ASSUME Typed, NEW c \in Clients, ClearMap(c)
    PROVE  /\ JobType' /\ Others(c) /\ job[c].at = "clear" /\ job'[c].at = "halt"
           /\ job'[c].run = job[c].run /\ job'[c].obj = job[c].obj /\ job'[c].ctx = job[c].ctx
           /\ maplock = Nobody /\ open' = [n \in Names |-> 0]
           /\ cleared' = cleared \cup OpenObjects
           /\ UNCHANGED <<slot, starter, maplock, objects, name, ctx, refused, overtaken,
                          browser, watch>>
  <1> DEFINE k == [job[c] EXCEPT !.at = "halt"]
  <1>1. /\ k \in JobSet /\ k.at = "halt" /\ k.run = job[c].run
        /\ k.obj = job[c].obj /\ k.ctx = job[c].ctx
    BY DEF Typed, Shapes, JobType, JobSet, Stages
  <1>2. Put(c, k)
    BY DEF ClearMap
  <1> HIDE DEF k
  <1> QED
    BY <1>1, <1>2, PutIs DEF Typed, Shapes, ClearMap, At

LEMMA HaltDoes ==
    ASSUME Typed, NEW c \in Clients, Halt(c)
    PROVE  /\ JobType' /\ Others(c) /\ job'[c] = Free /\ job[c].at = "halt"
           /\ SupType' /\ Supervisors(job[c].run)
           /\ job[c].run # 0 => /\ job[c].run \in Sups /\ sup'[job[c].run].runs = FALSE
                                /\ sup'[job[c].run].engine = 0
                                /\ sup'[job[c].run].restarts = sup[job[c].run].restarts
           /\ live' = IF job[c].run = 0 THEN live ELSE live \ Lost(job[c].run)
           /\ UNCHANGED <<slot, starter, maplock, sessions, contexts, home, unclosed, sups, engines,
                          watch>>
  <1> DEFINE u == job[c].run
  <1>1. /\ job[c].at = "halt" /\ Put(c, Free)
        /\ UNCHANGED <<slot, starter, maplock, sessions, contexts, home, unclosed, sups, engines, watch>>
    BY DEF Halt, At
  <1>2. u \in Nat /\ u <= sups /\ sups \in Nat /\ sups <= MaxSupervisors
    BY Counts, JobFields DEF CountInv, CallBounds
  <1>3. JobType' /\ Others(c) /\ job'[c] = Free
    BY <1>1, FreeIs, PutIs DEF Typed, Shapes
  <1>4. CASE u = 0
    <2>1. UNCHANGED <<sup, live>>
      BY <1>4 DEF Halt
    <2> QED
      BY <1>1, <1>3, <1>4, <2>1 DEF Typed, Shapes, SupType, Supervisors
  <1>5. CASE u # 0
    <2>1. u \in Sups /\ sup[u] \in SupSet
      BY <1>2, <1>5, ManagerAssumption DEF Sups, Typed, Shapes, SupType
    <2> DEFINE v == [sup[u] EXCEPT !.runs = FALSE, !.engine = 0]
    <2>4. v \in SupSet /\ v.runs = FALSE /\ v.engine = 0 /\ v.restarts = sup[u].restarts
      BY <2>1 DEF SupSet
    <2>2. sup' = [sup EXCEPT ![u] = v] /\ live' = live \ Lost(u)
      BY <1>5 DEF Halt
    <2> HIDE DEF v
    <2>3. /\ SupType' /\ Supervisors(u) /\ sup'[u].runs = FALSE
          /\ sup'[u].engine = 0 /\ sup'[u].restarts = sup[u].restarts
      BY <2>1, <2>2, <2>4, SupPut DEF Typed, Shapes
    <2> QED
      BY <1>1, <1>3, <1>5, <2>1, <2>2, <2>3
  <1> QED
    BY <1>4, <1>5

LEMMA EngineDiesDoes ==
    ASSUME Typed, NEW u \in Sups, EngineDies(u)
    PROVE  /\ SupType' /\ Supervisors(u) /\ sup[u].engine # 0
           /\ sup'[u].runs = sup[u].runs /\ sup'[u].engine = 0
           /\ sup'[u].restarts = sup[u].restarts
           /\ live' = live \ Lost(u)
           /\ UNCHANGED <<slot, starter, maplock, sessions, contexts, home, unclosed, sups, engines,
                          watch, job>>
  BY DEF EngineDies, Engine, Typed, Shapes, SupType, SupSet, Supervisors

LEMMA ReplaceDoes ==
    ASSUME Typed, NEW u \in Sups, Replace(u)
    PROVE  /\ SupType' /\ Supervisors(u) /\ sup[u].engine = 0 /\ sup[u].runs
           /\ sup'[u].runs = sup[u].runs /\ sup'[u].engine = engines + 1
           /\ sup'[u].restarts = sup[u].restarts + 1 /\ engines' = engines + 1
           /\ UNCHANGED <<slot, starter, maplock, sessions, contexts, live, home, unclosed, sups,
                          watch, job>>
  BY DEF Replace, Engine, Typed, Shapes, SupType, SupSet, Supervisors, NumberInv, CountInv

LEMMA BaselineDoes ==
    ASSUME Typed, NEW u \in Sups, Baseline(u)
    PROVE  /\ WatchType' /\ Watchers(u) /\ watch[u].at = "start" /\ watch'[u].at = "idle"
           /\ watch'[u].seen = sup[u].restarts /\ watch'[u].run = 0 /\ watch'[u].round = 0
           /\ watch'[u].todo = {} /\ watch'[u].failed = {} /\ watch'[u].obj = 0
           /\ watch'[u].ctx = 0 /\ watch'[u].eng = 0
           /\ overtaken \subseteq overtaken'
           /\ Engine(u) # 0 => \A o \in OpenObjects :
                 home[ctx[o]] = u /\ ctx[o] \notin live => o \in overtaken'
           /\ UNCHANGED <<quiet, open, objects, name, ctx, cleared, refused, browser>>
  <1> DEFINE n == sup[u].restarts
             w == [Asleep EXCEPT !.at = "idle", !.seen = n]
  <1>1. /\ watch[u].at = "start" /\ Turn(u, w)
        /\ overtaken' = IF Engine(u) = 0 THEN overtaken
                        ELSE overtaken \cup
                             {o \in OpenObjects : home[ctx[o]] = u /\ ctx[o] \notin live}
        /\ UNCHANGED <<quiet, open, objects, name, ctx, cleared, refused, browser>>
    BY DEF Baseline, Wat
  <1>2. n \in Nat
    BY SupFields DEF Typed, Shapes
  <1> HIDE DEF n
  <1>3. /\ w \in WatchSet /\ w.at = "idle" /\ w.seen = n /\ w.run = 0 /\ w.round = 0
        /\ w.todo = {} /\ w.failed = {} /\ w.obj = 0 /\ w.ctx = 0 /\ w.eng = 0
    BY <1>2 DEF Asleep, WatchSet, Watching
  <1> HIDE DEF w
  <1>4. WatchType' /\ Watchers(u) /\ watch'[u] = w
    BY <1>1, <1>3, TurnIs DEF Typed, Shapes
  <1>5. /\ overtaken \subseteq overtaken'
        /\ Engine(u) # 0 => \A o \in OpenObjects :
              home[ctx[o]] = u /\ ctx[o] \notin live => o \in overtaken'
    BY <1>1
  <1> QED
    BY <1>1, <1>3, <1>4, <1>5 DEF n

LEMMA NoticeDoes ==
    ASSUME Typed, NEW u \in Sups, Notice(u)
    PROVE  /\ WatchType' /\ Watchers(u) /\ watch[u].at = "idle"
           /\ watch'[u].at = IF slot = 0 THEN "idle" ELSE "list"
           /\ watch[u].seen # sup[u].restarts
           /\ watch'[u].seen = sup[u].restarts /\ watch'[u].run = slot /\ watch'[u].round = 0
           /\ watch'[u].todo = {} /\ watch'[u].failed = {} /\ watch'[u].obj = 0
           /\ watch'[u].ctx = 0 /\ watch'[u].eng = 0
           /\ UNCHANGED <<quiet, sessions, browser>>
  <1> DEFINE a == IF slot = 0 THEN "idle" ELSE "list"
             w == [Asleep EXCEPT !.at = a, !.seen = sup[u].restarts, !.run = slot]
  <1>1. watch[u].at = "idle" /\ watch[u].seen # sup[u].restarts
        /\ Turn(u, w) /\ UNCHANGED <<quiet, sessions, browser>>
    BY Zenon DEF Notice, Wat
  <1>2. a \in Watching /\ slot \in Nat /\ sup[u].restarts \in Nat
    BY Counts, SupFields DEF Watching, CountInv
  <1> HIDE DEF a
  <1>3. /\ w \in WatchSet /\ w.at = a /\ w.seen = sup[u].restarts /\ w.run = slot /\ w.round = 0
        /\ w.todo = {} /\ w.failed = {} /\ w.obj = 0 /\ w.ctx = 0 /\ w.eng = 0
    BY <1>2 DEF Asleep, WatchSet
  <1> HIDE DEF w
  <1>4. WatchType' /\ Watchers(u) /\ watch'[u] = w
    BY <1>1, <1>3, TurnIs DEF Typed, Shapes
  <1> QED
    BY <1>1, <1>3, <1>4 DEF a

LEMMA ListDoes ==
    ASSUME Typed, NEW u \in Sups, List(u)
    PROVE  /\ WatchType' /\ Watchers(u) /\ watch[u].at = "list" /\ maplock = Nobody
           /\ \/ OpenObjects = {} /\ watch'[u] = Rest(u)
              \/ /\ watch'[u].at = "round" /\ watch'[u].todo = OpenObjects
                 /\ watch'[u].seen = watch[u].seen /\ watch'[u].run = watch[u].run
                 /\ watch'[u].round = watch[u].round /\ watch'[u].failed = watch[u].failed
                 /\ watch'[u].obj = watch[u].obj /\ watch'[u].ctx = watch[u].ctx
                 /\ watch'[u].eng = watch[u].eng
           /\ UNCHANGED <<quiet, sessions, browser>>
  <1>1. watch[u].at = "list" /\ maplock = Nobody /\ UNCHANGED <<quiet, sessions, browser>>
    BY DEF List, Wat
  <1>2. CASE OpenObjects = {} /\ Turn(u, Rest(u))
    BY <1>1, <1>2, Rests, TurnIs DEF Typed, Shapes
  <1>3. CASE Turn(u, [watch[u] EXCEPT !.at = "round", !.todo = OpenObjects])
    <2> DEFINE w == watch[u]
               k == [w EXCEPT !.at = "round", !.todo = OpenObjects]
    <2>1. w \in WatchSet
      BY DEF Typed, Shapes, WatchType
    <2>2. OpenObjects \in SUBSET Nat
      BY Counts DEF OpenObjects, CountInv, RangeInv
    <2>3. /\ k \in WatchSet /\ k.at = "round" /\ k.todo = OpenObjects /\ k.seen = w.seen
          /\ k.run = w.run /\ k.round = w.round /\ k.failed = w.failed /\ k.obj = w.obj
          /\ k.ctx = w.ctx /\ k.eng = w.eng
      BY <2>1, <2>2 DEF WatchSet, Watching
    <2> HIDE DEF k
    <2>4. WatchType' /\ Watchers(u) /\ watch'[u] = k
      BY <1>3, <2>3, TurnIs DEF Typed, Shapes, k
    <2> QED
      BY <1>1, <2>3, <2>4
  <1> QED
    BY <1>2, <1>3 DEF List

LEMMA RoundDoes ==
    ASSUME Typed, NEW u \in Sups, Round(u)
    PROVE  /\ WatchType' /\ Watchers(u) /\ watch[u].at = "round"
           /\ \/ /\ Engine(watch[u].run) = 0 \/ watch[u].todo = {} \/ watch[u].round = Rounds
                 /\ watch'[u] = Rest(u)
              \/ /\ watch'[u].at = "check" /\ watch'[u].eng = Engine(watch[u].run)
                 /\ Engine(watch[u].run) # 0
                 /\ watch'[u].seen = watch[u].seen /\ watch'[u].run = watch[u].run
                 /\ watch'[u].round = watch[u].round /\ watch'[u].failed = watch[u].failed
                 /\ watch'[u].todo = watch[u].todo
                 /\ watch'[u].obj = watch[u].obj /\ watch'[u].ctx = watch[u].ctx
           /\ UNCHANGED <<quiet, sessions, browser>>
  <1> DEFINE w == watch[u]
             e == Engine(w.run)
             k == [w EXCEPT !.at = "check", !.eng = e]
  <1>1. w.at = "round" /\ UNCHANGED <<quiet, sessions, browser>>
    BY DEF Round, Wat
  <1>2. CASE (e = 0 \/ w.todo = {} \/ w.round = Rounds) /\ Turn(u, Rest(u))
    BY <1>1, <1>2, Rests, TurnIs DEF Typed, Shapes
  <1>3. CASE Turn(u, k) /\ e # 0
    <2>1. w \in WatchSet /\ w.run \in Sups
      <3>1. w \in WatchSet
        BY DEF Typed, Shapes, WatchType
      <3>2. /\ w.run \in Nat /\ w.run # 0 /\ w.run <= sups
            /\ sups <= MaxSupervisors /\ sups \in Nat
        BY <1>1, WatchFields, Counts DEF CountInv, WatchBounds
      <3> QED
        BY <3>1, <3>2, ManagerAssumption DEF Sups
    <2>2. e \in Nat
      BY <2>1 DEF Engine, Typed, Shapes, SupType, SupSet
    <2> HIDE DEF e
    <2>3. /\ k \in WatchSet /\ k.at = "check" /\ k.todo = w.todo /\ k.seen = w.seen
          /\ k.run = w.run /\ k.round = w.round /\ k.failed = w.failed /\ k.obj = w.obj
          /\ k.ctx = w.ctx /\ k.eng = e
      BY <2>1, <2>2 DEF WatchSet, Watching
    <2>5. Turn(u, k)
      BY <1>3
    <2> HIDE DEF k
    <2>4. WatchType' /\ Watchers(u) /\ watch'[u] = k
      BY <2>3, <2>5, TurnIs DEF Typed, Shapes
    <2> QED
      BY <1>1, <1>3, <2>3, <2>4 DEF e
  <1> QED
    BY <1>2, <1>3 DEF Round

LEMMA EndRoundDoes ==
    ASSUME Typed, NEW u \in Sups, EndRound(u)
    PROVE  /\ WatchType' /\ Watchers(u) /\ watch[u].at = "check" /\ watch[u].todo = {}
           /\ watch'[u].at = "round" /\ watch'[u].round = watch[u].round + 1
           /\ watch'[u].todo = watch[u].failed /\ watch'[u].failed = {}
           /\ watch'[u].seen = watch[u].seen /\ watch'[u].run = watch[u].run
           /\ watch'[u].obj = watch[u].obj /\ watch'[u].ctx = watch[u].ctx
           /\ watch'[u].eng = watch[u].eng
           /\ UNCHANGED <<quiet, sessions, browser>>
  <1> DEFINE w == watch[u]
             r == w.round + 1
             k == [w EXCEPT !.at = "round", !.round = r, !.todo = w.failed, !.failed = {}]
  <1>1. w.at = "check" /\ w.todo = {} /\ Turn(u, k) /\ UNCHANGED <<quiet, sessions, browser>>
    BY DEF EndRound, Wat
  <1>2. w \in WatchSet /\ r \in Nat
    BY DEF Typed, Shapes, WatchType, WatchSet
  <1> HIDE DEF r
  <1>3. /\ k \in WatchSet /\ k.at = "round" /\ k.todo = w.failed /\ k.seen = w.seen
        /\ k.run = w.run /\ k.round = r /\ k.failed = {} /\ k.obj = w.obj
        /\ k.ctx = w.ctx /\ k.eng = w.eng
    BY <1>2 DEF WatchSet, Watching
  <1> HIDE DEF k
  <1>4. WatchType' /\ Watchers(u) /\ watch'[u] = k
    BY <1>1, <1>3, TurnIs DEF Typed, Shapes
  <1> QED
    BY <1>1, <1>3, <1>4 DEF r

LEMMA CheckDoes ==
    ASSUME Typed, NEW u \in Sups, Check(u)
    PROVE  /\ WatchType' /\ Watchers(u) /\ watch[u].at = "check" /\ maplock = Nobody
           /\ watch'[u].obj \in watch[u].todo
           /\ watch'[u].at = IF IsOpen(watch'[u].obj) THEN "create" ELSE "check"
           /\ watch'[u].todo = watch[u].todo \ {watch'[u].obj}
           /\ watch'[u].failed = watch[u].failed /\ watch'[u].round = watch[u].round
           /\ watch'[u].seen = watch[u].seen /\ watch'[u].run = watch[u].run
           /\ watch'[u].ctx = watch[u].ctx /\ watch'[u].eng = watch[u].eng
           /\ UNCHANGED <<quiet, sessions, browser>>
  <1> DEFINE w == watch[u]
             a(o) == IF IsOpen(o) THEN "create" ELSE "check"
             k(o) == [w EXCEPT !.at = a(o), !.todo = @ \ {o}, !.obj = o]
  <1>1. /\ w.at = "check" /\ maplock = Nobody /\ UNCHANGED <<quiet, sessions, browser>>
        /\ \E o \in w.todo : Turn(u, k(o))
    BY Zenon DEF Check, Wat
  <1>2. w \in WatchSet
    BY DEF Typed, Shapes, WatchType
  <1>3. PICK o \in w.todo : Turn(u, k(o))
    BY <1>1
  <1>4. a(o) \in Watching /\ o \in Nat
    BY <1>2 DEF Watching, WatchSet
  <1> HIDE DEF a
  <1>5. /\ k(o) \in WatchSet /\ k(o).at = a(o) /\ k(o).todo = w.todo \ {o} /\ k(o).seen = w.seen
        /\ k(o).run = w.run /\ k(o).round = w.round /\ k(o).failed = w.failed /\ k(o).obj = o
        /\ k(o).ctx = w.ctx /\ k(o).eng = w.eng
    BY <1>2, <1>4 DEF WatchSet
  <1> HIDE DEF k
  <1>6. WatchType' /\ Watchers(u) /\ watch'[u] = k(o)
    BY <1>3, <1>5, TurnIs DEF Typed, Shapes
  <1> QED
    BY <1>1, <1>5, <1>6 DEF a

LEMMA RebuildDoes ==
    ASSUME Typed, NEW u \in Sups, Rebuild(u)
    PROVE  /\ WatchType' /\ Watchers(u) /\ watch[u].at = "create" /\ watch'[u].at = "swap"
           /\ watch[u].eng = Engine(watch[u].run)
           /\ contexts + 1 \in Contexts /\ contexts' = contexts + 1
           /\ live' = live \cup {contexts + 1} /\ unclosed' = unclosed
           /\ home' = [home EXCEPT ![contexts + 1] = watch[u].run]
           /\ watch'[u].ctx = contexts + 1
           /\ watch'[u].todo = watch[u].todo /\ watch'[u].obj = watch[u].obj
           /\ watch'[u].failed = watch[u].failed /\ watch'[u].round = watch[u].round
           /\ watch'[u].seen = watch[u].seen /\ watch'[u].run = watch[u].run
           /\ watch'[u].eng = watch[u].eng
           /\ UNCHANGED <<quiet, sessions, sups, sup, engines>>
  <1> DEFINE w == watch[u]
             x == contexts + 1
             k == [w EXCEPT !.at = "swap", !.ctx = x]
  <1>1. /\ w.at = "create" /\ w.eng = Engine(w.run) /\ Turn(u, k)
        /\ contexts < MaxContexts /\ contexts' = contexts + 1
        /\ live' = live \cup {contexts + 1} /\ home' = [home EXCEPT ![contexts + 1] = w.run]
        /\ UNCHANGED <<quiet, sessions, unclosed, sups, sup, engines>>
    BY DEF Rebuild, NewContext, Wat
  <1>2. w \in WatchSet /\ contexts \in Nat
    BY Counts DEF Shapes, WatchType, CountInv
  <1>3. contexts + 1 \in Contexts
    BY <1>1, <1>2, ManagerAssumption DEF Contexts
  <1>6. x \in Nat
    BY <1>2
  <1> HIDE DEF x
  <1>4. /\ k \in WatchSet /\ k.at = "swap" /\ k.todo = w.todo /\ k.seen = w.seen
        /\ k.run = w.run /\ k.round = w.round /\ k.failed = w.failed /\ k.obj = w.obj
        /\ k.ctx = x /\ k.eng = w.eng
    BY <1>2, <1>6 DEF WatchSet, Watching
  <1> HIDE DEF k
  <1>5. WatchType' /\ Watchers(u) /\ watch'[u] = k
    BY <1>1, <1>4, TurnIs DEF Typed, Shapes
  <1> QED
    BY <1>1, <1>3, <1>4, <1>5 DEF x

LEMMA RebuildFailsDoes ==
    ASSUME Typed, NEW u \in Sups, RebuildFails(u)
    PROVE  /\ WatchType' /\ Watchers(u) /\ watch[u].at = "create" /\ watch'[u].at = "check"
           /\ watch'[u].failed = watch[u].failed \cup {watch[u].obj}
           /\ refused' = IF watch[u].eng = Engine(watch[u].run)
                         THEN refused \cup {watch[u].obj} ELSE refused
           /\ watch'[u].todo = watch[u].todo /\ watch'[u].obj = watch[u].obj
           /\ watch'[u].round = watch[u].round /\ watch'[u].ctx = watch[u].ctx
           /\ watch'[u].seen = watch[u].seen /\ watch'[u].run = watch[u].run
           /\ watch'[u].eng = watch[u].eng
           /\ UNCHANGED <<quiet, open, objects, name, ctx, cleared, overtaken, browser>>
  <1> DEFINE w == watch[u]
             k == [w EXCEPT !.at = "check", !.failed = @ \cup {w.obj}]
  <1>1. /\ w.at = "create" /\ Turn(u, k)
        /\ refused' = IF w.eng = Engine(w.run) THEN refused \cup {w.obj} ELSE refused
        /\ UNCHANGED <<quiet, open, objects, name, ctx, cleared, overtaken, browser>>
    BY DEF RebuildFails, Wat
  <1>2. w \in WatchSet
    BY DEF Typed, Shapes, WatchType
  <1>3. /\ k \in WatchSet /\ k.at = "check" /\ k.todo = w.todo /\ k.seen = w.seen
        /\ k.run = w.run /\ k.round = w.round /\ k.failed = w.failed \cup {w.obj}
        /\ k.obj = w.obj /\ k.ctx = w.ctx /\ k.eng = w.eng
    BY <1>2 DEF WatchSet, Watching
  <1> HIDE DEF k
  <1>4. WatchType' /\ Watchers(u) /\ watch'[u] = k
    BY <1>1, <1>3, TurnIs DEF Typed, Shapes
  <1> QED
    BY <1>1, <1>3, <1>4

LEMMA SwapDoes ==
    ASSUME Typed, NEW u \in Sups, Swap(u)
    PROVE  /\ WatchType' /\ Watchers(u) /\ watch[u].at = "swap" /\ watch'[u].at = "recheck"
           /\ watch[u].obj \in 1 .. objects
           /\ ctx' = [ctx EXCEPT ![watch[u].obj] = watch[u].ctx]
           /\ overtaken' = IF watch[u].run # u /\ watch[u].ctx \notin live
                           THEN overtaken \cup {watch[u].obj} ELSE overtaken
           /\ watch'[u].todo = watch[u].todo /\ watch'[u].obj = watch[u].obj
           /\ watch'[u].failed = watch[u].failed /\ watch'[u].round = watch[u].round
           /\ watch'[u].seen = watch[u].seen /\ watch'[u].run = watch[u].run
           /\ watch'[u].eng = watch[u].eng /\ watch'[u].ctx = watch[u].ctx
           /\ UNCHANGED <<quiet, open, objects, name, cleared, refused, browser>>
  <1>1. /\ watch[u].at = "swap" /\ Turn(u, [watch[u] EXCEPT !.at = "recheck"])
        /\ ctx' = [ctx EXCEPT ![watch[u].obj] = watch[u].ctx]
        /\ overtaken' = IF watch[u].run # u /\ watch[u].ctx \notin live
                        THEN overtaken \cup {watch[u].obj} ELSE overtaken
        /\ UNCHANGED <<quiet, open, objects, name, cleared, refused, browser>>
    BY DEF Swap, Wat
  <1>2. watch[u].obj \in 1 .. objects
    BY <1>1, WatchFields, Counts DEF CountInv, WatchBounds
  <1> DEFINE w == watch[u]
             k == [w EXCEPT !.at = "recheck"]
  <1>3. /\ k \in WatchSet /\ k.at = "recheck" /\ k.todo = w.todo /\ k.seen = w.seen
        /\ k.run = w.run /\ k.round = w.round /\ k.failed = w.failed /\ k.obj = w.obj
        /\ k.ctx = w.ctx /\ k.eng = w.eng
    BY DEF Typed, Shapes, WatchType, WatchSet, Watching
  <1> HIDE DEF k
  <1>4. WatchType' /\ Watchers(u) /\ watch'[u] = k
    BY <1>1, <1>3, TurnIs DEF Typed, Shapes, k
  <1> QED
    BY <1>1, <1>2, <1>3, <1>4

LEMMA RecheckDoes ==
    ASSUME Typed, NEW u \in Sups, Recheck(u)
    PROVE  /\ WatchType' /\ Watchers(u) /\ watch[u].at = "recheck" /\ watch'[u].at = "check"
           /\ maplock = Nobody /\ watch[u].obj \in 1 .. objects
           /\ live' \subseteq live /\ unclosed \subseteq unclosed'
           /\ IF IsOpen(watch[u].obj) THEN UNCHANGED <<live, unclosed>>
              ELSE /\ ctx[watch[u].obj] \notin live' \/ ctx[watch[u].obj] \in unclosed'
                   /\ \A x \in live : x # ctx[watch[u].obj] => x \in live'
           /\ watch'[u].todo = watch[u].todo /\ watch'[u].obj = watch[u].obj
           /\ watch'[u].failed = watch[u].failed /\ watch'[u].round = watch[u].round
           /\ watch'[u].seen = watch[u].seen /\ watch'[u].run = watch[u].run
           /\ watch'[u].eng = watch[u].eng /\ watch'[u].ctx = watch[u].ctx
           /\ UNCHANGED <<quiet, sessions, contexts, home, sups, sup, engines>>
  <1>1. /\ watch[u].at = "recheck" /\ Turn(u, [watch[u] EXCEPT !.at = "check"])
        /\ maplock = Nobody
        /\ IF IsOpen(watch[u].obj) THEN UNCHANGED <<live, unclosed>>
           ELSE Closing(ctx[watch[u].obj])
        /\ UNCHANGED <<quiet, sessions, contexts, home, sups, sup, engines>>
    BY DEF Recheck, Wat
  <1>2. watch[u].obj \in 1 .. objects
    BY <1>1, WatchFields, Counts DEF CountInv, WatchBounds
  <1> DEFINE w == watch[u]
             k == [w EXCEPT !.at = "check"]
  <1>3. /\ k \in WatchSet /\ k.at = "check" /\ k.todo = w.todo /\ k.seen = w.seen
        /\ k.run = w.run /\ k.round = w.round /\ k.failed = w.failed /\ k.obj = w.obj
        /\ k.ctx = w.ctx /\ k.eng = w.eng
    BY DEF Typed, Shapes, WatchType, WatchSet, Watching
  <1> HIDE DEF k
  <1>4. WatchType' /\ Watchers(u) /\ watch'[u] = k
    BY <1>1, <1>3, TurnIs DEF Typed, Shapes, k
  <1>5. /\ live' \subseteq live /\ unclosed \subseteq unclosed'
        /\ IF IsOpen(w.obj) THEN UNCHANGED <<live, unclosed>>
           ELSE /\ ctx[w.obj] \notin live' \/ ctx[w.obj] \in unclosed'
                /\ \A x \in live : x # ctx[w.obj] => x \in live'
    BY <1>1 DEF Closing
  <1> QED
    BY <1>1, <1>2, <1>3, <1>4, <1>5

-------------------------------------------------------------------------------
(* The inductive invariant.                                                *)

\* who starts an engine holds the startup lock, and nothing is installed then
StartInv ==
    /\ \A c \in Clients : job[c].at \in {"launch", "install"} <=> starter = c
    /\ starter # Nobody => slot = 0
    /\ \A c \in Clients : job[c].at \in {"queue", "launch"} => job[c].run = 0

\* a running supervisor is installed, or a call is about to install or stop it
RunInv ==
    \A u \in Sups : sup[u].runs =>
        \/ slot = u
        \/ \E c \in Clients : job[c].at \in {"install", "clear", "halt"} /\ job[c].run = u

\* a supervisor that just started is known to its starter only
FreshRun ==
    \A c \in Clients : job[c].at = "install" =>
        \A d \in Clients \ {c} : job[d].run # job[c].run
FreshWatch ==
    \A c \in Clients : job[c].at = "install" =>
        \A u \in Sups : watch[u].run # job[c].run
FreshHome ==
    \A c \in Clients : job[c].at = "install" =>
        \A x \in Contexts : home[x] # job[c].run
FreshIdle ==
    \A c \in Clients : job[c].at = "install" => watch[job[c].run].at \in {"start", "idle"}

FreshInv == FreshRun /\ FreshWatch /\ FreshHome /\ FreshIdle

\* a context has one session: the one it was made for
OwnObjects ==
    /\ \A o \in 1 .. objects : ctx[o] # 0
    /\ \A o, p \in 1 .. objects : ctx[o] = ctx[p] => o = p
OwnSwaps ==
    \A u \in Sups : watch[u].at = "swap" =>
        /\ watch[u].ctx # 0
        /\ \A o \in 1 .. objects : ctx[o] # watch[u].ctx
        /\ \A v \in Sups \ {u} : watch[v].at = "swap" => watch[v].ctx # watch[u].ctx
OwnCloses ==
    \A c \in Clients : job[c].at = "dispose" =>
        /\ \A o \in (1 .. objects) \ {job[c].obj} : ctx[o] # job[c].ctx
        /\ \A u \in Sups : watch[u].at = "swap" => watch[u].ctx # job[c].ctx

OwnInv == OwnObjects /\ OwnSwaps /\ OwnCloses

\* the map holds an object under its own id; who closes it took it out
OpenNames ==
    /\ \A n \in Names : open[n] # 0 => name[open[n]] = n
    /\ \A o \in 1 .. objects : name[o] \in Names
ClosingOut ==
    \A c \in Clients : job[c].at \in {"close", "dispose"} =>
        \A n \in Names : open[n] # job[c].obj

NameInv == OpenNames /\ ClosingOut

\* an object out of the map: its context is closed, or someone will close it
Handled(o) ==
    \/ open[name[o]] = o
    \/ \E p \in (1 .. objects) \ {o} : name[p] = name[o]
    \/ ctx[o] \notin live \/ ctx[o] \in unclosed
    \/ \E c \in Clients : /\ job[c].at \in {"close", "dispose"} /\ job[c].obj = o
                          /\ job[c].at = "dispose" => job[c].ctx = ctx[o]
    \/ \E u \in Sups : watch[u].at = "recheck" /\ watch[u].obj = o

HandledInv == \A o \in (1 .. objects) \ cleared : Handled(o)

\* nothing left to notice: the engine is the one the watcher took up last
Current(u) == sup[u].engine # 0 /\ watch[u].seen = sup[u].restarts

SeenInv == \A u \in Sups : watch[u].seen <= sup[u].restarts

\* the watcher of the installed supervisor rebuilds on that supervisor
RebuildsOwn ==
    \A u \in Sups :
        watch[u].at \notin {"off", "start", "idle"} /\ slot = u => watch[u].run = u

\* a context on its way into a session lives in the engine it was made in
HomeInv == \A u \in Sups : watch[u].at = "swap" => home[watch[u].ctx] = watch[u].run
FreshContextInv ==
    \A u \in Sups : watch[u].at = "swap" /\ watch[u].run = u /\ Current(u) =>
        watch[u].ctx \in live

\* the watcher w is on its way to rebuild o, on the engine there is
Covered(o, w) ==
    \/ w.at = "list"
    \/ w.at = "round" /\ o \in w.todo
    \/ w.at \in {"check", "recheck"} /\ o \in w.todo /\ w.eng = Engine(slot)
    \/ w.at \in {"create", "swap"} /\ o \in w.todo \cup {w.obj} /\ w.eng = Engine(slot)

\* a session to rebuild, and nothing that would wake its watcher
Waits(n) ==
    /\ Stale(n) /\ slot # 0 /\ home[ctx[open[n]]] = slot /\ Current(slot)
    /\ open[n] \notin refused \cup overtaken

Cover(n) == Covered(open[n], watch[slot]) /\ watch[slot].round = 0

CoverInv == \A n \in Names : Waits(n) => Cover(n)

\* who holds the map is making a session
LockInv == \A c \in Clients : maplock = c => job[c].at = "create"

-------------------------------------------------------------------------------
(* Every step keeps every part.                                            *)

(* A session, or a context made for one, adds to what there is.            *)
LEMMA Known ==
    ASSUME Typed
    PROVE  /\ objects \in Nat /\ contexts \in Nat
           /\ \A o \in 1 .. objects : o \in Objects /\ ctx[o] \in Nat /\ ctx[o] <= contexts
  <1>1. /\ objects \in Nat /\ contexts \in Nat /\ objects <= MaxContexts
        /\ ctx \in [Objects -> 0 .. contexts]
    BY Counts DEF CountInv, RangeInv
  <1>2. \A o \in 1 .. objects : o \in Objects
    BY <1>1, ManagerAssumption DEF Objects
  <1> QED
    BY <1>1, <1>2

LEMMA CreateAdds ==
    ASSUME Typed, NEW c \in Clients, Create(c)
    PROVE  /\ objects' = objects + 1 /\ 1 .. objects' = (1 .. objects) \cup {objects + 1}
           /\ ctx'[objects + 1] = contexts + 1 /\ name'[objects + 1] = job[c].name
           /\ objects + 1 \notin 1 .. objects
           /\ \A p \in 1 .. objects :
                 ctx'[p] = ctx[p] /\ ctx[p] # contexts + 1 /\ name'[p] = name[p]
           /\ home'[contexts + 1] = job[c].run
           /\ \A x \in Contexts : x # contexts + 1 => home'[x] = home[x]
           /\ \A u \in Sups : watch[u].ctx # contexts + 1
           /\ \A d \in Clients : job[d].ctx # contexts + 1 /\ job[d].obj # objects + 1
  <1>1. /\ objects \in Nat /\ contexts \in Nat
        /\ \A o \in 1 .. objects : o \in Objects /\ ctx[o] \in Nat /\ ctx[o] <= contexts
    BY Known
  <1>2. DOMAIN ctx = Objects /\ DOMAIN name = Objects /\ DOMAIN home = Contexts
    BY Counts DEF RangeInv
  <1>3. /\ objects + 1 \in Objects /\ contexts + 1 \in Contexts
        /\ objects' = objects + 1 /\ ctx' = [ctx EXCEPT ![objects + 1] = contexts + 1]
        /\ name' = [name EXCEPT ![objects + 1] = job[c].name]
        /\ home' = [home EXCEPT ![contexts + 1] = job[c].run]
    BY CreateDoes
  <1>4. \A u \in Sups : watch[u].ctx # contexts + 1
    BY <1>1, WatchFields, Counts DEF WatchBounds
  <1>5. \A d \in Clients : job[d].ctx # contexts + 1 /\ job[d].obj # objects + 1
    BY <1>1, JobFields, Counts DEF CallBounds
  <1>6. 1 .. objects' = (1 .. objects) \cup {objects + 1} /\ objects + 1 \notin 1 .. objects
    BY <1>1, <1>3
  <1>7. \A p \in 1 .. objects : p # objects + 1 /\ ctx[p] # contexts + 1
    BY <1>1
  <1> QED
    BY <1>1, <1>2, <1>3, <1>4, <1>5, <1>6, <1>7

LEMMA RebuildAdds ==
    ASSUME Typed, NEW u \in Sups, Rebuild(u)
    PROVE  /\ watch'[u].ctx = contexts + 1 /\ contexts + 1 # 0
           /\ \A p \in 1 .. objects : ctx[p] # contexts + 1
           /\ home'[contexts + 1] = watch[u].run
           /\ \A x \in Contexts : x # contexts + 1 => home'[x] = home[x]
           /\ \A v \in Sups : watch[v].ctx # contexts + 1
           /\ \A d \in Clients : job[d].ctx # contexts + 1
  <1>1. /\ objects \in Nat /\ contexts \in Nat
        /\ \A o \in 1 .. objects : ctx[o] \in Nat /\ ctx[o] <= contexts
    BY Known
  <1>2. DOMAIN home = Contexts
    BY Counts DEF RangeInv
  <1>3. /\ contexts + 1 \in Contexts /\ home' = [home EXCEPT ![contexts + 1] = watch[u].run]
        /\ watch'[u].ctx = contexts + 1
    BY RebuildDoes
  <1>4. \A v \in Sups : watch[v].ctx # contexts + 1
    BY <1>1, WatchFields, Counts DEF WatchBounds
  <1>5. \A d \in Clients : job[d].ctx # contexts + 1
    BY <1>1, JobFields, Counts DEF CallBounds
  <1>6. \A p \in 1 .. objects : ctx[p] # contexts + 1
    BY <1>1
  <1> QED
    BY <1>1, <1>2, <1>3, <1>4, <1>5, <1>6

LEMMA SwapSets ==
    ASSUME Typed, NEW u \in Sups, Swap(u)
    PROVE  /\ ctx'[watch[u].obj] = watch[u].ctx
           /\ \A p \in (1 .. objects) \ {watch[u].obj} : ctx'[p] = ctx[p]
  <1>1. DOMAIN ctx = Objects /\ \A o \in 1 .. objects : o \in Objects
    BY Known, Counts DEF RangeInv
  <1>2. /\ ctx' = [ctx EXCEPT ![watch[u].obj] = watch[u].ctx]
        /\ watch[u].obj \in 1 .. objects
    BY SwapDoes
  <1> QED
    BY <1>1, <1>2

(* Whoever stops a supervisor leaves the others, and its restart count.    *)
LEMMA StopIs ==
    ASSUME Typed, NEW c \in Clients, GiveUp(c) \/ Halt(c)
    PROVE  \A v \in Sups : /\ sup'[v].restarts = sup[v].restarts
                           /\ sup'[v].engine \in {0, sup[v].engine}
  <1>1. /\ \A v \in Sups \ {job[c].run} : sup'[v] = sup[v]
        /\ job[c].run # 0 => /\ sup'[job[c].run].restarts = sup[job[c].run].restarts
                             /\ sup'[job[c].run].engine \in {0, sup[job[c].run].engine}
    <2>1. CASE GiveUp(c)
      BY <2>1, GiveUpDoes DEF Supervisors
    <2>2. CASE Halt(c)
      BY <2>2, HaltDoes DEF Supervisors
    <2> QED
      BY <2>1, <2>2
  <1>2. \A v \in Sups : v # 0
    BY ManagerAssumption DEF Sups
  <1> QED
    BY <1>1, <1>2

LEMMA SwapContext ==
    ASSUME Typed, OwnSwaps, NEW u \in Sups, watch[u].at = "swap"
    PROVE  watch[u].ctx \in Contexts
  <1>1. /\ watch[u].ctx \in Nat /\ watch[u].ctx # 0 /\ watch[u].ctx <= contexts
        /\ contexts \in Nat /\ contexts <= MaxContexts
    BY WatchFields, Counts DEF WatchBounds, CountInv, OwnSwaps
  <1> QED
    BY <1>1, ManagerAssumption DEF Contexts

(* One call at a time starts an engine, while none is installed            *)
(* (manager.rs, ensure_running under the startup lock).                    *)
LEMMA StartKeeps ==
    ASSUME Typed, StartInv, [Next]_vars
    PROVE  StartInv'
  <1>1. ASSUME NEW c \in Clients, NEW n \in Names, Request(c, n) PROVE StartInv'
    BY <1>1, RequestDoes, FreeIs, ManagerAssumption DEF StartInv, Others, sessions,
       browser
  <1>2. ASSUME NEW c \in Clients,
               \/ Queue(c) \/ Install(c) \/ Lock(c) \/ CreateFails(c) \/ ReadContext(c)
               \/ Dispose(c) \/ TakeSlot(c) \/ ClearMap(c)
        PROVE  StartInv'
    BY <1>2, QueueDoes, InstallDoes, LockDoes, CreateFailsDoes, ReadContextDoes,
       DisposeDoes, TakeSlotDoes, ClearMapDoes, FreeIs, ManagerAssumption
       DEF StartInv, Others, sessions, browser
  <1>3. ASSUME NEW c \in Clients, Launch(c) PROVE StartInv'
    BY <1>3, LaunchDoes, FreeIs, ManagerAssumption DEF StartInv, Others, Watchers,
       Supervisors, sessions
  <1>4. ASSUME NEW c \in Clients, GiveUp(c) PROVE StartInv'
    <2>1. /\ job[c].at \in {"launch", "install"} /\ job'[c] = Free
          /\ \A d \in Clients \ {c} : job'[d] = job[d]
          /\ slot' = slot /\ starter' = Nobody
      BY <1>4, GiveUpDoes DEF Others, Supervisors, sessions
    <2> QED
      BY <2>1, FreeIs, ManagerAssumption DEF StartInv
  <1>5. ASSUME NEW c \in Clients, Create(c) PROVE StartInv'
    BY <1>5, CreateDoes, FreeIs, ManagerAssumption DEF StartInv, Others
  <1>6. ASSUME NEW c \in Clients, NEW n \in Names, Remove(c, n) PROVE StartInv'
    BY <1>6, RemoveDoes, FreeIs, ManagerAssumption DEF StartInv, Others, browser
  <1>7. ASSUME NEW c \in Clients, Halt(c) PROVE StartInv'
    <2>1. /\ job[c].at = "halt" /\ job'[c] = Free
          /\ \A d \in Clients \ {c} : job'[d] = job[d]
          /\ UNCHANGED <<slot, starter>>
      BY <1>7, HaltDoes DEF Others, Supervisors, sessions
    <2> QED
      BY <2>1, FreeIs, ManagerAssumption DEF StartInv
  <1>8. ASSUME NEW u \in Sups, WatchStep(u) \/ EngineDies(u) \/ Replace(u) PROVE StartInv'
    BY <1>8, WatchLeaves, FreeIs, ManagerAssumption DEF StartInv
  <1>9. CASE UNCHANGED vars
    BY <1>9, FreeIs, ManagerAssumption DEF vars, StartInv
  <1> QED
    BY <1>1, <1>2, <1>3, <1>4, <1>5, <1>6, <1>7, <1>8, <1>9 DEF Next, CallStep, WatchStep

(* A supervisor is not forgotten while it runs (manager.rs, start_running, *)
(* shutdown).                                                              *)
LEMMA RunKeeps ==
    ASSUME Typed, StartInv, RunInv, [Next]_vars
    PROVE  RunInv'
  <1>1. ASSUME NEW c \in Clients, NEW n \in Names, Request(c, n) PROVE RunInv'
    BY <1>1, RequestDoes, FreeIs DEF RunInv, Others, sessions, browser
  <1>2. ASSUME NEW c \in Clients,
               \/ Queue(c) \/ Lock(c) \/ CreateFails(c) \/ ReadContext(c) \/ Dispose(c)
               \/ TakeSlot(c) \/ ClearMap(c)
        PROVE  RunInv'
    BY <1>2, QueueDoes, LockDoes, CreateFailsDoes, ReadContextDoes, DisposeDoes,
       TakeSlotDoes, ClearMapDoes, FreeIs
       DEF RunInv, Others, sessions, browser
  <1>3. ASSUME NEW c \in Clients, Launch(c) PROVE RunInv'
    BY <1>3, LaunchDoes, FreeIs DEF RunInv, Others, Watchers, Supervisors, sessions
  <1>4. ASSUME NEW c \in Clients, GiveUp(c) PROVE RunInv'
    <2>1. /\ job[c].at \in {"launch", "install"} /\ job'[c] = Free
          /\ \A d \in Clients \ {c} : job'[d] = job[d]
          /\ slot' = slot
          /\ job[c].run # 0 => job[c].run \in Sups /\ ~sup'[job[c].run].runs
          /\ \A u \in Sups \ {job[c].run} : sup'[u] = sup[u]
      BY <1>4, GiveUpDoes DEF Others, Supervisors, sessions
    <2> QED
      BY <2>1, FreeIs DEF RunInv, StartInv, Sups
  <1>5. ASSUME NEW c \in Clients, Install(c) PROVE RunInv'
    <2>1. /\ job[c].at = "install" /\ slot = 0 /\ slot' = job[c].run
          /\ \A d \in Clients \ {c} : job'[d] = job[d]
          /\ UNCHANGED sup
      BY <1>5, InstallDoes, ManagerAssumption DEF Others, sessions, browser, StartInv
    <2> QED
      BY <2>1, FreeIs, ManagerAssumption DEF RunInv, StartInv, Sups
  <1>6. ASSUME NEW c \in Clients, Create(c) PROVE RunInv'
    BY <1>6, CreateDoes, FreeIs DEF RunInv, Others
  <1>7. ASSUME NEW c \in Clients, NEW n \in Names, Remove(c, n) PROVE RunInv'
    BY <1>7, RemoveDoes, FreeIs DEF RunInv, Others, browser
  <1>8. ASSUME NEW c \in Clients, Halt(c) PROVE RunInv'
    <2>1. /\ job[c].at = "halt" /\ job'[c] = Free
          /\ \A d \in Clients \ {c} : job'[d] = job[d]
          /\ UNCHANGED slot
          /\ job[c].run # 0 => job[c].run \in Sups /\ ~sup'[job[c].run].runs
          /\ \A u \in Sups \ {job[c].run} : sup'[u] = sup[u]
      BY <1>8, HaltDoes DEF Others, Supervisors, sessions
    <2> QED
      BY <2>1, FreeIs DEF RunInv, StartInv, Sups
  <1>9. ASSUME NEW u \in Sups, WatchStep(u) \/ EngineDies(u) \/ Replace(u)
        PROVE  RunInv'
    BY <1>9, EngineDiesDoes, ReplaceDoes, BaselineDoes, NoticeDoes, ListDoes, RoundDoes, EndRoundDoes,
       CheckDoes, RebuildDoes, RebuildFailsDoes, SwapDoes, RecheckDoes, FreeIs
       DEF RunInv, Supervisors, sessions, Watchers, browser, quiet, WatchStep
  <1>10. CASE UNCHANGED vars
    BY <1>10, FreeIs DEF vars, RunInv
  <1> QED
    BY <1>1, <1>2, <1>3, <1>4, <1>5, <1>6, <1>7, <1>8, <1>9, <1>10 DEF Next, CallStep,
       WatchStep

(* Nobody but a creation keeps the map across an await (manager.rs,        *)
(* session).                                                               *)
LEMMA LockInvKeeps ==
    ASSUME Typed, CreateInv, LockInv, [Next]_vars
    PROVE  LockInv'
  <1>1. ASSUME NEW c \in Clients, NEW n \in Names, Request(c, n) PROVE LockInv'
    BY <1>1, RequestDoes, FreeIs, ManagerAssumption DEF LockInv, Others, sessions, browser
  <1>2. ASSUME NEW c \in Clients,
               \/ Queue(c) \/ Install(c) \/ Lock(c) \/ CreateFails(c) \/ ReadContext(c)
               \/ Dispose(c) \/ TakeSlot(c) \/ ClearMap(c)
        PROVE  LockInv'
    BY <1>2, QueueDoes, InstallDoes, LockDoes, CreateFailsDoes, ReadContextDoes,
       DisposeDoes, TakeSlotDoes, ClearMapDoes, FreeIs, ManagerAssumption
       DEF LockInv, Others, sessions, browser, CreateInv
  <1>3. ASSUME NEW c \in Clients, Launch(c) PROVE LockInv'
    BY <1>3, LaunchDoes, FreeIs, ManagerAssumption DEF LockInv, Others, Watchers,
       Supervisors, sessions
  <1>4. ASSUME NEW c \in Clients, GiveUp(c) PROVE LockInv'
    <2>1. /\ job'[c] = Free /\ job[c].at # "create" /\ UNCHANGED maplock
          /\ \A d \in Clients \ {c} : job'[d] = job[d]
      BY <1>4, GiveUpDoes DEF Others, Supervisors, sessions
    <2> QED
      BY <2>1, FreeIs, ManagerAssumption DEF LockInv
  <1>5. ASSUME NEW c \in Clients, Create(c) PROVE LockInv'
    BY <1>5, CreateDoes, FreeIs, ManagerAssumption DEF LockInv, Others, CreateInv
  <1>6. ASSUME NEW c \in Clients, NEW n \in Names, Remove(c, n) PROVE LockInv'
    BY <1>6, RemoveDoes, FreeIs, ManagerAssumption DEF LockInv, Others, browser
  <1>7. ASSUME NEW c \in Clients, Halt(c) PROVE LockInv'
    <2>1. /\ job'[c] = Free /\ job[c].at # "create" /\ UNCHANGED maplock
          /\ \A d \in Clients \ {c} : job'[d] = job[d]
      BY <1>7, HaltDoes DEF Others, Supervisors, sessions
    <2> QED
      BY <2>1, FreeIs, ManagerAssumption DEF LockInv
  <1>8. ASSUME NEW u \in Sups, WatchStep(u) \/ EngineDies(u) \/ Replace(u) PROVE LockInv'
    BY <1>8, WatchLeaves, FreeIs, ManagerAssumption DEF LockInv
  <1>9. CASE UNCHANGED vars
    BY <1>9, FreeIs, ManagerAssumption DEF vars, LockInv
  <1> QED
    BY <1>1, <1>2, <1>3, <1>4, <1>5, <1>6, <1>7, <1>8, <1>9 DEF Next, CallStep, WatchStep

LEMMA ShapesKeep ==
    ASSUME Typed, [Next]_vars
    PROVE  Shapes'
  <1>1. ASSUME NEW c \in Clients, NEW n \in Names, Request(c, n) PROVE Shapes'
    BY <1>1, RequestDoes DEF Typed, Shapes, JobType, WatchType, SupType, Others, sessions,
       browser
  <1>2. ASSUME NEW c \in Clients,
               \/ Queue(c) \/ Install(c) \/ Lock(c) \/ CreateFails(c) \/ ReadContext(c)
               \/ Dispose(c) \/ TakeSlot(c) \/ ClearMap(c)
        PROVE  Shapes'
    BY <1>2, QueueDoes, InstallDoes, LockDoes, CreateFailsDoes, ReadContextDoes,
       DisposeDoes, TakeSlotDoes, ClearMapDoes
       DEF Typed, Shapes, JobType, WatchType, SupType, Others, sessions, browser
  <1>3. ASSUME NEW c \in Clients, Launch(c) PROVE Shapes'
    BY <1>3, LaunchDoes DEF Typed, Shapes, JobType, WatchType, SupType, Others, Watchers,
       Supervisors, sessions
  <1>4. ASSUME NEW c \in Clients, GiveUp(c) \/ Halt(c)
        PROVE  Shapes'
    BY <1>4, GiveUpDoes, HaltDoes
       DEF Typed, Shapes, JobType, WatchType, SupType, Others, Supervisors, sessions
  <1>5. ASSUME NEW c \in Clients, Create(c) PROVE Shapes'
    BY <1>5, CreateDoes DEF Typed, Shapes, JobType, WatchType, SupType, Others
  <1>6. ASSUME NEW c \in Clients, NEW n \in Names, Remove(c, n) PROVE Shapes'
    BY <1>6, RemoveDoes DEF Typed, Shapes, JobType, WatchType, SupType, Others, browser
  <1>7. ASSUME NEW u \in Sups, WatchStep(u) \/ EngineDies(u) \/ Replace(u)
        PROVE  Shapes'
    BY <1>7, EngineDiesDoes, ReplaceDoes, BaselineDoes, NoticeDoes, ListDoes, RoundDoes, EndRoundDoes,
       CheckDoes, RebuildDoes, RebuildFailsDoes, SwapDoes, RecheckDoes
       DEF Typed, Shapes, JobType, WatchType, SupType, Supervisors, sessions, Watchers,
           browser, quiet, WatchStep
  <1>8. CASE UNCHANGED vars
    BY <1>8 DEF vars, Typed, Shapes, JobType, WatchType, SupType
  <1> QED
    BY <1>1, <1>2, <1>3, <1>4, <1>5, <1>6, <1>7, <1>8 DEF Next, CallStep, WatchStep

LEMMA CountKeeps ==
    ASSUME Typed, [Next]_vars
    PROVE  CountInv'
  <1>1. ASSUME NEW c \in Clients, NEW n \in Names, Request(c, n) PROVE CountInv'
    BY <1>1, RequestDoes, ManagerAssumption DEF Typed, NumberInv, CountInv, CallBounds,
       Sups, Contexts, Objects, Others, sessions, browser
  <1>2. ASSUME NEW c \in Clients,
               \/ Queue(c) \/ Install(c) \/ Lock(c) \/ CreateFails(c) \/ ReadContext(c)
               \/ Dispose(c) \/ TakeSlot(c) \/ ClearMap(c)
        PROVE  CountInv'
    BY <1>2, QueueDoes, InstallDoes, LockDoes, CreateFailsDoes, ReadContextDoes,
       DisposeDoes, TakeSlotDoes, ClearMapDoes, ManagerAssumption, JobFields
       DEF Typed, NumberInv, CountInv, CallBounds, Sups, Contexts, Objects, Others,
           sessions, browser
  <1>3. ASSUME NEW c \in Clients, Launch(c) PROVE CountInv'
    BY <1>3, LaunchDoes, ManagerAssumption DEF Typed, NumberInv, CountInv, CallBounds,
       Sups, Contexts, Objects, Others, Watchers, Supervisors, sessions
  <1>4. ASSUME NEW c \in Clients, GiveUp(c) \/ Halt(c)
        PROVE  CountInv'
    BY <1>4, GiveUpDoes, HaltDoes, ManagerAssumption
       DEF Typed, NumberInv, CountInv, CallBounds, Sups, Contexts, Objects, Others,
           Supervisors, sessions
  <1>5. ASSUME NEW c \in Clients, Create(c) PROVE CountInv'
    BY <1>5, CreateDoes, ManagerAssumption DEF Typed, NumberInv, CountInv, CallBounds,
       Sups, Contexts, Objects, Others
  <1>6. ASSUME NEW c \in Clients, NEW n \in Names, Remove(c, n) PROVE CountInv'
    BY <1>6, RemoveDoes, ManagerAssumption DEF Typed, NumberInv, CountInv, CallBounds,
       Sups, Contexts, Objects, Others, browser
  <1>7. ASSUME NEW u \in Sups, WatchStep(u) \/ EngineDies(u) \/ Replace(u)
        PROVE  CountInv'
    BY <1>7, EngineDiesDoes, ReplaceDoes, BaselineDoes, NoticeDoes, ListDoes, RoundDoes, EndRoundDoes,
       CheckDoes, RebuildDoes, RebuildFailsDoes, SwapDoes, RecheckDoes, ManagerAssumption
       DEF Typed, NumberInv, CountInv, CallBounds, Sups, Contexts, Objects, Supervisors,
           sessions, Watchers, browser, quiet, WatchStep
  <1>8. CASE UNCHANGED vars
    BY <1>8, ManagerAssumption DEF vars, Typed, NumberInv, CountInv, CallBounds, Sups,
       Contexts, Objects
  <1> QED
    BY <1>1, <1>2, <1>3, <1>4, <1>5, <1>6, <1>7, <1>8 DEF Next, CallStep, WatchStep

LEMMA RangeKeeps ==
    ASSUME Typed, [Next]_vars
    PROVE  RangeInv'
  <1>1. ASSUME NEW c \in Clients, NEW n \in Names, Request(c, n) PROVE RangeInv'
    BY <1>1, RequestDoes, Counts, ManagerAssumption DEF RangeInv, CountInv, Others,
       sessions, browser
  <1>2. ASSUME NEW c \in Clients,
               \/ Queue(c) \/ Install(c) \/ Lock(c) \/ CreateFails(c) \/ ReadContext(c)
               \/ Dispose(c) \/ TakeSlot(c)
        PROVE  RangeInv'
    BY <1>2, QueueDoes, InstallDoes, LockDoes, CreateFailsDoes, ReadContextDoes,
       DisposeDoes, TakeSlotDoes, Counts, ManagerAssumption
       DEF RangeInv, CountInv, Others, sessions, browser
  <1>3. ASSUME NEW c \in Clients, Launch(c) PROVE RangeInv'
    BY <1>3, LaunchDoes, Counts, ManagerAssumption DEF RangeInv, CountInv, Others,
       Watchers, Supervisors, sessions
  <1>4. ASSUME NEW c \in Clients, GiveUp(c) \/ Halt(c)
        PROVE  RangeInv'
    BY <1>4, GiveUpDoes, HaltDoes, Counts, ManagerAssumption
       DEF RangeInv, CountInv, Others, Supervisors, sessions
  <1>5. ASSUME NEW c \in Clients, Create(c) PROVE RangeInv'
    <2>1. /\ objects \in Nat /\ contexts \in Nat /\ job[c].run \in 0 .. sups
          /\ job[c].name \in Names \cup {"none"}
      BY JobFields, Counts DEF CountInv, CallBounds
    <2>2. open' \in [Names -> 0 .. objects']
      BY <1>5, <2>1, CreateDoes, Counts DEF RangeInv
    <2>3. name' \in [Objects -> Names \cup {"none"}]
      BY <1>5, <2>1, CreateDoes, Counts DEF RangeInv
    <2>4. ctx' \in [Objects -> 0 .. contexts']
      BY <1>5, <2>1, CreateDoes, Counts DEF RangeInv
    <2>5. home' \in [Contexts -> 0 .. sups']
      BY <1>5, <2>1, CreateDoes, Counts DEF RangeInv
    <2>6. live' \subseteq 1 .. contexts'
      BY <1>5, <2>1, CreateDoes, Counts DEF RangeInv
    <2> QED
      BY <2>2, <2>3, <2>4, <2>5, <2>6 DEF RangeInv
  <1>6. ASSUME NEW c \in Clients, NEW n \in Names, Remove(c, n) PROVE RangeInv'
    <2>1. open' \in [Names -> 0 .. objects'] /\ objects \in Nat
      BY <1>6, RemoveDoes, Counts DEF RangeInv, CountInv
    <2> QED
      BY <1>6, <2>1, RemoveDoes, Counts DEF RangeInv, browser
  <1>7. ASSUME NEW c \in Clients, ClearMap(c) PROVE RangeInv'
    <2>1. open' \in [Names -> 0 .. objects'] /\ objects \in Nat
      BY <1>7, ClearMapDoes, Counts DEF CountInv
    <2> QED
      BY <1>7, <2>1, ClearMapDoes, Counts DEF RangeInv, browser
  <1>8. ASSUME NEW u \in Sups,
               \/ EngineDies(u) \/ Replace(u) \/ Baseline(u) \/ Notice(u) \/ List(u)
               \/ Round(u) \/ EndRound(u) \/ Check(u) \/ RebuildFails(u) \/ Recheck(u)
        PROVE  RangeInv'
    BY <1>8, EngineDiesDoes, ReplaceDoes, BaselineDoes, NoticeDoes, ListDoes, RoundDoes, EndRoundDoes,
       CheckDoes, RebuildFailsDoes, RecheckDoes, Counts, ManagerAssumption
       DEF RangeInv, CountInv, Supervisors, sessions, Watchers, browser, quiet
  <1>9. ASSUME NEW u \in Sups, Rebuild(u) PROVE RangeInv'
    <2>1. /\ contexts \in Nat /\ watch[u].run \in 0 .. sups
      BY WatchFields, Counts DEF CountInv, WatchBounds
    <2>2. ctx' \in [Objects -> 0 .. contexts']
      BY <1>9, <2>1, RebuildDoes, Counts DEF RangeInv, sessions
    <2>3. home' \in [Contexts -> 0 .. sups']
      BY <1>9, <2>1, RebuildDoes, Counts DEF RangeInv
    <2>4. live' \subseteq 1 .. contexts'
      BY <1>9, <2>1, RebuildDoes, Counts DEF RangeInv
    <2>5. open' \in [Names -> 0 .. objects'] /\ name' \in [Objects -> Names \cup {"none"}]
      BY <1>9, RebuildDoes, Counts DEF RangeInv, sessions
    <2> QED
      BY <2>2, <2>3, <2>4, <2>5 DEF RangeInv
  <1>10. ASSUME NEW u \in Sups, Swap(u) PROVE RangeInv'
    <2>1. watch[u].ctx \in 0 .. contexts
      BY WatchFields, Counts DEF CountInv, WatchBounds
    <2>2. ctx' \in [Objects -> 0 .. contexts']
      BY <1>10, <2>1, SwapDoes, Counts DEF RangeInv, browser
    <2> QED
      BY <1>10, <2>2, SwapDoes, Counts DEF RangeInv, browser
  <1>11. CASE UNCHANGED vars
    BY <1>11, Counts, ManagerAssumption DEF vars, RangeInv, CountInv
  <1> QED
    BY <1>1, <1>2, <1>3, <1>4, <1>5, <1>6, <1>7, <1>8, <1>9, <1>10, <1>11 DEF Next,
       CallStep, WatchStep

LEMMA CallBoundsKeep ==
    ASSUME Typed, StartInv, [Next]_vars
    PROVE  CallBounds'
  <1>1. ASSUME NEW c \in Clients, NEW n \in Names, Request(c, n) PROVE CallBounds'
    BY <1>1, RequestDoes, FreeIs, JobFields, Counts, ManagerAssumption DEF CountInv,
       RangeInv, CallBounds, StartInv, Others, sessions, browser
  <1>2. ASSUME NEW c \in Clients,
               \/ Queue(c) \/ Install(c) \/ Lock(c) \/ CreateFails(c) \/ Dispose(c)
               \/ TakeSlot(c) \/ ClearMap(c)
        PROVE  CallBounds'
    BY <1>2, QueueDoes, InstallDoes, LockDoes, CreateFailsDoes, DisposeDoes, TakeSlotDoes,
       ClearMapDoes, FreeIs, JobFields, Counts, ManagerAssumption
       DEF CountInv, RangeInv, CallBounds, StartInv, Others, sessions, browser
  <1>3. ASSUME NEW c \in Clients, Launch(c) PROVE CallBounds'
    BY <1>3, LaunchDoes, FreeIs, JobFields, Counts, ManagerAssumption DEF CountInv,
       RangeInv, CallBounds, StartInv, Others, Watchers, Supervisors, sessions
  <1>4. ASSUME NEW c \in Clients, GiveUp(c) PROVE CallBounds'
    <2>1. /\ job'[c] = Free
          /\ \A d \in Clients \ {c} : job'[d] = job[d]
          /\ UNCHANGED <<sups, objects, contexts>>
      BY <1>4, GiveUpDoes DEF Others, Supervisors, sessions
    <2> QED
      BY <2>1, FreeIs, JobFields, Counts, ManagerAssumption DEF CountInv, RangeInv,
         CallBounds, StartInv
  <1>5. ASSUME NEW c \in Clients, Create(c) PROVE CallBounds'
    BY <1>5, CreateDoes, FreeIs, JobFields, Counts, ManagerAssumption DEF CountInv,
       RangeInv, CallBounds, StartInv, Others
  <1>6. ASSUME NEW c \in Clients, NEW n \in Names, Remove(c, n) PROVE CallBounds'
    BY <1>6, RemoveDoes, FreeIs, JobFields, Counts, ManagerAssumption DEF CountInv,
       RangeInv, CallBounds, StartInv, Others, browser
  <1>7. ASSUME NEW c \in Clients, ReadContext(c) PROVE CallBounds'
    <2>1. ctx[job[c].obj] <= contexts
      <3>1. job[c].obj \in Objects
        BY <1>7, ReadContextDoes, Counts, ManagerAssumption DEF CountInv, Objects
      <3> QED
        BY <3>1, Counts DEF CountInv, RangeInv
    <2> QED
      BY <1>7, <2>1, ReadContextDoes, JobFields, Counts DEF CallBounds, Others, sessions,
         browser
  <1>8. ASSUME NEW c \in Clients, Halt(c) PROVE CallBounds'
    <2>1. /\ job'[c] = Free
          /\ \A d \in Clients \ {c} : job'[d] = job[d]
          /\ UNCHANGED <<sups, objects, contexts>>
      BY <1>8, HaltDoes DEF Others, Supervisors, sessions
    <2> QED
      BY <2>1, FreeIs, JobFields, Counts, ManagerAssumption DEF CountInv, RangeInv,
         CallBounds, StartInv
  <1>9. ASSUME NEW u \in Sups, WatchStep(u) \/ EngineDies(u) \/ Replace(u)
        PROVE  CallBounds'
    BY <1>9, EngineDiesDoes, ReplaceDoes, BaselineDoes, NoticeDoes, ListDoes, RoundDoes, EndRoundDoes,
       CheckDoes, RebuildDoes, RebuildFailsDoes, SwapDoes, RecheckDoes, FreeIs, JobFields,
       Counts, ManagerAssumption
       DEF CountInv, RangeInv, CallBounds, StartInv, Supervisors, sessions, Watchers,
           browser, quiet, WatchStep
  <1>10. CASE UNCHANGED vars
    BY <1>10, FreeIs, JobFields, Counts, ManagerAssumption DEF vars, CountInv, RangeInv,
       CallBounds, StartInv
  <1> QED
    BY <1>1, <1>2, <1>3, <1>4, <1>5, <1>6, <1>7, <1>8, <1>9, <1>10 DEF Next, CallStep,
       WatchStep

LEMMA WatchBoundsKeep ==
    ASSUME Typed, [Next]_vars
    PROVE  WatchBounds'
  <1>1. ASSUME NEW c \in Clients, Launch(c) PROVE WatchBounds'
    BY <1>1, LaunchDoes, WatchFields, Counts, ManagerAssumption DEF CountInv, RangeInv,
       WatchBounds, Others, Watchers, Supervisors, sessions, Asleep, Sups
  <1>2. ASSUME NEW c \in Clients, Create(c) PROVE WatchBounds'
    BY <1>2, CreateDoes, WatchFields, Counts, ManagerAssumption DEF CountInv, RangeInv,
       WatchBounds, Others
  <1>3. ASSUME NEW u \in Sups, WatchStep(u) \/ EngineDies(u) \/ Replace(u)
        PROVE  WatchBounds'
    BY <1>3, EngineDiesDoes, ReplaceDoes, BaselineDoes, NoticeDoes, ListDoes, RoundDoes, EndRoundDoes,
       CheckDoes, RebuildDoes, RebuildFailsDoes, SwapDoes, RecheckDoes, WatchFields,
       Counts, ManagerAssumption, RestIs
       DEF CountInv, RangeInv, WatchBounds, Supervisors, sessions, Watchers, browser,
           quiet, OpenObjects, WatchStep
  <1>4. ASSUME NEW c \in Clients,
              \/ \E n \in Names : Request(c, n) \/ Remove(c, n)
              \/ Queue(c) \/ GiveUp(c) \/ Install(c) \/ Lock(c) \/ CreateFails(c)
              \/ ReadContext(c) \/ Dispose(c) \/ TakeSlot(c) \/ ClearMap(c) \/ Halt(c)
        PROVE  WatchBounds'
    BY <1>4, CallLeaves, WatchFields, Counts, ManagerAssumption DEF CountInv, RangeInv,
       WatchBounds
  <1>5. CASE UNCHANGED vars
    BY <1>5, WatchFields, Counts, ManagerAssumption DEF vars, CountInv, RangeInv,
       WatchBounds
  <1> QED
    BY <1>1, <1>2, <1>3, <1>4, <1>5 DEF Next, CallStep, WatchStep

LEMMA HoldersKeep ==
    ASSUME Typed, [Next]_vars
    PROVE  HoldersOK'
  <1>1. ASSUME NEW c \in Clients, NEW n \in Names, Request(c, n) PROVE HoldersOK'
    BY <1>1, RequestDoes DEF Typed, HoldersOK, Others, sessions, browser
  <1>2. ASSUME NEW c \in Clients,
               \/ Queue(c) \/ Install(c) \/ Lock(c) \/ CreateFails(c) \/ ReadContext(c)
               \/ Dispose(c) \/ TakeSlot(c) \/ ClearMap(c)
        PROVE  HoldersOK'
    BY <1>2, QueueDoes, InstallDoes, LockDoes, CreateFailsDoes, ReadContextDoes,
       DisposeDoes, TakeSlotDoes, ClearMapDoes
       DEF Typed, HoldersOK, Others, sessions, browser
  <1>3. ASSUME NEW c \in Clients, Launch(c) PROVE HoldersOK'
    BY <1>3, LaunchDoes DEF Typed, HoldersOK, Others, Watchers, Supervisors, sessions
  <1>4. ASSUME NEW c \in Clients, GiveUp(c) \/ Halt(c)
        PROVE  HoldersOK'
    BY <1>4, GiveUpDoes, HaltDoes
       DEF Typed, HoldersOK, Others, Supervisors, sessions
  <1>5. ASSUME NEW c \in Clients, Create(c) PROVE HoldersOK'
    BY <1>5, CreateDoes DEF Typed, HoldersOK, Others
  <1>6. ASSUME NEW c \in Clients, NEW n \in Names, Remove(c, n) PROVE HoldersOK'
    BY <1>6, RemoveDoes DEF Typed, HoldersOK, Others, browser
  <1>7. ASSUME NEW u \in Sups,
               \/ WatchStep(u) \/ EngineDies(u) \/ Replace(u) PROVE HoldersOK'
    BY <1>7, WatchLeaves DEF Typed, HoldersOK
  <1>8. CASE UNCHANGED vars
    BY <1>8 DEF vars, Typed, HoldersOK
  <1> QED
    BY <1>1, <1>2, <1>3, <1>4, <1>5, <1>6, <1>7, <1>8 DEF Next, CallStep, WatchStep

(* Who starts an engine is alone in it.                                    *)
LEMMA Starting ==
    ASSUME Typed, StartInv, NEW c \in Clients, job[c].at = "install"
    PROVE  /\ job[c].run \in Sups /\ job[c].run # 0 /\ slot = 0
           /\ \A d \in Clients : job[d].at = "install" => d = c
  <1>1. job[c].run \in Nat /\ job[c].run # 0 /\ job[c].run <= sups
    BY JobFields, Counts DEF CallBounds
  <1>2. job[c].run \in Sups
    BY <1>1, Counts, ManagerAssumption DEF CountInv, Sups
  <1> QED
    BY <1>1, <1>2, ManagerAssumption DEF StartInv

(* Nobody else learns of a supervisor before it is installed: not another  *)
(* call, not a watcher, no context (manager.rs, start_running).            *)
LEMMA FreshRunKeeps ==
    ASSUME Typed, StartInv, FreshRun, [Next]_vars
    PROVE  FreshRun'
  <1>1. ASSUME NEW c \in Clients, NEW n \in Names, Request(c, n) PROVE FreshRun'
    BY <1>1, RequestDoes, FreeIs, Starting DEF FreshRun, Others, sessions, browser
  <1>2. ASSUME NEW c \in Clients,
               \/ Queue(c) \/ Install(c) \/ Lock(c) \/ CreateFails(c) \/ ReadContext(c)
               \/ TakeSlot(c) \/ ClearMap(c)
        PROVE  FreshRun'
    BY <1>2, QueueDoes, InstallDoes, LockDoes, CreateFailsDoes, ReadContextDoes,
       TakeSlotDoes, ClearMapDoes, FreeIs, Starting
       DEF FreshRun, Others, sessions, browser
  <1>3. ASSUME NEW c \in Clients, Launch(c) PROVE FreshRun'
    BY <1>3, LaunchDoes, FreeIs, Starting, JobFields, Counts, ManagerAssumption DEF
       FreshRun, Others, Watchers, Supervisors, sessions, CountInv, CallBounds, StartInv
  <1>4. ASSUME NEW c \in Clients, GiveUp(c) PROVE FreshRun'
    <2>1. /\ job'[c] = Free
          /\ \A d \in Clients \ {c} : job'[d] = job[d]
      BY <1>4, GiveUpDoes DEF Others, Supervisors, sessions
    <2> QED
      BY <2>1, FreeIs, Starting DEF FreshRun
  <1>5. ASSUME NEW c \in Clients, Create(c) PROVE FreshRun'
    BY <1>5, CreateDoes, FreeIs, Starting DEF FreshRun, Others
  <1>6. ASSUME NEW c \in Clients, NEW n \in Names, Remove(c, n) PROVE FreshRun'
    BY <1>6, RemoveDoes, FreeIs, Starting DEF FreshRun, Others, browser
  <1>7. ASSUME NEW c \in Clients, Dispose(c) PROVE FreshRun'
    <2>1. /\ job'[c] = Free
          /\ \A d \in Clients \ {c} : job'[d] = job[d]
      BY <1>7, DisposeDoes DEF Others, sessions
    <2> QED
      BY <2>1, FreeIs, Starting DEF FreshRun
  <1>8. ASSUME NEW c \in Clients, Halt(c) PROVE FreshRun'
    <2>1. /\ job'[c] = Free
          /\ \A d \in Clients \ {c} : job'[d] = job[d]
      BY <1>8, HaltDoes DEF Others, Supervisors, sessions
    <2> QED
      BY <2>1, FreeIs, Starting DEF FreshRun
  <1>9. ASSUME NEW u \in Sups, WatchStep(u) \/ EngineDies(u) \/ Replace(u) PROVE FreshRun'
    BY <1>9, WatchLeaves, FreeIs, Starting DEF FreshRun
  <1>10. CASE UNCHANGED vars
    BY <1>10, FreeIs, Starting DEF vars, FreshRun
  <1> QED
    BY <1>1, <1>2, <1>3, <1>4, <1>5, <1>6, <1>7, <1>8, <1>9, <1>10 DEF Next, CallStep,
       WatchStep

LEMMA FreshWatchKeeps ==
    ASSUME Typed, StartInv, FreshWatch, [Next]_vars
    PROVE  FreshWatch'
  <1>1. ASSUME NEW c \in Clients, NEW n \in Names, Request(c, n) PROVE FreshWatch'
    BY <1>1, RequestDoes, FreeIs, Starting DEF FreshWatch, Others, sessions, browser
  <1>2. ASSUME NEW c \in Clients,
               \/ Queue(c) \/ Install(c) \/ Lock(c) \/ CreateFails(c) \/ ReadContext(c)
               \/ TakeSlot(c) \/ ClearMap(c)
        PROVE  FreshWatch'
    BY <1>2, QueueDoes, InstallDoes, LockDoes, CreateFailsDoes, ReadContextDoes,
       TakeSlotDoes, ClearMapDoes, FreeIs, Starting
       DEF FreshWatch, Others, sessions, browser
  <1>3. ASSUME NEW c \in Clients, Launch(c) PROVE FreshWatch'
    BY <1>3, LaunchDoes, FreeIs, Starting, WatchFields, Counts, ManagerAssumption DEF
       FreshWatch, Others, Watchers, Supervisors, sessions, CountInv, WatchBounds,
       StartInv, Asleep, Sups
  <1>4. ASSUME NEW c \in Clients, GiveUp(c) PROVE FreshWatch'
    <2>1. /\ job'[c] = Free
          /\ \A d \in Clients \ {c} : job'[d] = job[d]
          /\ UNCHANGED <<watch>>
      BY <1>4, GiveUpDoes DEF Others, Supervisors, sessions
    <2> QED
      BY <2>1, FreeIs, Starting DEF FreshWatch
  <1>5. ASSUME NEW c \in Clients, Create(c) PROVE FreshWatch'
    BY <1>5, CreateDoes, FreeIs, Starting DEF FreshWatch, Others
  <1>6. ASSUME NEW c \in Clients, NEW n \in Names, Remove(c, n) PROVE FreshWatch'
    BY <1>6, RemoveDoes, FreeIs, Starting DEF FreshWatch, Others, browser
  <1>7. ASSUME NEW c \in Clients, Dispose(c) PROVE FreshWatch'
    <2>1. /\ job'[c] = Free
          /\ \A d \in Clients \ {c} : job'[d] = job[d]
          /\ UNCHANGED <<watch>>
      BY <1>7, DisposeDoes DEF Others, sessions
    <2> QED
      BY <2>1, FreeIs, Starting DEF FreshWatch
  <1>8. ASSUME NEW c \in Clients, Halt(c) PROVE FreshWatch'
    <2>1. /\ job'[c] = Free
          /\ \A d \in Clients \ {c} : job'[d] = job[d]
          /\ UNCHANGED <<watch>>
      BY <1>8, HaltDoes DEF Others, Supervisors, sessions
    <2> QED
      BY <2>1, FreeIs, Starting DEF FreshWatch
  <1>9. ASSUME NEW u \in Sups, WatchStep(u) \/ EngineDies(u) \/ Replace(u)
        PROVE  FreshWatch'
    BY <1>9, EngineDiesDoes, ReplaceDoes, BaselineDoes, NoticeDoes, ListDoes, RoundDoes, EndRoundDoes,
       CheckDoes, RebuildDoes, RebuildFailsDoes, SwapDoes, RecheckDoes, FreeIs, Starting,
       RestIs
       DEF FreshWatch, Supervisors, sessions, Watchers, browser, quiet, WatchStep
  <1>10. CASE UNCHANGED vars
    BY <1>10, FreeIs, Starting DEF vars, FreshWatch
  <1> QED
    BY <1>1, <1>2, <1>3, <1>4, <1>5, <1>6, <1>7, <1>8, <1>9, <1>10 DEF Next, CallStep,
       WatchStep

LEMMA FreshHomeKeeps ==
    ASSUME Typed, StartInv, FreshRun, FreshWatch, FreshHome, [Next]_vars
    PROVE  FreshHome'
  <1>1. ASSUME NEW c \in Clients, NEW n \in Names, Request(c, n) PROVE FreshHome'
    BY <1>1, RequestDoes, FreeIs, Starting DEF FreshHome, Others, sessions, browser
  <1>2. ASSUME NEW c \in Clients,
               \/ Queue(c) \/ Install(c) \/ Lock(c) \/ CreateFails(c) \/ ReadContext(c)
               \/ TakeSlot(c) \/ ClearMap(c)
        PROVE  FreshHome'
    BY <1>2, QueueDoes, InstallDoes, LockDoes, CreateFailsDoes, ReadContextDoes,
       TakeSlotDoes, ClearMapDoes, FreeIs, Starting
       DEF FreshHome, Others, sessions, browser
  <1>3. ASSUME NEW c \in Clients, Launch(c) PROVE FreshHome'
    BY <1>3, LaunchDoes, FreeIs, Starting, Counts, ManagerAssumption DEF FreshHome,
       Others, Watchers, Supervisors, sessions, CountInv, StartInv, RangeInv
  <1>4. ASSUME NEW c \in Clients, GiveUp(c) PROVE FreshHome'
    <2>1. /\ job'[c] = Free
          /\ \A d \in Clients \ {c} : job'[d] = job[d]
          /\ UNCHANGED <<home>>
      BY <1>4, GiveUpDoes DEF Others, Supervisors, sessions
    <2> QED
      BY <2>1, FreeIs, Starting DEF FreshHome
  <1>5. ASSUME NEW c \in Clients, Create(c) PROVE FreshHome'
    BY <1>5, CreateDoes, FreeIs, Starting, Counts DEF FreshHome, Others, FreshRun,
       RangeInv
  <1>6. ASSUME NEW c \in Clients, NEW n \in Names, Remove(c, n) PROVE FreshHome'
    BY <1>6, RemoveDoes, FreeIs, Starting DEF FreshHome, Others, browser
  <1>7. ASSUME NEW c \in Clients, Dispose(c) PROVE FreshHome'
    <2>1. /\ job'[c] = Free
          /\ \A d \in Clients \ {c} : job'[d] = job[d]
          /\ UNCHANGED <<home>>
      BY <1>7, DisposeDoes DEF Others, sessions
    <2> QED
      BY <2>1, FreeIs, Starting DEF FreshHome
  <1>8. ASSUME NEW c \in Clients, Halt(c) PROVE FreshHome'
    <2>1. /\ job'[c] = Free
          /\ \A d \in Clients \ {c} : job'[d] = job[d]
          /\ UNCHANGED <<home>>
      BY <1>8, HaltDoes DEF Others, Supervisors, sessions
    <2> QED
      BY <2>1, FreeIs, Starting DEF FreshHome
  <1>9. ASSUME NEW u \in Sups, WatchStep(u) \/ EngineDies(u) \/ Replace(u)
        PROVE  FreshHome'
    BY <1>9, EngineDiesDoes, ReplaceDoes, BaselineDoes, NoticeDoes, ListDoes, RoundDoes, EndRoundDoes,
       CheckDoes, RebuildDoes, RebuildFailsDoes, SwapDoes, RecheckDoes, FreeIs, Starting,
       Counts
       DEF FreshHome, Supervisors, sessions, Watchers, browser, quiet, FreshWatch,
           RangeInv, WatchStep
  <1>10. CASE UNCHANGED vars
    BY <1>10, FreeIs, Starting DEF vars, FreshHome
  <1> QED
    BY <1>1, <1>2, <1>3, <1>4, <1>5, <1>6, <1>7, <1>8, <1>9, <1>10 DEF Next, CallStep,
       WatchStep

LEMMA FreshIdleKeeps ==
    ASSUME Typed, StartInv, FreshIdle, [Next]_vars
    PROVE  FreshIdle'
  <1>1. ASSUME NEW c \in Clients, NEW n \in Names, Request(c, n) PROVE FreshIdle'
    BY <1>1, RequestDoes, FreeIs, Starting DEF FreshIdle, Others, sessions, browser
  <1>2. ASSUME NEW c \in Clients,
               \/ Queue(c) \/ Install(c) \/ Lock(c) \/ CreateFails(c) \/ ReadContext(c)
               \/ TakeSlot(c) \/ ClearMap(c)
        PROVE  FreshIdle'
    BY <1>2, QueueDoes, InstallDoes, LockDoes, CreateFailsDoes, ReadContextDoes,
       TakeSlotDoes, ClearMapDoes, FreeIs, Starting
       DEF FreshIdle, Others, sessions, browser
  <1>3. ASSUME NEW c \in Clients, Launch(c) PROVE FreshIdle'
    BY <1>3, LaunchDoes, FreeIs, Starting, Counts, ManagerAssumption DEF FreshIdle,
       Others, Watchers, Supervisors, sessions, CountInv, StartInv, Asleep, Sups
  <1>4. ASSUME NEW c \in Clients, GiveUp(c) PROVE FreshIdle'
    <2>1. /\ job'[c] = Free
          /\ \A d \in Clients \ {c} : job'[d] = job[d]
          /\ UNCHANGED <<watch>>
      BY <1>4, GiveUpDoes DEF Others, Supervisors, sessions
    <2> QED
      BY <2>1, FreeIs, Starting DEF FreshIdle
  <1>5. ASSUME NEW c \in Clients, Create(c) PROVE FreshIdle'
    BY <1>5, CreateDoes, FreeIs, Starting DEF FreshIdle, Others
  <1>6. ASSUME NEW c \in Clients, NEW n \in Names, Remove(c, n) PROVE FreshIdle'
    BY <1>6, RemoveDoes, FreeIs, Starting DEF FreshIdle, Others, browser
  <1>7. ASSUME NEW c \in Clients, Dispose(c) PROVE FreshIdle'
    <2>1. /\ job'[c] = Free
          /\ \A d \in Clients \ {c} : job'[d] = job[d]
          /\ UNCHANGED <<watch>>
      BY <1>7, DisposeDoes DEF Others, sessions
    <2> QED
      BY <2>1, FreeIs, Starting DEF FreshIdle
  <1>8. ASSUME NEW c \in Clients, Halt(c) PROVE FreshIdle'
    <2>1. /\ job'[c] = Free
          /\ \A d \in Clients \ {c} : job'[d] = job[d]
          /\ UNCHANGED <<watch>>
      BY <1>8, HaltDoes DEF Others, Supervisors, sessions
    <2> QED
      BY <2>1, FreeIs, Starting DEF FreshIdle
  <1>9. ASSUME NEW u \in Sups, WatchStep(u) \/ EngineDies(u) \/ Replace(u)
        PROVE  FreshIdle'
    BY <1>9, EngineDiesDoes, ReplaceDoes, BaselineDoes, NoticeDoes, ListDoes, RoundDoes, EndRoundDoes,
       CheckDoes, RebuildDoes, RebuildFailsDoes, SwapDoes, RecheckDoes, FreeIs, Starting,
       RestIs
       DEF FreshIdle, Supervisors, sessions, Watchers, browser, quiet, WatchStep
  <1>10. CASE UNCHANGED vars
    BY <1>10, FreeIs, Starting DEF vars, FreshIdle
  <1> QED
    BY <1>1, <1>2, <1>3, <1>4, <1>5, <1>6, <1>7, <1>8, <1>9, <1>10 DEF Next, CallStep,
       WatchStep

(* The map holds each session under its id; whoever closes one took it out *)
(* first (manager.rs, session, close_session).                             *)
LEMMA OpenNamesKeep ==
    ASSUME Typed, CallInv, OpenNames, [Next]_vars
    PROVE  OpenNames'
  <1>1. ASSUME NEW c \in Clients, NEW n \in Names, Request(c, n) PROVE OpenNames'
    BY <1>1, RequestDoes, FreeIs, Counts DEF OpenNames, Others, sessions, browser
  <1>2. ASSUME NEW c \in Clients,
               \/ Queue(c) \/ Install(c) \/ Lock(c) \/ CreateFails(c) \/ ReadContext(c)
               \/ Dispose(c) \/ TakeSlot(c) \/ ClearMap(c)
        PROVE  OpenNames'
    BY <1>2, QueueDoes, InstallDoes, LockDoes, CreateFailsDoes, ReadContextDoes,
       DisposeDoes, TakeSlotDoes, ClearMapDoes, FreeIs, Counts
       DEF OpenNames, Others, sessions, browser, CountInv, RangeInv
  <1>3. ASSUME NEW c \in Clients, Launch(c) PROVE OpenNames'
    BY <1>3, LaunchDoes, FreeIs, Counts DEF OpenNames, Others, Watchers, Supervisors,
       sessions
  <1>4. ASSUME NEW c \in Clients, GiveUp(c) \/ Halt(c)
        PROVE  OpenNames'
    BY <1>4, GiveUpDoes, HaltDoes, FreeIs, Counts
       DEF OpenNames, Others, Supervisors, sessions
  <1>5. ASSUME NEW c \in Clients, Create(c) PROVE OpenNames'
    <2>1. /\ job[c].name \in Names /\ objects + 1 \in Objects
          /\ objects' = objects + 1 /\ objects \in Nat
          /\ name' = [name EXCEPT ![objects + 1] = job[c].name]
          /\ open' = [open EXCEPT ![job[c].name] = objects + 1]
      BY <1>5, CreateDoes, Counts DEF CallInv, Asking, CountInv
    <2>2. ASSUME NEW m \in Names, open'[m] # 0 PROVE name'[open'[m]] = m
      <3>1. open \in [Names -> 0 .. objects] /\ DOMAIN name = Objects
        BY Counts DEF RangeInv
      <3>2. CASE m = job[c].name
        BY <2>1, <3>1, <3>2
      <3>3. CASE m # job[c].name
        BY <2>1, <2>2, <3>1, <3>3 DEF OpenNames
      <3> QED
        BY <3>2, <3>3
    <2>3. ASSUME NEW o \in 1 .. objects' PROVE name'[o] \in Names
      <3>1. DOMAIN name = Objects
        BY Counts DEF RangeInv
      <3> QED
        BY <2>1, <3>1 DEF OpenNames
    <2> QED
      BY <2>2, <2>3 DEF OpenNames
  <1>6. ASSUME NEW c \in Clients, NEW n \in Names, Remove(c, n) PROVE OpenNames'
    BY <1>6, RemoveDoes, FreeIs, Counts DEF OpenNames, Others, browser, CountInv, RangeInv
  <1>7. ASSUME NEW u \in Sups,
               \/ WatchStep(u) \/ EngineDies(u) \/ Replace(u) PROVE OpenNames'
    BY <1>7, WatchLeaves, FreeIs, Counts DEF OpenNames
  <1>8. CASE UNCHANGED vars
    BY <1>8, FreeIs, Counts DEF vars, OpenNames
  <1> QED
    BY <1>1, <1>2, <1>3, <1>4, <1>5, <1>6, <1>7, <1>8 DEF Next, CallStep, WatchStep

LEMMA ClosingOutKeeps ==
    ASSUME Typed, OpenNames, ClosingOut, [Next]_vars
    PROVE  ClosingOut'
  <1>1. ASSUME NEW c \in Clients, NEW n \in Names, Request(c, n) PROVE ClosingOut'
    BY <1>1, RequestDoes, FreeIs, Counts, JobFields DEF ClosingOut, Others, sessions,
       browser
  <1>2. ASSUME NEW c \in Clients,
               \/ Queue(c) \/ Install(c) \/ Lock(c) \/ CreateFails(c) \/ ReadContext(c)
               \/ TakeSlot(c)
        PROVE  ClosingOut'
    BY <1>2, QueueDoes, InstallDoes, LockDoes, CreateFailsDoes, ReadContextDoes,
       TakeSlotDoes, FreeIs, Counts, JobFields
       DEF ClosingOut, Others, sessions, browser
  <1>3. ASSUME NEW c \in Clients, Launch(c) PROVE ClosingOut'
    BY <1>3, LaunchDoes, FreeIs, Counts, JobFields DEF ClosingOut, Others, Watchers,
       Supervisors, sessions
  <1>4. ASSUME NEW c \in Clients, GiveUp(c) PROVE ClosingOut'
    <2>1. /\ job'[c] = Free
          /\ \A d \in Clients \ {c} : job'[d] = job[d]
          /\ UNCHANGED <<open>>
      BY <1>4, GiveUpDoes DEF Others, Supervisors, sessions
    <2> QED
      BY <2>1, FreeIs, Counts, JobFields DEF ClosingOut
  <1>5. ASSUME NEW c \in Clients, Create(c) PROVE ClosingOut'
    <2>1. /\ job'[c].at = "idle" /\ \A d \in Clients \ {c} : job'[d] = job[d]
          /\ open' = [open EXCEPT ![job[c].name] = objects + 1]
      BY <1>5, CreateDoes, FreeIs DEF Others
    <2>2. objects \in Nat /\ DOMAIN open = Names
      BY Counts DEF CountInv, RangeInv
    <2>3. ASSUME NEW d \in Clients, job'[d].at \in {"close", "dispose"}, NEW m \in Names
          PROVE  open'[m] # job'[d].obj
      <3>1. d # c /\ job'[d] = job[d]
        BY <2>1, <2>3
      <3>2. job[d].obj \in Nat /\ job[d].obj <= objects
        BY JobFields, Counts DEF CallBounds
      <3> QED
        BY <2>1, <2>2, <2>3, <3>1, <3>2 DEF ClosingOut
    <2> QED
      BY <2>3 DEF ClosingOut
  <1>6. ASSUME NEW c \in Clients, NEW n \in Names, Remove(c, n) PROVE ClosingOut'
    <2>1. /\ job'[c].obj = open[n] /\ open[n] # 0 /\ open' = [open EXCEPT ![n] = 0]
          /\ \A d \in Clients \ {c} : job'[d] = job[d]
      BY <1>6, RemoveDoes DEF Others
    <2>2. /\ DOMAIN open = Names
          /\ \A d \in Clients : job[d].at \in {"close", "dispose"} => job[d].obj # 0
      BY Counts DEF RangeInv, CallBounds
    <2>3. \A m \in Names : open'[m] # open[n]
      BY <2>1, <2>2 DEF OpenNames
    <2> QED
      BY <2>1, <2>2, <2>3 DEF ClosingOut
  <1>7. ASSUME NEW c \in Clients, Dispose(c) PROVE ClosingOut'
    <2>1. /\ job'[c] = Free
          /\ \A d \in Clients \ {c} : job'[d] = job[d]
          /\ UNCHANGED <<open>>
      BY <1>7, DisposeDoes DEF Others, sessions
    <2> QED
      BY <2>1, FreeIs, Counts, JobFields DEF ClosingOut
  <1>8. ASSUME NEW c \in Clients, ClearMap(c) PROVE ClosingOut'
    <2>1. /\ job'[c].obj = job[c].obj /\ job'[c].at = "halt" /\ open' = [n \in Names |-> 0]
          /\ \A d \in Clients \ {c} : job'[d] = job[d]
      BY <1>8, ClearMapDoes DEF Others
    <2>2. \A d \in Clients : job[d].at \in {"close", "dispose"} => job[d].obj # 0
      BY Counts DEF CallBounds
    <2> QED
      BY <2>1, <2>2 DEF ClosingOut
  <1>9. ASSUME NEW c \in Clients, Halt(c) PROVE ClosingOut'
    <2>1. /\ job'[c] = Free
          /\ \A d \in Clients \ {c} : job'[d] = job[d]
          /\ UNCHANGED <<open>>
      BY <1>9, HaltDoes DEF Others, Supervisors, sessions
    <2> QED
      BY <2>1, FreeIs, Counts, JobFields DEF ClosingOut
  <1>10. ASSUME NEW u \in Sups,
                \/ WatchStep(u) \/ EngineDies(u) \/ Replace(u) PROVE ClosingOut'
    BY <1>10, WatchLeaves, FreeIs, Counts, JobFields DEF ClosingOut
  <1>11. CASE UNCHANGED vars
    BY <1>11, FreeIs, Counts, JobFields DEF vars, ClosingOut
  <1> QED
    BY <1>1, <1>2, <1>3, <1>4, <1>5, <1>6, <1>7, <1>8, <1>9, <1>10, <1>11 DEF Next,
       CallStep, WatchStep

(* Every context is made for one session, and a rebuild or a close touches *)
(* no other (manager.rs, session, close_session, the recovery task).       *)
LEMMA OwnObjectsKeep ==
    ASSUME Typed, OwnSwaps, OwnObjects, [Next]_vars
    PROVE  OwnObjects'
  <1>1. ASSUME NEW c \in Clients, Launch(c) PROVE OwnObjects'
    BY <1>1, LaunchDoes DEF OwnObjects, Others, Watchers, Supervisors, sessions
  <1>2. ASSUME NEW c \in Clients, Create(c) PROVE OwnObjects'
    BY <1>2, CreateDoes, CreateAdds, Known DEF OwnObjects, Others
  <1>3. ASSUME NEW u \in Sups, WatchStep(u) \/ EngineDies(u) \/ Replace(u)
        PROVE  OwnObjects'
    BY <1>3, EngineDiesDoes, ReplaceDoes, BaselineDoes, NoticeDoes, ListDoes, RoundDoes, EndRoundDoes,
       CheckDoes, RebuildDoes, RebuildFailsDoes, SwapDoes, RecheckDoes, RestIs,
       RebuildAdds, SwapSets
       DEF OwnObjects, Supervisors, sessions, Watchers, browser, quiet, OwnSwaps,
           WatchStep
  <1>4. ASSUME NEW c \in Clients,
              \/ \E n \in Names : Request(c, n) \/ Remove(c, n)
              \/ Queue(c) \/ GiveUp(c) \/ Install(c) \/ Lock(c) \/ CreateFails(c)
              \/ ReadContext(c) \/ Dispose(c) \/ TakeSlot(c) \/ ClearMap(c) \/ Halt(c)
        PROVE  OwnObjects'
    BY <1>4, CallLeaves DEF OwnObjects
  <1>5. CASE UNCHANGED vars
    BY <1>5 DEF vars, OwnObjects
  <1> QED
    BY <1>1, <1>2, <1>3, <1>4, <1>5 DEF Next, CallStep, WatchStep

LEMMA OwnSwapsKeep ==
    ASSUME Typed, OwnSwaps, [Next]_vars
    PROVE  OwnSwaps'
  <1>1. ASSUME NEW c \in Clients, Launch(c) PROVE OwnSwaps'
    BY <1>1, LaunchDoes, Counts, ManagerAssumption DEF OwnSwaps, Others, Watchers,
       Supervisors, sessions, Asleep
  <1>2. ASSUME NEW c \in Clients, Create(c) PROVE OwnSwaps'
    BY <1>2, CreateDoes, CreateAdds DEF OwnSwaps, Others
  <1>3. ASSUME NEW u \in Sups, WatchStep(u) \/ EngineDies(u) \/ Replace(u)
        PROVE  OwnSwaps'
    BY <1>3, EngineDiesDoes, ReplaceDoes, BaselineDoes, NoticeDoes, ListDoes, RoundDoes, EndRoundDoes,
       CheckDoes, RebuildDoes, RebuildFailsDoes, SwapDoes, RecheckDoes, RestIs,
       RebuildAdds, SwapSets
       DEF OwnSwaps, Supervisors, sessions, Watchers, browser, quiet, WatchStep
  <1>4. ASSUME NEW c \in Clients,
              \/ \E n \in Names : Request(c, n) \/ Remove(c, n)
              \/ Queue(c) \/ GiveUp(c) \/ Install(c) \/ Lock(c) \/ CreateFails(c)
              \/ ReadContext(c) \/ Dispose(c) \/ TakeSlot(c) \/ ClearMap(c) \/ Halt(c)
        PROVE  OwnSwaps'
    BY <1>4, CallLeaves DEF OwnSwaps
  <1>5. CASE UNCHANGED vars
    BY <1>5 DEF vars, OwnSwaps
  <1> QED
    BY <1>1, <1>2, <1>3, <1>4, <1>5 DEF Next, CallStep, WatchStep

LEMMA OwnClosesKeep ==
    ASSUME Typed, OwnObjects, OwnSwaps, OwnCloses, [Next]_vars
    PROVE  OwnCloses'
  <1>1. ASSUME NEW c \in Clients, NEW n \in Names, Request(c, n) PROVE OwnCloses'
    BY <1>1, RequestDoes, FreeIs DEF OwnCloses, Others, sessions, browser
  <1>2. ASSUME NEW c \in Clients,
               \/ Queue(c) \/ Install(c) \/ Lock(c) \/ CreateFails(c) \/ ReadContext(c)
               \/ TakeSlot(c) \/ ClearMap(c)
        PROVE  OwnCloses'
    BY <1>2, QueueDoes, InstallDoes, LockDoes, CreateFailsDoes, ReadContextDoes,
       TakeSlotDoes, ClearMapDoes, FreeIs
       DEF OwnCloses, Others, sessions, browser, OwnObjects, OwnSwaps
  <1>3. ASSUME NEW c \in Clients, Launch(c) PROVE OwnCloses'
    BY <1>3, LaunchDoes, FreeIs, Counts, ManagerAssumption DEF OwnCloses, Others,
       Watchers, Supervisors, sessions, Asleep
  <1>4. ASSUME NEW c \in Clients, GiveUp(c) PROVE OwnCloses'
    <2>1. /\ job'[c] = Free
          /\ \A d \in Clients \ {c} : job'[d] = job[d]
          /\ UNCHANGED <<objects, ctx, watch>>
      BY <1>4, GiveUpDoes DEF Others, Supervisors, sessions
    <2> QED
      BY <2>1, FreeIs DEF OwnCloses
  <1>5. ASSUME NEW c \in Clients, Create(c) PROVE OwnCloses'
    BY <1>5, CreateDoes, FreeIs, CreateAdds DEF OwnCloses, Others
  <1>6. ASSUME NEW c \in Clients, NEW n \in Names, Remove(c, n) PROVE OwnCloses'
    BY <1>6, RemoveDoes, FreeIs DEF OwnCloses, Others, browser
  <1>7. ASSUME NEW c \in Clients, Dispose(c) PROVE OwnCloses'
    <2>1. /\ job'[c] = Free
          /\ \A d \in Clients \ {c} : job'[d] = job[d]
          /\ UNCHANGED <<objects, ctx, watch>>
      BY <1>7, DisposeDoes DEF Others, sessions
    <2> QED
      BY <2>1, FreeIs DEF OwnCloses
  <1>8. ASSUME NEW c \in Clients, Halt(c) PROVE OwnCloses'
    <2>1. /\ job'[c] = Free
          /\ \A d \in Clients \ {c} : job'[d] = job[d]
          /\ UNCHANGED <<objects, ctx, watch>>
      BY <1>8, HaltDoes DEF Others, Supervisors, sessions
    <2> QED
      BY <2>1, FreeIs DEF OwnCloses
  <1>9. ASSUME NEW u \in Sups, WatchStep(u) \/ EngineDies(u) \/ Replace(u)
        PROVE  OwnCloses'
    BY <1>9, EngineDiesDoes, ReplaceDoes, BaselineDoes, NoticeDoes, ListDoes, RoundDoes, EndRoundDoes,
       CheckDoes, RebuildDoes, RebuildFailsDoes, SwapDoes, RecheckDoes, FreeIs, RestIs,
       RebuildAdds, SwapSets
       DEF OwnCloses, Supervisors, sessions, Watchers, browser, quiet, WatchStep
  <1>10. CASE UNCHANGED vars
    BY <1>10, FreeIs DEF vars, OwnCloses
  <1> QED
    BY <1>1, <1>2, <1>3, <1>4, <1>5, <1>6, <1>7, <1>8, <1>9, <1>10 DEF Next, CallStep,
       WatchStep

(* What a watcher has seen happened (manager.rs, the recovery task).       *)
LEMMA SeenKeeps ==
    ASSUME Typed, SeenInv, [Next]_vars
    PROVE  SeenInv'
  <1>1. ASSUME NEW c \in Clients, NEW n \in Names, Request(c, n) PROVE SeenInv'
    BY <1>1, RequestDoes, WatchFields, SupFields DEF SeenInv, Others, sessions, browser
  <1>2. ASSUME NEW c \in Clients,
               \/ Queue(c) \/ Install(c) \/ Lock(c) \/ CreateFails(c) \/ ReadContext(c)
               \/ Dispose(c) \/ TakeSlot(c) \/ ClearMap(c)
        PROVE  SeenInv'
    BY <1>2, QueueDoes, InstallDoes, LockDoes, CreateFailsDoes, ReadContextDoes,
       DisposeDoes, TakeSlotDoes, ClearMapDoes, WatchFields, SupFields
       DEF SeenInv, Others, sessions, browser
  <1>3. ASSUME NEW c \in Clients, Launch(c) PROVE SeenInv'
    BY <1>3, LaunchDoes, WatchFields, SupFields DEF SeenInv, Others, Watchers,
       Supervisors, sessions, Asleep
  <1>4. ASSUME NEW c \in Clients, GiveUp(c) PROVE SeenInv'
    <2>1. UNCHANGED watch
      BY <1>4, GiveUpDoes
    <2> QED
      BY <1>4, <2>1, StopIs DEF SeenInv
  <1>5. ASSUME NEW c \in Clients, Create(c) PROVE SeenInv'
    BY <1>5, CreateDoes, WatchFields, SupFields DEF SeenInv, Others
  <1>6. ASSUME NEW c \in Clients, NEW n \in Names, Remove(c, n) PROVE SeenInv'
    BY <1>6, RemoveDoes, WatchFields, SupFields DEF SeenInv, Others, browser
  <1>7. ASSUME NEW c \in Clients, Halt(c) PROVE SeenInv'
    <2>1. UNCHANGED watch
      BY <1>7, HaltDoes
    <2> QED
      BY <1>7, <2>1, StopIs DEF SeenInv
  <1>8. ASSUME NEW u \in Sups, WatchStep(u) \/ EngineDies(u) \/ Replace(u)
        PROVE  SeenInv'
    BY <1>8, EngineDiesDoes, ReplaceDoes, BaselineDoes, NoticeDoes, ListDoes, RoundDoes, EndRoundDoes,
       CheckDoes, RebuildDoes, RebuildFailsDoes, SwapDoes, RecheckDoes, WatchFields,
       SupFields, RestIs
       DEF SeenInv, Supervisors, sessions, Watchers, browser, quiet, WatchStep
  <1>9. CASE UNCHANGED vars
    BY <1>9, WatchFields, SupFields DEF vars, SeenInv
  <1> QED
    BY <1>1, <1>2, <1>3, <1>4, <1>5, <1>6, <1>7, <1>8, <1>9 DEF Next, CallStep, WatchStep

(* The watcher of the installed supervisor works on that supervisor        *)
(* (manager.rs, the recovery task).                                        *)
LEMMA RebuildsOwnKeep ==
    ASSUME Typed, StartInv, FreshIdle, RebuildsOwn, [Next]_vars
    PROVE  RebuildsOwn'
  <1>1. ASSUME NEW c \in Clients, NEW n \in Names, Request(c, n) PROVE RebuildsOwn'
    BY <1>1, RequestDoes, WatchFields DEF RebuildsOwn, Others, sessions, browser
  <1>2. ASSUME NEW c \in Clients,
               \/ Queue(c) \/ Install(c) \/ Lock(c) \/ CreateFails(c) \/ ReadContext(c)
               \/ Dispose(c) \/ TakeSlot(c) \/ ClearMap(c)
        PROVE  RebuildsOwn'
    BY <1>2, QueueDoes, InstallDoes, LockDoes, CreateFailsDoes, ReadContextDoes,
       DisposeDoes, TakeSlotDoes, ClearMapDoes, WatchFields, Starting, ManagerAssumption
       DEF RebuildsOwn, Others, sessions, browser, FreshIdle, Sups
  <1>3. ASSUME NEW c \in Clients, Launch(c) PROVE RebuildsOwn'
    BY <1>3, LaunchDoes, WatchFields, Counts, ManagerAssumption DEF RebuildsOwn, Others,
       Watchers, Supervisors, sessions, Asleep, CountInv
  <1>4. ASSUME NEW c \in Clients, GiveUp(c) PROVE RebuildsOwn'
    <2>1. /\ UNCHANGED <<slot, watch>>
      BY <1>4, GiveUpDoes DEF Others, Supervisors, sessions
    <2> QED
      BY <2>1, WatchFields DEF RebuildsOwn
  <1>5. ASSUME NEW c \in Clients, Create(c) PROVE RebuildsOwn'
    BY <1>5, CreateDoes, WatchFields DEF RebuildsOwn, Others
  <1>6. ASSUME NEW c \in Clients, NEW n \in Names, Remove(c, n) PROVE RebuildsOwn'
    BY <1>6, RemoveDoes, WatchFields DEF RebuildsOwn, Others, browser
  <1>7. ASSUME NEW c \in Clients, Halt(c) PROVE RebuildsOwn'
    <2>1. /\ UNCHANGED <<slot, watch>>
      BY <1>7, HaltDoes DEF Others, Supervisors, sessions
    <2> QED
      BY <2>1, WatchFields DEF RebuildsOwn
  <1>8. ASSUME NEW u \in Sups, WatchStep(u) \/ EngineDies(u) \/ Replace(u)
        PROVE  RebuildsOwn'
    BY <1>8, EngineDiesDoes, ReplaceDoes, BaselineDoes, NoticeDoes, ListDoes, RoundDoes, EndRoundDoes,
       CheckDoes, RebuildDoes, RebuildFailsDoes, SwapDoes, RecheckDoes, WatchFields,
       RestIs
       DEF RebuildsOwn, Supervisors, sessions, Watchers, browser, quiet, WatchStep
  <1>9. CASE UNCHANGED vars
    BY <1>9, WatchFields DEF vars, RebuildsOwn
  <1> QED
    BY <1>1, <1>2, <1>3, <1>4, <1>5, <1>6, <1>7, <1>8, <1>9 DEF Next, CallStep, WatchStep

(* A rebuilt context lives in the engine the watcher asked, and is lost    *)
(* with that engine only (manager.rs, the recovery task).                  *)
LEMMA HomeKeeps ==
    ASSUME Typed, OwnSwaps, HomeInv, [Next]_vars
    PROVE  HomeInv'
  <1>1. ASSUME NEW c \in Clients, Launch(c) PROVE HomeInv'
    BY <1>1, LaunchDoes, SwapContext, Counts, ManagerAssumption DEF HomeInv, Others,
       Watchers, Supervisors, sessions, Asleep
  <1>2. ASSUME NEW c \in Clients, Create(c) PROVE HomeInv'
    BY <1>2, CreateDoes, SwapContext, CreateAdds DEF HomeInv, Others
  <1>3. ASSUME NEW u \in Sups, WatchStep(u) \/ EngineDies(u) \/ Replace(u)
        PROVE  HomeInv'
    BY <1>3, EngineDiesDoes, ReplaceDoes, BaselineDoes, NoticeDoes, ListDoes, RoundDoes, EndRoundDoes,
       CheckDoes, RebuildDoes, RebuildFailsDoes, SwapDoes, RecheckDoes, SwapContext,
       RestIs, RebuildAdds, SwapSets
       DEF HomeInv, Supervisors, sessions, Watchers, browser, quiet, WatchStep
  <1>4. ASSUME NEW c \in Clients,
              \/ \E n \in Names : Request(c, n) \/ Remove(c, n)
              \/ Queue(c) \/ GiveUp(c) \/ Install(c) \/ Lock(c) \/ CreateFails(c)
              \/ ReadContext(c) \/ Dispose(c) \/ TakeSlot(c) \/ ClearMap(c) \/ Halt(c)
        PROVE  HomeInv'
    BY <1>4, CallLeaves, SwapContext DEF HomeInv
  <1>5. CASE UNCHANGED vars
    BY <1>5, SwapContext DEF vars, HomeInv
  <1> QED
    BY <1>1, <1>2, <1>3, <1>4, <1>5 DEF Next, CallStep, WatchStep

LEMMA FreshContextKeeps ==
    ASSUME Typed, SeenInv, HomeInv, OwnSwaps, OwnCloses, FreshContextInv, [Next]_vars
    PROVE  FreshContextInv'
  <1>1. ASSUME NEW c \in Clients, NEW n \in Names, Request(c, n) PROVE FreshContextInv'
    BY <1>1, RequestDoes, WatchFields DEF FreshContextInv, Current, Others, sessions,
       browser
  <1>2. ASSUME NEW c \in Clients,
               \/ Queue(c) \/ Install(c) \/ Lock(c) \/ CreateFails(c) \/ ReadContext(c)
               \/ Dispose(c) \/ TakeSlot(c) \/ ClearMap(c)
        PROVE  FreshContextInv'
    BY <1>2, QueueDoes, InstallDoes, LockDoes, CreateFailsDoes, ReadContextDoes,
       DisposeDoes, TakeSlotDoes, ClearMapDoes, WatchFields
       DEF FreshContextInv, Current, Others, sessions, browser, OwnCloses
  <1>3. ASSUME NEW c \in Clients, Launch(c) PROVE FreshContextInv'
    BY <1>3, LaunchDoes, WatchFields, Counts, ManagerAssumption DEF FreshContextInv,
       Current, Others, Watchers, Supervisors, sessions, Asleep
  <1>4. ASSUME NEW c \in Clients, GiveUp(c) PROVE FreshContextInv'
    <2>1. UNCHANGED <<watch, live>>
      BY <1>4, GiveUpDoes
    <2> QED
      BY <1>4, <2>1, StopIs, WatchFields DEF FreshContextInv, Current
  <1>5. ASSUME NEW c \in Clients, Create(c) PROVE FreshContextInv'
    BY <1>5, CreateDoes, WatchFields DEF FreshContextInv, Current, Others
  <1>6. ASSUME NEW c \in Clients, NEW n \in Names, Remove(c, n) PROVE FreshContextInv'
    BY <1>6, RemoveDoes, WatchFields DEF FreshContextInv, Current, Others, browser
  <1>7. ASSUME NEW c \in Clients, Halt(c) PROVE FreshContextInv'
    <2>1. /\ UNCHANGED <<home, watch>>
          /\ job[c].run # 0 => sup'[job[c].run].engine = 0
          /\ live' = IF job[c].run = 0 THEN live ELSE live \ Lost(job[c].run)
      BY <1>7, HaltDoes
    <2>2. \A v \in Sups : v # 0
      BY ManagerAssumption DEF Sups
    <2>3. \A v \in Sups : /\ sup'[v].restarts = sup[v].restarts
                           /\ sup'[v].engine \in {0, sup[v].engine}
      BY <1>7, StopIs
    <2> QED
      BY <2>1, <2>2, <2>3 DEF FreshContextInv, Current, HomeInv, Lost
  <1>8. ASSUME NEW u \in Sups, WatchStep(u) \/ EngineDies(u) \/ Replace(u)
        PROVE  FreshContextInv'
    BY <1>8, EngineDiesDoes, ReplaceDoes, BaselineDoes, NoticeDoes, ListDoes, RoundDoes, EndRoundDoes,
       CheckDoes, RebuildDoes, RebuildFailsDoes, SwapDoes, RecheckDoes, WatchFields,
       SupFields, RestIs
       DEF FreshContextInv, Current, Supervisors, sessions, Watchers, browser, quiet,
           HomeInv, Lost, SeenInv, OwnSwaps, WatchStep
  <1>9. CASE UNCHANGED vars
    BY <1>9, WatchFields DEF vars, FreshContextInv, Current
  <1> QED
    BY <1>1, <1>2, <1>3, <1>4, <1>5, <1>6, <1>7, <1>8, <1>9 DEF Next, CallStep, WatchStep

(* What handles an object still does when neither the map nor who closes or *)
(* rechecks it changes, and its context does not come alive.                *)
LEMMA HandledStays ==
    ASSUME NEW o \in 1 .. objects, Handled(o), UNCHANGED <<open, objects, name, ctx>>,
           ctx[o] \in live' => ctx[o] \in live, unclosed \subseteq unclosed',
           \A c \in Clients : job[c].at \in {"close", "dispose"} => job'[c] = job[c],
           \A u \in Sups : watch[u].at = "recheck" =>
               watch'[u].at = "recheck" /\ watch'[u].obj = watch[u].obj
    PROVE  Handled(o)'
  BY DEF Handled

(* However a close and a rebuild interleave, one of them closes the        *)
(* context a closed session got (manager.rs, close_session and the         *)
(* membership checks of the recovery task).                                *)
LEMMA HandledKeeps ==
    ASSUME Typed, CallInv, OpenNames, HandledInv, [Next]_vars
    PROVE  HandledInv'
  <1>1. ASSUME NEW c \in Clients, NEW n \in Names, Request(c, n) PROVE HandledInv'
    BY <1>1, RequestDoes, FreeIs DEF HandledInv, Handled, Others, sessions, browser
  <1>2. ASSUME NEW c \in Clients,
               \/ Queue(c) \/ Install(c) \/ Lock(c) \/ CreateFails(c) \/ ReadContext(c)
               \/ Dispose(c) \/ TakeSlot(c)
        PROVE  HandledInv'
    BY <1>2, QueueDoes, InstallDoes, LockDoes, CreateFailsDoes, ReadContextDoes,
       DisposeDoes, TakeSlotDoes, FreeIs
       DEF HandledInv, Handled, Others, sessions, browser
  <1>3. ASSUME NEW c \in Clients, Launch(c) PROVE HandledInv'
    <2>1. /\ UNCHANGED <<open, objects, name, ctx, cleared, live, unclosed>>
          /\ job[c].at = "launch" /\ \A d \in Clients \ {c} : job'[d] = job[d]
          /\ \A v \in Sups \ {sups + 1} : watch'[v] = watch[v]
      BY <1>3, LaunchDoes DEF Others, Watchers, sessions
    <2>2. sups \in Nat /\ (sups + 1 \in Sups => watch[sups + 1].at = "off")
      BY Counts DEF CountInv, WatchBounds
    <2> QED
      BY <2>1, <2>2, HandledStays DEF HandledInv
  <1>4. ASSUME NEW c \in Clients, GiveUp(c) PROVE HandledInv'
    <2>1. /\ UNCHANGED <<open, objects, name, ctx, cleared, live, unclosed, watch>>
          /\ job[c].at \in {"launch", "install"}
          /\ \A d \in Clients \ {c} : job'[d] = job[d]
      BY <1>4, GiveUpDoes DEF Others, sessions
    <2> QED
      BY <2>1, HandledStays DEF HandledInv
  <1>5. ASSUME NEW c \in Clients, Create(c) PROVE HandledInv'
    <2>1. /\ cleared' = cleared /\ live' = live \cup {contexts + 1} /\ watch' = watch
          /\ unclosed' = unclosed
          /\ job[c].at = "create" /\ \A d \in Clients \ {c} : job'[d] = job[d]
          /\ open' = [open EXCEPT ![job[c].name] = objects + 1]
      BY <1>5, CreateDoes DEF Others
    <2>2. job[c].name \in Names /\ open \in [Names -> 0 .. objects] /\ objects \in Nat
      BY <2>1, Counts DEF CallInv, Asking, RangeInv, CountInv
    <2> SUFFICES ASSUME NEW o \in (1 .. objects') \ cleared PROVE Handled(o)'
      BY <2>1 DEF HandledInv
    <2>3. CASE o = objects + 1
      BY <1>5, <2>1, <2>2, <2>3, CreateAdds DEF Handled
    <2>4. CASE o \in 1 .. objects
      <3>1. ctx'[o] = ctx[o] /\ ctx[o] # contexts + 1 /\ name'[o] = name[o] /\ Handled(o)
        BY <1>5, <2>1, <2>4, CreateAdds DEF HandledInv
      <3>2. name[o] \in Names
        BY <2>4 DEF OpenNames
      <3>3. CASE open[name[o]] = o
        <4>1. CASE name[o] = job[c].name
          BY <1>5, <3>1, <4>1, CreateAdds DEF Handled
        <4>2. CASE name[o] # job[c].name
          BY <2>1, <2>2, <3>1, <3>2, <3>3, <4>2 DEF Handled
        <4> QED
          BY <4>1, <4>2
      <3>4. CASE \E p \in (1 .. objects) \ {o} : name[p] = name[o]
        BY <1>5, <3>1, <3>4, CreateAdds DEF Handled
      <3>5. CASE ctx[o] \notin live \/ ctx[o] \in unclosed
        BY <2>1, <3>1, <3>5 DEF Handled
      <3>6. CASE \E d \in Clients : /\ job[d].at \in {"close", "dispose"} /\ job[d].obj = o
                                    /\ job[d].at = "dispose" => job[d].ctx = ctx[o]
        BY <2>1, <3>1, <3>6 DEF Handled
      <3>7. CASE \E u \in Sups : watch[u].at = "recheck" /\ watch[u].obj = o
        BY <2>1, <3>7 DEF Handled
      <3> QED
        BY <3>1, <3>3, <3>4, <3>5, <3>6, <3>7 DEF Handled
    <2> QED
      BY <1>5, <2>3, <2>4, CreateAdds
  <1>6. ASSUME NEW c \in Clients, NEW n \in Names, Remove(c, n) PROVE HandledInv'
    <2>1. /\ UNCHANGED <<objects, name, ctx, cleared, live, unclosed, watch>>
          /\ job[c].at = "idle" /\ job'[c].at = "close" /\ job'[c].obj = open[n]
          /\ \A d \in Clients \ {c} : job'[d] = job[d]
          /\ open' = [open EXCEPT ![n] = 0]
      BY <1>6, RemoveDoes DEF Others, browser
    <2>2. DOMAIN open = Names
      BY Counts DEF RangeInv
    <2> SUFFICES ASSUME NEW o \in (1 .. objects) \ cleared PROVE Handled(o)'
      BY <2>1 DEF HandledInv
    <2>3. Handled(o) /\ name[o] \in Names
      BY DEF HandledInv, OpenNames
    <2>4. CASE open[n] = o
      BY <2>1, <2>4 DEF Handled
    <2>5. CASE open[n] # o
      BY <2>1, <2>2, <2>3, <2>5 DEF Handled
    <2> QED
      BY <2>4, <2>5
  <1>7. ASSUME NEW c \in Clients, ClearMap(c) PROVE HandledInv'
    <2>1. /\ UNCHANGED <<objects, name, ctx, live, unclosed, watch>>
          /\ cleared' = cleared \cup OpenObjects /\ job[c].at = "clear"
          /\ \A d \in Clients \ {c} : job'[d] = job[d]
      BY <1>7, ClearMapDoes DEF Others, browser
    <2> SUFFICES ASSUME NEW o \in (1 .. objects) \ (cleared \cup OpenObjects) PROVE Handled(o)'
      BY <2>1 DEF HandledInv
    <2>2. Handled(o) /\ name[o] \in Names
      BY DEF HandledInv, OpenNames
    <2>3. open[name[o]] # o
      BY <2>2, Counts DEF OpenObjects, CountInv
    <2> QED
      BY <2>1, <2>2, <2>3 DEF Handled
  <1>8. ASSUME NEW c \in Clients, Halt(c) PROVE HandledInv'
    <2>1. /\ UNCHANGED <<open, objects, name, ctx, cleared, unclosed, watch>>
          /\ job[c].at = "halt" /\ live' \subseteq live
          /\ \A d \in Clients \ {c} : job'[d] = job[d]
      BY <1>8, HaltDoes DEF Others, sessions
    <2> QED
      BY <2>1, HandledStays DEF HandledInv
  <1>9. ASSUME NEW u \in Sups,
               \/ EngineDies(u) \/ Replace(u) \/ Baseline(u) \/ Notice(u) \/ List(u)
               \/ Round(u) \/ EndRound(u) \/ Check(u) \/ RebuildFails(u)
        PROVE  HandledInv'
    BY <1>9, EngineDiesDoes, ReplaceDoes, BaselineDoes, NoticeDoes, ListDoes, RoundDoes, EndRoundDoes,
       CheckDoes, RebuildFailsDoes, FreeIs, RestIs
       DEF HandledInv, Handled, Supervisors, sessions, Watchers, browser, quiet
  <1>10. ASSUME NEW u \in Sups, Rebuild(u) PROVE HandledInv'
    <2>1. /\ UNCHANGED <<open, objects, name, ctx, cleared, job, unclosed>>
          /\ live' = live \cup {contexts + 1} /\ watch[u].at = "create"
          /\ \A v \in Sups \ {u} : watch'[v] = watch[v]
      BY <1>10, RebuildDoes DEF Watchers, quiet, sessions
    <2>2. \A o \in 1 .. objects : ctx[o] # contexts + 1
      BY <1>10, RebuildAdds
    <2> QED
      BY <2>1, <2>2, HandledStays DEF HandledInv
  <1>11. ASSUME NEW u \in Sups, Swap(u) PROVE HandledInv'
    <2>1. /\ UNCHANGED <<open, objects, name, cleared, live, unclosed, job>>
          /\ watch[u].at = "swap" /\ watch'[u].at = "recheck" /\ watch'[u].obj = watch[u].obj
          /\ \A v \in Sups \ {u} : watch'[v] = watch[v]
      BY <1>11, SwapDoes DEF Watchers, quiet, browser
    <2> SUFFICES ASSUME NEW o \in (1 .. objects) \ cleared PROVE Handled(o)'
      BY <2>1 DEF HandledInv
    <2>2. Handled(o)
      BY DEF HandledInv
    <2>3. CASE o = watch[u].obj
      BY <2>1, <2>3 DEF Handled
    <2>4. CASE o # watch[u].obj
      <3>1. ctx'[o] = ctx[o]
        BY <1>11, <2>4, SwapSets
      <3> QED
        BY <2>1, <2>2, <3>1 DEF Handled
    <2> QED
      BY <2>3, <2>4
  <1>12. ASSUME NEW u \in Sups, Recheck(u) PROVE HandledInv'
    <2>1. /\ UNCHANGED <<open, objects, name, ctx, cleared, job>>
          /\ watch[u].at = "recheck" /\ watch[u].obj \in 1 .. objects
          /\ live' \subseteq live /\ unclosed \subseteq unclosed'
          /\ IsOpen(watch[u].obj) \/ ctx[watch[u].obj] \notin live'
             \/ ctx[watch[u].obj] \in unclosed'
          /\ \A v \in Sups \ {u} : watch'[v] = watch[v]
      BY <1>12, RecheckDoes DEF Watchers, quiet, sessions
    <2> SUFFICES ASSUME NEW o \in (1 .. objects) \ cleared PROVE Handled(o)'
      BY <2>1 DEF HandledInv
    <2>2. Handled(o) /\ name[o] \in Names
      BY DEF HandledInv, OpenNames
    <2>3. CASE o = watch[u].obj /\ ~IsOpen(o)
      BY <2>1, <2>3 DEF Handled
    <2>4. CASE o = watch[u].obj /\ IsOpen(o)
      <3>1. open[name[o]] \in 1 .. objects /\ name[open[name[o]]] = name[o]
        BY <2>2, <2>4, Counts DEF IsOpen, OpenNames, RangeInv, CountInv
      <3> QED
        BY <2>1, <3>1 DEF Handled
    <2>5. CASE o # watch[u].obj
      BY <2>1, <2>2, <2>5 DEF Handled
    <2> QED
      BY <2>3, <2>4, <2>5
  <1>13. CASE UNCHANGED vars
    BY <1>13, FreeIs DEF vars, HandledInv, Handled
  <1> QED
    BY <1>1, <1>2, <1>3, <1>4, <1>5, <1>6, <1>7, <1>8, <1>9, <1>10, <1>11, <1>12, <1>13
       DEF Next, CallStep, WatchStep

LEMMA SlotIs == ASSUME Typed, slot # 0 PROVE slot \in Sups
  BY Counts, ManagerAssumption DEF CountInv, Sups

LEMMA HasContext ==
    ASSUME Typed, OwnObjects, NEW o \in 1 .. objects
    PROVE  ctx[o] \in Contexts
  <1>1. contexts \in Nat /\ contexts <= MaxContexts
    BY Counts DEF CountInv
  <1>2. ctx[o] \in Nat /\ ctx[o] <= contexts /\ ctx[o] # 0
    BY Known DEF OwnObjects
  <1> QED
    BY <1>1, <1>2, ManagerAssumption DEF Contexts

(* A session that waits after a step waited before it, unless the step put  *)
(* a new engine or a new context there.                                     *)
LEMMA WaitedThen ==
    ASSUME NEW n \in Names, Waits(n)', slot' = slot, open'[n] = open[n],
           ctx'[open[n]] = ctx[open[n]], home'[ctx[open[n]]] = home[ctx[open[n]]],
           ctx[open[n]] \in live => ctx[open[n]] \in live',
           sup'[slot].engine = sup[slot].engine, sup'[slot].restarts = sup[slot].restarts,
           watch'[slot].seen = watch[slot].seen,
           open[n] \in refused \cup overtaken => open[n] \in refused' \cup overtaken'
    PROVE  Waits(n) /\ Engine(slot)' = Engine(slot)
  BY DEF Waits, Stale, Current, Engine

(* ... and is covered as it was when the watcher did not move.              *)
LEMMA CoverStays ==
    ASSUME CoverInv, NEW n \in Names, Waits(n), slot' = slot, open'[n] = open[n],
           Engine(slot)' = Engine(slot), watch'[slot] = watch[slot]
    PROVE  Cover(n)'
  BY DEF CoverInv, Cover, Covered

(* Whatever dies while sessions are rebuilt, one that lost its context to  *)
(* the engine before this one is still to be rebuilt (manager.rs, the      *)
(* rounds of the recovery task).                                           *)
LEMMA CoverKeeps ==
    ASSUME Typed, CoverInv, OpenNames, OwnObjects, OwnSwaps, OwnCloses, ClosingOut,
           RebuildsOwn, HomeInv, FreshHome, FreshContextInv, SeenInv, [Next]_vars
    PROVE  CoverInv'
  <1>1. ASSUME NEW c \in Clients, NEW n \in Names, Request(c, n) PROVE CoverInv'
    <2>1. UNCHANGED <<slot, open, ctx, refused, overtaken, live, home, sup, watch>>
      BY <1>1, RequestDoes DEF sessions, browser
    <2> QED
      BY <2>1 DEF CoverInv, Cover, Covered, Waits, Stale, Current, Engine
  <1>2. ASSUME NEW c \in Clients, Queue(c) PROVE CoverInv'
    <2>1. UNCHANGED <<slot, open, ctx, refused, overtaken, live, home, sup, watch>>
      BY <1>2, QueueDoes DEF sessions, browser
    <2> QED
      BY <2>1 DEF CoverInv, Cover, Covered, Waits, Stale, Current, Engine
  <1>3. ASSUME NEW c \in Clients, Launch(c) PROVE CoverInv'
    <2> SUFFICES ASSUME NEW m \in Names, Waits(m)' PROVE Cover(m)'
      BY DEF CoverInv
    <2>0. /\ UNCHANGED <<slot, open, ctx, refused, overtaken, live, home>>
          /\ \A v \in Sups \ {sups + 1} : watch'[v] = watch[v] /\ sup'[v] = sup[v]
      BY <1>3, LaunchDoes DEF Watchers, Supervisors, sessions
    <2>1. slot \in Sups /\ slot <= sups /\ slot \in Nat /\ sups \in Nat
      BY <2>0, SlotIs, Counts DEF CountInv, Waits
    <2>2. watch'[slot] = watch[slot] /\ sup'[slot] = sup[slot]
      BY <2>0, <2>1
    <2>3. Waits(m) /\ Engine(slot)' = Engine(slot)
      BY <2>0, <2>2, WaitedThen
    <2> QED
      BY <2>0, <2>2, <2>3, CoverStays
  <1>4. ASSUME NEW c \in Clients, GiveUp(c) PROVE CoverInv'
    <2> SUFFICES ASSUME NEW m \in Names, Waits(m)' PROVE Cover(m)'
      BY DEF CoverInv
    <2>0. UNCHANGED <<slot, open, ctx, refused, overtaken, live, home, watch>>
      BY <1>4, GiveUpDoes DEF sessions
    <2>1. slot \in Sups
      BY <2>0, SlotIs DEF Waits
    <2>2. sup'[slot].engine = sup[slot].engine /\ sup'[slot].restarts = sup[slot].restarts
      <3>1. sup'[slot].engine # 0 /\ slot' = slot
        BY <2>0 DEF Waits, Current
      <3> QED
        BY <1>4, <2>1, <3>1, StopIs
    <2>3. Waits(m) /\ Engine(slot)' = Engine(slot)
      BY <2>0, <2>2, WaitedThen
    <2> QED
      BY <2>0, <2>3, CoverStays
  <1>5. ASSUME NEW c \in Clients, Install(c) PROVE CoverInv'
    <2> SUFFICES ASSUME NEW m \in Names, Waits(m)' PROVE Cover(m)'
      BY DEF CoverInv
    <2>0. /\ job[c].at = "install" /\ slot' = job[c].run
          /\ UNCHANGED <<open, ctx, home, objects, contexts>>
      BY <1>5, InstallDoes DEF sessions, browser
    <2>1. ctx[open[m]] \in Contexts
      <3>1. open[m] \in 1 .. objects
        BY <2>0, Counts DEF Waits, Stale, RangeInv, CountInv
      <3> QED
        BY <3>1, HasContext
    <2> QED
      BY <2>0, <2>1 DEF FreshHome, Waits
  <1>6. ASSUME NEW c \in Clients, Lock(c) PROVE CoverInv'
    <2>1. UNCHANGED <<slot, open, ctx, refused, overtaken, live, home, sup, watch>>
      BY <1>6, LockDoes DEF sessions, browser
    <2> QED
      BY <2>1 DEF CoverInv, Cover, Covered, Waits, Stale, Current, Engine
  <1>7. ASSUME NEW c \in Clients, Create(c) PROVE CoverInv'
    <2> SUFFICES ASSUME NEW m \in Names, Waits(m)' PROVE Cover(m)'
      BY DEF CoverInv
    <2>0. /\ UNCHANGED <<slot, refused, overtaken, sup, watch>>
          /\ live' = live \cup {contexts + 1}
          /\ open' = [open EXCEPT ![job[c].name] = objects + 1]
      BY <1>7, CreateDoes DEF sessions
    <2>1. open \in [Names -> 0 .. objects] /\ objects \in Nat
      BY Counts DEF RangeInv, CountInv
    <2>2. m # job[c].name
      BY <1>7, <2>0, <2>1, CreateAdds DEF Waits, Stale
    <2>3. open'[m] = open[m] /\ open[m] \in 1 .. objects
      BY <2>0, <2>1, <2>2 DEF Waits, Stale
    <2>4. /\ ctx'[open[m]] = ctx[open[m]] /\ ctx[open[m]] \in Contexts
          /\ home'[ctx[open[m]]] = home[ctx[open[m]]]
      BY <1>7, <2>3, HasContext, CreateAdds
    <2>5. Waits(m) /\ Engine(slot)' = Engine(slot)
      BY <2>0, <2>3, <2>4, WaitedThen
    <2> QED
      BY <2>0, <2>3, <2>5, CoverStays
  <1>8. ASSUME NEW c \in Clients, CreateFails(c) PROVE CoverInv'
    <2>1. UNCHANGED <<slot, open, ctx, refused, overtaken, live, home, sup, watch>>
      BY <1>8, CreateFailsDoes DEF sessions, browser
    <2> QED
      BY <2>1 DEF CoverInv, Cover, Covered, Waits, Stale, Current, Engine
  <1>9. ASSUME NEW c \in Clients, NEW n \in Names, Remove(c, n) PROVE CoverInv'
    <2> SUFFICES ASSUME NEW m \in Names, Waits(m)' PROVE Cover(m)'
      BY DEF CoverInv
    <2>0. /\ UNCHANGED <<slot, ctx, refused, overtaken, live, home, sup, watch>>
          /\ open' = [open EXCEPT ![n] = 0]
      BY <1>9, RemoveDoes DEF browser
    <2>1. open'[m] = open[m]
      BY <2>0, Counts DEF RangeInv, Waits, Stale
    <2>2. Waits(m) /\ Engine(slot)' = Engine(slot)
      BY <2>0, <2>1, WaitedThen
    <2> QED
      BY <2>0, <2>1, <2>2, CoverStays
  <1>10. ASSUME NEW c \in Clients, ReadContext(c) PROVE CoverInv'
    <2>1. UNCHANGED <<slot, open, ctx, refused, overtaken, live, home, sup, watch>>
      BY <1>10, ReadContextDoes DEF sessions, browser
    <2> QED
      BY <2>1 DEF CoverInv, Cover, Covered, Waits, Stale, Current, Engine
  <1>11. ASSUME NEW c \in Clients, Dispose(c) PROVE CoverInv'
    <2> SUFFICES ASSUME NEW m \in Names, Waits(m)' PROVE Cover(m)'
      BY DEF CoverInv
    <2>0. /\ UNCHANGED <<slot, open, ctx, refused, overtaken, home, sup, watch>>
          /\ job[c].at = "dispose"
          /\ \A x \in live : x # job[c].ctx => x \in live'
      BY <1>11, DisposeDoes DEF sessions
    <2>1. open[m] \in 1 .. objects
      BY <2>0, Counts DEF Waits, Stale, RangeInv, CountInv
    <2>2. ctx[open[m]] # job[c].ctx
      BY <2>0, <2>1 DEF OwnCloses, ClosingOut
    <2>3. Waits(m) /\ Engine(slot)' = Engine(slot)
      BY <2>0, <2>2, WaitedThen
    <2> QED
      BY <2>0, <2>3, CoverStays
  <1>12. ASSUME NEW c \in Clients, TakeSlot(c) \/ ClearMap(c)
        PROVE  CoverInv'
    BY <1>12, TakeSlotDoes, ClearMapDoes
       DEF CoverInv, Cover, Covered, Waits, Stale, Current, Engine, Others, sessions,
           browser
  <1>13. ASSUME NEW c \in Clients, Halt(c) PROVE CoverInv'
    <2> SUFFICES ASSUME NEW m \in Names, Waits(m)' PROVE Cover(m)'
      BY DEF CoverInv
    <2>0. /\ UNCHANGED <<slot, open, ctx, refused, overtaken, home, watch>>
          /\ job[c].run # 0 => sup'[job[c].run].engine = 0
          /\ \A v \in Sups \ {job[c].run} : sup'[v] = sup[v]
          /\ live' = IF job[c].run = 0 THEN live ELSE live \ Lost(job[c].run)
      BY <1>13, HaltDoes DEF Supervisors, sessions
    <2>1. slot \in Sups /\ slot # job[c].run /\ home[ctx[open[m]]] = slot
      BY <2>0, SlotIs DEF Waits, Current
    <2>2. Waits(m) /\ Engine(slot)' = Engine(slot)
      BY <2>0, <2>1, WaitedThen DEF Lost
    <2> QED
      BY <2>0, <2>2, CoverStays
  <1>14. ASSUME NEW u \in Sups, EngineDies(u) PROVE CoverInv'
    <2> SUFFICES ASSUME NEW m \in Names, Waits(m)' PROVE Cover(m)'
      BY DEF CoverInv
    <2>0. /\ UNCHANGED <<slot, open, ctx, refused, overtaken, home, watch>>
          /\ sup'[u].engine = 0 /\ live' = live \ Lost(u)
          /\ \A v \in Sups \ {u} : sup'[v] = sup[v]
      BY <1>14, EngineDiesDoes DEF Supervisors, sessions
    <2>1. slot \in Sups /\ slot # u /\ home[ctx[open[m]]] = slot
      BY <2>0, SlotIs DEF Waits, Current
    <2>2. Waits(m) /\ Engine(slot)' = Engine(slot)
      BY <2>0, <2>1, WaitedThen DEF Lost
    <2> QED
      BY <2>0, <2>2, CoverStays
  <1>15. ASSUME NEW u \in Sups, Replace(u) PROVE CoverInv'
    <2> SUFFICES ASSUME NEW m \in Names, Waits(m)' PROVE Cover(m)'
      BY DEF CoverInv
    <2>0. /\ UNCHANGED <<slot, open, ctx, refused, overtaken, live, home, watch>>
          /\ sup'[u].restarts = sup[u].restarts + 1
          /\ \A v \in Sups \ {u} : sup'[v] = sup[v]
      BY <1>15, ReplaceDoes DEF Supervisors, sessions
    <2>1. slot \in Sups /\ slot # u
      BY <2>0, SlotIs, WatchFields, SupFields DEF Waits, Current, SeenInv
    <2>2. Waits(m) /\ Engine(slot)' = Engine(slot)
      BY <2>0, <2>1, WaitedThen
    <2> QED
      BY <2>0, <2>2, CoverStays
  <1>16. ASSUME NEW u \in Sups, Notice(u) PROVE CoverInv'
    <2> SUFFICES ASSUME NEW m \in Names, Waits(m)' PROVE Cover(m)'
      BY DEF CoverInv
    <2>0. /\ UNCHANGED <<slot, open, name, ctx, refused, overtaken, live, home, sup>>
          /\ \A v \in Sups \ {u} : watch'[v] = watch[v]
      BY <1>16, NoticeDoes DEF Watchers, quiet, sessions, browser
    <2>1. slot \in Sups
      BY <2>0, SlotIs DEF Waits
    <2>2. CASE slot # u
      <3>1. watch'[slot] = watch[slot]
        BY <2>0, <2>1, <2>2
      <3>2. Waits(m) /\ Engine(slot)' = Engine(slot)
        BY <2>0, <3>1, WaitedThen
      <3> QED
        BY <2>0, <3>1, <3>2, CoverStays
    <2>3. CASE slot = u
      <3> QED
        BY <1>16, <2>0, <2>3, NoticeDoes DEF Cover, Covered, Waits
    <2> QED
      BY <2>2, <2>3
  <1>17. ASSUME NEW u \in Sups, List(u) PROVE CoverInv'
    <2> SUFFICES ASSUME NEW m \in Names, Waits(m)' PROVE Cover(m)'
      BY DEF CoverInv
    <2>0. /\ UNCHANGED <<slot, open, name, ctx, refused, overtaken, live, home, sup>>
          /\ \A v \in Sups \ {u} : watch'[v] = watch[v]
      BY <1>17, ListDoes DEF Watchers, quiet, sessions, browser
    <2>1. slot \in Sups
      BY <2>0, SlotIs DEF Waits
    <2>2. CASE slot # u
      <3>1. watch'[slot] = watch[slot]
        BY <2>0, <2>1, <2>2
      <3>2. Waits(m) /\ Engine(slot)' = Engine(slot)
        BY <2>0, <3>1, WaitedThen
      <3> QED
        BY <2>0, <3>1, <3>2, CoverStays
    <2>3. CASE slot = u
      <3>1. watch'[u].seen = watch[u].seen
        BY <1>17, ListDoes, RestIs
      <3>2. Waits(m) /\ Engine(slot)' = Engine(slot)
        BY <2>0, <2>3, <3>1, WaitedThen
      <3>3. Cover(m) /\ open[m] \in OpenObjects
        BY <2>0, <3>2 DEF CoverInv, OpenObjects, Waits, Stale
      <3> QED
        BY <1>17, <2>0, <2>3, <3>3, ListDoes DEF Cover, Covered
    <2> QED
      BY <2>2, <2>3
  <1>18. ASSUME NEW u \in Sups, Round(u) PROVE CoverInv'
    <2> SUFFICES ASSUME NEW m \in Names, Waits(m)' PROVE Cover(m)'
      BY DEF CoverInv
    <2>0. /\ UNCHANGED <<slot, open, name, ctx, refused, overtaken, live, home, sup>>
          /\ \A v \in Sups \ {u} : watch'[v] = watch[v]
      BY <1>18, RoundDoes DEF Watchers, quiet, sessions, browser
    <2>1. slot \in Sups
      BY <2>0, SlotIs DEF Waits
    <2>2. CASE slot # u
      <3>1. watch'[slot] = watch[slot]
        BY <2>0, <2>1, <2>2
      <3>2. Waits(m) /\ Engine(slot)' = Engine(slot)
        BY <2>0, <3>1, WaitedThen
      <3> QED
        BY <2>0, <3>1, <3>2, CoverStays
    <2>3. CASE slot = u
      <3>1. watch'[u].seen = watch[u].seen /\ watch[u].at = "round"
        BY <1>18, RoundDoes, RestIs
      <3>2. Waits(m) /\ Engine(slot)' = Engine(slot)
        BY <2>0, <2>3, <3>1, WaitedThen
      <3>3. /\ open[m] \in watch[u].todo /\ watch[u].round = 0
            /\ watch[u].run = u /\ Engine(u) # 0
        BY <2>3, <3>1, <3>2 DEF CoverInv, Cover, Covered, RebuildsOwn, Waits, Current,
           Engine
      <3>4. /\ watch'[u].at = "check" /\ watch'[u].eng = Engine(u)
            /\ watch'[u].todo = watch[u].todo /\ watch'[u].round = 0
        BY <1>18, <3>3, RoundDoes, ManagerAssumption
      <3> QED
        BY <2>0, <2>3, <3>2, <3>3, <3>4 DEF Cover, Covered
    <2> QED
      BY <2>2, <2>3
  <1>19. ASSUME NEW u \in Sups, EndRound(u) PROVE CoverInv'
    <2> SUFFICES ASSUME NEW m \in Names, Waits(m)' PROVE Cover(m)'
      BY DEF CoverInv
    <2>0. /\ UNCHANGED <<slot, open, name, ctx, refused, overtaken, live, home, sup>>
          /\ \A v \in Sups \ {u} : watch'[v] = watch[v]
      BY <1>19, EndRoundDoes DEF Watchers, quiet, sessions, browser
    <2>1. slot \in Sups
      BY <2>0, SlotIs DEF Waits
    <2>2. CASE slot # u
      <3>1. watch'[slot] = watch[slot]
        BY <2>0, <2>1, <2>2
      <3>2. Waits(m) /\ Engine(slot)' = Engine(slot)
        BY <2>0, <3>1, WaitedThen
      <3> QED
        BY <2>0, <3>1, <3>2, CoverStays
    <2>3. CASE slot = u
      <3>1. Waits(m)
        BY <1>19, <2>0, <2>3, EndRoundDoes, WaitedThen
      <3>2. Cover(m)
        BY <3>1 DEF CoverInv
      <3> QED
        BY <1>19, <2>3, <3>2, EndRoundDoes DEF Cover, Covered
    <2> QED
      BY <2>2, <2>3
  <1>20. ASSUME NEW u \in Sups, Check(u) PROVE CoverInv'
    <2> SUFFICES ASSUME NEW m \in Names, Waits(m)' PROVE Cover(m)'
      BY DEF CoverInv
    <2>0. /\ UNCHANGED <<slot, open, name, ctx, refused, overtaken, live, home, sup>>
          /\ \A v \in Sups \ {u} : watch'[v] = watch[v]
      BY <1>20, CheckDoes DEF Watchers, quiet, sessions, browser
    <2>1. slot \in Sups
      BY <2>0, SlotIs DEF Waits
    <2>2. CASE slot # u
      <3>1. watch'[slot] = watch[slot]
        BY <2>0, <2>1, <2>2
      <3>2. Waits(m) /\ Engine(slot)' = Engine(slot)
        BY <2>0, <3>1, WaitedThen
      <3> QED
        BY <2>0, <3>1, <3>2, CoverStays
    <2>3. CASE slot = u
      <3>1. Waits(m) /\ Engine(slot)' = Engine(slot)
        BY <1>20, <2>0, <2>3, CheckDoes, WaitedThen
      <3>2. Cover(m) /\ IsOpen(open[m])
        BY <3>1 DEF CoverInv, IsOpen, OpenNames, Waits, Stale
      <3> QED
        BY <1>20, <2>0, <2>3, <3>1, <3>2, CheckDoes DEF Cover, Covered
    <2> QED
      BY <2>2, <2>3
  <1>21. ASSUME NEW u \in Sups, Rebuild(u) PROVE CoverInv'
    <2> SUFFICES ASSUME NEW m \in Names, Waits(m)' PROVE Cover(m)'
      BY DEF CoverInv
    <2>0. /\ UNCHANGED <<slot, open, ctx, objects, refused, overtaken, sup>>
          /\ \A v \in Sups \ {u} : watch'[v] = watch[v]
          /\ live' = live \cup {contexts + 1} /\ watch'[u].seen = watch[u].seen
      BY <1>21, RebuildDoes DEF Watchers, quiet, sessions, browser
    <2>1. slot \in Sups /\ open[m] \in 1 .. objects
      BY <2>0, SlotIs, Counts DEF Waits, Stale, RangeInv, CountInv
    <2>2. ctx[open[m]] \in Contexts /\ home'[ctx[open[m]]] = home[ctx[open[m]]]
      BY <1>21, <2>1, HasContext, RebuildAdds
    <2>3. Waits(m) /\ Engine(slot)' = Engine(slot)
      <3>1. watch'[slot].seen = watch[slot].seen
        BY <2>0, <2>1
      <3> QED
        BY <2>0, <2>2, <3>1, WaitedThen
    <2>4. CASE slot # u
      BY <2>0, <2>1, <2>3, <2>4, CoverStays
    <2>5. CASE slot = u
      <3>1. Cover(m)
        BY <2>3 DEF CoverInv
      <3> QED
        BY <1>21, <2>0, <2>3, <2>5, <3>1, RebuildDoes DEF Cover, Covered
    <2> QED
      BY <2>4, <2>5
  <1>22. ASSUME NEW u \in Sups, RebuildFails(u) PROVE CoverInv'
    <2> SUFFICES ASSUME NEW m \in Names, Waits(m)' PROVE Cover(m)'
      BY DEF CoverInv
    <2>0. /\ UNCHANGED <<slot, open, ctx, overtaken, live, home, sup>>
          /\ refused \subseteq refused'
          /\ \A v \in Sups \ {u} : watch'[v] = watch[v]
          /\ watch[u].at = "create" /\ watch'[u].seen = watch[u].seen
      BY <1>22, RebuildFailsDoes DEF Watchers, quiet, sessions, browser
    <2>1. slot \in Sups
      BY <2>0, SlotIs DEF Waits
    <2>2. Waits(m) /\ Engine(slot)' = Engine(slot)
      <3>1. watch'[slot].seen = watch[slot].seen
        BY <2>0, <2>1
      <3> QED
        BY <2>0, <3>1, WaitedThen
    <2>3. CASE slot # u
      BY <2>0, <2>1, <2>2, <2>3, CoverStays
    <2>4. CASE slot = u
      <3>1. Cover(m) /\ watch[u].run = u /\ open[m] \notin refused'
        BY <2>0, <2>1, <2>2, <2>4 DEF CoverInv, RebuildsOwn, Waits
      <3> QED
        BY <1>22, <2>0, <2>2, <2>4, <3>1, RebuildFailsDoes DEF Cover, Covered
    <2> QED
      BY <2>3, <2>4
  <1>23. ASSUME NEW u \in Sups, Swap(u) PROVE CoverInv'
    <2> SUFFICES ASSUME NEW m \in Names, Waits(m)' PROVE Cover(m)'
      BY DEF CoverInv
    <2>0. /\ UNCHANGED <<slot, open, objects, refused, live, home, sup>>
          /\ overtaken \subseteq overtaken'
          /\ \A v \in Sups \ {u} : watch'[v] = watch[v]
          /\ watch[u].at = "swap" /\ watch'[u].seen = watch[u].seen
          /\ watch[u].run # u /\ watch[u].ctx \notin live => watch[u].obj \in overtaken'
      BY <1>23, SwapDoes DEF Watchers, quiet, sessions, browser
    <2>1. slot \in Sups /\ open[m] \in 1 .. objects
      BY <2>0, SlotIs, Counts DEF Waits, Stale, RangeInv, CountInv
    <2>2. watch'[slot].seen = watch[slot].seen
      BY <2>0, <2>1
    <2>3. CASE open[m] = watch[u].obj
      <3>1. ctx'[open[m]] = watch[u].ctx
        BY <1>23, <2>3, SwapSets
      <3>2. /\ watch[u].ctx \notin live /\ home[watch[u].ctx] = slot /\ Current(slot)
            /\ watch[u].obj \notin overtaken'
        BY <2>0, <2>2, <2>3, <3>1 DEF Waits, Stale, Current
      <3>3. watch[u].run = slot
        BY <2>0, <3>2 DEF HomeInv
      <3>4. slot = u
        BY <2>0, <3>2, <3>3
      <3> QED
        BY <2>0, <3>2, <3>3, <3>4 DEF FreshContextInv
    <2>4. CASE open[m] # watch[u].obj
      <3>1. ctx'[open[m]] = ctx[open[m]]
        BY <1>23, <2>1, <2>4, SwapSets
      <3>2. Waits(m) /\ Engine(slot)' = Engine(slot)
        BY <2>0, <2>2, <3>1, WaitedThen
      <3>3. CASE slot # u
        BY <2>0, <2>1, <3>2, <3>3, CoverStays
      <3>4. CASE slot = u
        <4>1. Cover(m)
          BY <3>2 DEF CoverInv
        <4> QED
          BY <1>23, <2>0, <2>4, <3>2, <3>4, <4>1, SwapDoes DEF Cover, Covered
      <3> QED
        BY <3>3, <3>4
    <2> QED
      BY <2>3, <2>4
  <1>24. ASSUME NEW u \in Sups, Recheck(u) PROVE CoverInv'
    <2> SUFFICES ASSUME NEW m \in Names, Waits(m)' PROVE Cover(m)'
      BY DEF CoverInv
    <2>0. /\ UNCHANGED <<slot, open, ctx, objects, refused, overtaken, home, sup>>
          /\ \A v \in Sups \ {u} : watch'[v] = watch[v]
          /\ watch[u].at = "recheck" /\ watch'[u].seen = watch[u].seen
          /\ watch[u].obj \in 1 .. objects
          /\ IsOpen(watch[u].obj) => live' = live
          /\ \A x \in live : x # ctx[watch[u].obj] => x \in live'
      BY <1>24, RecheckDoes DEF Watchers, quiet, sessions, browser
    <2>1. slot \in Sups /\ open[m] \in 1 .. objects
      BY <2>0, SlotIs, Counts DEF Waits, Stale, RangeInv, CountInv
    <2>2. watch'[slot].seen = watch[slot].seen
      BY <2>0, <2>1
    <2>3. ctx[open[m]] \in live => ctx[open[m]] \in live'
      <3>1. IsOpen(open[m])
        BY <2>1 DEF IsOpen, OpenNames
      <3> QED
        BY <2>0, <2>1, <3>1 DEF OwnObjects
    <2>4. Waits(m) /\ Engine(slot)' = Engine(slot)
      BY <2>0, <2>2, <2>3, WaitedThen
    <2>5. CASE slot # u
      BY <2>0, <2>1, <2>4, <2>5, CoverStays
    <2>6. CASE slot = u
      <3>1. Cover(m)
        BY <2>4 DEF CoverInv
      <3> QED
        BY <1>24, <2>0, <2>4, <2>6, <3>1, RecheckDoes DEF Cover, Covered
    <2> QED
      BY <2>5, <2>6
  <1>25. ASSUME NEW u \in Sups, Baseline(u) PROVE CoverInv'
    <2> SUFFICES ASSUME NEW m \in Names, Waits(m)' PROVE Cover(m)'
      BY DEF CoverInv
    <2>0. /\ UNCHANGED <<slot, open, name, ctx, refused, live, home, sup>>
          /\ overtaken \subseteq overtaken'
          /\ Engine(u) # 0 => \A o \in OpenObjects :
                home[ctx[o]] = u /\ ctx[o] \notin live => o \in overtaken'
          /\ \A v \in Sups \ {u} : watch'[v] = watch[v]
      BY <1>25, BaselineDoes DEF Watchers, quiet, browser
    <2>1. slot \in Sups
      BY <2>0, SlotIs DEF Waits
    <2>2. CASE slot # u
      <3>1. watch'[slot] = watch[slot]
        BY <2>0, <2>1, <2>2
      <3>2. Waits(m) /\ Engine(slot)' = Engine(slot)
        BY <2>0, <3>1, WaitedThen
      <3> QED
        BY <2>0, <3>1, <3>2, CoverStays
    <2>3. CASE slot = u
      <3>1. /\ open[m] \in OpenObjects /\ ctx[open[m]] \notin live
            /\ home[ctx[open[m]]] = u /\ Engine(u) # 0 /\ open[m] \notin overtaken'
        BY <2>0, <2>3 DEF Waits, Stale, Current, OpenObjects, Engine
      <3> QED
        BY <2>0, <3>1
    <2> QED
      BY <2>2, <2>3
  <1>26. CASE UNCHANGED vars
    BY <1>26 DEF vars, CoverInv, Cover, Covered, Waits, Stale, Current, Engine
  <1> QED
    BY <1>1, <1>2, <1>3, <1>4, <1>5, <1>6, <1>7, <1>8, <1>9, <1>10, <1>11, <1>12, <1>13,
       <1>14, <1>15, <1>16, <1>17, <1>18, <1>19, <1>20, <1>21, <1>22, <1>23, <1>24, <1>25,
       <1>26
       DEF Next, CallStep, WatchStep

-------------------------------------------------------------------------------
(* The theorems.                                                           *)

LifeInv ==
    /\ Typed /\ LockInv /\ StartInv /\ RunInv /\ FreshInv
    /\ OwnInv /\ NameInv /\ HandledInv
    /\ SeenInv /\ RebuildsOwn /\ HomeInv /\ FreshContextInv /\ CoverInv

LEMMA LifeStarts == Init => LifeInv
  <1> SUFFICES ASSUME Init PROVE LifeInv
    OBVIOUS
  <1>1. Typed
    <2>1. Shapes
      BY FreeIs, AsleepIs DEF Init, Shapes, JobType, WatchType, SupType, SupSet
    <2>2. CountInv /\ RangeInv
      BY ManagerAssumption DEF Init, CountInv, RangeInv
    <2>3. CallBounds /\ WatchBounds
      BY FreeIs, AsleepIs DEF Init, CallBounds, WatchBounds
    <2>4. HoldersOK
      BY DEF Init, HoldersOK
    <2> QED
      BY <2>1, <2>2, <2>3, <2>4 DEF Typed, NumberInv
  <1>2. LockInv /\ StartInv /\ RunInv
    BY FreeIs, ManagerAssumption DEF Init, LockInv, StartInv, RunInv
  <1>3. FreshInv
    BY FreeIs DEF Init, FreshInv, FreshRun, FreshWatch, FreshHome, FreshIdle
  <1>4. OwnInv /\ NameInv /\ HandledInv
    BY FreeIs, AsleepIs DEF Init, OwnInv, OwnObjects, OwnSwaps, OwnCloses, NameInv,
       OpenNames,
                            ClosingOut, HandledInv
  <1>5. SeenInv /\ RebuildsOwn /\ HomeInv /\ FreshContextInv
    BY AsleepIs DEF Init, SeenInv, RebuildsOwn, HomeInv, FreshContextInv
  <1>6. CoverInv
    BY DEF Init, CoverInv, Waits
  <1> QED
    BY <1>1, <1>2, <1>3, <1>4, <1>5, <1>6 DEF LifeInv

LEMMA LifeKeeps == IInv /\ LifeInv /\ [Next]_vars => LifeInv'
  <1> SUFFICES ASSUME IInv, LifeInv, [Next]_vars PROVE LifeInv'
    OBVIOUS
  <1>1. /\ Typed /\ CallInv /\ CreateInv /\ StartInv /\ OpenNames /\ ClosingOut
        /\ FreshRun /\ FreshWatch /\ FreshHome /\ FreshIdle
        /\ OwnObjects /\ OwnSwaps /\ OwnCloses
    BY DEF IInv, LifeInv, FreshInv, OwnInv, NameInv
  <1>2. Typed'
    <2>1. Shapes' /\ CountInv' /\ RangeInv' /\ HoldersOK'
      BY <1>1, ShapesKeep, CountKeeps, RangeKeeps, HoldersKeep
    <2>2. CallBounds' /\ WatchBounds'
      BY <1>1, CallBoundsKeep, WatchBoundsKeep
    <2> QED
      BY <2>1, <2>2 DEF Typed, NumberInv
  <1>3. LockInv' /\ StartInv' /\ RunInv'
    BY <1>1, LockInvKeeps, StartKeeps, RunKeeps DEF LifeInv
  <1>4. FreshInv'
    BY <1>1, FreshRunKeeps, FreshWatchKeeps, FreshHomeKeeps, FreshIdleKeeps DEF FreshInv
  <1>5. OwnInv' /\ NameInv'
    BY <1>1, OwnObjectsKeep, OwnSwapsKeep, OwnClosesKeep, OpenNamesKeep, ClosingOutKeeps
       DEF OwnInv, NameInv
  <1>6. HandledInv'
    BY <1>1, HandledKeeps DEF LifeInv
  <1>7. SeenInv' /\ RebuildsOwn' /\ HomeInv' /\ FreshContextInv'
    BY <1>1, SeenKeeps, RebuildsOwnKeep, HomeKeeps, FreshContextKeeps DEF LifeInv
  <1>8. CoverInv'
    BY <1>1, CoverKeeps DEF LifeInv
  <1> QED
    BY <1>2, <1>3, <1>4, <1>5, <1>6, <1>7, <1>8 DEF LifeInv

(* The inductive invariant of the engine slot, the sessions' contexts and  *)
(* the recovery task, beside the one of the map.                           *)
THEOREM LifeInductive == Spec => [](IInv /\ LifeInv)
  <1>1. Init => LifeInv
    BY LifeStarts
  <1>2. IInv /\ LifeInv /\ [Next]_vars => LifeInv'
    BY LifeKeeps
  <1> QED
    BY <1>1, <1>2, Starts, StepKeeps, PTL DEF Spec

(* Every part of the manager's state has its type, and whoever waits for a *)
(* context holds the map (manager.rs, session).                            *)
THEOREM TypeCorrect == Spec => []TypeOK
  <1>1. IInv /\ LifeInv => TypeOK
    <2> SUFFICES ASSUME IInv, LifeInv PROVE TypeOK
      OBVIOUS
    <2>1. Typed /\ CountInv /\ RangeInv /\ WatchBounds /\ HoldersOK
      BY Counts DEF LifeInv
    <2>2. \A c \in Clients : At(c, "create") <=> maplock = c
      BY DEF IInv, CreateInv, LifeInv, LockInv, At
    <2>3. \A u \in Sups : watch[u].todo \cup watch[u].failed \subseteq 1 .. objects
      BY <2>1 DEF WatchBounds
    <2>4. /\ slot \in 0 .. sups /\ objects \in 0 .. MaxContexts /\ contexts \in 0 .. MaxContexts
      BY <2>1, ManagerAssumption DEF CountInv
    <2> QED
      BY <2>1, <2>2, <2>3, <2>4 DEF TypeOK, RangeInv, HoldersOK
  <1> QED
    BY <1>1, LifeInductive, PTL

(* Two first requests launch one browser: a second supervisor runs only    *)
(* while a shutdown is stopping the first (manager.rs, ensure_running).    *)
THEOREM OneBrowserRuns == Spec => []OneBrowser
  <1>1. LifeInv => OneBrowser
    <2> SUFFICES ASSUME LifeInv, \A c \in Clients : ~At(c, "clear") /\ ~At(c, "halt")
                 PROVE  Cardinality({u \in Sups : sup[u].runs}) <= 1
      BY DEF OneBrowser
    <2> DEFINE R == {u \in Sups : sup[u].runs}
    <2>1. \A u, v \in R : u = v
      <3> SUFFICES ASSUME NEW u \in R, NEW v \in R PROVE u = v
        OBVIOUS
      <3>1. Typed /\ StartInv /\ RunInv
        BY DEF LifeInv
      <3>2. \A w \in R : slot = w \/ \E c \in Clients : job[c].at = "install" /\ job[c].run = w
        BY <3>1 DEF RunInv, At
      <3>3. \A w \in R : w # 0
        BY ManagerAssumption DEF Sups
      <3>4. ASSUME NEW c \in Clients, job[c].at = "install" PROVE slot = 0
        BY <3>1, <3>4, Starting
      <3>5. ASSUME NEW c \in Clients, NEW d \in Clients,
                   job[c].at = "install", job[d].at = "install"
            PROVE  c = d
        BY <3>1, <3>5, Starting
      <3> QED
        BY <3>2, <3>3, <3>4, <3>5
    <2>2. CASE R = {}
      <3>1. Cardinality(R) = 0
        BY <2>2, FS_EmptySet
      <3> QED
        BY <3>1
    <2>3. CASE R # {}
      <3>1. PICK u \in R : TRUE
        BY <2>3
      <3>2. R = {u}
        BY <2>1, <3>1
      <3>3. Cardinality({u}) = 1
        BY FS_Singleton
      <3>4. Cardinality(R) = 1
        BY <3>2, <3>3
      <3> HIDE DEF R
      <3> QED
        BY <3>4 DEF R
    <2> QED
      BY <2>2, <2>3
  <1> QED
    BY <1>1, LifeInductive, PTL

(* What a client may rely on while others ask, close and shut down: the    *)
(* state is well formed, the map within its cap, and while no shutdown     *)
(* stops one a single browser runs (manager.rs).                           *)
THEOREM ManagerSound == Spec => []OneBrowserPerManager
  BY TypeCorrect, CapHolds, OneBrowserRuns, PTL DEF OneBrowserPerManager

(* A closed session holds no context of a live engine once its close and   *)
(* the rebuilds came to an end, however they interleaved (manager.rs,      *)
(* close_session and the recovery task), but for a context that the engine *)
(* failed to close (Session::close).                                       *)
THEOREM ClosedIsClosed == Spec => []ClosedHoldsNothing
  <1>1. LifeInv => ClosedHoldsNothing
    <2> SUFFICES ASSUME LifeInv, Settled, NEW o \in (1 .. objects) \ cleared,
                        o \notin OpenObjects,
                        ~ \E p \in (1 .. objects) \ {o} : name[p] = name[o],
                        ctx[o] \notin unclosed
                 PROVE  ctx[o] \notin live
      BY DEF ClosedHoldsNothing
    <2>1. Handled(o) /\ name[o] \in Names
      BY DEF LifeInv, HandledInv, NameInv, OpenNames
    <2>2. open[name[o]] # o
      BY <2>1 DEF OpenObjects
    <2> QED
      BY <2>1, <2>2 DEF Handled, Settled
  <1> QED
    BY <1>1, LifeInductive, PTL

(* No replacement of the engine is missed: once the watcher of the         *)
(* installed supervisor rests with no restart left to notice, no open      *)
(* session is without the context that supervisor's engine lost, but for   *)
(* those refused one, those a replacement took before the watcher had its  *)
(* baseline, and those a stopped supervisor's watcher finished late        *)
(* (manager.rs, the recovery task).                                        *)
THEOREM ReplacementsNoticed == Spec => []NoneMissed
  <1>1. LifeInv => NoneMissed
    <2> SUFFICES ASSUME LifeInv, NEW n \in Names, Missed(n),
                        open[n] \notin refused \cup overtaken
                 PROVE  FALSE
      BY DEF NoneMissed
    <2>1. Waits(n)
      BY DEF Missed, Waits, Current, Engine
    <2>2. Covered(open[n], watch[slot])
      BY <2>1 DEF LifeInv, CoverInv, Cover
    <2> QED
      BY <2>2 DEF Covered, Missed, Wat
  <1> QED
    BY <1>1, LifeInductive, PTL
-------------------------------------------------------------------------------
(* The connections of the MCP server and the life of the serve command, for *)
(* any number of connections and calls.                                    *)

CallStages == {"idle", "init", "create", "cache", "verify", "run", "close"}
CallSet ==
    [at : CallStages, conn : Connections \cup {NoConn}, kind : {"tool", "close"},
     obj : Nat, late : BOOLEAN]

ServeState ==
    /\ server \in {"starting", "serving", "stopping", "clearing", "stopped"}
    /\ running \in BOOLEAN /\ raced \in BOOLEAN /\ opened \in 0 .. MaxObjects
    /\ cell \in [Connections -> 0 .. opened] /\ map \in [Connections -> 0 .. opened]
    /\ permit \in [Connections -> Calls \cup {NoPermit}]
    /\ call \in [Calls -> CallSet] /\ closed \subseteq Connections
    /\ \A k \in Calls : call[k].at # "idle" => Conn(k) \in Connections

Capped == IsFiniteSet(Open) /\ Cardinality(Open) <= MaxOpen

\* whoever creates a connection's session holds its permit, before an empty cell
Initializing ==
    \A k \in Calls : call[k].at \in {"create", "cache"} =>
        permit[Conn(k)] = k /\ cell[Conn(k)] = 0

\* the object on its way to the cell is the one the map has, or had
Produced ==
    \A k \in Calls : call[k].at = "cache" =>
        call[k].obj \in 1 .. opened /\ map[Conn(k)] \in {0, call[k].obj}

Caching(c) == \E k \in Calls : call[k].at = "cache" /\ Conn(k) = c

\* a connection that has or had a session in the map has it in its cell too,
\* or in the hands of the call that is about to fill the cell
Kept == \A c \in Connections : map[c] # 0 \/ c \in closed => cell[c] # 0 \/ Caching(c)

ClosedGone == \A c \in closed : map[c] = 0

\* a call that began after the close does not get past the check
LateStuck ==
    \A k \in Calls : call[k].late =>
        Conn(k) \in closed /\ (call[k].obj # 0 => call[k].at = "verify")

\* nothing runs before the server serves, and nothing that began before the
\* shutdown is left when none was in flight as it took the engine
Quiet ==
    /\ server = "starting" => Open = {}
    /\ server = "starting" \/ (server = "clearing" /\ ~raced) =>
          ~running /\ \A k \in Calls : call[k].at = "idle"

ServeInv ==
    /\ ServeState /\ Capped /\ Initializing /\ Produced /\ OneObject
    /\ Kept /\ ClosedGone /\ LateStuck /\ Quiet /\ StoppedClean

LEMMA CallFields ==
    ASSUME NEW r \in CallSet
    PROVE  /\ r.at \in CallStages /\ r.conn \in Connections \cup {NoConn}
           /\ r.obj \in Nat /\ r.late \in BOOLEAN
  BY DEF CallSet

\* one call is at another stage of its own
Steps(k, r) ==
    /\ call' \in [Calls -> CallSet]
    /\ call'[k] = r
    /\ \A j \in Calls \ {k} : call'[j] = call[j]

LEMMA StepIs ==
    ASSUME NEW k \in Calls, NEW r \in CallSet, call \in [Calls -> CallSet],
           call' = [call EXCEPT ![k] = r]
    PROVE  Steps(k, r)
  BY DEF Steps

LEMMA ToIs ==
    ASSUME NEW k \in Calls, NEW at \in CallStages, call \in [Calls -> CallSet], To(k, at)
    PROVE  \E r \in CallSet :
              /\ Steps(k, r) /\ r.at = at
              /\ r.conn = Conn(k) /\ r.obj = call[k].obj /\ r.late = call[k].late
  <1> DEFINE r == [call[k] EXCEPT !.at = at]
  <1>1. r \in CallSet /\ r.at = at /\ r.conn = Conn(k) /\ r.obj = call[k].obj
        /\ r.late = call[k].late
    BY DEF CallSet, Conn
  <1>2. call' = [call EXCEPT ![k] = r]
    BY DEF To
  <1> HIDE DEF r
  <1> QED
    BY <1>1, <1>2, StepIs

LEMMA DoneIs ==
    ASSUME NEW k \in Calls, call \in [Calls -> CallSet], Done(k)
    PROVE  /\ Steps(k, Idle)
           /\ Idle \in CallSet /\ Idle.at = "idle" /\ Idle.conn = NoConn /\ Idle.obj = 0
           /\ Idle.late = FALSE
  <1>1. Idle \in CallSet /\ Idle.at = "idle" /\ Idle.conn = NoConn /\ Idle.obj = 0
        /\ Idle.late = FALSE
    BY DEF Idle, CallSet, CallStages
  <1>2. call' = [call EXCEPT ![k] = Idle]
    BY DEF Done
  <1> HIDE DEF Idle
  <1> QED
    BY <1>1, <1>2, StepIs

LEMMA ObtainIs ==
    ASSUME NEW k \in Calls, NEW o \in Nat, call \in [Calls -> CallSet],
           call' = [call EXCEPT ![k].at = "cache", ![k].obj = o]
    PROVE  \E r \in CallSet :
              /\ Steps(k, r) /\ r.at = "cache"
              /\ r.conn = Conn(k) /\ r.obj = o /\ r.late = call[k].late
  <1> DEFINE r == [call[k] EXCEPT !.at = "cache", !.obj = o]
  <1>1. r \in CallSet /\ r.at = "cache" /\ r.conn = Conn(k) /\ r.obj = o
        /\ r.late = call[k].late
    BY DEF CallSet, CallStages, Conn
  <1>2. call' = [call EXCEPT ![k] = r]
    OBVIOUS
  <1> HIDE DEF r
  <1> QED
    BY <1>1, <1>2, StepIs

(* The map loses sessions and gets none.                                   *)
LEMMA MapShrinks ==
    ASSUME Capped, MaxOpen \in Nat, Open' \subseteq Open
    PROVE  Capped'
  BY FS_Subset, FS_CardinalityType DEF Capped

(* While calls are served, a call in flight is one the shutdown raced.      *)
LEMMA Racing ==
    ASSUME ServeInv, NEW k \in Calls, Alive, call[k].at # "idle"
    PROVE  server \in {"serving", "stopping", "clearing"} /\ (server = "clearing" => raced)
  BY DEF ServeInv, ServeState, Quiet, Alive

(* A call that goes on outside the initialization keeps the invariant.      *)
LEMMA MovesOn ==
    ASSUME ServeInv, NEW k \in Calls, NEW r \in CallSet, Steps(k, r),
           UNCHANGED <<manager, cell, permit, closed, server>>, raced' \in BOOLEAN,
           server \in {"serving", "stopping", "clearing"}, server = "clearing" => raced',
           r.at \notin {"create", "cache"}, call[k].at # "cache",
           r.at # "idle" => r.conn \in Connections,
           r.late => r.conn \in closed /\ (r.obj # 0 => r.at = "verify")
    PROVE  ServeInv'
  <1>1. ServeState'
    BY DEF ServeInv, ServeState, Steps, manager, Conn
  <1>2. Capped' /\ OneObject' /\ ClosedGone' /\ StoppedClean'
    BY DEF ServeInv, Capped, Open, OneObject, ClosedGone, StoppedClean, manager
  <1>3. Initializing' /\ Produced'
    BY DEF ServeInv, Initializing, Produced, Steps, manager, Conn
  <1>4. Kept'
    <2> SUFFICES ASSUME NEW c \in Connections, map[c] # 0 \/ c \in closed, cell[c] = 0
                 PROVE  Caching(c)'
      BY DEF Kept, manager
    <2>1. PICK j \in Calls : call[j].at = "cache" /\ Conn(j) = c
      BY DEF ServeInv, Kept, Caching
    <2>2. j # k /\ call'[j] = call[j]
      BY <2>1 DEF Steps
    <2> QED
      BY <2>1, <2>2 DEF Caching, Conn
  <1>5. LateStuck'
    BY DEF ServeInv, LateStuck, Steps, Conn
  <1>6. Quiet'
    BY DEF ServeInv, Quiet, manager
  <1> QED
    BY <1>1, <1>2, <1>3, <1>4, <1>5, <1>6 DEF ServeInv

LEMMA ArriveKeeps ==
    ASSUME ServeInv, NEW k \in Calls, NEW c \in Connections, NEW kind \in {"tool", "close"},
           Arrive(k, c, kind)
    PROVE  ServeInv'
  <1> DEFINE r == [at |-> First(c, kind), conn |-> c, kind |-> kind,
                   obj |-> cell[c], late |-> c \in closed]
  <1>1. cell[c] \in Nat /\ raced \in BOOLEAN /\ call \in [Calls -> CallSet]
    BY ServeAssumption DEF ServeInv, ServeState
  <1>2. First(c, kind) \in CallStages \ {"idle", "create", "cache"}
    BY DEF First, CallStages
  <1>3. (c \in closed) \in BOOLEAN
    OBVIOUS
  <1>4. /\ r \in CallSet /\ r.at = First(c, kind) /\ r.conn = c /\ r.obj = cell[c]
        /\ (r.late <=> c \in closed)
    BY <1>1, <1>2, <1>3 DEF CallSet
  <1>5. call' = [call EXCEPT ![k] = r]
    BY DEF Arrive
  <1> HIDE DEF r
  <1>6. Steps(k, r)
    BY <1>1, <1>4, <1>5, StepIs
  <1>7. cell[c] # 0 => First(c, kind) = "verify"
    BY DEF First
  <1>8. /\ UNCHANGED <<manager, cell, permit, closed, server>>
        /\ raced' \in BOOLEAN /\ call[k].at # "cache"
        /\ server \in {"serving", "stopping", "clearing"} /\ (server = "clearing" => raced')
    BY <1>1 DEF Arrive, Alive
  <1> QED
    BY <1>2, <1>4, <1>6, <1>7, <1>8, MovesOn

LEMMA EnterKeeps ==
    ASSUME ServeInv, NEW k \in Calls, Enter(k)
    PROVE  ServeInv'
  <1>1. /\ call[k].at = "init" /\ Conn(k) \in Connections /\ call \in [Calls -> CallSet]
        /\ server \in {"serving", "stopping", "clearing"} /\ (server = "clearing" => raced)
        /\ raced \in BOOLEAN
    BY Racing DEF ServeInv, ServeState, Enter
  <1>2. call[k].late => Conn(k) \in closed /\ call[k].obj = 0
    BY <1>1 DEF ServeInv, LateStuck
  <1>3. CASE cell[Conn(k)] # 0
    <2>1. To(k, "verify") /\ UNCHANGED <<manager, cell, permit, closed, life>>
      BY <1>3 DEF Enter
    <2>2. PICK r \in CallSet : /\ Steps(k, r) /\ r.at = "verify"
                               /\ r.conn = Conn(k) /\ r.obj = call[k].obj /\ r.late = call[k].late
      BY <1>1, <2>1, ToIs DEF CallStages
    <2> QED
      BY <1>1, <1>2, <2>1, <2>2, MovesOn DEF life
  <1>4. CASE cell[Conn(k)] = 0
    <2>1. /\ To(k, "create") /\ permit' = [permit EXCEPT ![Conn(k)] = k]
          /\ UNCHANGED <<manager, cell, closed, life>> /\ permit[Conn(k)] = NoPermit
      BY <1>4 DEF Enter
    <2>2. PICK r \in CallSet : /\ Steps(k, r) /\ r.at = "create"
                               /\ r.conn = Conn(k) /\ r.obj = call[k].obj /\ r.late = call[k].late
      BY <1>1, <2>1, ToIs DEF CallStages
    <2>3. ServeState'
      BY <1>1, <2>1, <2>2 DEF ServeInv, ServeState, Steps, manager, life, Conn
    <2>4. Capped' /\ OneObject' /\ ClosedGone' /\ StoppedClean'
      BY <2>1 DEF ServeInv, Capped, Open, OneObject, ClosedGone, StoppedClean, manager, life
    <2>5. Initializing'
      <3> SUFFICES ASSUME NEW j \in Calls, call'[j].at \in {"create", "cache"}
                   PROVE  permit'[Conn(j)'] = j /\ cell[Conn(j)'] = 0
        BY <2>1 DEF Initializing
      <3>1. CASE j = k
        BY <1>1, <1>4, <2>1, <2>2, <3>1 DEF Steps, Conn, ServeInv, ServeState
      <3>2. CASE j # k
        <4>1. call'[j] = call[j] /\ Conn(j)' = Conn(j)
          BY <2>2, <3>2 DEF Steps, Conn
        <4>2. permit[Conn(j)] = j /\ cell[Conn(j)] = 0
          BY <4>1 DEF ServeInv, Initializing
        <4>3. Conn(j) # Conn(k)
          BY <2>1, <4>2, ServeAssumption
        <4> QED
          BY <2>1, <4>1, <4>2, <4>3, <1>1 DEF ServeInv, ServeState
      <3> QED
        BY <3>1, <3>2
    <2>6. Produced'
      BY <2>1, <2>2 DEF ServeInv, Produced, Steps, Conn, manager
    <2>7. Kept'
      <3> SUFFICES ASSUME NEW c \in Connections, map[c] # 0 \/ c \in closed, cell[c] = 0
                   PROVE  Caching(c)'
        BY <2>1 DEF Kept, manager
      <3>1. PICK j \in Calls : call[j].at = "cache" /\ Conn(j) = c
        BY DEF ServeInv, Kept, Caching
      <3>2. j # k /\ call'[j] = call[j]
        BY <1>1, <2>2, <3>1 DEF Steps
      <3> QED
        BY <3>1, <3>2 DEF Caching, Conn
    <2>8. LateStuck'
      BY <1>2, <2>1, <2>2 DEF ServeInv, LateStuck, Steps, Conn
    <2>9. Quiet'
      BY <1>1, <2>1 DEF ServeInv, Quiet, manager, life
    <2> QED
      BY <2>3, <2>4, <2>5, <2>6, <2>7, <2>8, <2>9 DEF ServeInv
  <1> QED
    BY <1>3, <1>4

\* the call at the initialization of a connection is the only one there
LEMMA Alone ==
    ASSUME ServeInv, NEW k \in Calls, call[k].at \in {"create", "cache"},
           NEW j \in Calls, call[j].at \in {"create", "cache"}, Conn(j) = Conn(k)
    PROVE  j = k
  BY DEF ServeInv, Initializing

LEMMA ObtainKeeps ==
    ASSUME ServeInv, NEW k \in Calls, Obtain(k)
    PROVE  ServeInv'
  <1>1. /\ call[k].at = "create" /\ Conn(k) \in Connections /\ call \in [Calls -> CallSet]
        /\ server \in {"serving", "stopping", "clearing"} /\ (server = "clearing" => raced)
        /\ raced \in BOOLEAN /\ UNCHANGED <<cell, permit, closed, life>>
        /\ permit[Conn(k)] = k /\ cell[Conn(k)] = 0 /\ opened \in Nat
        /\ map \in [Connections -> 0 .. opened]
    BY Racing, ServeAssumption DEF ServeInv, ServeState, Initializing, Obtain
  <1>2. ~Caching(Conn(k))
    BY <1>1, Alone DEF Caching
  <1>3. map[Conn(k)] = 0 /\ Conn(k) \notin closed
    BY <1>1, <1>2 DEF ServeInv, Kept
  <1>4. /\ Cardinality(Open) < MaxOpen /\ opened < MaxObjects
        /\ running' = TRUE /\ opened' = opened + 1
        /\ map' = [map EXCEPT ![Conn(k)] = opened + 1]
        /\ call' = [call EXCEPT ![k].at = "cache", ![k].obj = opened + 1]
    BY <1>3 DEF Obtain
  <1>5. PICK r \in CallSet :
           /\ Steps(k, r) /\ r.at = "cache"
           /\ r.conn = Conn(k) /\ r.obj = opened + 1 /\ r.late = call[k].late
    <2> DEFINE n == opened + 1
    <2>1. n \in Nat /\ call' = [call EXCEPT ![k].at = "cache", ![k].obj = n]
      BY <1>1, <1>4
    <2> HIDE DEF n
    <2>2. \E r \in CallSet :
             /\ Steps(k, r) /\ r.at = "cache"
             /\ r.conn = Conn(k) /\ r.obj = n /\ r.late = call[k].late
      BY <1>1, <2>1, ObtainIs
    <2> QED
      BY <2>2 DEF n
  <1>6. ~call[k].late
    BY <1>3 DEF ServeInv, LateStuck
  <1>7. /\ map' \in [Connections -> 0 .. opened + 1] /\ map'[Conn(k)] = opened + 1
        /\ \A c \in Connections \ {Conn(k)} : map'[c] = map[c]
    BY <1>1, <1>4
  <1>8. ServeState'
    BY <1>1, <1>4, <1>5, <1>7, ServeAssumption DEF ServeInv, ServeState, Steps, life, Conn
  <1>9. Capped'
    <2>1. Open' = Open \cup {Conn(k)} /\ Conn(k) \notin Open
      BY <1>1, <1>3, <1>7 DEF Open
    <2>2. IsFiniteSet(Open') /\ Cardinality(Open') = Cardinality(Open) + 1
      BY <2>1, FS_AddElement DEF ServeInv, Capped
    <2> QED
      BY <1>4, <2>2, FS_CardinalityType, ServeAssumption DEF ServeInv, Capped
  <1>10. Initializing'
    BY <1>1, <1>5 DEF ServeInv, Initializing, Steps, Conn
  <1>11. Produced'
    <2> SUFFICES ASSUME NEW j \in Calls, call'[j].at = "cache"
                 PROVE  call'[j].obj \in 1 .. opened' /\ map'[Conn(j)'] \in {0, call'[j].obj}
      BY DEF Produced
    <2>1. CASE j = k
      BY <1>1, <1>4, <1>5, <1>7, <2>1 DEF Steps, Conn
    <2>2. CASE j # k
      <3>1. call'[j] = call[j] /\ Conn(j)' = Conn(j)
        BY <1>5, <2>2 DEF Steps, Conn
      <3>2. Conn(j) # Conn(k) /\ Conn(j) \in Connections
        BY <1>1, <2>2, <3>1, Alone DEF ServeInv, ServeState
      <3>3. call[j].obj \in 1 .. opened /\ map[Conn(j)] \in {0, call[j].obj}
        BY <3>1 DEF ServeInv, Produced
      <3> QED
        BY <1>1, <1>4, <1>7, <3>1, <3>2, <3>3
    <2> QED
      BY <2>1, <2>2
  <1>12. OneObject'
    <2> SUFFICES ASSUME NEW c \in Connections, cell[c] # 0
                 PROVE  map'[c] \in {0, cell[c]}
      BY <1>1 DEF OneObject
    <2> QED
      BY <1>1, <1>7 DEF ServeInv, OneObject
  <1>13. Kept'
    <2> SUFFICES ASSUME NEW c \in Connections, map'[c] # 0 \/ c \in closed, cell[c] = 0
                 PROVE  Caching(c)'
      BY <1>1 DEF Kept
    <2>1. CASE c = Conn(k)
      BY <1>5, <2>1 DEF Caching, Steps, Conn
    <2>2. CASE c # Conn(k)
      <3>1. PICK j \in Calls : call[j].at = "cache" /\ Conn(j) = c
        BY <1>7, <2>2 DEF ServeInv, Kept, Caching
      <3> QED
        BY <1>5, <2>2, <3>1 DEF Caching, Steps, Conn
    <2> QED
      BY <2>1, <2>2
  <1>14. ClosedGone'
    BY <1>1, <1>3, <1>7 DEF ServeInv, ServeState, ClosedGone
  <1>15. LateStuck'
    BY <1>1, <1>5, <1>6 DEF ServeInv, LateStuck, Steps, Conn
  <1>16. Quiet' /\ StoppedClean'
    BY <1>1 DEF Quiet, StoppedClean, life
  <1> QED
    BY <1>8, <1>9, <1>10, <1>11, <1>12, <1>13, <1>14, <1>15, <1>16 DEF ServeInv

LEMMA ObtainFailsKeeps ==
    ASSUME ServeInv, NEW k \in Calls, ObtainFails(k)
    PROVE  ServeInv'
  <1>1. /\ call[k].at = "create" /\ Conn(k) \in Connections /\ call \in [Calls -> CallSet]
        /\ server \in {"serving", "stopping", "clearing"} /\ (server = "clearing" => raced)
        /\ UNCHANGED <<map, opened, cell, closed, life>>
        /\ permit' = [permit EXCEPT ![Conn(k)] = NoPermit]
    BY Racing DEF ServeInv, ServeState, ObtainFails
  <1>2. /\ Steps(k, Idle) /\ Idle \in CallSet
        /\ Idle.at = "idle" /\ Idle.conn = NoConn /\ Idle.obj = 0 /\ Idle.late = FALSE
    BY <1>1, DoneIs DEF ObtainFails
  <1>3. ServeState'
    BY <1>1, <1>2 DEF ServeInv, ServeState, Steps, life, Conn, ObtainFails
  <1>4. Capped' /\ OneObject' /\ ClosedGone'
    BY <1>1 DEF ServeInv, Capped, Open, OneObject, ClosedGone
  <1>5. Initializing'
    <2> SUFFICES ASSUME NEW j \in Calls, call'[j].at \in {"create", "cache"}
                 PROVE  permit'[Conn(j)'] = j /\ cell[Conn(j)'] = 0
      BY <1>1 DEF Initializing
    <2>1. j # k /\ call'[j] = call[j] /\ Conn(j)' = Conn(j)
      BY <1>2 DEF Steps, Conn
    <2>2. permit[Conn(j)] = j /\ cell[Conn(j)] = 0 /\ Conn(j) # Conn(k)
      BY <1>1, <2>1, Alone DEF ServeInv, Initializing
    <2> QED
      BY <1>1, <2>1, <2>2 DEF ServeInv, ServeState
  <1>6. Produced'
    BY <1>1, <1>2 DEF ServeInv, Produced, Steps, Conn
  <1>7. Kept'
    <2> SUFFICES ASSUME NEW c \in Connections, map[c] # 0 \/ c \in closed, cell[c] = 0
                 PROVE  Caching(c)'
      BY <1>1 DEF Kept
    <2>1. PICK j \in Calls : call[j].at = "cache" /\ Conn(j) = c
      BY DEF ServeInv, Kept, Caching
    <2>2. call'[j] = call[j]
      BY <1>1, <1>2, <2>1 DEF Steps
    <2> QED
      BY <2>1, <2>2 DEF Caching, Conn
  <1>8. LateStuck'
    BY <1>1, <1>2 DEF ServeInv, LateStuck, Steps, Conn
  <1>9. Quiet' /\ StoppedClean'
    BY <1>1 DEF Quiet, StoppedClean, life
  <1> QED
    BY <1>3, <1>4, <1>5, <1>6, <1>7, <1>8, <1>9 DEF ServeInv

LEMMA CacheKeeps ==
    ASSUME ServeInv, NEW k \in Calls, Cache(k)
    PROVE  ServeInv'
  <1> DEFINE o == call[k].obj
  <1>1. /\ call[k].at = "cache" /\ Conn(k) \in Connections /\ call \in [Calls -> CallSet]
        /\ server \in {"serving", "stopping", "clearing"} /\ (server = "clearing" => raced)
        /\ UNCHANGED <<manager, closed, life>>
        /\ permit' = [permit EXCEPT ![Conn(k)] = NoPermit]
        /\ cell \in [Connections -> 0 .. opened]
    BY Racing DEF ServeInv, ServeState, Cache
  <1>2. o \in 1 .. opened /\ map[Conn(k)] \in {0, o} /\ cell[Conn(k)] = 0 /\ opened \in Nat
    BY <1>1, ServeAssumption DEF ServeInv, ServeState, Initializing, Produced
  <1>3. cell' = [cell EXCEPT ![Conn(k)] = o]
    BY <1>1, <1>2 DEF Cache
  <1>4. To(k, "verify")
    BY DEF Cache
  <1>5. PICK r \in CallSet : /\ Steps(k, r) /\ r.at = "verify"
                             /\ r.conn = Conn(k) /\ r.obj = call[k].obj /\ r.late = call[k].late
    BY <1>1, <1>4, ToIs DEF CallStages
  <1> HIDE DEF o
  <1>6. /\ cell' \in [Connections -> 0 .. opened] /\ cell'[Conn(k)] = o /\ o # 0
        /\ \A c \in Connections \ {Conn(k)} : cell'[c] = cell[c]
    BY <1>1, <1>2, <1>3
  <1>7. ServeState'
    BY <1>1, <1>5, <1>6 DEF ServeInv, ServeState, Steps, life, manager, Conn
  <1>8. Capped' /\ ClosedGone' /\ StoppedClean'
    BY <1>1 DEF ServeInv, Capped, Open, ClosedGone, StoppedClean, manager, life
  <1>9. \A j \in Calls : call'[j].at \in {"create", "cache"} =>
           j # k /\ call'[j] = call[j] /\ Conn(j)' = Conn(j)
           /\ Conn(j) \in Connections \ {Conn(k)}
    BY <1>1, <1>5, Alone DEF Steps, Conn, ServeInv, ServeState
  <1>10. Initializing'
    BY <1>1, <1>6, <1>9 DEF ServeInv, ServeState, Initializing
  <1>11. Produced'
    BY <1>1, <1>9 DEF ServeInv, Produced, manager
  <1>12. OneObject'
    BY <1>1, <1>2, <1>6 DEF ServeInv, OneObject, manager
  <1>13. Kept'
    <2> SUFFICES ASSUME NEW c \in Connections, map[c] # 0 \/ c \in closed, cell'[c] = 0
                 PROVE  Caching(c)'
      BY <1>1 DEF Kept, manager
    <2>1. c # Conn(k) /\ cell[c] = 0
      BY <1>6
    <2>2. PICK j \in Calls : call[j].at = "cache" /\ Conn(j) = c
      BY <2>1 DEF ServeInv, Kept, Caching
    <2> QED
      BY <1>5, <2>1, <2>2 DEF Caching, Steps, Conn
  <1>14. LateStuck'
    BY <1>1, <1>5 DEF ServeInv, LateStuck, Steps, Conn
  <1>15. Quiet'
    BY <1>1 DEF Quiet, life
  <1> QED
    BY <1>7, <1>8, <1>10, <1>11, <1>12, <1>13, <1>14, <1>15 DEF ServeInv

LEMMA VerifyKeeps ==
    ASSUME ServeInv, NEW k \in Calls, Verify(k)
    PROVE  ServeInv'
  <1>1. /\ call[k].at = "verify" /\ Conn(k) \in Connections /\ call \in [Calls -> CallSet]
        /\ server \in {"serving", "stopping", "clearing"} /\ (server = "clearing" => raced)
        /\ UNCHANGED <<manager, cell, permit, closed, life>> /\ raced \in BOOLEAN
    BY Racing DEF ServeInv, ServeState, Verify
  <1>2. CASE map[Conn(k)] # 0
    <2> DEFINE at == IF call[k].kind = "close" THEN "close" ELSE "run"
    <2>1. To(k, at) /\ at \in CallStages \ {"idle", "create", "cache"}
      BY <1>2 DEF Verify, Granted, CallStages
    <2> HIDE DEF at
    <2>2. PICK r \in CallSet : /\ Steps(k, r) /\ r.at = at
                               /\ r.conn = Conn(k) /\ r.obj = call[k].obj /\ r.late = call[k].late
      BY <1>1, <2>1, ToIs
    <2>3. ~call[k].late
      BY <1>2 DEF ServeInv, LateStuck, ClosedGone
    <2> QED
      BY <1>1, <2>1, <2>2, <2>3, MovesOn DEF life
  <1>3. CASE map[Conn(k)] = 0
    <2>1. /\ Steps(k, Idle) /\ Idle \in CallSet
          /\ Idle.at = "idle" /\ Idle.conn = NoConn /\ Idle.obj = 0 /\ Idle.late = FALSE
      BY <1>1, <1>3, DoneIs DEF Verify
    <2> QED
      BY <1>1, <2>1, MovesOn DEF life
  <1> QED
    BY <1>2, <1>3

LEMMA ToolKeeps ==
    ASSUME ServeInv, NEW k \in Calls, Run(k)
    PROVE  ServeInv'
  <1>1. /\ call[k].at = "run" /\ call \in [Calls -> CallSet]
        /\ server \in {"serving", "stopping", "clearing"} /\ (server = "clearing" => raced)
        /\ UNCHANGED <<manager, cell, permit, closed, life>> /\ raced \in BOOLEAN
    BY Racing DEF ServeInv, ServeState, Run
  <1>2. /\ Steps(k, Idle) /\ Idle \in CallSet
        /\ Idle.at = "idle" /\ Idle.conn = NoConn /\ Idle.obj = 0 /\ Idle.late = FALSE
    BY <1>1, DoneIs DEF Run
  <1> QED
    BY <1>1, <1>2, MovesOn DEF life

LEMMA CloseKeeps ==
    ASSUME ServeInv, NEW k \in Calls, Close(k)
    PROVE  ServeInv'
  <1> DEFINE c0 == Conn(k)
  <1>1. /\ call[k].at = "close" /\ c0 \in Connections /\ call \in [Calls -> CallSet]
        /\ server \in {"serving", "stopping", "clearing"} /\ (server = "clearing" => raced)
        /\ UNCHANGED <<running, opened, cell, permit, life>>
        /\ map' = [map EXCEPT ![c0] = 0] /\ map \in [Connections -> 0 .. opened]
        /\ closed' = IF map[c0] # 0 THEN closed \cup {c0} ELSE closed
        /\ closed \subseteq Connections /\ opened \in Nat
    BY Racing, ServeAssumption DEF ServeInv, ServeState, Close
  <1>2. /\ Steps(k, Idle) /\ Idle \in CallSet
        /\ Idle.at = "idle" /\ Idle.conn = NoConn /\ Idle.obj = 0 /\ Idle.late = FALSE
    BY <1>1, DoneIs DEF Close
  <1> HIDE DEF c0
  <1>3. /\ map' \in [Connections -> 0 .. opened] /\ map'[c0] = 0
        /\ \A c \in Connections \ {c0} : map'[c] = map[c]
    BY <1>1
  <1>4. ServeState'
    BY <1>1, <1>2, <1>3 DEF ServeInv, ServeState, Steps, life, Conn
  <1>5. Capped'
    <2>1. Open' \subseteq Open
      BY <1>3 DEF Open
    <2> QED
      BY <2>1, MapShrinks, ServeAssumption DEF ServeInv
  <1>6. Initializing'
    BY <1>1, <1>2 DEF ServeInv, Initializing, Steps, Conn
  <1>7. Produced'
    <2> SUFFICES ASSUME NEW j \in Calls, call'[j].at = "cache"
                 PROVE  call'[j].obj \in 1 .. opened' /\ map'[Conn(j)'] \in {0, call'[j].obj}
      BY DEF Produced
    <2>1. call'[j] = call[j] /\ Conn(j)' = Conn(j) /\ Conn(j) \in Connections
      BY <1>2 DEF Steps, Conn, ServeInv, ServeState
    <2>2. call[j].obj \in 1 .. opened /\ map[Conn(j)] \in {0, call[j].obj}
      BY <2>1 DEF ServeInv, Produced
    <2> QED
      BY <1>1, <1>3, <2>1, <2>2
  <1>8. OneObject'
    BY <1>1, <1>3 DEF ServeInv, OneObject
  <1>9. Kept'
    <2> SUFFICES ASSUME NEW c \in Connections, map'[c] # 0 \/ c \in closed', cell[c] = 0
                 PROVE  Caching(c)'
      BY <1>1 DEF Kept
    <2>1. map[c] # 0 \/ c \in closed
      BY <1>1, <1>3
    <2>2. PICK j \in Calls : call[j].at = "cache" /\ Conn(j) = c
      BY <2>1 DEF ServeInv, Kept, Caching
    <2> QED
      BY <1>1, <1>2, <2>2 DEF Caching, Steps, Conn
  <1>10. ClosedGone'
    BY <1>1, <1>3 DEF ServeInv, ClosedGone
  <1>11. LateStuck'
    BY <1>1, <1>2 DEF ServeInv, LateStuck, Steps, Conn
  <1>12. Quiet' /\ StoppedClean'
    BY <1>1 DEF Quiet, StoppedClean, life
  <1> QED
    BY <1>4, <1>5, <1>6, <1>7, <1>8, <1>9, <1>10, <1>11, <1>12 DEF ServeInv

(* The command's own steps leave the calls alone.                          *)
LEMMA CommandKeeps ==
    ASSUME ServeInv, Bind \/ End \/ TakeEngine \/ Clear
    PROVE  ServeInv'
  <1>1. UNCHANGED <<opened, cell, permit, call, closed>>
    BY DEF Bind, End, TakeEngine, Clear, manager
  <1>2. map' = map \/ map' = [c \in Connections |-> 0]
    BY DEF Bind, End, TakeEngine, Clear, manager
  <1>3. /\ map' \in [Connections -> 0 .. opened] /\ opened \in Nat
        /\ \A c \in Connections : map'[c] \in {0, map[c]}
    BY <1>2, ServeAssumption DEF ServeInv, ServeState
  <1>4. ServeState'
    <2>1. server' \in {"serving", "stopping", "clearing", "stopped"}
          /\ running' \in BOOLEAN /\ raced' \in BOOLEAN
      BY DEF ServeInv, ServeState, Bind, End, TakeEngine, Clear, manager
    <2> QED
      BY <1>1, <1>3, <2>1 DEF ServeInv, ServeState, Conn
  <1>5. Open' \subseteq Open
    BY <1>3 DEF Open
  <1>6. Capped'
    BY <1>5, MapShrinks, ServeAssumption DEF ServeInv
  <1>7. Initializing' /\ LateStuck'
    BY <1>1 DEF ServeInv, Initializing, LateStuck, Conn
  <1>8. Produced' /\ OneObject' /\ ClosedGone'
    BY <1>1, <1>3 DEF ServeInv, ServeState, Produced, OneObject, ClosedGone, Conn
  <1>9. Kept'
    BY <1>1, <1>3 DEF ServeInv, Kept, Caching, Conn
  <1>10. Quiet'
    <2>1. server' # "starting"
      BY DEF Bind, End, TakeEngine, Clear
    <2>2. ASSUME server' = "clearing", ~raced'
          PROVE  ~running' /\ \A k \in Calls : call'[k].at = "idle"
      BY <2>2 DEF Bind, End, TakeEngine, Clear
    <2> QED
      BY <2>1, <2>2 DEF Quiet
  <1>11. StoppedClean'
    <2> SUFFICES ASSUME server' = "stopped", ~raced'
                 PROVE  ~running' /\ Open' = {}
      BY DEF StoppedClean
    <2>1. CASE Bind
      BY <1>5, <2>1 DEF Bind, manager, ServeInv, Quiet
    <2>2. CASE Clear
      <3>1. ~running' /\ map' = [c \in Connections |-> 0]
        BY <2>2 DEF Clear, ServeInv, Quiet
      <3> QED
        BY <3>1 DEF Open
    <2> QED
      BY <2>1, <2>2 DEF End, TakeEngine
  <1> QED
    BY <1>4, <1>6, <1>7, <1>8, <1>9, <1>10, <1>11 DEF ServeInv

(* The map has at most one object of a connection, its cell has the same,   *)
(* and who fills the cell is alone at it; what follows from a close and     *)
(* from the shutdown (mcp/server/mod.rs, session and live_session;          *)
(* cli/serve.rs, run).                                                      *)
THEOREM ServeInductive == ServeSpec => []ServeInv
  <1>1. ServeInit => ServeInv
    <2> SUFFICES ASSUME ServeInit
                 PROVE  ServeInv
      OBVIOUS
    <2>1. Idle \in CallSet /\ Idle.at = "idle" /\ Idle.late = FALSE /\ Idle.obj = 0
      BY DEF Idle, CallSet, CallStages
    <2>2. \A k \in Calls : call[k] = Idle
      BY DEF ServeInit
    <2>3. call \in [Calls -> CallSet]
      BY <2>1 DEF ServeInit
    <2> HIDE DEF Idle
    <2>4. ServeState
      <3>1. opened \in 0 .. MaxObjects
        BY ServeAssumption DEF ServeInit
      <3>2. server = "starting" /\ closed = {} /\ running \in BOOLEAN /\ raced \in BOOLEAN
        BY DEF ServeInit
      <3>3. cell \in [Connections -> 0 .. opened] /\ map \in [Connections -> 0 .. opened]
        BY DEF ServeInit
      <3>4. permit \in [Connections -> Calls \cup {NoPermit}]
        BY DEF ServeInit
      <3> QED
        BY <2>1, <2>2, <2>3, <3>1, <3>2, <3>3, <3>4 DEF ServeState
    <2>5. Open = {}
      BY DEF ServeInit, Open
    <2>6. Capped
      BY <2>5, FS_EmptySet, ServeAssumption DEF Capped
    <2>7. Initializing /\ Produced /\ LateStuck
      BY <2>1, <2>2 DEF Initializing, Produced, LateStuck
    <2>8. OneObject /\ Kept /\ ClosedGone /\ StoppedClean
      BY <2>5 DEF ServeInit, OneObject, Kept, ClosedGone, StoppedClean
    <2>9. Quiet
      BY <2>1, <2>2, <2>5 DEF ServeInit, Quiet
    <2> QED
      BY <2>4, <2>6, <2>7, <2>8, <2>9 DEF ServeInv
  <1>2. ServeInv /\ [ServeNext]_serveVars => ServeInv'
    <2> SUFFICES ASSUME ServeInv, [ServeNext]_serveVars
                 PROVE  ServeInv'
      OBVIOUS
    <2>1. CASE Bind \/ End \/ TakeEngine \/ Clear
      BY <2>1, CommandKeeps
    <2>2. ASSUME NEW k \in Calls, NEW c \in Connections, NEW kind \in {"tool", "close"},
                 Arrive(k, c, kind)
          PROVE  ServeInv'
      BY <2>2, ArriveKeeps
    <2>3. ASSUME NEW k \in Calls,
                 Enter(k) \/ Obtain(k) \/ ObtainFails(k) \/ Cache(k)
                 \/ Verify(k) \/ Run(k) \/ Close(k)
          PROVE  ServeInv'
      BY <2>3, EnterKeeps, ObtainKeeps, ObtainFailsKeeps, CacheKeeps, VerifyKeeps,
         ToolKeeps, CloseKeeps
    <2>4. CASE UNCHANGED serveVars
      <3>1. ServeState' /\ Capped' /\ Initializing' /\ Produced' /\ OneObject'
        BY <2>4 DEF serveVars, ServeInv, ServeState, Capped, Open, Initializing, Produced,
           OneObject, Conn
      <3>2. Kept' /\ ClosedGone' /\ LateStuck' /\ Quiet' /\ StoppedClean'
        BY <2>4 DEF serveVars, ServeInv, Kept, Caching, ClosedGone, LateStuck, Quiet,
           StoppedClean, Open, Conn
      <3> QED
        BY <3>1, <3>2 DEF ServeInv
    <2> QED
      BY <2>1, <2>2, <2>3, <2>4 DEF ServeNext
  <1> QED
    BY <1>1, <1>2, PTL DEF ServeSpec

(* One server process serves a connection from one session object, a        *)
(* connection whose session was closed is not given another by a call that  *)
(* raced the close, and a server that has answered leaves no session and no *)
(* engine (mcp/server/mod.rs, session and live_session; cli/serve.rs, run). *)
THEOREM OneForGood == ServeSpec => []ClosedForGood
  <1>1. ServeInv => ClosedForGood
    <2> SUFFICES ASSUME ServeInv
                 PROVE  ClosedForGood
      OBVIOUS
    <2>1. ServeTypes
      BY CallFields DEF ServeInv, ServeState, Capped, ServeTypes, CallStages
    <2>2. NotReopened
      BY DEF ServeInv, ClosedGone, LateStuck, NotReopened
    <2> QED
      BY <2>1, <2>2 DEF ServeInv, ClosedForGood
  <1> QED
    BY <1>1, ServeInductive, PTL
===============================================================================
