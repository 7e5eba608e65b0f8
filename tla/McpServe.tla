--------------------------------- MODULE McpServe ---------------------------------
(***************************************************************************)
(* The MCP server (crates/mcp/src/server/mod.rs and http.rs) and the life  *)
(* of the serve command (crates/cli/src/serve.rs).  A connection is one    *)
(* session, whose object the connection caches on its first call; calls of *)
(* a connection run concurrently, and one of them may close the session.   *)
(* The manager is seen from here as its map (SessionManager.tla has the    *)
(* steps inside its calls).                                                *)
(***************************************************************************)
EXTENDS Naturals, FiniteSets

CONSTANTS
    Connections,
    Calls,        \* tasks serving tool calls
    MaxOpen,      \* SessionConfig::max_sessions
    MaxObjects    \* bound: session objects ever created

VARIABLES
    server,   \* where serve::run stands
    running,  \* the manager has an engine running
    map,      \* the manager's open session object of each connection, 0 when none
    opened,   \* session objects ever created
    cell,     \* the object each connection caches: RutterMcp::session
    permit,   \* the call initializing each cell
    call,     \* the tool calls
    closed,   \* history: connections whose open session a close_session removed
    raced     \* history: calls were in flight during the shutdown

serveVars == <<server, running, map, opened, cell, permit, call, closed, raced>>

NoPermit == "no permit"
NoConn == "no connection"

ASSUME ServeAssumption ==
    /\ MaxOpen \in Nat \ {0} /\ MaxObjects \in Nat
    /\ NoPermit \notin Calls /\ NoConn \notin Connections

Idle == [at |-> "idle", conn |-> NoConn, kind |-> "tool", obj |-> 0, late |-> FALSE]

ServeInit ==
    /\ server = "starting" /\ running = FALSE
    /\ map = [c \in Connections |-> 0] /\ opened = 0
    /\ cell = [c \in Connections |-> 0]
    /\ permit = [c \in Connections |-> NoPermit]
    /\ call = [k \in Calls |-> Idle]
    /\ closed = {} /\ raced = FALSE

Conn(k)   == call[k].conn
To(k, at) == call' = [call EXCEPT ![k].at = at]
Done(k)   == call' = [call EXCEPT ![k] = Idle]

\* tasks run until the process is gone
Alive == server \in {"serving", "stopping", "clearing"}
manager == <<running, map, opened>>
life    == <<server, raced>>
-------------------------------------------------------------------------------
(* A tool call.  One whose parameters are invalid ends before this, and    *)
(* changes nothing.                                                        *)

\* close_session of a connection without a session asks for none
First(c, kind) ==
    IF cell[c] # 0 THEN "verify" ELSE IF kind = "close" THEN "close" ELSE "init"

\* an HTTP connection is served by a task of its own too
Arrive(k, c, kind) ==
    /\ Alive /\ call[k].at = "idle"
    /\ call' = [call EXCEPT ![k] = [at |-> First(c, kind), conn |-> c, kind |-> kind,
                                    obj |-> cell[c], late |-> c \in closed]]
    /\ raced' = (raced \/ server = "clearing")
    /\ UNCHANGED <<manager, cell, permit, closed, server>>

\* every caller initializes for itself (a mutant of Enter)
EnterAll(k) ==
    /\ Alive /\ call[k].at = "init"
    /\ IF cell[Conn(k)] # 0 THEN To(k, "verify") ELSE To(k, "create")
    /\ UNCHANGED <<manager, cell, permit, closed, life>>

\* get_or_try_init: one initialization at a time, the others wait for it
Enter(k) ==
    /\ Alive /\ call[k].at = "init" /\ permit[Conn(k)] = NoPermit
    /\ IF cell[Conn(k)] # 0
       THEN To(k, "verify") /\ UNCHANGED permit
       ELSE To(k, "create") /\ permit' = [permit EXCEPT ![Conn(k)] = k]
    /\ UNCHANGED <<manager, cell, closed, life>>

Open == {c \in Connections : map[c] # 0}

\* SessionManager::session: the engine is started, the session created
Obtain(k) ==
    /\ Alive /\ call[k].at = "create"
    /\ IF map[Conn(k)] # 0
       THEN /\ call' = [call EXCEPT ![k].at = "cache", ![k].obj = map[Conn(k)]]
            /\ UNCHANGED manager
       ELSE /\ Cardinality(Open) < MaxOpen /\ opened < MaxObjects
            /\ running' = TRUE
            /\ opened' = opened + 1
            /\ map' = [map EXCEPT ![Conn(k)] = opened']
            /\ call' = [call EXCEPT ![k].at = "cache", ![k].obj = opened']
    /\ UNCHANGED <<cell, permit, closed, life>>

\* the cap, an engine that does not start, or a context it refuses; a full
\* server is refused after its engine was started
ObtainFails(k) ==
    /\ Alive /\ call[k].at = "create" /\ map[Conn(k)] = 0
    /\ running' \in {running, TRUE}
    /\ permit' = [permit EXCEPT ![Conn(k)] = NoPermit]
    /\ Done(k)
    /\ UNCHANGED <<map, opened, cell, closed, life>>

Cache(k) ==
    /\ Alive /\ call[k].at = "cache"
    /\ cell' = [cell EXCEPT ![Conn(k)] = IF @ = 0 THEN call[k].obj ELSE @]
    /\ permit' = [permit EXCEPT ![Conn(k)] = NoPermit]
    /\ To(k, "verify")
    /\ UNCHANGED <<manager, closed, life>>

Granted(k) == To(k, IF call[k].kind = "close" THEN "close" ELSE "run")

\* a cached session is taken at its word (a mutant of Verify)
VerifyNever(k) ==
    /\ Alive /\ call[k].at = "verify"
    /\ Granted(k)
    /\ UNCHANGED <<manager, cell, permit, closed, life>>

\* live_session: the map still has the connection's session, or the call
\* is refused
Verify(k) ==
    /\ Alive /\ call[k].at = "verify"
    /\ IF map[Conn(k)] # 0 THEN Granted(k) ELSE Done(k)
    /\ UNCHANGED <<manager, cell, permit, closed, life>>

\* the tool runs on the session, and its failure is a result too
Run(k) ==
    /\ Alive /\ call[k].at = "run"
    /\ Done(k)
    /\ UNCHANGED <<manager, cell, permit, closed, life>>

\* the cell is emptied with the session (a mutant of Close)
CloseForgets(k) ==
    /\ Alive /\ call[k].at = "close"
    /\ map' = [map EXCEPT ![Conn(k)] = 0]
    /\ cell' = [cell EXCEPT ![Conn(k)] = 0]
    /\ closed' = IF map[Conn(k)] # 0 THEN closed \cup {Conn(k)} ELSE closed
    /\ Done(k)
    /\ UNCHANGED <<running, opened, permit, life>>

\* SessionManager::close_session, which ignores an id it does not have
Close(k) ==
    /\ Alive /\ call[k].at = "close"
    /\ map' = [map EXCEPT ![Conn(k)] = 0]
    /\ closed' = IF map[Conn(k)] # 0 THEN closed \cup {Conn(k)} ELSE closed
    /\ Done(k)
    /\ UNCHANGED <<running, opened, cell, permit, life>>
-------------------------------------------------------------------------------
(* serve::run *)

\* the dashboard is bound before anything is served, or there is no server
Bind ==
    /\ server = "starting"
    /\ server' \in {"serving", "stopped"}
    /\ UNCHANGED <<manager, cell, permit, call, closed, raced>>

\* a transport that failed is an early return (a mutant of End)
EndEarly ==
    /\ server = "serving"
    /\ server' \in {"stopping", "stopped"}
    /\ UNCHANGED <<manager, cell, permit, call, closed, raced>>

\* the client leaves, the transport fails, or an interrupt arrives: calls
\* in flight are tasks of their own and go on
End ==
    /\ server = "serving"
    /\ server' = "stopping"
    /\ UNCHANGED <<manager, cell, permit, call, closed, raced>>

\* SessionManager::shutdown: the engine slot is taken, then the map is
\* cleared and the engine taken is stopped
TakeEngine ==
    /\ server = "stopping"
    /\ server' = "clearing"
    /\ running' = FALSE
    /\ raced' = \E k \in Calls : call[k].at # "idle"
    /\ UNCHANGED <<map, opened, cell, permit, call, closed>>

Clear ==
    /\ server = "clearing"
    /\ server' = "stopped"
    /\ map' = [c \in Connections |-> 0]
    /\ UNCHANGED <<running, opened, cell, permit, call, closed, raced>>

ServeNext ==
    \/ Bind \/ End \/ TakeEngine \/ Clear
    \/ \E k \in Calls :
          \/ \E c \in Connections, kind \in {"tool", "close"} : Arrive(k, c, kind)
          \/ Enter(k) \/ Obtain(k) \/ ObtainFails(k) \/ Cache(k) \/ Verify(k) \/ Run(k) \/ Close(k)

ServeSpec == ServeInit /\ [][ServeNext]_serveVars
-------------------------------------------------------------------------------
(* Every part of the state has its type (server/mod.rs, serve.rs).         *)
ServeTypes ==
    /\ server \in {"starting", "serving", "stopping", "clearing", "stopped"}
    /\ running \in BOOLEAN /\ Cardinality(Open) <= MaxOpen
    /\ cell \in [Connections -> 0 .. opened] /\ map \in [Connections -> 0 .. opened]
    /\ permit \in [Connections -> Calls \cup {NoPermit}] /\ opened \in 0 .. MaxObjects
    /\ \A k \in Calls : call[k].at \in
          {"idle", "init", "create", "cache", "verify", "run", "close"}

(* server/mod.rs, session: a call that passed the check by the session's   *)
(* id runs on the very session the map holds: once a cell is filled, the   *)
(* map has its object or none.                                             *)
OneObject == \A c \in Connections : cell[c] # 0 => map[c] \in {0, cell[c]}

(* "later calls fail fast instead of resurrecting a closed session": once  *)
(* a close_session has removed a connection's session, none is opened for  *)
(* it again, and no call that begins later runs or closes a second time    *)
(* with success - but for one that began before the cell was filled.       *)
NotReopened ==
    \A c \in closed :
        /\ map[c] = 0
        /\ \A k \in Calls : Conn(k) = c /\ call[k].late /\ call[k].obj # 0 =>
              call[k].at = "verify"

(* serve.rs: "every exit path shuts the manager down so the supervised     *)
(* browser never outlives the server": once run has returned, the engine   *)
(* is stopped and no session is open, unless calls were still in flight.   *)
StoppedClean == server = "stopped" /\ ~raced => ~running /\ Open = {}

(* One server process serves an id from one session object at a time, and   *)
(* a connection whose session was closed is not given another by a call     *)
(* that raced the close (mcp/server/mod.rs, session and live_session); when *)
(* serve has answered, no session of the process is left open and no engine *)
(* runs (cli/serve.rs, run).                                                *)
ClosedForGood == ServeTypes /\ OneObject /\ NotReopened /\ StoppedClean
===============================================================================
