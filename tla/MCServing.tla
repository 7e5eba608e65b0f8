------------------------------ MODULE MCServing -----------------------------
(***************************************************************************)
(* What serves the agents: the session manager with its browser, the MCP    *)
(* connections in front of it, the state file a session keeps, the dump it  *)
(* writes there, and the snapshot behind an answer.  They share no state    *)
(* here: part says which one a behaviour exercises, the others stay as they *)
(* began.                                                                   *)
(***************************************************************************)
EXTENDS SessionManager, McpServe, StoragePersist, StorageDump, TLC

VARIABLES part,
          tree, viewport, flagged

Snapshots == INSTANCE SnapshotInputs WITH
    MaxTree <- 5, MAX_DEPTH <- 3, MAX_NODES <- 4, BUDGET_DEPTH <- 2, FOLD_RUN_MIN <- 2,
    FOLD_SIZE_MIN_CHARS <- 20, DEFAULT_BUDGET_CHARS <- 60, MAX_TEXT_CHARS <- 3,
    VIEWPORT_MARGIN_PX <- 2, RoleChars <- 4, RefChars <- 2

Lists == INSTANCE SequencesExt

\* up to four pages at three URLs
MCUrls  == {"shop/home", "shop/cart", "bank/"}
MCSite  == [url \in MCUrls |-> IF url = "bank/" THEN "bank" ELSE "shop"]
MCPairs == Lists!BoundedSeq(MCUrls, 4)

inputVars == <<tree, viewport, flagged>>
all == <<part, vars, serveVars, storageVars, inputVars, dumpVars>>

---------------------------------------------------------------------------
MCInit ==
    /\ part \in {"manager", "mcp", "storage", "snapshot", "dump"}
    /\ Init /\ ServeInit /\ StorageInit /\ Snapshots!Init /\ DumpInit
    /\ part # "snapshot" => tree = Snapshots!Plain /\ viewport = 10 /\ ~flagged
    /\ part # "dump" => pairs = <<>>

MCNext ==
    \/ part = "manager" /\ Next
       /\ UNCHANGED <<part, serveVars, storageVars, inputVars, dumpVars>>
    \/ part = "mcp" /\ ServeNext
       /\ UNCHANGED <<part, vars, storageVars, inputVars, dumpVars>>
    \/ part = "storage" /\ StorageNext
       /\ UNCHANGED <<part, vars, serveVars, inputVars, dumpVars>>
    \/ part = "snapshot" /\ Snapshots!Next
       /\ UNCHANGED <<part, vars, serveVars, storageVars, dumpVars>>
    \/ part = "dump" /\ DumpNext
       /\ UNCHANGED <<part, vars, serveVars, storageVars, inputVars>>

MCSpec == MCInit /\ [][MCNext]_all

\* what tells two states of the manager apart: not what only a history records
\* (known), nor that of sessions closed and contexts gone; of engines and restart
\* counts only whether two are the same, which is all that is asked of them
Lives == live \cup {watch[u].ctx : u \in {v \in Sups : watch[v].at = "swap"}}
ManagerView ==
    <<slot, starter, maplock, open, objects, name, cleared,
      [o \in 1 .. objects |-> IF ctx[o] \in live THEN <<ctx[o], 0>>
                              ELSE <<0, IF o \in OpenObjects THEN home[ctx[o]] ELSE 0>>],
      (refused \cup overtaken) \cap OpenObjects, contexts, live,
      [x \in Lives |-> home[x]], unclosed \cap live, sups, engines,
      [u \in 1 .. sups |->
          [runs |-> sup[u].runs, up |-> Engine(u) # 0,
           stale |-> watch[u].at \notin {"off", "start"} /\ watch[u].seen # sup[u].restarts]],
      [u \in 1 .. sups |->
          LET w == watch[u] IN
          <<w.at, w.run, w.round, w.todo, w.failed,
            IF w.at \in {"create", "swap", "recheck"} THEN w.obj ELSE 0,
            IF w.at = "swap" THEN w.ctx ELSE 0,
            w.at = "create" /\ w.eng = Engine(w.run)>>],
      [c \in Clients |->
          LET j == job[c] IN
          <<j.at, j.name, j.run, IF j.at = "close" THEN j.obj ELSE 0,
            IF j.at = "dispose" /\ j.ctx \in live THEN j.ctx ELSE 0,
            j.at = "create" /\ j.eng = Engine(j.run)>>]>>

\* nor who wrote the file, nor the cookies of an engine that is gone
StorageView ==
    <<engine, browsers, boots, clock, IF engine = 0 THEN 0 ELSE jar[engine],
      bare, context, persist, holder, [file EXCEPT !.by = 0], caller, rec, loaded>>

View ==
    CASE part = "manager" -> <<part, ManagerView>>
      [] part = "mcp"     -> <<part, serveVars>>
      [] part = "storage" -> <<part, StorageView>>
      [] OTHER            -> <<part, inputVars, dumpVars>>

\* Callers, Connections and Clients are one set of model values
Symmetry == Permutations(Clients) \cup Permutations(Names)

---------------------------------------------------------------------------
(* Snapshots: see SnapshotInputs.                                           *)
SnapshotHonest == part = "snapshot" => Snapshots!SnapshotHonest
=============================================================================
