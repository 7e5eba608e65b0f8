------------------------------ MODULE EngineLaunch ------------------------------
(***************************************************************************)
(* Launching a browser and owning its process (crates/engine-cdp/src       *)
(* launch.rs and engine.rs).  Launchers of several rutter processes each   *)
(* pick a debugging port, release it, spawn their browser and connect to   *)
(* whatever answers there; browsers start slowly, crash, lose their port   *)
(* to another or hand off to a process of their own.  A launched engine    *)
(* creates contexts, isolated from each other as long as it can.           *)
(***************************************************************************)
EXTENDS Naturals, FiniteSets

CONSTANTS
    Launchers,
    Ports,
    Configured,   \* the port --remote-debugging-port names, 0 for none
    HandsOff,     \* whose executable leaves the browser to another process
    Isolating,    \* whose browser supports browser contexts (not Electron)
    MaxLaunches   \* bound: launches of one launcher

ASSUME LaunchAssumption ==
    /\ Ports \subseteq Nat \ {0} /\ Configured \in Ports \cup {0}
    /\ HandsOff \subseteq Launchers /\ Isolating \subseteq Launchers
    /\ MaxLaunches \in Nat

VARIABLES
    launch,   \* the launch or engine of each launcher
    browser,  \* the browser process of each launch
    strangers \* ports other programs listen on

launchVars == <<launch, browser, strangers>>

Launches == Launchers \X (1 .. MaxLaunches)
NoBrowser == [at |-> "none", port |-> 0, child |-> FALSE]
Down == [at |-> "down", n |-> 0, port |-> 0, conn |-> <<>>, isolation |-> TRUE,
         contexts |-> {}]

LaunchInit ==
    /\ launch = [l \in Launchers |-> Down]
    /\ browser = [b \in Launches |-> NoBrowser]
    /\ strangers = {}

Own(l)       == <<l, launch[l].n>>
Alive(b)     == browser[b].at \in {"starting", "open", "deaf"}
OpenAt(port) == {b \in Launches : browser[b].at = "open" /\ browser[b].port = port}
Taken(port)  == port \in strangers \/ OpenAt(port) # {}
-------------------------------------------------------------------------------
(* CdpLauncher::launch *)

\* profile_dir, then pick_debug_port or the port the extras name; either
\* may fail, and then nothing was started
Pick(l) ==
    /\ launch[l].at = "down" /\ launch[l].n < MaxLaunches
    /\ \E port \in IF Configured > 0 THEN {Configured} ELSE {p \in Ports : ~Taken(p)} :
          launch' = [launch EXCEPT ![l] = [Down EXCEPT !.at = "spawn", !.n = launch[l].n + 1,
                                                       !.port = port]]
    /\ UNCHANGED <<browser, strangers>>

\* spawn_browser; BrowserProcess::new owns the child from here on
Spawn(l) ==
    /\ launch[l].at = "spawn"
    /\ \/ /\ launch' = [launch EXCEPT ![l].at = "connect"]
          /\ browser' = [browser EXCEPT ![Own(l)] =
                            [at |-> "starting", port |-> launch[l].port, child |-> TRUE]]
       \/ /\ launch' = [launch EXCEPT ![l].at = "down"]
          /\ UNCHANGED browser
    /\ UNCHANGED strangers

\* connect_with_retries: whoever listens there may answer
Connect(l) ==
    /\ launch[l].at = "connect"
    /\ \E b \in OpenAt(launch[l].port) :
          launch' = [launch EXCEPT ![l].at = "version", ![l].conn = b]
    /\ UNCHANGED <<browser, strangers>>

\* the kill reaches the child, not a browser that was handed off
Killed(b) == IF browser[b].child THEN [browser[b] EXCEPT !.at = "dead"] ELSE browser[b]

\* the guard made only once the engine is up (a mutant of GiveUp)
GiveUpAlone(l) ==
    /\ launch[l].at \in {"connect", "version"}
    /\ launch' = [launch EXCEPT ![l].at = "down"]
    /\ UNCHANGED <<browser, strangers>>

\* LAUNCH_TIMEOUT, or the version query's deadline: BrowserProcess is
\* dropped and kills its child
GiveUp(l) ==
    /\ launch[l].at \in {"connect", "version"}
    /\ launch' = [launch EXCEPT ![l].at = "down"]
    /\ browser' = [browser EXCEPT ![Own(l)] = Killed(Own(l))]
    /\ UNCHANGED strangers

\* the version query is answered: CdpEngine::new
Version(l) ==
    /\ launch[l].at = "version" /\ browser[launch[l].conn].at = "open"
    /\ launch' = [launch EXCEPT ![l].at = "up"]
    /\ UNCHANGED <<browser, strangers>>
-------------------------------------------------------------------------------
(* CdpEngine *)

\* its own browser context, or the default one once the engine refused
Context(l, isolated) ==
    launch' = [launch EXCEPT ![l].isolation = isolated,
                             ![l].contexts = @ \cup {IF isolated THEN "own" ELSE "shared"}]

\* any failure to isolate taken for a refusal (a mutant of CreateContext)
CreateContextStrips(l) ==
    /\ launch[l].at = "up"
    /\ \/ launch[l].isolation /\ Context(l, FALSE)
       \/ Context(l, launch[l].isolation /\ launch[l].conn[1] \in Isolating)
    /\ UNCHANGED <<browser, strangers>>

\* create_context: a timeout or a transport failure is an error and leaves
\* the flag; only the engine's own refusal turns it off
CreateContext(l) ==
    /\ launch[l].at = "up"
    /\ \/ launch[l].isolation /\ UNCHANGED launch
       \/ /\ launch[l].isolation => browser[launch[l].conn].at = "open"
          /\ Context(l, launch[l].isolation /\ launch[l].conn[1] \in Isolating)
    /\ UNCHANGED <<browser, strangers>>

\* shutdown: Browser.close at the connection's end, then the engine is
\* dropped and the guard kills the child; a wedged browser answers neither
Shutdown(l) ==
    /\ launch[l].at = "up"
    /\ launch' = [launch EXCEPT ![l].at = "down"]
    /\ \E closes \in BOOLEAN :
          browser' = [b \in Launches |->
                        IF closes /\ b = launch[l].conn THEN [browser[b] EXCEPT !.at = "dead"]
                        ELSE IF b = Own(l) THEN Killed(b) ELSE browser[b]]
    /\ UNCHANGED strangers
-------------------------------------------------------------------------------
(* Browsers and other programs. *)

\* the endpoint opens, or the port is gone and it never will
Listen(b) ==
    /\ browser[b].at = "starting"
    /\ browser' = [browser EXCEPT ![b].at = IF Taken(browser[b].port) THEN "deaf" ELSE "open"]
    /\ UNCHANGED <<launch, strangers>>

\* the process rutter started exits, the browser goes on
HandOff(b) ==
    /\ Alive(b) /\ browser[b].child /\ b[1] \in HandsOff
    /\ browser' = [browser EXCEPT ![b].child = FALSE]
    /\ UNCHANGED <<launch, strangers>>

Crash(b) ==
    /\ Alive(b)
    /\ browser' = [browser EXCEPT ![b].at = "dead"]
    /\ UNCHANGED <<launch, strangers>>

Stranger(port) ==
    /\ OpenAt(port) = {}
    /\ strangers' = IF port \in strangers THEN strangers \ {port} ELSE strangers \cup {port}
    /\ UNCHANGED <<launch, browser>>

LaunchNext ==
    \/ \E l \in Launchers : \/ Pick(l) \/ Spawn(l) \/ Connect(l) \/ GiveUp(l) \/ Version(l)
                            \/ CreateContext(l) \/ Shutdown(l)
    \/ \E b \in Launches : Listen(b) \/ HandOff(b) \/ Crash(b)
    \/ \E port \in Ports : Stranger(port)

LaunchSpec == LaunchInit /\ [][LaunchNext]_launchVars
-------------------------------------------------------------------------------
(* Every part of the state has its type (launch.rs, engine.rs).            *)
LaunchTypes ==
    /\ strangers \subseteq Ports
    /\ \A l \in Launchers :
          /\ launch[l].at \in {"down", "spawn", "connect", "version", "up"}
          /\ launch[l].n \in 0 .. MaxLaunches /\ launch[l].port \in Ports \cup {0}
          /\ launch[l].contexts \subseteq {"own", "shared"} /\ launch[l].isolation \in BOOLEAN
          /\ launch[l].at \in {"version", "up"} => launch[l].conn \in Launches
    /\ \A b \in Launches : browser[b].at \in {"none", "starting", "open", "deaf", "dead"}
                           /\ browser[b].child \in BOOLEAN

(* launch.rs: "Every error path below drops the guard, killing the child,  *)
(* so the policy's next attempt starts clean": a browser process rutter    *)
(* started runs only under the launch or engine that owns it, whoever's    *)
(* endpoint the connection reached, unless it handed off.                  *)
NoneLeft ==
    \A b \in Launches : Alive(b) /\ browser[b].child =>
        launch[b[1]].n = b[2] /\ launch[b[1]].at \in {"connect", "version", "up"}

(* engine.rs, create_context: "one wedged call would silently strip        *)
(* isolation ... for the engine's lifetime": contexts of an engine that    *)
(* can isolate never share, and one that cannot says so from the first.    *)
IsolationTold ==
    \A l \in Launchers : launch[l].at = "up" =>
        /\ launch[l].conn[1] \in Isolating => launch[l].contexts \subseteq {"own"}
        /\ launch[l].isolation = ("shared" \notin launch[l].contexts)
(* A browser rutter started runs only under the launch or engine that owns  *)
(* it (launch.rs), and an engine's isolation flag tells the truth of every  *)
(* context it made (engine.rs, create_context).                             *)
LaunchesTidy == LaunchTypes /\ NoneLeft /\ IsolationTold
===============================================================================
