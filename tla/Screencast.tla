-------------------------------- MODULE Screencast --------------------------------
(***************************************************************************)
(* The live view: start_screencast and its forwarding task                 *)
(* (crates/engine-cdp/src/page.rs), asked for and dropped by the dashboard *)
(* connections (crates/dashboard/src/ws.rs).  The browser holds one        *)
(* capture per page, which every task of the page starts and stops.        *)
(***************************************************************************)
EXTENDS Naturals

CONSTANTS
    Connections,   \* dashboard connections watching one page
    Streams,       \* streams they ever start
    Capacity       \* of a stream's channel, 4 in the program

ASSUME CapacityPositive == Capacity \in Nat \ {0}

VARIABLES
    capture,   \* the browser captures the page
    open,      \* the page exists
    lost,      \* a command was lost, with its answer or before it ran
    current,   \* each connection's stream
    stream     \* at: the forwarding task; held: its receiver is;
               \* frame, nav: an event waits in its listeners; queue: frames in its channel

vars == <<capture, open, lost, current, stream>>

None == "none"

Unused == [at |-> "unused", held |-> FALSE, frame |-> FALSE, nav |-> FALSE, queue |-> 0]

Init ==
    /\ capture = FALSE /\ open = TRUE /\ lost = FALSE
    /\ current = [c \in Connections |-> None]
    /\ stream = [s \in Streams |-> Unused]

Listening(s) == stream[s].at \in {"starting", "running"}
Starting(c)  == current[c] # None /\ stream[current[c]].at = "starting"
-------------------------------------------------------------------------------
(* The page *)

Heard(field) ==
    stream' = [s \in Streams |-> IF Listening(s) THEN [stream[s] EXCEPT ![field] = TRUE]
                                                 ELSE stream[s]]

\* one frame at a time: the next one waits for the acknowledgement
Paint ==
    /\ capture /\ ~ \E s \in Streams : Listening(s) /\ stream[s].frame
    /\ Heard("frame")
    /\ UNCHANGED <<capture, open, lost, current>>

\* the browser stops a capture on navigation
Navigate ==
    /\ open /\ ~ \E s \in Streams : stream[s].nav
    /\ Heard("nav")
    /\ capture' = FALSE
    /\ UNCHANGED <<open, lost, current>>

Close ==
    /\ open' = FALSE /\ capture' = FALSE
    /\ UNCHANGED <<lost, current, stream>>
-------------------------------------------------------------------------------
(* The connection *)

\* the receiver goes: the stream the connection held, if any
Released(c) ==
    [s \in Streams |-> IF s = current[c] THEN [stream[s] EXCEPT !.held = FALSE, !.queue = 0]
                                         ELSE stream[s]]

\* "screencast" on: the stream before is dropped, then the listeners of the
\* new one are registered
Ask(c, s) ==
    /\ open /\ ~Starting(c) /\ stream[s].at = "unused"
    /\ current' = [current EXCEPT ![c] = s]
    /\ stream' = [Released(c) EXCEPT ![s] = [Unused EXCEPT !.at = "starting", !.held = TRUE]]
    /\ UNCHANGED <<capture, open, lost>>

\* the start command runs, and the task is spawned
Start(c) ==
    /\ Starting(c) /\ open
    /\ capture' = TRUE
    /\ stream' = [stream EXCEPT ![current[c]].at = "running"]
    /\ UNCHANGED <<open, lost, current>>

\* the command or its answer is lost, or the page is gone: no stream
StartFails(c) ==
    /\ Starting(c)
    /\ capture' \in {capture, open}
    /\ lost' = (lost \/ open)
    /\ current' = [current EXCEPT ![c] = None]
    /\ stream' = [stream EXCEPT ![current[c]] = [Unused EXCEPT !.at = "ended"]]
    /\ UNCHANGED open

\* "screencast" off, and every end of ws_loop
Drop(c) ==
    /\ current[c] # None /\ ~Starting(c)
    /\ current' = [current EXCEPT ![c] = None]
    /\ stream' = Released(c)
    /\ UNCHANGED <<capture, open, lost>>

\* forward_screencast_frame: a frame, or the notice that the capture ended
Forward(c) ==
    /\ current[c] # None
    /\ \/ /\ stream[current[c]].queue > 0
          /\ stream' = [stream EXCEPT ![current[c]].queue = @ - 1]
          /\ UNCHANGED current
       \/ /\ stream[current[c]].queue = 0 /\ stream[current[c]].at = "ended"
          /\ current' = [current EXCEPT ![c] = None]
          /\ stream' = Released(c)
    /\ UNCHANGED <<capture, open, lost>>
-------------------------------------------------------------------------------
(* The forwarding task: one arm of its select at a time *)

\* a frame is acknowledged, then queued, or discarded over a full channel
Frame(s) ==
    /\ stream[s].at = "running" /\ stream[s].frame /\ stream[s].held
    /\ stream' = [stream EXCEPT ![s].frame = FALSE,
                                ![s].queue = IF @ < Capacity THEN @ + 1 ELSE @]
    /\ UNCHANGED <<capture, open, lost, current>>

\* the capture starts again in the document navigated to; the command may
\* be lost
Restart(s) ==
    /\ stream[s].at = "running" /\ stream[s].nav
    /\ stream' = [stream EXCEPT ![s].nav = FALSE]
    /\ \/ capture' = open /\ UNCHANGED lost
       \/ open /\ lost' = TRUE /\ UNCHANGED capture
    /\ UNCHANGED <<open, current>>

\* the receiver is missed at the next frame only (a mutant of Leaving)
LeavingAtFrame(s) == stream[s].frame /\ ~stream[s].held

\* nobody holds the receiver, whether its closed arm or the next frame tells.
\* The end of the page's events does not: it disables their two arms, and
\* the else arm waits for the closed arm to be disabled too, which never is
Leaving(s) == ~stream[s].held

\* the task goes without a word (a mutant of Stop)
StopSilently(s) ==
    /\ stream[s].at = "running" /\ Leaving(s)
    /\ stream' = [stream EXCEPT ![s].at = "ended", ![s].frame = FALSE, ![s].nav = FALSE]
    /\ UNCHANGED <<capture, open, lost, current>>

\* stop_screencast, as the loop is left; the command may be lost
Stop(s) ==
    /\ stream[s].at = "running" /\ Leaving(s)
    /\ stream' = [stream EXCEPT ![s].at = "ended", ![s].frame = FALSE, ![s].nav = FALSE]
    /\ \/ capture' = FALSE /\ UNCHANGED lost
       \/ open /\ lost' = TRUE /\ UNCHANGED capture
    /\ UNCHANGED <<open, current>>

Task(s) == Frame(s) \/ Restart(s) \/ Stop(s)

Next ==
    \/ Paint \/ Navigate \/ Close
    \/ \E c \in Connections :
          (\E s \in Streams : Ask(c, s)) \/ Start(c) \/ StartFails(c) \/ Drop(c) \/ Forward(c)
    \/ \E s \in Streams : Task(s)

\* tokio runs a task that is ready, and select picks a ready arm some time;
\* a start is bounded by its deadline
Fairness ==
    /\ \A s \in Streams : WF_vars(Frame(s)) /\ WF_vars(Restart(s)) /\ WF_vars(Stop(s))
    /\ \A c \in Connections : WF_vars(Start(c) \/ StartFails(c)) /\ WF_vars(Forward(c))

Spec == Init /\ [][Next]_vars /\ Fairness
-------------------------------------------------------------------------------
(* Every part of the state has its type (page.rs, ws.rs).                  *)
TypeOK ==
    /\ {capture, open, lost} \subseteq BOOLEAN
    /\ current \in [Connections -> Streams \cup {None}]
    /\ stream \in [Streams -> [at : {"unused", "starting", "running", "ended"},
                               held : BOOLEAN, frame : BOOLEAN, nav : BOOLEAN,
                               queue : 0 .. Capacity]]

(* page.rs: "the forwarding task owns the capture lifecycle": with no      *)
(* command lost, the browser captures only while a task is there to stop   *)
(* it, however starts, restarts and stops of several streams interleave.   *)
NoStrayCapture == capture /\ ~lost => \E s \in Streams : stream[s].at = "running"

(* page.rs, the closed arm: the task of a stream nobody holds ends, on a   *)
(* page that paints nothing too.                                           *)
StreamsEnd == \A s \in Streams : stream[s].at = "running" /\ ~stream[s].held ~> stream[s].at = "ended"

(* docs/dashboard.md: "a stream can also end without its viewer asking -   *)
(* the page closed", and the server then "sends the watching socket one    *)
(* text control frame": the viewer of a page that closed is told, or has   *)
(* dropped the stream itself.  The code does not keep this: with the       *)
(* listeners at their end the task waits for the receiver to go.           *)
ViewerTold ==
    \A s \in Streams : \A c \in Connections :
        ~open /\ current[c] = s ~> current[c] # s

(* ws.rs: the stream before is dropped before the next is registered: "its *)
(* task would otherwise tear the new capture down on its way out".  With   *)
(* no command lost, and no navigation to catch up with, a running stream   *)
(* that is watched has the browser capturing.  The code does not keep      *)
(* this: the dropped stream's task is told, not waited for, and its stop   *)
(* may come after the start of the next, or of another connection's.       *)
WatchedIsCaptured ==
    open /\ ~lost =>
        \A s \in Streams :
            stream[s].at = "running" /\ stream[s].held /\ ~stream[s].nav => capture
===============================================================================
