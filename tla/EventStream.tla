------------------------------ MODULE EventStream ------------------------------
(***************************************************************************)
(* The event backbone (crates/events/src) and one dashboard connection     *)
(* reading it (ws_loop, crates/dashboard/src/ws.rs).  Publishers number,   *)
(* ring and fan out an envelope under one lock; sessions open, close and   *)
(* are operated on concurrently; the connection subscribes, replays the    *)
(* rings one session at a time, then follows the live bus behind a         *)
(* watermark, refilling from the rings when it lagged.  An envelope is its *)
(* sequence number; the program counts from 0, the model from 1, so that 0 *)
(* is the watermark of a client that was sent nothing.                     *)
(***************************************************************************)
EXTENDS EventPromises, FiniteSets

CONSTANTS
    Sessions,
    RingCapacity,     \* DEFAULT_RING_CAPACITY, 1000 in the program
    ChannelCapacity,  \* CHANNEL_CAPACITY, 1024 in the program
    MaxEvents,        \* bound: envelopes ever published
    MaxDue            \* bound: keepalive intervals that pass unnoticed

CapacityAssumption ==
    /\ RingCapacity \in Nat \ {0} /\ ChannelCapacity \in Nat \ {0}
    /\ MaxEvents \in Nat /\ MaxDue \in Nat

VARIABLES
    closing,  \* how far each session's close is; one close at a time
    busy      \* sessions an operation in flight still holds

vars == <<log, rings, opened, closing, busy, ws>>

Numbers == 1 .. MaxEvents
Open    == {s \in Sessions : opened[s] > 0}

Offline == [at |-> "out", cursor |-> 1, joined |-> 0, todo |-> {}, batch |-> {},
            mark |-> 0, sent |-> <<>>, blind |-> {}, gap |-> 0, peer |-> "alive",
            ping |-> "idle", due |-> 0, dropped |-> FALSE]

Init ==
    /\ log = <<>>
    /\ rings = [s \in Sessions |-> <<>>]
    /\ opened = [s \in Sessions |-> 0]
    /\ closing = [s \in Sessions |-> "no"] /\ busy = {}
    /\ ws = Offline
-------------------------------------------------------------------------------
(* Backbone *)

\* RingBuffer::push
Push(ring, n) == Append(IF Len(ring) = RingCapacity THEN Tail(ring) ELSE ring, n)

\* whether a drain of the connection is reading the rings just now
Draining == ws.at = "read" /\ ws.todo # {}

\* Backbone::publish: numbered, ringed and fanned out in one step
Publish(s) ==
    /\ Len(log) < MaxEvents
    /\ log' = Append(log, s)
    /\ rings' = [rings EXCEPT ![s] = Push(@, Len(log) + 1)]
    /\ ws' = IF Draining THEN [ws EXCEPT !.blind = @ \cup {Len(log) + 1}] ELSE ws
-------------------------------------------------------------------------------
(* The manager and the sessions' operations, as far as the backbone sees   *)
(* them.                                                                   *)

\* ensure_running: EngineStarted goes to the first session's ring before
\* that session exists
Launched(s) ==
    /\ log = <<>>
    /\ Publish(s)
    /\ UNCHANGED <<opened, closing, busy>>

\* session: insert and SessionStarted, both under the session map's lock
Start(s) ==
    /\ log # <<>> /\ opened[s] = 0
    /\ Publish(s)
    /\ opened' = [opened EXCEPT ![s] = Len(log) + 1]
    /\ UNCHANGED <<closing, busy>>

Enter(s) ==
    /\ opened[s] > 0
    /\ busy' = busy \cup {s}
    /\ UNCHANGED <<log, rings, opened, closing, ws>>

\* an operation publishes: it holds the session, open or not
Report(s) ==
    /\ s \in busy
    /\ Publish(s)
    /\ UNCHANGED <<opened, closing, busy>>

Leave(s) ==
    /\ s \in busy
    /\ busy' = busy \ {s}
    /\ UNCHANGED <<log, rings, opened, closing, ws>>

\* close_session: out of the map, then the close waits on the engine
Remove(s) ==
    /\ opened[s] > 0 /\ closing[s] = "no"
    /\ opened' = [opened EXCEPT ![s] = 0]
    /\ closing' = [closing EXCEPT ![s] = "engine"]
    /\ UNCHANGED <<log, rings, busy, ws>>

\* close_session: SessionClosed
Closed(s) ==
    /\ closing[s] = "engine"
    /\ Publish(s)
    /\ closing' = [closing EXCEPT ![s] = "forget"]
    /\ UNCHANGED <<opened, busy>>

\* Backbone::forget
Forget(s) ==
    /\ closing[s] = "forget"
    /\ rings' = [rings EXCEPT ![s] = <<>>]
    /\ closing' = [closing EXCEPT ![s] = "no"]
    /\ UNCHANGED <<log, opened, busy, ws>>
-------------------------------------------------------------------------------
(* ws_loop *)

Connect ==
    /\ ws.at = "out" /\ log # <<>>
    /\ ws' = [Offline EXCEPT !.at = "list", !.cursor = Len(log) + 1, !.joined = Len(log) + 1]

\* drain_history: the ids of the sessions open now
List ==
    /\ ws.at = "list"
    /\ ws' = [ws EXCEPT !.at = "read", !.todo = Open, !.batch = {}]

\* drain_history: one session's ring, under its own lock
Read(s) ==
    /\ ws.at = "read" /\ s \in ws.todo
    /\ ws' = [ws EXCEPT !.todo = @ \ {s}, !.batch = @ \cup HistoryAfter(s, ws.mark)]

\* one write to the client; the watermark follows it
Write(w, n) == [w EXCEPT !.sent = Append(@, n), !.mark = n]

\* drain_history: the batch in sequence order, then the live loop
Flush ==
    /\ ws.at = "read" /\ ws.todo = {}
    /\ IF ws.batch = {}
       THEN ws' = [ws EXCEPT !.at = "live"]
       ELSE \E n \in ws.batch :
              /\ \A m \in ws.batch : n <= m
              /\ ws' = [Write(ws, n) EXCEPT !.batch = @ \ {n}]

\* the oldest envelope the broadcast channel still holds
Oldest == IF Len(log) > ChannelCapacity THEN Len(log) - ChannelCapacity + 1 ELSE 1

\* no watermark (a mutant of Receive)
ReceiveAll ==
    /\ ws.at = "live" /\ Oldest <= ws.cursor /\ ws.cursor <= Len(log)
    /\ ws' = Write([ws EXCEPT !.cursor = @ + 1], ws.cursor)

\* forward_live_event, Ok: skipped at or below the watermark
Receive ==
    /\ ws.at = "live" /\ Oldest <= ws.cursor /\ ws.cursor <= Len(log)
    /\ LET w == [ws EXCEPT !.cursor = @ + 1]
       IN ws' = IF ws.cursor <= ws.mark THEN w ELSE Write(w, ws.cursor)

\* no refill, and no moving on (mutants of Lagged)
LaggedOn ==
    /\ ws.at = "live" /\ ws.cursor < Oldest
    /\ ws' = [ws EXCEPT !.cursor = Oldest]
LaggedStuck ==
    /\ ws.at = "live" /\ ws.cursor < Oldest
    /\ ws' = [ws EXCEPT !.at = "list"]

\* forward_live_event, Lagged: the receiver moves to the oldest envelope
\* kept and the gap is refilled from the rings
Lagged ==
    /\ ws.at = "live" /\ ws.cursor < Oldest
    /\ ws' = [ws EXCEPT !.cursor = Oldest, !.at = "list", !.gap = ws.cursor]
-------------------------------------------------------------------------------
(* keepalive.  The interval's missed ticks are all delivered afterwards    *)
(* (tokio's default), so a loop kept busy finds several due at once.  A    *)
(* live peer answers a ping within an interval.                            *)

Elapse ==
    /\ ws.at # "out" /\ ws.due < MaxDue
    /\ ws.peer = "alive" => ws.ping # "asked"
    /\ ws' = [ws EXCEPT !.due = @ + 1]

\* never gives up (a mutant of Tick)
TickOn ==
    /\ ws.at = "live" /\ ws.due > 0
    /\ ws' = [ws EXCEPT !.due = @ - 1, !.ping = "asked"]

\* keepalive_tick
Tick ==
    /\ ws.at = "live" /\ ws.due > 0
    /\ ws' = IF ws.ping = "idle"
             THEN [ws EXCEPT !.due = @ - 1, !.ping = "asked"]
             ELSE [Offline EXCEPT !.dropped = ws.peer = "alive"]

\* the peer's protocol stack answers
Answer ==
    /\ ws.at # "out" /\ ws.ping = "asked" /\ ws.peer = "alive"
    /\ ws' = [ws EXCEPT !.ping = "answered"]

\* the loop reads the pong
Pong ==
    /\ ws.at = "live" /\ ws.ping = "answered"
    /\ ws' = [ws EXCEPT !.ping = "idle"]

\* the peer vanishes without a close: nothing answers any more
Vanish ==
    /\ ws.at # "out" /\ ws.peer = "alive"
    /\ ws' = [ws EXCEPT !.peer = "gone"]

\* the peer closes, or a write fails or outlasts WRITE_TIMEOUT
Hangup == ws.at # "out" /\ ws' = Offline
-------------------------------------------------------------------------------
Server ==
    \E s \in Sessions : Launched(s) \/ Start(s) \/ Enter(s) \/ Report(s)
                        \/ Leave(s) \/ Remove(s) \/ Closed(s) \/ Forget(s)

Drain     == List \/ (\E s \in Sessions : Read(s)) \/ Flush
Live      == Receive \/ Lagged
Keepalive == Tick \/ Pong
Client    == Connect \/ Drain \/ Live \/ Keepalive \/ Elapse \/ Answer \/ Vanish \/ Hangup

Next ==
    \/ Server
    \/ Client /\ UNCHANGED <<log, rings, opened, closing, busy>>

Spec == Init /\ [][Next]_vars

(* The loop's task is scheduled and its select! is fair to its branches;   *)
(* time passes.  Nothing is assumed of the server, the peer or the socket. *)
Turn(A) == A /\ UNCHANGED <<log, rings, opened, closing, busy>>
FairSpec ==
    /\ Spec
    /\ WF_vars(Turn(Drain)) /\ WF_vars(Turn(Live))
    /\ WF_vars(Turn(Elapse)) /\ SF_vars(Turn(Tick)) /\ SF_vars(Turn(Pong))
-------------------------------------------------------------------------------
(* Every part of the state has its type: the rings are bounded and hold    *)
(* numbers of published envelopes (crates/events/src/ring.rs).             *)
TypeOK ==
    /\ log \in Seq(Sessions) /\ Len(log) <= MaxEvents
    /\ \A s \in Sessions : Len(rings[s]) <= RingCapacity
                           /\ \A i \in DOMAIN rings[s] : rings[s][i] \in 1 .. Len(log)
    /\ opened \in [Sessions -> 0 .. Len(log)]
    /\ closing \in [Sessions -> {"no", "engine", "forget"}] /\ busy \subseteq Sessions
    /\ ws.at \in {"out", "list", "read", "live"} /\ ws.cursor \in 1 .. Len(log) + 1
    /\ ws.todo \subseteq Sessions /\ ws.batch \subseteq 1 .. Len(log)
    /\ ws.mark \in 0 .. Len(log) /\ ws.ping \in {"idle", "asked", "answered"}
    /\ ws.due \in 0 .. MaxDue /\ ws.peer \in {"alive", "gone"}

(* docs/events.md 1: "ring order and live order both equal allocation      *)
(* order and a watermark filter cannot drop an unseen event".              *)
WatermarkSafe == Owed \subseteq Sent

(* ws.rs, forward_live_event: "the rings still hold the semantic events:   *)
(* resync from the last sequence sent instead of losing the gap": once the *)
(* client is live again it has every envelope of its latest gap that       *)
(* belongs to a session still open.                                        *)
GapRefilled ==
    ws.at = "live" /\ ws.gap > 0 =>
        {n \in ws.gap .. ws.mark : opened[log[n]] \in 1 .. n} \ ws.blind \subseteq Sent

(* docs/events.md 3: "Rings are dropped when their session closes, so a    *)
(* server that churns through session ids does not grow the map": a ring   *)
(* belongs to an open session or to one still closing, but for the one the *)
(* launch announcement (envelope 1) opens.                                 *)
ClosedHaveNoRing ==
    \A s \in Sessions : rings[s] # <<>> =>
        opened[s] > 0 \/ closing[s] # "no" \/ rings[s][1] = 1

(* ws.rs, ws_loop: the keepalive "cannot misfire on a slow client": it     *)
(* ends a connection only when the peer no longer answers.                 *)
HealthyKept == ~ws.dropped

(* A connected client catches up: what was published after it subscribed   *)
(* is sent or passed by the watermark, or the connection ends.             *)
CatchesUp ==
    \A n \in Numbers :
        (ws.joined \in 1 .. n /\ n <= Len(log)) ~> (ws.mark >= n \/ ws.at = "out")

(* A peer that vanished without closing does not hold its connection       *)
(* forever (keepalive_tick).                                               *)
VanishedIsReleased == ws.peer = "gone" ~> ws.at = "out"
===============================================================================
