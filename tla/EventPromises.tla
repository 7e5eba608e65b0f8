----------------------------- MODULE EventPromises -----------------------------
(***************************************************************************)
(* What a dashboard client that follows the events is promised: the part   *)
(* of the backbone's state it shows, the connection, and the promises.     *)
(* EventStream says how this state changes.                                *)
(***************************************************************************)
EXTENDS Naturals, Sequences

VARIABLES
    log,      \* log[n]: the session of envelope n; Len(log) is next_seq
    rings,    \* History::rings; <<>> is a session without a ring
    opened,   \* sessions in the manager's map: the number of their
              \* SessionStarted envelope, 0 when not in the map
    ws        \* the connection

\* RingBuffer::history_after
HistoryAfter(s, after) == {rings[s][i] : i \in {j \in DOMAIN rings[s] : rings[s][j] > after}}

Sent == {ws.sent[i] : i \in DOMAIN ws.sent}

(* A client is sent every envelope at most once and in sequence order,     *)
(* however replays, refills and the live stream overlap (the watermark of  *)
(* forward_live_event, ws.rs).                                             *)
SentOnceInOrder == \A i, j \in DOMAIN ws.sent : i < j => ws.sent[i] < ws.sent[j]

\* envelopes a client that is following the bus should have by now: of an
\* open session, published since it subscribed, still in the ring
Owed == {n \in ws.joined .. ws.mark :
           ws.at = "live" /\ n \in HistoryAfter(log[n], 0)
           /\ opened[log[n]] \in 1 .. n}

(* The watermark passes over an envelope only when it was published while  *)
(* a drain was reading the rings session by session: at every other moment *)
(* replay, refill and live stream leave no hole (ws_loop, drain_history).  *)
LostOnlyWhileDraining == Owed \ ws.blind \subseteq Sent

\* what a connected client may never be sent: envelopes of a session that
\* closed, or evicted from their ring, or published while a ring was being read
Excused ==
    IF ws.joined = 0 THEN {}
    ELSE {n \in ws.joined .. Len(log) :
            n \in ws.blind \/ n \notin HistoryAfter(log[n], 0) \/ opened[log[n]] \notin 1 .. n}

(* The rings, the bus with its lag, the watermark and the refills together *)
(* are a subscription: a client that connects is sent what is published    *)
(* from then on, in order and once, and the only envelopes it may be       *)
(* without are the excused ones (ws_loop, drain_history and                *)
(* forward_live_event, ws.rs).                                             *)
Feed == INSTANCE EventSubscription WITH
          published <- Len(log), joined <- ws.joined, sent <- ws.sent,
          gone <- Excused
ImplementsSubscription == Feed!Spec
================================================================================
