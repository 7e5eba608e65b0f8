---------------------------- MODULE ScreencastProofs ----------------------------
(* The owner of a capture, for any number of connections and streams.      *)
EXTENDS Screencast, TLAPS

Streaming == [at : {"unused", "starting", "running", "ended"},
              held : BOOLEAN, frame : BOOLEAN, nav : BOOLEAN, queue : 0 .. Capacity]

(* Every stream is a record, a connection holds one of them or none.       *)
StreamInv ==
    /\ stream \in [Streams -> Streaming]
    /\ current \in [Connections -> Streams \cup {None}]
    /\ capture \in BOOLEAN /\ open \in BOOLEAN /\ lost \in BOOLEAN

(* NoStrayCapture is inductive over the types of the streams.              *)
IInv == StreamInv /\ NoStrayCapture

(* A step that leaves the tasks running and starts no capture keeps IInv.  *)
LEMMA Kept ==
    ASSUME IInv, StreamInv', capture' => capture \/ lost', lost => lost',
           \A s \in Streams : stream[s].at = "running" => stream'[s].at = "running"
    PROVE  IInv'
  BY DEF IInv, NoStrayCapture

(* A stream nobody started is a stream with an empty channel.              *)
LEMMA UnusedIs == Unused \in Streaming
  <1>1. 0 \in 0 .. Capacity
    BY CapacityPositive
  <1> QED
    BY <1>1 DEF Unused, Streaming

(* Dropping a receiver changes no task (ws.rs, ws_loop).                   *)
LEMMA ReleasedKeeps ==
    ASSUME StreamInv, NEW c \in Connections
    PROVE  /\ Released(c) \in [Streams -> Streaming]
           /\ \A s \in Streams : Released(c)[s].at = stream[s].at
  <1>1. 0 \in 0 .. Capacity
    BY CapacityPositive
  <1>2. ASSUME NEW r \in Streaming
        PROVE  LET f == [r EXCEPT !.held = FALSE, !.queue = 0]
               IN f \in Streaming /\ f.at = r.at
    BY <1>1 DEF Streaming
  <1>3. \A s \in Streams : stream[s] \in Streaming
    BY DEF StreamInv
  <1> QED
    BY <1>2, <1>3 DEF Released

(* Every step keeps the capture owned (page.rs, start_screencast).         *)
LEMMA StepKeeps == IInv /\ [Next]_vars => IInv'
  <1> SUFFICES ASSUME IInv, [Next]_vars PROVE IInv'
    OBVIOUS
  <1>0. StreamInv
    BY DEF IInv
  <1>1. CASE Paint
    BY <1>0, <1>1, Kept DEF Paint, Heard, StreamInv, Streaming
  <1>2. CASE Navigate
    BY <1>0, <1>2, Kept DEF Navigate, Heard, StreamInv, Streaming
  <1>3. CASE Close
    BY <1>0, <1>3, Kept DEF Close, StreamInv
  <1>4. ASSUME NEW c \in Connections, NEW s \in Streams, Ask(c, s) PROVE IInv'
    <2>1. /\ Released(c) \in [Streams -> Streaming]
          /\ \A u \in Streams : Released(c)[u].at = stream[u].at
      BY <1>0, ReleasedKeeps
    <2> DEFINE fresh == [Unused EXCEPT !.at = "starting", !.held = TRUE]
    <2>2. fresh \in Streaming
      BY UnusedIs DEF Streaming
    <2>3. stream' = [Released(c) EXCEPT ![s] = fresh]
      BY <1>4 DEF Ask
    <2> HIDE DEF fresh
    <2>4. StreamInv'
      BY <1>0, <1>4, <2>1, <2>2, <2>3 DEF Ask, StreamInv
    <2> QED
      BY <1>4, <2>1, <2>4, Kept DEF Ask
  <1>5. ASSUME NEW c \in Connections, Start(c) PROVE IInv'
    <2>1. current[c] \in Streams
      BY <1>0, <1>5 DEF Start, Starting, StreamInv
    <2>2. StreamInv' /\ stream'[current[c]].at = "running"
      BY <1>0, <1>5, <2>1 DEF Start, StreamInv, Streaming
    <2> QED
      BY <2>1, <2>2 DEF IInv, NoStrayCapture
  <1>6. ASSUME NEW c \in Connections, StartFails(c) PROVE IInv'
    <2>1. current[c] \in Streams /\ stream[current[c]].at = "starting"
      BY <1>0, <1>6 DEF StartFails, Starting, StreamInv
    <2> DEFINE over == [Unused EXCEPT !.at = "ended"]
    <2>2. over \in Streaming
      BY UnusedIs DEF Streaming
    <2>3. stream' = [stream EXCEPT ![current[c]] = over]
      BY <1>6 DEF StartFails
    <2> HIDE DEF over
    <2>4. StreamInv'
      BY <1>0, <1>6, <2>1, <2>2, <2>3 DEF StartFails, StreamInv
    <2>5. \A s \in Streams : stream[s].at = "running" => stream'[s].at = "running"
      BY <1>0, <1>6, <2>1 DEF StartFails, StreamInv
    <2> QED
      BY <1>0, <1>6, <2>4, <2>5, Kept DEF StartFails, StreamInv
  <1>7. ASSUME NEW c \in Connections, Drop(c) PROVE IInv'
    BY <1>0, <1>7, ReleasedKeeps, Kept DEF Drop, StreamInv
  <1>8. ASSUME NEW c \in Connections, Forward(c) PROVE IInv'
    <2>1. current[c] \in Streams
      BY <1>0, <1>8 DEF Forward, StreamInv
    <2>2. CASE /\ stream[current[c]].queue > 0 /\ UNCHANGED current
               /\ stream' = [stream EXCEPT ![current[c]].queue = @ - 1]
      BY <1>0, <1>8, <2>1, <2>2, Kept, CapacityPositive DEF Forward, StreamInv, Streaming
    <2>3. CASE current' = [current EXCEPT ![c] = None] /\ stream' = Released(c)
      BY <1>0, <1>8, <2>3, ReleasedKeeps, Kept DEF Forward, StreamInv
    <2> QED
      BY <1>8, <2>2, <2>3 DEF Forward
  <1>9. ASSUME NEW s \in Streams, Frame(s) PROVE IInv'
    <2> DEFINE length == IF stream[s].queue < Capacity THEN stream[s].queue + 1
                         ELSE stream[s].queue
    <2>1. stream[s] \in Streaming
      BY <1>0 DEF StreamInv
    <2>2. length \in 0 .. Capacity
      BY <2>1, CapacityPositive DEF Streaming
    <2> HIDE DEF length
    <2> DEFINE next == [stream[s] EXCEPT !.frame = FALSE, !.queue = length]
    <2>3. stream' = [stream EXCEPT ![s] = next]
      BY <1>9 DEF Frame, length
    <2>4. next \in Streaming /\ next.at = stream[s].at
      BY <2>1, <2>2 DEF Streaming
    <2> HIDE DEF next
    <2>5. StreamInv'
      BY <1>0, <1>9, <2>3, <2>4 DEF Frame, StreamInv
    <2>6. \A t \in Streams : stream[t].at = "running" => stream'[t].at = "running"
      BY <1>0, <2>3, <2>4 DEF StreamInv
    <2> QED
      BY <1>9, <2>5, <2>6, Kept DEF Frame
  <1>10. ASSUME NEW s \in Streams, Restart(s) PROVE IInv'
    <2>1. StreamInv' /\ stream'[s].at = "running"
      BY <1>0, <1>10 DEF Restart, StreamInv, Streaming
    <2> QED
      BY <2>1 DEF IInv, NoStrayCapture
  <1>11. ASSUME NEW s \in Streams, Stop(s) PROVE IInv'
    <2>1. StreamInv' /\ (~capture' \/ lost')
      BY <1>0, <1>11 DEF Stop, StreamInv, Streaming
    <2> QED
      BY <2>1 DEF IInv, NoStrayCapture
  <1>12. CASE UNCHANGED vars
    BY <1>12 DEF vars, IInv, StreamInv, NoStrayCapture
  <1> QED
    BY <1>1, <1>2, <1>3, <1>4, <1>5, <1>6, <1>7, <1>8, <1>9, <1>10, <1>11, <1>12
       DEF Next, Task

(* The invariant holds of every state: a channel never holds more frames     *)
(* than it has room for (page.rs, the forwarding task).                      *)
THEOREM Inductive == Spec => []IInv
  <1>1. Init => IInv
    <2>1. Init => StreamInv
      BY UnusedIs DEF Init, StreamInv
    <2> QED
      BY <2>1 DEF Init, IInv, NoStrayCapture
  <1> QED
    BY <1>1, StepKeeps, PTL DEF Spec

(* Every part of the state keeps its type, the bounded channel of a stream   *)
(* included, for any number of connections and streams (page.rs, ws.rs).     *)
THEOREM TypeCorrect == Spec => []TypeOK
  <1>1. IInv => TypeOK
    BY DEF IInv, StreamInv, Streaming, TypeOK
  <1> QED
    BY <1>1, Inductive, PTL

(* While no command was lost the browser never captures without a task     *)
(* that will stop it, for any number of connections and streams            *)
(* (page.rs: "the forwarding task owns the capture lifecycle").            *)
THEOREM CaptureOwned == Spec => []NoStrayCapture
  <1>1. IInv => NoStrayCapture
    BY DEF IInv
  <1> QED
    BY <1>1, Inductive, PTL
===============================================================================
