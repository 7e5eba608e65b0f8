--------------------------- MODULE EventStreamProofs ---------------------------
(* What a dashboard client is sent, for every number of sessions and of     *)
(* envelopes, every ring and every channel.                                 *)
EXTENDS EventStream, SequenceTheorems, TLAPS

WsSet == [at : {"out", "list", "read", "live"}, cursor : Nat, joined : Nat,
          todo : SUBSET Sessions, batch : SUBSET Nat, mark : Nat, sent : Seq(Nat),
          blind : SUBSET Nat, gap : Nat, peer : {"alive", "gone"},
          ping : {"idle", "asked", "answered"}, due : Nat, dropped : BOOLEAN]

Held(s) == {rings[s][i] : i \in DOMAIN rings[s]}

(* The state has its shape, and no part of it is ahead of the log.         *)
Shapes ==
    /\ log \in Seq(Sessions)
    /\ rings \in [Sessions -> Seq(Nat)]
    /\ \A s \in Sessions : Held(s) \subseteq 1 .. Len(log)
    /\ opened \in [Sessions -> 0 .. Len(log)]
    /\ ws \in WsSet
    /\ ws.mark <= Len(log) /\ ws.cursor <= Len(log) + 1 /\ ws.batch \subseteq 1 .. Len(log)

(* What was sent is in order and below the watermark, what waits is above. *)
OrderInv ==
    /\ SentOnceInOrder
    /\ \A i \in DOMAIN ws.sent : ws.sent[i] <= ws.mark
    /\ \A b \in ws.batch : b > ws.mark
    /\ ws.at # "read" => ws.batch = {}

(* An envelope the client is to have: of an open session, published since  *)
(* it subscribed and while no ring was being read, still in its ring.      *)
Due(n) ==
    /\ n \in 1 .. Len(log) /\ n >= ws.joined /\ n \notin ws.blind
    /\ n \in Held(log[n]) /\ opened[log[n]] \in 1 .. n

(* Where an envelope above the watermark will come from: a ring that is    *)
(* still to be read, the batch, or, when it was published after the rings  *)
(* were read, the live bus.                                                *)
Ahead(n) ==
    \/ log[n] \in ws.todo
    \/ n \in ws.batch
    \/ ws.todo = {} /\ n >= ws.cursor /\ \A b \in ws.batch : b < n

DueInv ==
    /\ \A n \in Nat : Due(n) /\ n <= ws.mark => n \in Sent
    /\ ws.at = "read" => \A n \in Nat : Due(n) /\ n > ws.mark => Ahead(n)
    /\ ws.at = "live" => \A n \in Nat : Due(n) /\ n > ws.mark => n >= ws.cursor

StreamInv == Shapes /\ OrderInv /\ DueInv
-------------------------------------------------------------------------------
(* A ring that takes an envelope holds that one and some of what it held   *)
(* (crates/events/src/ring.rs, push).                                      *)
LEMMA PushDoes ==
    ASSUME CapacityAssumption, NEW r \in Seq(Nat), NEW n \in Nat
    PROVE  /\ Push(r, n) \in Seq(Nat)
           /\ \A i \in DOMAIN Push(r, n) :
                Push(r, n)[i] = n \/ \E j \in DOMAIN r : r[j] = Push(r, n)[i]
  <1> DEFINE b == IF Len(r) = RingCapacity THEN Tail(r) ELSE r
             p == Append(b, n)
  <1>1. Push(r, n) = p
    BY DEF Push
  <1>2. Len(r) \in Nat /\ DOMAIN r = 1 .. Len(r)
    BY LenProperties
  <1>3. b \in Seq(Nat) /\ \A i \in DOMAIN b : \E j \in DOMAIN r : r[j] = b[i]
    <2>1. CASE Len(r) = RingCapacity
      <3>1. r # <<>>
        BY <2>1 DEF CapacityAssumption
      <3> DEFINE t == Tail(r)
      <3>2. /\ t \in Seq(Nat) /\ Len(t) = Len(r) - 1
            /\ \A i \in 1 .. Len(t) : t[i] = r[i + 1]
        BY <3>1, HeadTailProperties
      <3>3. b = t
        BY <2>1
      <3> HIDE DEF t, b
      <3>4. DOMAIN t = 1 .. Len(t)
        BY <3>2, LenProperties
      <3>5. \A i \in DOMAIN t : i + 1 \in DOMAIN r
        BY <1>2, <3>2, <3>4
      <3> QED
        BY <3>2, <3>3, <3>4, <3>5
    <2>2. CASE Len(r) # RingCapacity
      BY <2>2
    <2> QED
      BY <2>1, <2>2
  <1> HIDE DEF b
  <1>4. /\ p \in Seq(Nat) /\ DOMAIN p = 1 .. Len(b) + 1 /\ p[Len(b) + 1] = n
        /\ \A i \in 1 .. Len(b) : p[i] = b[i]
    BY <1>3, AppendProperties, LenProperties
  <1>5. Len(b) \in Nat /\ DOMAIN b = 1 .. Len(b)
    BY <1>3, LenProperties
  <1> HIDE DEF p
  <1>6. ASSUME NEW i \in DOMAIN p PROVE p[i] = n \/ \E j \in DOMAIN r : r[j] = p[i]
    <2>1. i \in 1 .. Len(b) \/ i = Len(b) + 1
      BY <1>4, <1>5
    <2> QED
      BY <2>1, <1>3, <1>4, <1>5
  <1> QED
    BY <1>1, <1>4, <1>6

(* An envelope numbered n is in the ring's history after a exactly when    *)
(* the ring holds it and n is beyond a (ring.rs, history_after).           *)
LEMMA HistoryIs ==
    ASSUME NEW s, NEW a, NEW n
    PROVE  n \in HistoryAfter(s, a) <=> n \in Held(s) /\ n > a
  BY DEF HistoryAfter, Held

(* The numbers of the log.                                                 *)
LEMMA LogIs == ASSUME Shapes PROVE Len(log) \in Nat /\ DOMAIN log = 1 .. Len(log)
  BY LenProperties DEF Shapes

LEMMA WsFields ==
    ASSUME NEW w \in WsSet
    PROVE  /\ w.at \in {"out", "list", "read", "live"} /\ w.cursor \in Nat /\ w.joined \in Nat
           /\ w.todo \subseteq Sessions /\ w.batch \subseteq Nat /\ w.mark \in Nat
           /\ w.sent \in Seq(Nat) /\ w.blind \subseteq Nat
  BY DEF WsSet

LEMMA Ticks ==
    ASSUME NEW w \in WsSet
    PROVE  /\ w.ping \in {"idle", "asked", "answered"} /\ w.due \in Nat
           /\ w.peer \in {"alive", "gone"} /\ w.dropped \in BOOLEAN
  BY DEF WsSet
-------------------------------------------------------------------------------
(* Publishing: the envelope is the log's next, it is the only one a ring   *)
(* gains, and a connection reading the rings may not see it.               *)
LEMMA PublishDoes ==
    ASSUME CapacityAssumption, Shapes, NEW s \in Sessions, Publish(s)
    PROVE  /\ log' \in Seq(Sessions) /\ Len(log') = Len(log) + 1
           /\ \A n \in 1 .. Len(log) : log'[n] = log[n]
           /\ log'[Len(log) + 1] = s
           /\ rings' \in [Sessions -> Seq(Nat)]
           /\ \A t \in Sessions : Held(t)' \subseteq Held(t) \cup {Len(log) + 1}
           /\ ws' \in WsSet
           /\ ws'.at = ws.at /\ ws'.cursor = ws.cursor /\ ws'.joined = ws.joined
           /\ ws'.todo = ws.todo /\ ws'.batch = ws.batch /\ ws'.mark = ws.mark
           /\ ws'.sent = ws.sent
           /\ ws'.blind = IF Draining THEN ws.blind \cup {Len(log) + 1} ELSE ws.blind
  <1>1. log \in Seq(Sessions) /\ Len(log) \in Nat /\ DOMAIN log = 1 .. Len(log)
    BY LogIs DEF Shapes
  <1>2. log' = Append(log, s)
    BY DEF Publish
  <1>3. /\ log' \in Seq(Sessions) /\ Len(log') = Len(log) + 1
        /\ \A n \in 1 .. Len(log) : log'[n] = log[n]
        /\ log'[Len(log) + 1] = s
    BY <1>1, <1>2, AppendProperties
  <1> DEFINE n == Len(log) + 1
             p == Push(rings[s], n)
  <1>4. n \in Nat /\ rings[s] \in Seq(Nat)
    BY <1>1 DEF Shapes
  <1>5. /\ p \in Seq(Nat)
        /\ \A i \in DOMAIN p : p[i] = n \/ \E j \in DOMAIN rings[s] : rings[s][j] = p[i]
    BY <1>4, PushDoes
  <1>6. rings' = [rings EXCEPT ![s] = p]
    BY DEF Publish
  <1> HIDE DEF p
  <1>7. rings' \in [Sessions -> Seq(Nat)]
    BY <1>5, <1>6 DEF Shapes
  <1>8. ASSUME NEW t \in Sessions PROVE Held(t)' \subseteq Held(t) \cup {n}
    <2>1. CASE t = s
      <3>1. rings'[t] = p
        BY <1>6, <2>1 DEF Shapes
      <3> QED
        BY <3>1, <1>5, <2>1 DEF Held
    <2>2. CASE t # s
      <3>1. rings'[t] = rings[t]
        BY <1>6, <2>2 DEF Shapes
      <3> QED
        BY <3>1 DEF Held
    <2> QED
      BY <2>1, <2>2
  <1>9. ws' = IF Draining THEN [ws EXCEPT !.blind = @ \cup {n}] ELSE ws
    BY DEF Publish
  <1> HIDE DEF n
  <1>10. /\ ws' \in WsSet
         /\ ws'.at = ws.at /\ ws'.cursor = ws.cursor /\ ws'.joined = ws.joined
         /\ ws'.todo = ws.todo /\ ws'.batch = ws.batch /\ ws'.mark = ws.mark
         /\ ws'.sent = ws.sent
         /\ ws'.blind = IF Draining THEN ws.blind \cup {n} ELSE ws.blind
    <2>1. ws \in WsSet
      BY DEF Shapes
    <2> QED
      BY <2>1, <1>4, <1>9 DEF WsSet
  <1> QED
    BY <1>3, <1>7, <1>8, <1>10 DEF n

(* A step of the server that publishes keeps the invariant: the new        *)
(* envelope is above the watermark and everything the connection holds,    *)
(* and is waited for on the live bus unless a ring was being read.         *)
LEMMA PublishKeeps ==
    ASSUME CapacityAssumption, StreamInv, NEW s \in Sessions, Publish(s),
           \/ opened' = opened
           \/ opened' = [opened EXCEPT ![s] = Len(log) + 1]
    PROVE  StreamInv'
  <1> DEFINE k == Len(log) + 1
  <1>1. Shapes /\ OrderInv /\ DueInv
    BY DEF StreamInv
  <1>2. /\ log' \in Seq(Sessions) /\ Len(log') = k
        /\ \A n \in 1 .. Len(log) : log'[n] = log[n]
        /\ log'[k] = s
    BY <1>1, PublishDoes
  <1>3. /\ rings' \in [Sessions -> Seq(Nat)]
        /\ \A t \in Sessions : Held(t)' \subseteq Held(t) \cup {k}
    BY <1>1, PublishDoes
  <1>4. /\ ws' \in WsSet
        /\ ws'.at = ws.at /\ ws'.cursor = ws.cursor /\ ws'.joined = ws.joined
        /\ ws'.todo = ws.todo /\ ws'.batch = ws.batch /\ ws'.mark = ws.mark
        /\ ws'.sent = ws.sent
    BY <1>1, PublishDoes
  <1>5. ws'.blind = IF Draining THEN ws.blind \cup {k} ELSE ws.blind
    BY <1>1, PublishDoes
  <1>6. /\ Len(log) \in Nat /\ k = Len(log) + 1 /\ ws \in WsSet
        /\ \A n \in 1 .. Len(log) : log[n] \in Sessions
    BY <1>1, LogIs, ElementOfSeq DEF Shapes
  <1>7. ws.cursor \in Nat /\ ws.mark \in Nat /\ ws.mark <= Len(log) /\ ws.cursor <= k
    BY <1>1, <1>6, WsFields DEF Shapes
  <1> HIDE DEF k
  <1>8. opened' \in [Sessions -> 0 .. k]
        /\ \A t \in Sessions : opened'[t] = opened[t] \/ opened'[t] = k
    BY <1>1, <1>6 DEF Shapes, k
  <1>9. Shapes'
    <2>1. \A t \in Sessions : Held(t)' \subseteq 1 .. k
      <3> SUFFICES ASSUME NEW t \in Sessions, NEW x \in Held(t)' PROVE x \in 1 .. k
        OBVIOUS
      <3>1. x \in Held(t) \/ x = k
        BY <1>3
      <3>2. Held(t) \subseteq 1 .. Len(log)
        BY <1>1 DEF Shapes
      <3> QED
        BY <3>1, <3>2, <1>6
    <2>2. opened' \in [Sessions -> 0 .. Len(log')]
      BY <1>2, <1>8
    <2>3. ws'.mark <= k /\ ws'.cursor <= k + 1 /\ ws'.batch \subseteq 1 .. k
      BY <1>1, <1>4, <1>6, <1>7 DEF Shapes
    <2>4. \A t \in Sessions : Held(t)' \subseteq 1 .. Len(log')
      BY <2>1, <1>2
    <2>5. /\ ws'.mark <= Len(log') /\ ws'.cursor <= Len(log') + 1
          /\ ws'.batch \subseteq 1 .. Len(log')
      BY <2>3, <1>2
    <2> QED
      BY <1>2, <1>3, <1>4, <2>2, <2>4, <2>5 DEF Shapes
  <1>10. OrderInv'
    BY <1>1, <1>4 DEF OrderInv, SentOnceInOrder
  <1>11. ASSUME NEW n \in Nat, Due(n)' PROVE Due(n) \/ (n = k /\ ~Draining)
    <2>1. CASE n \in 1 .. Len(log)
      <3>1. log'[n] = log[n] /\ log[n] \in Sessions /\ n # k
        BY <1>2, <1>6, <2>1
      <3>2. n \in Held(log[n])' /\ opened'[log[n]] \in 1 .. n
        BY <1>11, <3>1 DEF Due
      <3>3. n \in Held(log[n])
        BY <3>1, <3>2, <1>3
      <3>4. opened[log[n]] \in 1 .. n
        BY <3>1, <3>2, <1>8, <1>6, <2>1
      <3>5. n >= ws.joined /\ n \notin ws.blind
        BY <1>11, <1>4, <1>5 DEF Due
      <3> QED
        BY <2>1, <3>3, <3>4, <3>5 DEF Due
    <2>2. CASE n \notin 1 .. Len(log)
      <3>1. n = k
        BY <2>2, <1>11, <1>2, <1>6 DEF Due
      <3>2. k \notin ws'.blind
        BY <1>11, <3>1 DEF Due
      <3> QED
        BY <3>1, <3>2, <1>5
    <2> QED
      BY <2>1, <2>2
  <1>12. k > ws.mark /\ k >= ws.cursor /\ \A b \in ws.batch : b < k
    BY <1>1, <1>6, <1>7 DEF Shapes
  <1>13. Sent' = Sent
    BY <1>4 DEF Sent
  <1>14. ASSUME NEW n \in Nat, Due(n), ws.at = "read", n > ws.mark PROVE Ahead(n)'
    <2>1. Ahead(n)
      BY <1>1, <1>14 DEF DueInv
    <2>2. log'[n] = log[n]
      BY <1>2, <1>14 DEF Due
    <2> QED
      BY <2>1, <2>2, <1>4 DEF Ahead
  <1>15. ASSUME NEW n \in Nat, n = k, ws.at = "read", ~Draining PROVE Ahead(n)'
    <2>1. ws'.todo = {} /\ n >= ws'.cursor /\ \A b \in ws'.batch : b < n
      BY <1>15, <1>4, <1>12 DEF Draining
    <2> QED
      BY <2>1 DEF Ahead
  <1>16. DueInv'
    <2>1. \A n \in Nat : Due(n)' /\ n <= ws'.mark => n \in Sent'
      <3> SUFFICES ASSUME NEW n \in Nat, Due(n)', n <= ws'.mark PROVE n \in Sent
        BY <1>13
      <3>1. n <= ws.mark /\ n # k
        BY <1>4, <1>12, <1>7, <1>6
      <3> QED
        BY <3>1, <1>11, <1>1 DEF DueInv
    <2>2. ws'.at = "read" => \A n \in Nat : Due(n)' /\ n > ws'.mark => Ahead(n)'
      BY <1>4, <1>11, <1>14, <1>15
    <2>3. ws'.at = "live" => \A n \in Nat : Due(n)' /\ n > ws'.mark => n >= ws'.cursor
      BY <1>1, <1>4, <1>11, <1>12 DEF DueInv
    <2> QED
      BY <2>1, <2>2, <2>3 DEF DueInv
  <1> QED
    BY <1>9, <1>10, <1>16 DEF StreamInv

(* A step that leaves the connection and the log alone and only takes      *)
(* envelopes out of rings or sessions out of the map keeps the invariant.  *)
LEMMA ForgetKeeps ==
    ASSUME StreamInv, UNCHANGED <<log, ws>>,
           rings' \in [Sessions -> Seq(Nat)], opened' \in [Sessions -> 0 .. Len(log)],
           \A t \in Sessions : Held(t)' \subseteq Held(t),
           \A t \in Sessions : opened'[t] \in {0, opened[t]}
    PROVE  StreamInv'
  <1>1. Shapes /\ OrderInv /\ DueInv
    BY DEF StreamInv
  <1>2. Len(log) \in Nat /\ \A n \in 1 .. Len(log) : log[n] \in Sessions
    BY <1>1, LogIs, ElementOfSeq DEF Shapes
  <1>3. Shapes'
    BY <1>1 DEF Shapes
  <1>4. OrderInv'
    BY <1>1 DEF OrderInv, SentOnceInOrder
  <1>5. ASSUME NEW n \in Nat, Due(n)' PROVE Due(n)
    <2>1. n \in 1 .. Len(log) /\ n >= ws.joined /\ n \notin ws.blind /\ log[n] \in Sessions
      BY <1>2, <1>5 DEF Due
    <2>2. n \in Held(log[n])' /\ opened'[log[n]] \in 1 .. n
      BY <1>5 DEF Due
    <2>6. PICK t \in Sessions : t = log[n]
      BY <2>1
    <2>4. n \in Held(t)' /\ opened'[t] \in 1 .. n
      BY <2>2, <2>6
    <2>5. n \in Held(t) /\ opened[t] \in 1 .. n
      BY <2>4, <1>2
    <2>3. n \in Held(log[n]) /\ opened[log[n]] \in 1 .. n
      BY <2>5, <2>6
    <2> QED
      BY <2>1, <2>3 DEF Due
  <1>6. \A n \in Nat : Ahead(n)' <=> Ahead(n)
    BY DEF Ahead
  <1>7. DueInv'
    BY <1>1, <1>5, <1>6 DEF DueInv, Sent
  <1> QED
    BY <1>3, <1>4, <1>7 DEF StreamInv

(* The server's steps (manager.rs, the session's operations, backbone.rs). *)
LEMMA ServerKeeps == ASSUME CapacityAssumption, StreamInv, Server PROVE StreamInv'
  <1>1. PICK s \in Sessions : \/ Launched(s) \/ Start(s) \/ Enter(s) \/ Report(s)
                              \/ Leave(s) \/ Remove(s) \/ Closed(s) \/ Forget(s)
    BY DEF Server
  <1>2. CASE Launched(s) \/ Start(s) \/ Report(s) \/ Closed(s)
    <2>1. Publish(s)
      BY <1>2 DEF Launched, Start, Report, Closed
    <2>2. opened' = opened \/ opened' = [opened EXCEPT ![s] = Len(log) + 1]
      BY <1>2 DEF Launched, Start, Report, Closed
    <2> QED
      BY <2>1, <2>2, PublishKeeps
  <1>3. CASE ~(Launched(s) \/ Start(s) \/ Report(s) \/ Closed(s))
    <2>1. Enter(s) \/ Leave(s) \/ Remove(s) \/ Forget(s)
      BY <1>1, <1>3
    <2>2. UNCHANGED <<log, ws>>
      BY <2>1 DEF Enter, Leave, Remove, Forget
    <2>3. rings' = rings \/ rings' = [rings EXCEPT ![s] = <<>>]
      BY <2>1 DEF Enter, Leave, Remove, Forget
    <2>4. opened' = opened \/ opened' = [opened EXCEPT ![s] = 0]
      BY <2>1 DEF Enter, Leave, Remove, Forget
    <2>5. Shapes /\ Len(log) \in Nat
      BY LogIs DEF StreamInv
    <2>9. rings \in [Sessions -> Seq(Nat)] /\ opened \in [Sessions -> 0 .. Len(log)]
      BY <2>5 DEF Shapes
    <2>10. <<>> \in Seq(Nat)
      OBVIOUS
    <2>6. /\ rings' \in [Sessions -> Seq(Nat)]
          /\ \A t \in Sessions : rings'[t] = rings[t] \/ rings'[t] = <<>>
      <3>1. CASE rings' = rings
        BY <3>1, <2>9
      <3>2. CASE rings' = [rings EXCEPT ![s] = <<>>]
        BY <3>2, <2>9, <2>10
      <3> QED
        BY <3>1, <3>2, <2>3
    <2>7. \A t \in Sessions : Held(t)' \subseteq Held(t)
      BY <2>6 DEF Held
    <2>8. opened' \in [Sessions -> 0 .. Len(log)]
          /\ \A t \in Sessions : opened'[t] \in {0, opened[t]}
      <3>1. CASE opened' = opened
        BY <3>1, <2>9
      <3>2. CASE opened' = [opened EXCEPT ![s] = 0]
        BY <3>2, <2>5, <2>9
      <3> QED
        BY <3>1, <3>2, <2>4
    <2> QED
      BY <2>2, <2>6, <2>7, <2>8, ForgetKeeps
  <1> QED
    BY <1>2, <1>3
-------------------------------------------------------------------------------
(* The connection's steps leave the backbone alone.                        *)
Backbone == UNCHANGED <<log, rings, opened>>

LEMMA ShapesStay ==
    ASSUME Shapes, Backbone, ws' \in WsSet,
           ws'.mark <= Len(log), ws'.cursor <= Len(log) + 1, ws'.batch \subseteq 1 .. Len(log)
    PROVE  Shapes'
  BY DEF Shapes, Backbone, Held

LEMMA DueStays ==
    ASSUME Backbone, ws'.joined = ws.joined, ws'.blind = ws.blind, NEW n
    PROVE  Due(n)' <=> Due(n)
  BY DEF Due, Backbone, Held

(* A connection that was sent nothing yet.                                 *)
LEMMA FreshKeeps ==
    ASSUME StreamInv, Backbone, ws' \in WsSet, ws'.at \in {"out", "list"}, ws'.mark = 0,
           ws'.batch = {}, ws'.sent = <<>>, ws'.cursor <= Len(log) + 1
    PROVE  StreamInv'
  <1>1. Len(log) \in Nat
    BY LogIs DEF StreamInv
  <1>2. Shapes'
    BY <1>1, ShapesStay DEF StreamInv
  <1>3. DOMAIN ws'.sent = {}
    OBVIOUS
  <1>4. OrderInv'
    BY <1>3 DEF OrderInv, SentOnceInOrder
  <1>5. \A n \in Nat : Due(n)' => n > 0
    BY DEF Due
  <1>6. DueInv'
    BY <1>5 DEF DueInv
  <1> QED
    BY <1>2, <1>4, <1>6 DEF StreamInv

(* A step that keeps what the connection has and waits for.                *)
LEMMA StillKeeps ==
    ASSUME StreamInv, Backbone, ws' \in WsSet, ws'.at = ws.at, ws'.cursor = ws.cursor,
           ws'.joined = ws.joined, ws'.todo = ws.todo, ws'.batch = ws.batch,
           ws'.mark = ws.mark, ws'.sent = ws.sent, ws'.blind = ws.blind
    PROVE  StreamInv'
  <1>1. Shapes'
    BY ShapesStay DEF StreamInv, Shapes
  <1>2. OrderInv'
    BY DEF StreamInv, OrderInv, SentOnceInOrder
  <1>3. \A n : (Due(n)' <=> Due(n)) /\ (Ahead(n)' <=> Ahead(n))
    BY DueStays DEF Ahead, Backbone
  <1>4. DueInv'
    BY <1>3 DEF StreamInv, DueInv, Sent
  <1> QED
    BY <1>1, <1>2, <1>4 DEF StreamInv

(* A write of an envelope beyond the watermark, with nothing due between.  *)
LEMMA WriteKeeps ==
    ASSUME StreamInv, NEW n \in Nat, n > ws.mark, NEW w \in WsSet,
           w.sent = Append(ws.sent, n), w.mark = n,
           \A m \in Nat : Due(m) /\ m > ws.mark => m >= n
    PROVE  /\ \A i, j \in DOMAIN w.sent : i < j => w.sent[i] < w.sent[j]
           /\ \A i \in DOMAIN w.sent : w.sent[i] <= w.mark
           /\ \A m \in Nat : Due(m) /\ m <= w.mark
                              => m \in {w.sent[i] : i \in DOMAIN w.sent}
  <1> DEFINE q == ws.sent
             p == w.sent
             k == Len(q)
  <1>1. q \in Seq(Nat) /\ k \in Nat /\ DOMAIN q = 1 .. k /\ ws.mark \in Nat
    BY WsFields, LenProperties DEF StreamInv, Shapes
  <1>2. /\ DOMAIN p = 1 .. k + 1 /\ p[k + 1] = n
        /\ \A i \in 1 .. k : p[i] = q[i]
    BY <1>1, AppendProperties, LenProperties
  <1>3. /\ \A i, j \in 1 .. k : i < j => q[i] < q[j]
        /\ \A i \in 1 .. k : q[i] <= ws.mark /\ q[i] \in Nat
    BY <1>1, ElementOfSeq DEF StreamInv, OrderInv, SentOnceInOrder
  <1>4. \A m \in Nat : Due(m) /\ m <= ws.mark => \E i \in 1 .. k : q[i] = m
    BY <1>1 DEF StreamInv, DueInv, Sent
  <1> HIDE DEF q, p, k
  <1>5. \A i \in 1 .. k + 1 : i \in 1 .. k \/ i = k + 1
    BY <1>1
  <1>6. \A i \in 1 .. k : p[i] < n
    BY <1>1, <1>2, <1>3
  <1>7. ASSUME NEW i \in 1 .. k + 1, NEW j \in 1 .. k + 1, i < j PROVE p[i] < p[j]
    <2>1. i \in 1 .. k
      BY <1>1, <1>7
    <2>2. CASE j \in 1 .. k
      BY <2>1, <2>2, <1>2, <1>3, <1>7
    <2>3. CASE j = k + 1
      BY <2>1, <2>3, <1>2, <1>6
    <2> QED
      BY <2>2, <2>3, <1>5
  <1>8. \A i \in 1 .. k + 1 : p[i] <= n
    BY <1>1, <1>2, <1>3, <1>5, <1>6
  <1>9. ASSUME NEW m \in Nat, Due(m), m <= n PROVE \E i \in 1 .. k + 1 : p[i] = m
    <2>1. CASE m <= ws.mark
      <3>1. PICK i \in 1 .. k : q[i] = m
        BY <2>1, <1>4, <1>9
      <3> QED
        BY <3>1, <1>1, <1>2
    <2>2. CASE m > ws.mark
      <3>1. m = n
        BY <2>2, <1>9
      <3> QED
        BY <3>1, <1>1, <1>2
    <2> QED
      BY <2>1, <2>2, <1>1
  <1> QED
    BY <1>2, <1>7, <1>8, <1>9 DEF p

(* drain_history lists the open sessions: every envelope that is due       *)
(* belongs to one of them.                                                 *)
LEMMA ListKeeps == ASSUME StreamInv, Backbone, List PROVE StreamInv'
  <1>1. ws' = [ws EXCEPT !.at = "read", !.todo = Open, !.batch = {}]
    BY DEF List
  <1>2. /\ ws \in WsSet /\ Open \subseteq Sessions /\ Len(log) \in Nat
        /\ ws.mark <= Len(log) /\ ws.cursor <= Len(log) + 1
        /\ \A n \in 1 .. Len(log) : log[n] \in Sessions
    BY LogIs, ElementOfSeq DEF StreamInv, Shapes, Open
  <1>3. /\ ws' \in WsSet /\ ws'.at = "read" /\ ws'.todo = Open /\ ws'.batch = {}
        /\ ws'.cursor = ws.cursor /\ ws'.joined = ws.joined /\ ws'.mark = ws.mark
        /\ ws'.sent = ws.sent /\ ws'.blind = ws.blind
    BY <1>1, <1>2 DEF WsSet
  <1>4. Shapes'
    BY <1>2, <1>3, ShapesStay DEF StreamInv
  <1>5. OrderInv'
    BY <1>3 DEF StreamInv, OrderInv, SentOnceInOrder
  <1>6. \A n : Due(n)' <=> Due(n)
    BY <1>3, DueStays
  <1>7. ASSUME NEW n \in Nat, Due(n) PROVE Ahead(n)'
    <2>1. log[n] \in Sessions /\ opened[log[n]] \in 1 .. n
      BY <1>2, <1>7 DEF Due
    <2>2. log[n] \in Open
      BY <2>1 DEF Open
    <2> QED
      BY <2>2, <1>3 DEF Ahead, Backbone
  <1>8. DueInv'
    BY <1>3, <1>6, <1>7 DEF StreamInv, DueInv, Sent
  <1> QED
    BY <1>4, <1>5, <1>8 DEF StreamInv

(* drain_history reads a ring: what is due of that session joins the batch. *)
LEMMA ReadKeeps ==
    ASSUME StreamInv, Backbone, NEW s \in Sessions, Read(s) PROVE StreamInv'
  <1> DEFINE h == HistoryAfter(s, ws.mark)
  <1>1. /\ ws.at = "read" /\ s \in ws.todo
        /\ ws' = [ws EXCEPT !.todo = @ \ {s}, !.batch = @ \cup h]
    BY DEF Read
  <1>2. /\ ws \in WsSet /\ Len(log) \in Nat
        /\ ws.mark <= Len(log) /\ ws.cursor <= Len(log) + 1 /\ ws.batch \subseteq 1 .. Len(log)
        /\ Held(s) \subseteq 1 .. Len(log)
    BY LogIs DEF StreamInv, Shapes
  <1>3. h = {n \in Held(s) : n > ws.mark}
    BY HistoryIs DEF HistoryAfter, Held
  <1>4. h \subseteq 1 .. Len(log) /\ \A n \in h : n > ws.mark
    BY <1>2, <1>3
  <1> HIDE DEF h
  <1>5. /\ ws' \in WsSet /\ ws'.at = "read" /\ ws'.todo = ws.todo \ {s}
        /\ ws'.batch = ws.batch \cup h
        /\ ws'.cursor = ws.cursor /\ ws'.joined = ws.joined /\ ws'.mark = ws.mark
        /\ ws'.sent = ws.sent /\ ws'.blind = ws.blind
    <2>1. ws.todo \ {s} \subseteq Sessions /\ ws.batch \cup h \subseteq Nat
      <3>1. h \subseteq Nat
        BY <1>2, <1>4
      <3>2. ws.todo \subseteq Sessions /\ ws.batch \subseteq Nat
        BY <1>2, WsFields
      <3> QED
        BY <3>1, <3>2
    <2> QED
      BY <1>1, <1>2, <2>1 DEF WsSet
  <1>6. Shapes'
    BY <1>2, <1>4, <1>5, ShapesStay DEF StreamInv
  <1>7. OrderInv'
    BY <1>4, <1>5 DEF StreamInv, OrderInv, SentOnceInOrder
  <1>8. \A n : Due(n)' <=> Due(n)
    BY <1>5, DueStays
  <1>9. ASSUME NEW n \in Nat, Due(n), n > ws.mark PROVE Ahead(n)'
    <2>1. log' = log
      BY DEF Backbone
    <2>2. log[n] \in ws.todo \/ n \in ws.batch
      <3>1. Ahead(n)
        BY <1>1, <1>9 DEF StreamInv, DueInv
      <3> QED
        BY <3>1, <1>1 DEF Ahead
    <2>3. log[n] = s => n \in h
      BY <1>3, <1>9 DEF Due
    <2> QED
      BY <2>1, <2>2, <2>3, <1>5 DEF Ahead
  <1>10. DueInv'
    BY <1>5, <1>8, <1>9 DEF StreamInv, DueInv, Sent
  <1> QED
    BY <1>6, <1>7, <1>10 DEF StreamInv

(* drain_history writes the batch in sequence order: the least of it is    *)
(* the least that is due.                                                  *)
LEMMA FlushKeeps == ASSUME StreamInv, Backbone, Flush PROVE StreamInv'
  <1>1. /\ ws \in WsSet /\ Len(log) \in Nat /\ ws.mark \in Nat /\ ws.batch \subseteq Nat
        /\ ws.mark <= Len(log) /\ ws.cursor <= Len(log) + 1 /\ ws.batch \subseteq 1 .. Len(log)
        /\ ws.at = "read" /\ ws.todo = {} /\ ws.sent \in Seq(Nat)
    BY LogIs, WsFields DEF StreamInv, Shapes, Flush
  <1>2. \A n \in Nat : Due(n) /\ n > ws.mark =>
           n \in ws.batch \/ (n >= ws.cursor /\ \A b \in ws.batch : b < n)
    BY <1>1 DEF StreamInv, DueInv, Ahead
  <1>3. CASE ws.batch = {}
    <2>1. ws' = [ws EXCEPT !.at = "live"]
      BY <1>3 DEF Flush
    <2>2. /\ ws' \in WsSet /\ ws'.at = "live" /\ ws'.batch = {}
          /\ ws'.cursor = ws.cursor /\ ws'.joined = ws.joined /\ ws'.mark = ws.mark
          /\ ws'.sent = ws.sent /\ ws'.blind = ws.blind
      BY <1>1, <1>3, <2>1 DEF WsSet
    <2>3. Shapes'
      BY <1>1, <2>2, ShapesStay DEF StreamInv
    <2>4. OrderInv'
      BY <2>2 DEF StreamInv, OrderInv, SentOnceInOrder
    <2>5. \A n : Due(n)' <=> Due(n)
      BY <2>2, DueStays
    <2>6. DueInv'
      BY <1>2, <1>3, <2>2, <2>5 DEF StreamInv, DueInv, Sent
    <2> QED
      BY <2>3, <2>4, <2>6 DEF StreamInv
  <1>4. CASE ws.batch # {}
    <2>1. PICK n \in ws.batch :
            /\ \A m \in ws.batch : n <= m
            /\ ws' = [Write(ws, n) EXCEPT !.batch = @ \ {n}]
      BY <1>4 DEF Flush
    <2>2. n \in Nat /\ n \in 1 .. Len(log) /\ n > ws.mark
      BY <1>1, <2>1 DEF StreamInv, OrderInv
    <2>3. Append(ws.sent, n) \in Seq(Nat)
      BY <1>1, <2>2, AppendProperties
    <2>4. /\ ws' \in WsSet /\ ws'.at = "read" /\ ws'.todo = {}
          /\ ws'.batch = ws.batch \ {n} /\ ws'.cursor = ws.cursor
          /\ ws'.joined = ws.joined /\ ws'.mark = n
          /\ ws'.sent = Append(ws.sent, n) /\ ws'.blind = ws.blind
      BY <1>1, <2>1, <2>2, <2>3 DEF WsSet, Write
    <2>5. Shapes'
      BY <1>1, <2>2, <2>4, ShapesStay DEF StreamInv
    <2>6. \A m : Due(m)' <=> Due(m)
      BY <2>4, DueStays
    <2>7. ASSUME NEW m \in Nat, Due(m), m > ws.mark PROVE m >= n
      BY <1>2, <2>1, <2>2, <2>7
    <2>8. /\ \A i, j \in DOMAIN ws'.sent : i < j => ws'.sent[i] < ws'.sent[j]
          /\ \A i \in DOMAIN ws'.sent : ws'.sent[i] <= ws'.mark
          /\ \A m \in Nat : Due(m) /\ m <= ws'.mark
                             => m \in {ws'.sent[i] : i \in DOMAIN ws'.sent}
      BY <2>2, <2>4, <2>7, WriteKeeps
    <2>9. \A b \in ws'.batch : b > n
      BY <1>1, <2>1, <2>2, <2>4
    <2>10. OrderInv'
      BY <2>4, <2>8, <2>9 DEF OrderInv, SentOnceInOrder
    <2>11. ASSUME NEW m \in Nat, Due(m), m > n PROVE Ahead(m)'
      <3>1. m \in ws.batch \/ (m >= ws.cursor /\ \A b \in ws.batch : b < m)
        BY <1>1, <1>2, <2>2, <2>11
      <3> QED
        BY <3>1, <2>4, <2>11 DEF Ahead
    <2>12. DueInv'
      BY <2>4, <2>6, <2>8, <2>11 DEF DueInv, Sent
    <2> QED
      BY <2>5, <2>10, <2>12 DEF StreamInv
  <1> QED
    BY <1>3, <1>4

(* forward_live_event: what the bus delivers is the next envelope due, or  *)
(* at or below the watermark.                                              *)
LEMMA ReceiveKeeps == ASSUME StreamInv, Backbone, Receive PROVE StreamInv'
  <1> DEFINE n == ws.cursor
             w == [ws EXCEPT !.cursor = @ + 1]
  <1>1. /\ ws \in WsSet /\ Len(log) \in Nat /\ ws.mark \in Nat /\ n \in Nat
        /\ ws.mark <= Len(log) /\ n <= Len(log)
        /\ ws.at = "live" /\ ws.batch = {} /\ ws.sent \in Seq(Nat)
    BY LogIs, WsFields DEF StreamInv, Shapes, OrderInv, Receive
  <1>2. \A m \in Nat : Due(m) /\ m > ws.mark => m >= n
    BY <1>1 DEF StreamInv, DueInv
  <1>3. ws' = IF n <= ws.mark THEN w ELSE Write(w, n)
    BY DEF Receive
  <1>4. /\ w \in WsSet /\ w.at = "live" /\ w.batch = {} /\ w.cursor = n + 1
        /\ w.joined = ws.joined /\ w.mark = ws.mark /\ w.sent = ws.sent
        /\ w.blind = ws.blind
    <2>1. ws.cursor + 1 \in Nat
      BY <1>1
    <2> QED
      BY <1>1, <2>1 DEF WsSet
  <1> HIDE DEF n, w
  <1>5. CASE n <= ws.mark
    <2>1. ws' = w
      BY <1>3, <1>5
    <2>2. Shapes'
      BY <1>1, <1>4, <2>1, ShapesStay DEF StreamInv
    <2>3. OrderInv'
      BY <1>4, <2>1 DEF StreamInv, OrderInv, SentOnceInOrder
    <2>4. \A m : Due(m)' <=> Due(m)
      BY <1>4, <2>1, DueStays
    <2>5. \A m \in Nat : m > ws.mark => m >= n + 1
      BY <1>1, <1>5
    <2>6. DueInv'
      BY <1>4, <2>1, <2>4, <2>5 DEF StreamInv, DueInv, Sent
    <2> QED
      BY <2>2, <2>3, <2>6 DEF StreamInv
  <1>6. CASE ~(n <= ws.mark)
    <2>1. n > ws.mark
      BY <1>1, <1>6
    <2>2. ws' = Write(w, n)
      BY <1>3, <1>6
    <2>3. Append(ws.sent, n) \in Seq(Nat)
      BY <1>1, AppendProperties
    <2>4. /\ ws' \in WsSet /\ ws'.at = "live" /\ ws'.batch = {} /\ ws'.cursor = n + 1
          /\ ws'.joined = ws.joined /\ ws'.mark = n
          /\ ws'.sent = Append(ws.sent, n) /\ ws'.blind = ws.blind
      BY <1>1, <1>4, <2>2, <2>3 DEF WsSet, Write
    <2>5. Shapes'
      BY <1>1, <2>4, ShapesStay DEF StreamInv
    <2>6. \A m : Due(m)' <=> Due(m)
      BY <2>4, DueStays
    <2>7. /\ \A i, j \in DOMAIN ws'.sent : i < j => ws'.sent[i] < ws'.sent[j]
          /\ \A i \in DOMAIN ws'.sent : ws'.sent[i] <= ws'.mark
          /\ \A m \in Nat : Due(m) /\ m <= ws'.mark
                             => m \in {ws'.sent[i] : i \in DOMAIN ws'.sent}
      BY <1>1, <1>2, <2>1, <2>4, WriteKeeps
    <2>8. OrderInv'
      BY <2>4, <2>7 DEF OrderInv, SentOnceInOrder
    <2>9. \A m \in Nat : m > n => m >= n + 1
      BY <1>1
    <2>10. DueInv'
      BY <2>4, <2>6, <2>7, <2>9 DEF DueInv, Sent
    <2> QED
      BY <2>5, <2>8, <2>10 DEF StreamInv
  <1> QED
    BY <1>5, <1>6

(* forward_live_event, lagged: the rings are read anew.                    *)
LEMMA LaggedKeeps ==
    ASSUME CapacityAssumption, StreamInv, Backbone, Lagged PROVE StreamInv'
  <1>1. /\ ws \in WsSet /\ Len(log) \in Nat /\ ws.at = "live"
        /\ ws.mark <= Len(log) /\ ws.cursor \in Nat /\ ws.batch = {}
    BY LogIs, WsFields DEF StreamInv, Shapes, OrderInv, Lagged
  <1>2. Oldest \in Nat /\ Oldest <= Len(log) + 1
    BY <1>1 DEF Oldest, CapacityAssumption
  <1>3. ws' = [ws EXCEPT !.cursor = Oldest, !.at = "list", !.gap = ws.cursor]
    BY DEF Lagged
  <1>4. /\ ws' \in WsSet /\ ws'.at = "list" /\ ws'.batch = {} /\ ws'.cursor = Oldest
        /\ ws'.joined = ws.joined /\ ws'.mark = ws.mark /\ ws'.sent = ws.sent
        /\ ws'.blind = ws.blind
    BY <1>1, <1>2, <1>3 DEF WsSet
  <1>5. Shapes'
    BY <1>1, <1>2, <1>4, ShapesStay DEF StreamInv
  <1>6. OrderInv'
    BY <1>4 DEF StreamInv, OrderInv, SentOnceInOrder
  <1>7. \A m : Due(m)' <=> Due(m)
    BY <1>4, DueStays
  <1>8. DueInv'
    BY <1>4, <1>7 DEF StreamInv, DueInv, Sent
  <1> QED
    BY <1>5, <1>6, <1>8 DEF StreamInv

(* A connection begins and ends with nothing sent (ws_loop).               *)
LEMMA EndsKeep ==
    ASSUME StreamInv, Backbone,
           \/ Connect \/ Hangup
           \/ ws' = [Offline EXCEPT !.dropped = ws.peer = "alive"]
    PROVE  StreamInv'
  <1>1. Len(log) \in Nat /\ <<>> \in Seq(Nat)
    BY LogIs DEF StreamInv
  <1>2. Offline \in WsSet
    BY <1>1 DEF Offline, WsSet
  <1>3. /\ ws' \in WsSet /\ ws'.at \in {"out", "list"} /\ ws'.mark = 0
        /\ ws'.batch = {} /\ ws'.sent = <<>> /\ ws'.cursor <= Len(log) + 1
    <2>1. CASE Connect
      <3> DEFINE k == Len(log) + 1
      <3>1. k \in Nat /\ ws' = [Offline EXCEPT !.at = "list", !.cursor = k, !.joined = k]
        BY <2>1, <1>1 DEF Connect
      <3> HIDE DEF k
      <3>2. /\ ws' \in WsSet /\ ws'.at = "list" /\ ws'.mark = 0
            /\ ws'.batch = {} /\ ws'.sent = <<>> /\ ws'.cursor = k
        BY <3>1, <1>1 DEF Offline, WsSet
      <3>3. ws'.cursor <= k
        BY <3>1, <3>2
      <3> QED
        BY <3>2, <3>3 DEF k
    <2>2. CASE Hangup
      BY <2>2, <1>1, <1>2 DEF Hangup, Offline
    <2>3. CASE ws' = [Offline EXCEPT !.dropped = ws.peer = "alive"]
      <3>1. PICK d \in BOOLEAN : ws' = [Offline EXCEPT !.dropped = d]
        BY <2>3, Zenon
      <3>2. /\ ws' \in WsSet /\ ws'.at = "out" /\ ws'.mark = 0
            /\ ws'.batch = {} /\ ws'.sent = <<>> /\ ws'.cursor = 1
        BY <3>1, <1>1 DEF Offline, WsSet
      <3> QED
        BY <3>2, <1>1
    <2> QED
      BY <2>1, <2>2, <2>3
  <1> QED
    BY <1>3, FreshKeeps

(* The keepalive and the peer change nothing of what is sent.              *)
LEMMA QuietKeeps ==
    ASSUME StreamInv, Backbone,
           Elapse \/ Answer \/ Pong \/ Vanish \/ (Tick /\ ws.ping = "idle")
    PROVE  StreamInv'
  <1>1. ws \in WsSet /\ ws.due \in Nat
    BY Ticks DEF StreamInv, Shapes
  <1>2. \/ ws' = [ws EXCEPT !.due = @ + 1]
        \/ ws' = [ws EXCEPT !.ping = "answered"]
        \/ ws' = [ws EXCEPT !.ping = "idle"]
        \/ ws' = [ws EXCEPT !.peer = "gone"]
        \/ ws.due > 0 /\ ws' = [ws EXCEPT !.due = @ - 1, !.ping = "asked"]
    BY DEF Elapse, Answer, Pong, Vanish, Tick
  <1>3. /\ ws' \in WsSet /\ ws'.at = ws.at /\ ws'.cursor = ws.cursor
        /\ ws'.joined = ws.joined /\ ws'.todo = ws.todo /\ ws'.batch = ws.batch
        /\ ws'.mark = ws.mark /\ ws'.sent = ws.sent /\ ws'.blind = ws.blind
    <2>1. CASE ws' = [ws EXCEPT !.due = @ + 1]
      <3>1. ws.due + 1 \in Nat
        BY <1>1
      <3> QED
        BY <2>1, <3>1, <1>1 DEF WsSet
    <2>2. CASE ws' = [ws EXCEPT !.ping = "answered"]
      BY <2>2, <1>1 DEF WsSet
    <2>3. CASE ws' = [ws EXCEPT !.ping = "idle"]
      BY <2>3, <1>1 DEF WsSet
    <2>4. CASE ws' = [ws EXCEPT !.peer = "gone"]
      BY <2>4, <1>1 DEF WsSet
    <2>5. CASE ws.due > 0 /\ ws' = [ws EXCEPT !.due = @ - 1, !.ping = "asked"]
      <3>1. ws.due - 1 \in Nat
        BY <2>5, <1>1
      <3> QED
        BY <2>5, <3>1, <1>1 DEF WsSet
    <2> QED
      BY <2>1, <2>2, <2>3, <2>4, <2>5, <1>2
  <1> QED
    BY <1>3, StillKeeps

LEMMA ClientKeeps ==
    ASSUME CapacityAssumption, StreamInv, Backbone, Client PROVE StreamInv'
  <1>1. CASE Drain
    BY <1>1, ListKeeps, ReadKeeps, FlushKeeps DEF Drain
  <1>2. CASE Live
    BY <1>2, ReceiveKeeps, LaggedKeeps DEF Live
  <1>3. CASE Tick
    <2>1. CASE ws.ping = "idle"
      BY <1>3, <2>1, QuietKeeps
    <2>2. CASE ws.ping # "idle"
      BY <1>3, <2>2, EndsKeep DEF Tick
    <2> QED
      BY <2>1, <2>2
  <1>4. CASE Pong \/ Elapse \/ Answer \/ Vanish
    BY <1>4, QuietKeeps
  <1>5. CASE Connect \/ Hangup
    BY <1>5, EndsKeep
  <1> QED
    BY <1>1, <1>2, <1>3, <1>4, <1>5 DEF Client, Keepalive
-------------------------------------------------------------------------------
LEMMA Begins == CapacityAssumption /\ Init => StreamInv
  <1> SUFFICES ASSUME CapacityAssumption, Init PROVE StreamInv
    OBVIOUS
  <1>1. log = <<>> /\ Len(log) = 0 /\ ws = Offline /\ <<>> \in Seq(Nat) /\ log \in Seq(Sessions)
    BY DEF Init
  <1>2. /\ ws \in WsSet /\ ws.mark = 0 /\ ws.cursor = 1 /\ ws.batch = {} /\ ws.at = "out"
        /\ DOMAIN ws.sent = {}
    BY <1>1 DEF Offline, WsSet
  <1>3. \A s \in Sessions : Held(s) = {}
    BY DEF Init, Held
  <1>4. Shapes
    BY <1>1, <1>2, <1>3 DEF Shapes, Init
  <1>5. OrderInv
    BY <1>2 DEF OrderInv, SentOnceInOrder
  <1>6. DueInv
    BY <1>1, <1>2 DEF DueInv, Due
  <1> QED
    BY <1>4, <1>5, <1>6 DEF StreamInv

(* What the connection was sent is in order, and what is due above the     *)
(* watermark is still ahead of it, whatever the server does meanwhile      *)
(* (ws_loop, drain_history, forward_live_event).                           *)
THEOREM Inductive == ASSUME CapacityAssumption PROVE Spec => []StreamInv
  <1>1. Init => StreamInv
    BY Begins
  <1>2. StreamInv /\ [Next]_vars => StreamInv'
    <2> SUFFICES ASSUME StreamInv, [Next]_vars PROVE StreamInv'
      OBVIOUS
    <2>1. CASE Server
      BY <2>1, ServerKeeps
    <2>2. CASE Client /\ UNCHANGED <<log, rings, opened, closing, busy>>
      BY <2>2, ClientKeeps DEF Backbone
    <2>3. CASE UNCHANGED vars
      <3>1. Backbone /\ ws' = ws
        BY <2>3 DEF vars, Backbone
      <3>2. ws \in WsSet
        BY DEF StreamInv, Shapes
      <3> QED
        BY <3>1, <3>2, StillKeeps
    <2> QED
      BY <2>1, <2>2, <2>3 DEF Next
  <1> QED
    BY <1>1, <1>2, PTL DEF Spec

(* A client is sent every envelope at most once and in sequence order,     *)
(* for every ring and channel and however replays, refills and the live    *)
(* stream overlap (ws.rs, forward_live_event).                             *)
THEOREM InOrder == ASSUME CapacityAssumption PROVE Spec => []SentOnceInOrder
  <1>1. StreamInv => SentOnceInOrder
    BY DEF StreamInv, OrderInv
  <1> QED
    BY <1>1, Inductive, PTL

(* The watermark passes over nothing a live client should have, but for    *)
(* what was published while a ring was being read (ws.rs, drain_history).  *)
THEOREM NoHole == ASSUME CapacityAssumption PROVE Spec => []LostOnlyWhileDraining
  <1>1. StreamInv => LostOnlyWhileDraining
    <2> SUFFICES ASSUME StreamInv, NEW n \in Owed \ ws.blind PROVE n \in Sent
      BY DEF LostOnlyWhileDraining
    <2>1. /\ n \in ws.joined .. ws.mark /\ n \in HistoryAfter(log[n], 0)
          /\ opened[log[n]] \in 1 .. n
      BY DEF Owed
    <2>2. ws.joined \in Nat /\ ws.mark \in Nat /\ ws.mark <= Len(log) /\ Len(log) \in Nat
      BY WsFields, LogIs DEF StreamInv, Shapes
    <2>3. n \in Held(log[n]) /\ n > 0
      BY <2>1, HistoryIs
    <2>4. n \in Nat /\ n \in 1 .. Len(log) /\ n >= ws.joined /\ n <= ws.mark
      BY <2>1, <2>2, <2>3
    <2>5. Due(n)
      BY <2>1, <2>3, <2>4 DEF Due
    <2> QED
      BY <2>4, <2>5 DEF StreamInv, DueInv
  <1> QED
    BY <1>1, Inductive, PTL

-------------------------------------------------------------------------------
(* Only a connection has envelopes to be sent or sent already.             *)
StageInv ==
    /\ ws.at = "out" => ws.joined = 0 /\ ws.sent = <<>>
    /\ ws.at # "out" => ws.joined > 0

(* An envelope published since the client joined is excused or due.        *)
LEMMA ExcusedIs ==
    ASSUME NEW n \in Nat
    PROVE  /\ n \in Excused => ws.joined # 0 /\ n \in ws.joined .. Len(log)
           /\ ws.joined # 0 /\ StreamInv /\ n \in ws.joined .. Len(log)
                => (n \in Excused <=> ~Due(n))
  <1>1. n \in Excused => ws.joined # 0 /\ n \in ws.joined .. Len(log)
    BY DEF Excused
  <1>2. ASSUME ws.joined # 0, StreamInv, n \in ws.joined .. Len(log)
        PROVE  n \in Excused <=> ~Due(n)
    <2>1. ws.joined \in Nat /\ Len(log) \in Nat
      BY <1>2, WsFields, LogIs DEF StreamInv, Shapes
    <2>2. n \in 1 .. Len(log) /\ n >= ws.joined /\ n > 0
      BY <2>1, <1>2
    <2>3. n \in HistoryAfter(log[n], 0) <=> n \in Held(log[n])
      BY <2>2, HistoryIs
    <2> QED
      BY <1>2, <2>2, <2>3 DEF Excused, Due
  <1> QED
    BY <1>1, <1>2

(* Nothing becomes due but what is published: sessions close or start      *)
(* anew, rings evict or are dropped.                                       *)
LEMMA DueFades ==
    ASSUME CapacityAssumption, StreamInv, Server, NEW n \in 1 .. Len(log), Due(n)'
    PROVE  Due(n)
  <1>1. /\ Shapes /\ Len(log) \in Nat /\ log[n] \in Sessions
        /\ rings \in [Sessions -> Seq(Nat)] /\ opened \in [Sessions -> 0 .. Len(log)]
    BY LogIs, ElementOfSeq DEF StreamInv, Shapes
  <1>2. PICK s \in Sessions : \/ Launched(s) \/ Start(s) \/ Enter(s) \/ Report(s)
                              \/ Leave(s) \/ Remove(s) \/ Closed(s) \/ Forget(s)
    BY DEF Server
  <1>3. /\ log'[n] = log[n] /\ ws'.joined = ws.joined /\ ws.blind \subseteq ws'.blind
        /\ \A t \in Sessions : Held(t)' \subseteq Held(t) \cup {Len(log) + 1}
    <2>1. CASE Publish(s)
      <3>1. /\ log'[n] = log[n] /\ ws'.joined = ws.joined
            /\ ws'.blind = IF Draining THEN ws.blind \cup {Len(log) + 1} ELSE ws.blind
            /\ \A t \in Sessions : Held(t)' \subseteq Held(t) \cup {Len(log) + 1}
        BY <1>1, <2>1, PublishDoes
      <3> QED
        BY <3>1
    <2>2. CASE Enter(s) \/ Leave(s) \/ Remove(s)
      BY <2>2 DEF Enter, Leave, Remove, Held
    <2>3. CASE Forget(s)
      <3>1. /\ UNCHANGED <<log, ws>>
            /\ \A t \in Sessions : rings'[t] = rings[t] \/ rings'[t] = <<>>
        BY <1>1, <2>3 DEF Forget
      <3> QED
        BY <3>1 DEF Held
    <2> QED
      BY <1>2, <2>1, <2>2, <2>3 DEF Launched, Start, Report, Closed
  <1>4. \A t \in Sessions : opened'[t] \in {opened[t], 0, Len(log) + 1}
    <2>1. opened' \in {opened, [opened EXCEPT ![s] = 0], [opened EXCEPT ![s] = Len(log) + 1]}
      BY <1>2 DEF Launched, Start, Enter, Report, Leave, Remove, Closed, Forget
    <2> QED
      BY <1>1, <2>1
  <1>5. PICK t \in Sessions : t = log[n]
    BY <1>1
  <1>6. n \in Held(t)' /\ opened'[t] \in 1 .. n /\ n >= ws'.joined /\ n \notin ws'.blind
    BY <1>3, <1>5 DEF Due
  <1>7. n \in Held(t)
    BY <1>1, <1>3, <1>6
  <1>8. opened[t] \in 1 .. n
    <2>1. opened'[t] # 0 /\ opened'[t] # Len(log) + 1
      BY <1>1, <1>6
    <2>2. opened'[t] = opened[t]
      BY <1>4, <2>1
    <2> QED
      BY <1>6, <2>2
  <1> QED
    BY <1>3, <1>5, <1>6, <1>7, <1>8 DEF Due

(* The server publishes at most one envelope at a time, and excuses some.  *)
LEMMA ServerFeeds ==
    ASSUME CapacityAssumption, StreamInv, StreamInv', Server
    PROVE  Feed!Publish \/ Feed!Lose
  <1>1. /\ ws'.joined = ws.joined /\ ws'.sent = ws.sent /\ ws'.at = ws.at
        /\ Len(log') = Len(log) \/ Len(log') = Len(log) + 1
    <2>1. PICK s \in Sessions : \/ Launched(s) \/ Start(s) \/ Enter(s) \/ Report(s)
                                \/ Leave(s) \/ Remove(s) \/ Closed(s) \/ Forget(s)
      BY DEF Server
    <2>2. CASE Publish(s)
      BY <2>2, PublishDoes DEF StreamInv
    <2>3. CASE ~Publish(s)
      BY <2>1, <2>3 DEF Launched, Start, Enter, Report, Leave, Remove, Closed, Forget
    <2> QED
      BY <2>2, <2>3
  <1>2. ws.joined \in Nat /\ Len(log) \in Nat /\ Len(log') \in Nat
    BY <1>1, WsFields, LogIs DEF StreamInv, Shapes
  <1>3. ASSUME NEW n \in Excused PROVE n \in Excused'
    <2>1. ws.joined # 0 /\ n \in ws.joined .. Len(log)
      BY <1>3 DEF Excused
    <2>2. n \in 1 .. Len(log) /\ n \in Nat /\ n \in ws.joined .. Len(log')
      BY <1>1, <1>2, <2>1
    <2>3. ~Due(n)
      BY <1>3, <2>1, <2>2, ExcusedIs
    <2>4. ~Due(n)'
      BY <2>2, <2>3, DueFades
    <2>5. Len(log)' = Len(log') /\ ws'.joined # 0 /\ n \in ws'.joined .. Len(log')
      BY <1>1, <2>1, <2>2
    <2>6. \/ n \in ws'.blind \/ n \notin Held(log[n])' \/ opened'[log'[n]] \notin 1 .. n
      BY <1>2, <2>2, <2>4, <2>5 DEF Due
    <2>7. n \in HistoryAfter(log[n], 0)' => n \in Held(log[n])'
      BY DEF HistoryAfter, Held
    <2> QED
      BY <2>5, <2>6, <2>7 DEF Excused
  <1>4. Excused' \subseteq 1 .. Len(log')
    <2>1. \/ Excused' = {}
          \/ ws'.joined # 0 /\ Excused' \subseteq ws'.joined .. Len(log')
      BY DEF Excused
    <2> QED
      BY <1>1, <1>2, <2>1
  <1>5. Feed!GiveUp
    BY <1>3, <1>4 DEF Feed!GiveUp
  <1> QED
    BY <1>1, <1>5 DEF Feed!Publish, Feed!Lose

(* Nor does a step of the connection that keeps what it asked for.         *)
LEMMA DueMoves ==
    ASSUME Backbone, ws'.joined = ws.joined, ws'.blind = ws.blind
    PROVE  Excused' = Excused /\ Len(log') = Len(log)
  BY DEF Backbone, Excused, HistoryAfter

(* A write to the client delivers the next envelope: everything before it  *)
(* that is not excused was sent.                                           *)
LEMMA WriteDelivers ==
    ASSUME StreamInv, StageInv, Backbone, ws.at # "out", NEW n \in 1 .. Len(log), n > ws.mark,
           ws'.joined = ws.joined, ws'.blind = ws.blind, ws'.sent = Append(ws.sent, n),
           \A m \in Nat : Due(m) /\ m > ws.mark => m >= n
    PROVE  Feed!Deliver
  <1>1. /\ ws.joined \in Nat /\ ws.joined > 0 /\ Len(log) \in Nat /\ ws.mark \in Nat
        /\ ws.sent \in Seq(Nat)
    BY WsFields, LogIs DEF StreamInv, Shapes, StageInv
  <1>2. ASSUME NEW i \in DOMAIN ws.sent PROVE ws.sent[i] < n
    <2>1. ws.sent[i] <= ws.mark /\ ws.sent[i] \in Nat
      BY <1>1, ElementOfSeq, LenProperties DEF StreamInv, OrderInv
    <2> QED
      BY <1>1, <2>1
  <1>3. ASSUME NEW m \in ws.joined .. n - 1
        PROVE  m \in Excused \/ \E i \in DOMAIN ws.sent : ws.sent[i] = m
    <2>1. m \in Nat /\ m \in ws.joined .. Len(log) /\ m < n /\ ws.joined # 0
      BY <1>1
    <2>2. CASE Due(m)
      <3>1. m <= ws.mark
        BY <1>1, <2>1, <2>2
      <3> QED
        BY <2>1, <2>2, <3>1 DEF StreamInv, DueInv, Sent
    <2>3. CASE ~Due(m)
      BY <2>1, <2>3, ExcusedIs
    <2> QED
      BY <2>2, <2>3
  <1>4. Excused' = Excused /\ Len(log') = Len(log)
    BY DueMoves
  <1> QED
    BY <1>1, <1>2, <1>3, <1>4 DEF Feed!Deliver

(* A step of the connection that writes nothing and does not end it.       *)
LEMMA IdleStutters ==
    ASSUME Backbone, ws'.joined = ws.joined, ws'.blind = ws.blind, ws'.sent = ws.sent
    PROVE  UNCHANGED <<Len(log), ws.joined, ws.sent, Excused>>
  BY DueMoves

(* The connection's steps: a client joins, leaves, is delivered the next   *)
(* envelope, or sees nothing.                                              *)
LEMMA ClientFeeds ==
    ASSUME StreamInv, StageInv, Backbone, Client
    PROVE  Feed!Join \/ Feed!Leave \/ Feed!Deliver
           \/ UNCHANGED <<Len(log), ws.joined, ws.sent, Excused>>
  <1>1. /\ ws \in WsSet /\ Len(log) \in Nat /\ ws.mark \in Nat /\ ws.cursor \in Nat
        /\ ws.joined \in Nat /\ ws.batch \subseteq 1 .. Len(log)
    BY WsFields, LogIs DEF StreamInv, Shapes
  <1>2. Len(log') = Len(log)
    BY DEF Backbone
  <1>3. CASE Connect
    <2>1. ws.joined = 0 /\ ws.sent = <<>>
      BY <1>3 DEF StageInv, Connect
    <2> DEFINE k == Len(log) + 1
    <2>2. k \in Nat /\ ws' = [Offline EXCEPT !.at = "list", !.cursor = k, !.joined = k]
      BY <1>1, <1>3 DEF Connect
    <2> HIDE DEF k
    <2>3. ws'.joined = k /\ ws'.sent = <<>>
      BY <2>2 DEF Offline
    <2>4. Excused' = {}
      <3>1. ws'.joined .. Len(log') = {}
        BY <1>1, <1>2, <2>3 DEF k
      <3> QED
        BY <3>1 DEF Excused
    <2> QED
      BY <1>2, <2>1, <2>3, <2>4 DEF Feed!Join, k
  <1>4. CASE Hangup \/ (Tick /\ ws.ping # "idle")
    <2>1. ws.joined > 0
      BY <1>4 DEF StageInv, Hangup, Tick
    <2>2. ws'.joined = 0 /\ ws'.sent = <<>>
      BY <1>4 DEF Hangup, Tick, Offline
    <2>3. Excused' = {}
      BY <2>2 DEF Excused
    <2> QED
      BY <1>2, <2>1, <2>2, <2>3 DEF Feed!Leave
  <1>5. CASE Flush /\ ws.batch # {}
    <2>1. PICK n \in ws.batch :
            /\ \A m \in ws.batch : n <= m
            /\ ws' = [Write(ws, n) EXCEPT !.batch = @ \ {n}]
      BY <1>5 DEF Flush
    <2>2. /\ ws'.joined = ws.joined /\ ws'.blind = ws.blind
          /\ ws'.sent = Append(ws.sent, n)
      BY <1>1, <2>1 DEF Write, WsSet
    <2>3. n \in 1 .. Len(log) /\ n > ws.mark
      BY <1>1 DEF StreamInv, OrderInv
    <2>4. \A m \in Nat : Due(m) /\ m > ws.mark =>
             m \in ws.batch \/ (m >= ws.cursor /\ \A b \in ws.batch : b < m)
      BY <1>5 DEF StreamInv, DueInv, Ahead, Flush
    <2>5. ASSUME NEW m \in Nat, Due(m), m > ws.mark PROVE m >= n
      BY <1>1, <2>1, <2>3, <2>4, <2>5
    <2>6. ws.at # "out"
      BY <1>5 DEF Flush
    <2> QED
      BY <2>2, <2>3, <2>5, <2>6, WriteDelivers
  <1>6. CASE Receive /\ ws.cursor > ws.mark
    <2> DEFINE n == ws.cursor
               w == [ws EXCEPT !.cursor = @ + 1]
    <2>1. ws' = Write(w, n) /\ ws.at = "live" /\ n \in 1 .. Len(log) /\ n > ws.mark
      BY <1>1, <1>6 DEF Receive
    <2>2. /\ ws'.joined = ws.joined /\ ws'.blind = ws.blind
          /\ ws'.sent = Append(ws.sent, n)
      BY <1>1, <2>1 DEF Write, WsSet
    <2>3. \A m \in Nat : Due(m) /\ m > ws.mark => m >= n
      BY <2>1 DEF StreamInv, DueInv
    <2> QED
      BY <2>1, <2>2, <2>3, WriteDelivers
  <1>7. CASE \/ List \/ (\E s \in Sessions : Read(s)) \/ Lagged
             \/ (Flush /\ ws.batch = {}) \/ (Receive /\ ws.cursor <= ws.mark)
             \/ Elapse \/ Answer \/ Pong \/ Vanish \/ (Tick /\ ws.ping = "idle")
    <2>1. ws'.joined = ws.joined /\ ws'.blind = ws.blind /\ ws'.sent = ws.sent
      BY <1>1, <1>7
         DEF WsSet, List, Read, Lagged, Flush, Receive, Elapse, Answer, Pong, Vanish, Tick
    <2> QED
      BY <2>1, IdleStutters
  <1> QED
    BY <1>1, <1>3, <1>4, <1>5, <1>6, <1>7 DEF Client, Drain, Live, Keepalive

(* A connection begins by joining and ends with nothing.                   *)
LEMMA StageKeeps ==
    ASSUME CapacityAssumption, StreamInv, StageInv, [Next]_vars PROVE StageInv'
  <1>1. ws \in WsSet /\ Len(log) \in Nat /\ ws.at \in {"out", "list", "read", "live"}
    BY WsFields, LogIs DEF StreamInv, Shapes
  <1>2. CASE Server
    <2>1. PICK s \in Sessions : \/ Launched(s) \/ Start(s) \/ Enter(s) \/ Report(s)
                                \/ Leave(s) \/ Remove(s) \/ Closed(s) \/ Forget(s)
      BY <1>2 DEF Server
    <2>2. ws'.at = ws.at /\ ws'.joined = ws.joined /\ ws'.sent = ws.sent
      <3>1. CASE Publish(s)
        BY <3>1, PublishDoes DEF StreamInv
      <3>2. CASE ~Publish(s)
        BY <2>1, <3>2 DEF Launched, Start, Enter, Report, Leave, Remove, Closed, Forget
      <3> QED
        BY <3>1, <3>2
    <2> QED
      BY <2>2 DEF StageInv
  <1>3. CASE Connect
    <2> DEFINE k == Len(log) + 1
    <2>1. k \in Nat /\ k > 0 /\ ws' = [Offline EXCEPT !.at = "list", !.cursor = k, !.joined = k]
      BY <1>1, <1>3 DEF Connect
    <2> HIDE DEF k
    <2>2. ws'.joined = k /\ ws'.at = "list"
      BY <2>1 DEF Offline
    <2> QED
      BY <2>1, <2>2 DEF StageInv
  <1>4. CASE Hangup \/ (Tick /\ ws.ping # "idle")
    <2>1. ws'.joined = 0 /\ ws'.sent = <<>> /\ ws'.at = "out"
      BY <1>4 DEF Hangup, Tick, Offline
    <2> QED
      BY <2>1 DEF StageInv
  <1>5. CASE Drain \/ Live \/ Pong \/ Elapse \/ Answer \/ Vanish \/ (Tick /\ ws.ping = "idle")
    <2>1. ws.at # "out" /\ ws'.at # "out" /\ ws'.joined = ws.joined
      BY <1>1, <1>5
         DEF WsSet, Drain, Live, List, Read, Lagged, Flush, Receive, Write, Elapse, Answer,
             Pong, Vanish, Tick
    <2> QED
      BY <2>1 DEF StageInv
  <1>6. CASE UNCHANGED vars
    BY <1>6 DEF vars, StageInv
  <1> QED
    BY <1>2, <1>3, <1>4, <1>5, <1>6 DEF Next, Client, Keepalive

(* The stream is a subscription, for every ring, channel and number of     *)
(* envelopes: every step publishes or excuses envelopes, lets a client     *)
(* join or leave, delivers it the next envelope, or is not seen by it      *)
(* (ws_loop, drain_history, forward_live_event, ws.rs).                    *)
THEOREM Refinement == ASSUME CapacityAssumption PROVE Spec => ImplementsSubscription
  <1>1. Init => StageInv /\ Feed!Init
    BY DEF Init, Offline, StageInv, Excused, Feed!Init
  <1>2. StreamInv /\ StageInv /\ [Next]_vars => StageInv'
    BY StageKeeps
  <1>3. StreamInv /\ StreamInv' /\ StageInv /\ [Next]_vars
          => [Feed!Next]_(<<Len(log), ws.joined, ws.sent, Excused>>)
    <2> SUFFICES ASSUME StreamInv, StreamInv', StageInv, [Next]_vars
                 PROVE  [Feed!Next]_(<<Len(log), ws.joined, ws.sent, Excused>>)
      OBVIOUS
    <2>1. CASE Server
      BY <2>1, ServerFeeds DEF Feed!Next
    <2>2. CASE Client /\ UNCHANGED <<log, rings, opened, closing, busy>>
      BY <2>2, ClientFeeds DEF Feed!Next, Backbone
    <2>3. CASE UNCHANGED vars
      BY <2>3, IdleStutters DEF vars, Backbone
    <2> QED
      BY <2>1, <2>2, <2>3 DEF Next
  <1> QED
    BY <1>1, <1>2, <1>3, Inductive, PTL DEF Spec, ImplementsSubscription, Feed!Spec
-------------------------------------------------------------------------------
(* What is bounded: the log of the model, the rings of the program, the    *)
(* keepalive intervals.                                                    *)
BoundInv ==
    /\ Len(log) <= MaxEvents
    /\ \A s \in Sessions : Len(rings[s]) <= RingCapacity
    /\ closing \in [Sessions -> {"no", "engine", "forget"}] /\ busy \subseteq Sessions
    /\ ws.cursor >= 1 /\ ws.due <= MaxDue

(* A full ring makes room before it takes an envelope (ring.rs, push).     *)
LEMMA PushFits ==
    ASSUME CapacityAssumption, NEW r \in Seq(Nat), NEW n \in Nat, Len(r) <= RingCapacity
    PROVE  Len(Push(r, n)) <= RingCapacity
  <1>1. Len(r) \in Nat /\ RingCapacity \in Nat /\ RingCapacity >= 1
    BY LenProperties DEF CapacityAssumption
  <1>2. CASE Len(r) = RingCapacity
    <2> DEFINE t == Tail(r)
    <2>1. r # <<>>
      BY <1>1, <1>2
    <2>2. t \in Seq(Nat) /\ Len(t) = Len(r) - 1
      BY <2>1, HeadTailProperties
    <2>3. Push(r, n) = Append(t, n)
      BY <1>2 DEF Push
    <2> HIDE DEF t
    <2>4. Len(Append(t, n)) = Len(t) + 1
      BY <2>2, AppendProperties
    <2> QED
      BY <1>1, <1>2, <2>2, <2>3, <2>4
  <1>3. CASE Len(r) # RingCapacity
    <2>1. Push(r, n) = Append(r, n)
      BY <1>3 DEF Push
    <2>2. Len(Append(r, n)) = Len(r) + 1
      BY AppendProperties
    <2> QED
      BY <1>1, <1>3, <2>1, <2>2
  <1> QED
    BY <1>2, <1>3

\* the server's side of it
LEMMA ServerBounds ==
    ASSUME CapacityAssumption, StreamInv, BoundInv, Server
    PROVE  BoundInv'
  <1>1. PICK s \in Sessions : \/ Launched(s) \/ Start(s) \/ Enter(s) \/ Report(s)
                              \/ Leave(s) \/ Remove(s) \/ Closed(s) \/ Forget(s)
    BY DEF Server
  <1>2. /\ log \in Seq(Sessions) /\ rings \in [Sessions -> Seq(Nat)] /\ ws \in WsSet
        /\ Len(log) \in Nat /\ MaxEvents \in Nat
    BY LogIs DEF StreamInv, Shapes, CapacityAssumption
  <1>3. closing' \in [Sessions -> {"no", "engine", "forget"}] /\ busy' \subseteq Sessions
    <2>1. \/ closing' = closing \/ closing' = [closing EXCEPT ![s] = "no"]
          \/ closing' = [closing EXCEPT ![s] = "engine"]
          \/ closing' = [closing EXCEPT ![s] = "forget"]
      BY <1>1 DEF Launched, Start, Enter, Report, Leave, Remove, Closed, Forget
    <2>2. busy' = busy \/ busy' = busy \cup {s} \/ busy' = busy \ {s}
      BY <1>1 DEF Launched, Start, Enter, Report, Leave, Remove, Closed, Forget
    <2> QED
      BY <2>1, <2>2 DEF BoundInv
  <1>4. CASE Publish(s)
    <2> DEFINE n == Len(log) + 1
    <2>1. log' = Append(log, s) /\ Len(log) < MaxEvents
          /\ rings' = [rings EXCEPT ![s] = Push(@, n)]
      BY <1>4 DEF Publish
    <2>2. Len(log') <= MaxEvents
      <3>1. Len(Append(log, s)) = Len(log) + 1
        BY <1>2, AppendProperties
      <3> QED
        BY <1>2, <2>1, <3>1
    <2>3. n \in Nat
      BY <1>2
    <2> HIDE DEF n
    <2>4. rings[s] \in Seq(Nat) /\ Len(rings[s]) <= RingCapacity
      BY <1>2 DEF BoundInv
    <2>5. Len(Push(rings[s], n)) <= RingCapacity
      BY <2>3, <2>4, PushFits
    <2>6. ASSUME NEW t \in Sessions PROVE Len(rings'[t]) <= RingCapacity
      BY <1>2, <2>1, <2>5 DEF BoundInv
    <2>7. ws'.cursor = ws.cursor /\ ws'.due = ws.due
      <3>1. ws' = ws \/ ws' = [ws EXCEPT !.blind = @ \cup {Len(log) + 1}]
        BY <1>4 DEF Publish
      <3> QED
        BY <1>2, <3>1 DEF WsSet
    <2> QED
      BY <1>3, <2>2, <2>6, <2>7 DEF BoundInv
  <1>5. CASE ~Publish(s)
    <2>1. /\ log' = log /\ ws' = ws
          /\ rings' = rings \/ rings' = [rings EXCEPT ![s] = <<>>]
      BY <1>1, <1>5 DEF Launched, Start, Enter, Report, Leave, Remove, Closed, Forget
    <2>2. ASSUME NEW t \in Sessions PROVE Len(rings'[t]) <= RingCapacity
      <3>1. rings'[t] = rings[t] \/ rings'[t] = <<>>
        BY <1>2, <2>1
      <3> QED
        BY <3>1 DEF BoundInv, CapacityAssumption
    <2> QED
      BY <1>3, <2>1, <2>2 DEF BoundInv
  <1> QED
    BY <1>4, <1>5

\* the connection's: its position on the bus only goes on
LEMMA ClientBounds ==
    ASSUME CapacityAssumption, StreamInv, BoundInv, Client,
           UNCHANGED <<log, rings, opened, closing, busy>>
    PROVE  BoundInv'
  <1>1. /\ ws \in WsSet /\ Len(log) \in Nat /\ ws.cursor \in Nat /\ ws.due \in Nat
        /\ ws.cursor >= 1 /\ ws.due <= MaxDue /\ MaxDue \in Nat
        /\ ChannelCapacity \in Nat
    BY LogIs, WsFields, Ticks DEF StreamInv, Shapes, BoundInv, CapacityAssumption
  <1>2. Oldest >= 1 /\ Oldest \in Nat
    BY <1>1 DEF Oldest
  <1>3. Offline.cursor = 1 /\ Offline.due = 0
    BY DEF Offline
  <1>4. /\ ws'.cursor \in {1, Len(log) + 1, ws.cursor, ws.cursor + 1, Oldest}
        /\ ws'.due \in {0, ws.due, ws.due - 1} \/ (ws'.due = ws.due + 1 /\ ws.due < MaxDue)
    <2>1. CASE Connect
      BY <2>1 DEF Connect, Offline
    <2>2. CASE List \/ (\E s \in Sessions : Read(s))
      BY <1>1, <2>2 DEF List, Read, WsSet
    <2>3. CASE Flush
      BY <1>1, <2>3 DEF Flush, Write, WsSet
    <2>4. CASE Receive
      <3> DEFINE n == ws.cursor
                 m == ws.cursor + 1
                 w == [ws EXCEPT !.cursor = m]
      <3>1. ws' = w \/ ws' = Write(w, n)
        BY <2>4 DEF Receive
      <3> HIDE DEF n, m
      <3>2. w.cursor = m /\ w.due = ws.due /\ w = [ws EXCEPT !.cursor = m]
        BY <1>1 DEF WsSet
      <3>3. Write(w, n).cursor = w.cursor /\ Write(w, n).due = w.due
        BY <1>1 DEF Write, WsSet
      <3> HIDE DEF w
      <3> QED
        BY <3>1, <3>2, <3>3 DEF m
    <2>5. CASE Lagged
      BY <1>1, <2>5 DEF Lagged, WsSet
    <2>6. CASE Tick \/ Hangup
      <3>1. \/ ws' = [ws EXCEPT !.due = @ - 1, !.ping = "asked"]
            \/ ws' = [Offline EXCEPT !.dropped = ws.peer = "alive"] \/ ws' = Offline
        BY <2>6 DEF Tick, Hangup
      <3>2. CASE ws' = [ws EXCEPT !.due = @ - 1, !.ping = "asked"]
        BY <1>1, <3>2 DEF WsSet
      <3>3. ASSUME NEW b, ws' = [Offline EXCEPT !.dropped = b] PROVE ws'.cursor = 1 /\ ws'.due = 0
        BY <3>3 DEF Offline
      <3>4. CASE ws' = Offline
        BY <1>3, <3>4
      <3> QED
        BY <3>1, <3>2, <3>3, <3>4
    <2>7. CASE Elapse
      BY <1>1, <2>7 DEF Elapse, WsSet
    <2>8. CASE Pong \/ Answer \/ Vanish
      BY <1>1, <2>8 DEF Pong, Answer, Vanish, WsSet
    <2> QED
      BY <2>1, <2>2, <2>3, <2>4, <2>5, <2>6, <2>7, <2>8 DEF Client, Drain, Live, Keepalive
  <1>5. ws'.cursor >= 1 /\ ws'.due <= MaxDue
    BY <1>1, <1>2, <1>4
  <1> QED
    BY <1>5 DEF BoundInv

(* Every part of the state keeps its type; a ring never outgrows its         *)
(* capacity, for any number of sessions, any ring and any channel            *)
(* (crates/events/src/ring.rs, push; ws.rs).                                 *)
THEOREM TypeCorrect == ASSUME CapacityAssumption PROVE Spec => []TypeOK
  <1>1. Init => BoundInv
    <2> SUFFICES ASSUME Init PROVE BoundInv
      OBVIOUS
    <2>1. log = <<>> /\ ws.cursor = 1 /\ ws.due = 0
      BY DEF Init, Offline
    <2>2. \A s \in Sessions : rings[s] = <<>>
      BY DEF Init
    <2> QED
      BY <2>1, <2>2 DEF Init, BoundInv, CapacityAssumption
  <1>2. StreamInv /\ BoundInv /\ [Next]_vars => BoundInv'
    <2> SUFFICES ASSUME StreamInv, BoundInv, [Next]_vars PROVE BoundInv'
      OBVIOUS
    <2>1. CASE Server
      BY <2>1, ServerBounds
    <2>2. CASE Client /\ UNCHANGED <<log, rings, opened, closing, busy>>
      BY <2>2, ClientBounds
    <2>3. CASE UNCHANGED vars
      BY <2>3 DEF vars, BoundInv
    <2> QED
      BY <2>1, <2>2, <2>3 DEF Next
  <1>3. StreamInv /\ BoundInv => TypeOK
    <2> SUFFICES ASSUME StreamInv, BoundInv PROVE TypeOK
      OBVIOUS
    <2>1. Shapes /\ Len(log) \in Nat /\ ws \in WsSet
      BY LogIs DEF StreamInv, Shapes
    <2>2. \A s \in Sessions : \A i \in DOMAIN rings[s] : rings[s][i] \in 1 .. Len(log)
      BY <2>1 DEF Shapes, Held
    <2>3. /\ ws.cursor \in 1 .. Len(log) + 1 /\ ws.mark \in 0 .. Len(log)
          /\ ws.due \in 0 .. MaxDue
      BY <2>1, WsFields, Ticks DEF Shapes, BoundInv, CapacityAssumption
    <2> QED
      BY <2>1, <2>2, <2>3, WsFields, Ticks DEF TypeOK, Shapes, BoundInv
  <1> QED
    BY <1>1, <1>2, <1>3, Inductive, PTL DEF Spec
===============================================================================
