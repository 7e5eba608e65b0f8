----------------------------- MODULE EngineProofs ------------------------------
(* Four components of the engine side, for every value of the constants:   *)
(* the buffers of a page (the spacing of its screenshots for every interval *)
(* and number of callers, the queue of its requests for every bound), the   *)
(* store of engine downloads for any callers, processes, files and          *)
(* versions, the launches of any launchers on any ports, and the reference  *)
(* scopes of a target for any adopters, contexts, documents and elements.   *)
EXTENDS EngineStore, EngineLaunch, RefScope, PageBuffers, SequenceTheorems,
        FiniteSetTheorems, TLAPS

(* The instants a reservation is computed from are integers.               *)
Instants == last \in Int /\ now \in [Captors -> Int] /\ clock \in Int

(* A reservation keeps the interval from the one before it, whenever the   *)
(* clock it is computed from was read (page.rs, capture_due).              *)
LEMMA DueSpaced ==
    ASSUME NEW at \in Int, NEW n \in Int, at # None
    PROVE  CaptureDue(at, n) \in Int /\ CaptureDue(at, n) >= at + MinInterval
  BY IntervalAssumption DEF CaptureDue

(* The first reservation is an instant like the others.                    *)
LEMMA DueTyped ==
    ASSUME NEW at \in Int, NEW n \in Int
    PROVE  CaptureDue(at, n) \in Int
  BY IntervalAssumption DEF CaptureDue

(* Every step keeps the instants integers (page.rs, capture_screenshot).   *)
LEMMA StepInstants == Instants /\ [BuffersNext]_bufferVars => Instants'
  <1> SUFFICES ASSUME Instants, [BuffersNext]_bufferVars PROVE Instants'
    OBVIOUS
  <1> USE DEF Instants
  <1>1. CASE Tick
    BY <1>1 DEF Tick
  <1>2. ASSUME NEW c \in Captors, ReadClock(c) PROVE Instants'
    BY <1>2 DEF ReadClock
  <1>3. ASSUME NEW c \in Captors, Reserve(c) PROVE Instants'
    <2>1. CaptureDue(last, now[c]) \in Int
      BY DueTyped
    <2> QED
      BY <1>3, <2>1 DEF Reserve, None
  <1>4. CASE RequestNext
    BY <1>4 DEF RequestNext, Note, Take, captureVars
  <1>5. CASE UNCHANGED bufferVars
    BY <1>5 DEF bufferVars
  <1> QED
    BY <1>1, <1>2, <1>3, <1>4, <1>5 DEF BuffersNext, CaptureNext

(* Two consecutive screenshots of a page are at least the interval apart,  *)
(* whatever the interval, however many callers and however old the clock   *)
(* readings they hold the lock with (page.rs, capture_screenshot).         *)
THEOREM Spaced == BuffersSpec => CapturesSpaced
  <1>1. BuffersInit => Instants
    BY DEF BuffersInit, Instants, None
  <1>2. ASSUME Instants, [BuffersNext]_bufferVars
        PROVE  [last' # last /\ last # None => last' >= last + MinInterval]_bufferVars
    <2>1. CASE Tick
      BY <2>1 DEF Tick
    <2>2. ASSUME NEW c \in Captors, ReadClock(c) PROVE last' = last
      BY <2>2 DEF ReadClock
    <2>3. ASSUME NEW c \in Captors, Reserve(c), last # None
          PROVE  last' >= last + MinInterval
      <3>1. last \in Int /\ now[c] \in Int
        BY <1>2 DEF Instants
      <3> QED
        BY <2>3, <3>1, DueSpaced DEF Reserve
    <2>4. CASE RequestNext
      BY <2>4 DEF RequestNext, Note, Take, captureVars
    <2> QED
      BY <1>2, <2>1, <2>2, <2>3, <2>4 DEF BuffersNext, CaptureNext, bufferVars
  <1> QED
    BY <1>1, <1>2, StepInstants, PTL DEF BuffersSpec, CapturesSpaced
-------------------------------------------------------------------------------
\* r is s without its p-th element
Skips(s, p, r) ==
    /\ Len(r) = Len(s) - 1
    /\ \A i \in 1 .. Len(r) : r[i] = IF i < p THEN s[i] ELSE s[i + 1]

(* What a sequence without its p-th element holds: everything else, in     *)
(* order (VecDeque::pop_front with p = 1, VecDeque::retain).               *)
LEMMA LeftOut ==
    ASSUME NEW S, NEW s \in Seq(S), IsInjective(s), NEW p \in DOMAIN s,
           NEW r \in Seq(S), Skips(s, p, r)
    PROVE  IsInjective(r) /\ Range(r) = Range(s) \ {s[p]}
  <1> DEFINE n == Len(s) - 1
  <1>1. /\ n \in Nat /\ Len(s) = n + 1 /\ DOMAIN s = 1 .. n + 1 /\ p \in 1 .. n + 1
        /\ \A i \in 1 .. n + 1 : s[i] \in S
    BY LenProperties, ElementOfSeq
  <1>2. DOMAIN r = 1 .. n /\ \A i \in 1 .. n : r[i] = IF i < p THEN s[i] ELSE s[i + 1]
    BY LenProperties DEF Skips
  <1>3. \A i, j \in 1 .. n + 1 : s[i] = s[j] => i = j
    BY <1>1 DEF IsInjective
  <1> HIDE DEF n
  <1>6. ASSUME NEW i \in 1 .. n, NEW j \in 1 .. n, r[i] = r[j] PROVE i = j
    BY <1>1, <1>2, <1>3, <1>6
  <1>7. Range(r) \subseteq Range(s) \ {s[p]}
    <2> SUFFICES ASSUME NEW i \in 1 .. n PROVE r[i] \in Range(s) \ {s[p]}
      BY <1>2 DEF Range
    <2>1. CASE i < p
      BY <2>1, <1>1, <1>2, <1>3 DEF Range
    <2>2. CASE ~(i < p)
      <3>1. i + 1 \in 1 .. n + 1 /\ i + 1 # p /\ r[i] = s[i + 1]
        BY <2>2, <1>1, <1>2
      <3>2. s[i + 1] # s[p]
        BY <3>1, <1>1, <1>3
      <3> QED
        BY <3>1, <3>2, <1>1 DEF Range
    <2> QED
      BY <2>1, <2>2
  <1>8. Range(s) \ {s[p]} \subseteq Range(r)
    <2> SUFFICES ASSUME NEW i \in 1 .. n + 1, s[i] # s[p] PROVE s[i] \in Range(r)
      BY <1>1 DEF Range
    <2>1. CASE i < p
      <3>1. i \in 1 .. n /\ r[i] = s[i]
        BY <2>1, <1>1, <1>2
      <3> QED
        BY <3>1, <1>2 DEF Range
    <2>2. CASE i > p
      <3>1. i - 1 \in 1 .. n /\ r[i - 1] = s[i]
        BY <2>2, <1>1, <1>2
      <3> QED
        BY <3>1, <1>2 DEF Range
    <2> QED
      BY <2>1, <2>2, <1>1
  <1> QED
    BY <1>2, <1>6, <1>7, <1>8 DEF IsInjective

(* An id that is not queued is queued at the end.                          *)
LEMMA PutLast ==
    ASSUME NEW S, NEW s \in Seq(S), IsInjective(s), NEW x \in S, x \notin Range(s)
    PROVE  /\ Append(s, x) \in Seq(S) /\ Len(Append(s, x)) = Len(s) + 1
           /\ IsInjective(Append(s, x)) /\ Range(Append(s, x)) = Range(s) \cup {x}
  <1> DEFINE n == Len(s)
             r == Append(s, x)
  <1>1. n \in Nat /\ DOMAIN s = 1 .. n
    BY LenProperties
  <1>2. /\ r \in Seq(S) /\ Len(r) = n + 1 /\ DOMAIN r = 1 .. n + 1
        /\ \A i \in 1 .. n : r[i] = s[i]
        /\ r[n + 1] = x
    BY AppendProperties, LenProperties
  <1>3. \A i \in 1 .. n : s[i] # x
    BY <1>1 DEF Range
  <1>4. \A i, j \in 1 .. n : s[i] = s[j] => i = j
    BY <1>1 DEF IsInjective
  <1>5. \A i \in 1 .. n + 1 : i \in 1 .. n \/ i = n + 1
    BY <1>1
  <1>6. \A i \in 1 .. n : i \in 1 .. n + 1
    BY <1>1
  <1>7. n + 1 \in 1 .. n + 1
    BY <1>1
  <1> HIDE DEF n, r
  <1>8. ASSUME NEW i \in 1 .. n + 1, NEW j \in 1 .. n + 1, r[i] = r[j] PROVE i = j
    BY <1>2, <1>3, <1>4, <1>5, <1>8
  <1>9. Range(r) = Range(s) \cup {x}
    BY <1>1, <1>2, <1>5, <1>6, <1>7 DEF Range
  <1> QED
    BY <1>2, <1>8, <1>9 DEF IsInjective, n, r

(* The queue of a page holds request ids, and QueueIsTable.                *)
Queued == order \in Seq(RequestIds) /\ QueueIsTable

(* A request that is sent, or redirected, leaves the queue the table's     *)
(* (page.rs, PendingRequests::note).                                       *)
LEMMA NoteQueues == ASSUME Queued, NEW id \in RequestIds, Note(id) PROVE Queued'
  <1> DEFINE full == id \notin DOMAIN map /\ Len(order) >= PENDING_CAP
             m == IF full THEN Without(map, Head(order)) ELSE map
             o == IF full THEN Tail(order) ELSE order
  <1>1. /\ order' = IF id \in DOMAIN m THEN o ELSE Append(o, id)
        /\ DOMAIN map' = DOMAIN m \cup {id}
    BY DEF Note
  <1>2. order \in Seq(RequestIds) /\ Len(order) \in Nat /\ DOMAIN order = 1 .. Len(order)
    BY LenProperties DEF Queued
  <1>3. /\ o \in Seq(RequestIds) /\ IsInjective(o) /\ Range(o) = DOMAIN m
        /\ id \in DOMAIN m \/ Len(o) < PENDING_CAP
        /\ Len(o) <= PENDING_CAP
    <2>1. CASE full
      <3>1. 1 \in DOMAIN order /\ order # << >>
        BY <2>1, <1>2, CapAssumption
      <3>2. Head(order) = order[1]
        BY <1>2
      <3> DEFINE t == Tail(order)
      <3>3. /\ t \in Seq(RequestIds) /\ Len(t) = Len(order) - 1
            /\ \A i \in 1 .. Len(t) : t[i] = order[i + 1]
        BY <1>2, <3>1, HeadTailProperties
      <3>4. IsInjective(order) /\ Range(order) = DOMAIN map /\ Len(order) <= PENDING_CAP
        BY DEF Queued, QueueIsTable
      <3> HIDE DEF t
      <3>7. Skips(order, 1, t)
        BY <3>3 DEF Skips
      <3>5. IsInjective(t) /\ Range(t) = Range(order) \ {order[1]}
        BY <1>2, <3>1, <3>3, <3>4, <3>7, LeftOut
      <3>6. DOMAIN m = DOMAIN map \ {order[1]}
        BY <2>1, <3>2 DEF Without, Restrict
      <3> QED
        <4>1. o = t /\ Len(t) < PENDING_CAP
          BY <2>1, <3>3, <3>4, <1>2, CapAssumption DEF t
        <4>2. Range(t) = DOMAIN m
          BY <3>4, <3>5, <3>6
        <4> HIDE DEF o, m
        <4> QED
          BY <4>1, <4>2, <3>3, <3>5, CapAssumption, LenProperties
    <2>2. CASE ~full
      BY <2>2, <1>2, CapAssumption DEF Queued, QueueIsTable
    <2> QED
      BY <2>1, <2>2
  <1> HIDE DEF m, o
  <1>4. CASE id \in DOMAIN m
    <2>1. order' = o /\ DOMAIN map' = DOMAIN m
      BY <1>1, <1>4
    <2> QED
      BY <1>3, <2>1 DEF Queued, QueueIsTable
  <1>5. CASE id \notin DOMAIN m
    <2>1. order' = Append(o, id) /\ DOMAIN map' = DOMAIN m \cup {id}
      BY <1>1, <1>5
    <2>2. /\ Append(o, id) \in Seq(RequestIds) /\ Len(Append(o, id)) = Len(o) + 1
          /\ IsInjective(Append(o, id)) /\ Range(Append(o, id)) = Range(o) \cup {id}
      BY <1>3, <1>5, PutLast
    <2>3. Len(o) + 1 <= PENDING_CAP
      BY <1>3, <1>5, LenProperties, CapAssumption
    <2> QED
      BY <1>3, <2>1, <2>2, <2>3 DEF Queued, QueueIsTable
  <1> QED
    BY <1>4, <1>5

(* A request's outcome takes it from the table and from the queue          *)
(* (page.rs, PendingRequests::take).                                       *)
LEMMA TakeQueues == ASSUME Queued, NEW id \in RequestIds, Take(id) PROVE Queued'
  <1>1. DOMAIN map' = DOMAIN map \ {id}
    BY DEF Take, Without, Restrict
  <1>2. CASE id \notin DOMAIN map
    BY <1>1, <1>2 DEF Take, Queued, QueueIsTable
  <1>3. CASE id \in DOMAIN map
    <2> DEFINE p == CHOOSE i \in DOMAIN order : order[i] = id
    <2>1. \E i \in DOMAIN order : order[i] = id
      BY <1>3 DEF Queued, QueueIsTable, Range
    <2>2. p \in DOMAIN order /\ order[p] = id
      BY <2>1
    <2>3. order' = [i \in 1 .. Len(order) - 1 |->
                      IF i < p THEN order[i] ELSE order[i + 1]]
      BY <1>3 DEF Take, Unqueued
    <2> HIDE DEF p
    <2> DEFINE r == order'
               n == Len(order) - 1
    <2>4. /\ order \in Seq(RequestIds) /\ IsInjective(order) /\ n \in Nat
          /\ Len(order) = n + 1 /\ DOMAIN order = 1 .. n + 1
          /\ \A i \in 1 .. n + 1 : order[i] \in RequestIds
      BY <2>2, LenProperties, ElementOfSeq DEF Queued, QueueIsTable
    <2>5. r \in Seq(RequestIds) /\ Len(r) = n
      <3> HIDE DEF n
      <3>1. r = [i \in 1 .. n |-> IF i < p THEN order[i] ELSE order[i + 1]]
        BY <2>3 DEF n
      <3>2. \A i \in 1 .. n : i \in 1 .. n + 1 /\ i + 1 \in 1 .. n + 1
        BY <2>4
      <3>3. r \in [1 .. n -> RequestIds]
        BY <2>4, <3>1, <3>2
      <3> QED
        BY <2>4, <3>3
    <2>6. \A i \in 1 .. Len(r) : r[i] = IF i < p THEN order[i] ELSE order[i + 1]
      BY <2>3, <2>5
    <2> HIDE DEF r
    <2>7. IsInjective(r) /\ Range(r) = Range(order) \ {id}
      <3>1. Skips(order, p, r)
        BY <2>5, <2>6 DEF Skips
      <3>2. IsInjective(r) /\ Range(r) = Range(order) \ {order[p]}
        BY <2>2, <2>4, <2>5, <3>1, LeftOut
      <3> QED
        BY <2>2, <3>2
    <2>8. Len(r) <= PENDING_CAP
      BY <2>4, <2>5, CapAssumption DEF Queued, QueueIsTable
    <2> QED
      BY <1>1, <2>5, <2>7, <2>8 DEF Queued, QueueIsTable, r
  <1> QED
    BY <1>2, <1>3

(* The queue lists the ids of the table, each once and within the bound,   *)
(* whatever the bound and the order in which requests are sent, redirected *)
(* and answered (page.rs, PendingRequests).                                *)
THEOREM QueueFits == BuffersSpec => []QueueIsTable
  <1>1. BuffersInit => Queued
    <2> SUFFICES ASSUME BuffersInit PROVE Queued
      OBVIOUS
    <2>1. order = << >> /\ map = << >>
      BY DEF BuffersInit
    <2>2. Len(order) = 0 /\ DOMAIN order = {} /\ DOMAIN map = {}
      BY <2>1
    <2> QED
      BY <2>1, <2>2, CapAssumption DEF Queued, QueueIsTable, Range, IsInjective
  <1>2. Queued /\ [BuffersNext]_bufferVars => Queued'
    <2> SUFFICES ASSUME Queued, [BuffersNext]_bufferVars PROVE Queued'
      OBVIOUS
    <2>1. CASE UNCHANGED <<map, order>>
      BY <2>1 DEF Queued, QueueIsTable
    <2>2. CASE CaptureNext
      BY <2>1, <2>2 DEF CaptureNext, Tick, ReadClock, Reserve, pendingVars
    <2>3. CASE RequestNext
      BY <2>3, NoteQueues, TakeQueues DEF RequestNext
    <2> QED
      BY <2>1, <2>2, <2>3 DEF BuffersNext, bufferVars
  <1>3. Queued => QueueIsTable
    BY DEF Queued
  <1> QED
    BY <1>1, <1>2, <1>3, PTL DEF BuffersSpec
-------------------------------------------------------------------------------
(* Installing: the directory of a version is whole, and the staging         *)
(* directories belong to the calls in flight.                               *)

InFlight == {"extract", "write", "rename", "cleanup"}
CallerSet ==
    [at : Settled \cup InFlight \cup {"idle", "manifest", "zip", "install"},
     tries : 0 .. MaxAttempts - 1, version : Versions, name : Names \cup {<<0, 0, 0>>},
     left : SUBSET Files, file : Files, found : BOOLEAN]

StoreTypes ==
    /\ home \in [Callers -> Processes] /\ stable \in Versions /\ deaths \in 0 .. MaxDeaths
    /\ dirs \in [Versions -> Contents] /\ staging \in [Names -> Contents]
    /\ attempt \in [Processes -> 0 .. MaxStagings]
    /\ caller \in [Callers -> CallerSet]

(* What a call that extracts has: its staging directory, in which every    *)
(* entry it is done with is whole.                                         *)
Fill(j, d) ==
    /\ d # Absent
    /\ \A f \in Files : \/ d[f] = "whole" \/ f \in j.left
                        \/ j.at = "write" /\ f = j.file
                        \/ f = Binary /\ ~j.found
    /\ j.found => Binary \notin j.left /\ ~(j.at = "write" /\ j.file = Binary)
    /\ j.at = "write" => j.file \notin j.left
    /\ j.at = "rename" => j.left = {} /\ j.found

(* What a call at each step of ensure and install relies on: j is the call, *)
(* p its process, the rest the state.                                       *)
Right(j, p, stg, att, ds) ==
    /\ j.at \in InFlight => j.name \in Names /\ j.name[2] = p /\ j.name[3] < att[p]
    /\ j.at \in {"idle", "manifest", "zip", "install"} => ~j.found
    /\ j.at = "install" => Files \ {Binary} \subseteq j.left
    /\ j.at \in {"extract", "write", "rename"} => Fill(j, stg[j.name])
    /\ j.at = "ready" => IsFile(ds[j.version])

Busy(c) == caller[c].at \in InFlight

(* Calls in flight, of one process or of several, have staging directories *)
(* of their own.                                                           *)
Apart == \A c, d \in Callers : Busy(c) /\ Busy(d) /\ caller[c].name = caller[d].name => c = d

Whole(d) == d = Absent \/ \A f \in Files : d[f] = "whole"

Owned == deaths = 0 =>
    \A n \in Names : staging[n] # Absent => \E c \in Callers : Busy(c) /\ caller[c].name = n

StoreInv ==
    /\ StoreTypes
    /\ \A c \in Callers : Right(caller[c], home[c], staging, attempt, dirs)
    /\ Apart
    /\ \A v \in Versions : Whole(dirs[v])
    /\ Owned

(* Only the call c changes, and becomes j.                                 *)
Moves(c, j) == j \in CallerSet /\ caller' = [caller EXCEPT ![c] = j]

LEMMA PutIs ==
    ASSUME StoreTypes, NEW c \in Callers, NEW j, Moves(c, j)
    PROVE  /\ caller' \in [Callers -> CallerSet] /\ caller'[c] = j
           /\ \A d \in Callers : d # c => caller'[d] = caller[d]
  BY DEF Moves, StoreTypes

LEMMA CallFields ==
    ASSUME NEW j \in CallerSet
    PROVE  /\ j.at \in Settled \cup InFlight \cup {"idle", "manifest", "zip", "install"}
           /\ j.tries \in 0 .. MaxAttempts - 1 /\ j.version \in Versions
           /\ j.name \in Names \cup {<<0, 0, 0>>} /\ j.left \subseteq Files
           /\ j.file \in Files /\ j.found \in BOOLEAN
  BY DEF CallerSet

LEMMA IdleIs == Idle \in CallerSet /\ Idle.at = "idle" /\ Idle.found = FALSE
  BY StoreAssumption DEF Idle, CallerSet

LEMMA NameIs ==
    ASSUME NEW v \in Versions, NEW p \in Processes, NEW k \in 0 .. MaxStagings - 1
    PROVE  /\ <<v, p, k>> \in Names /\ <<v, p, k>>[2] = p /\ <<v, p, k>>[3] = k
  BY DEF Names

LEMMA NameParts ==
    ASSUME NEW n \in Names
    PROVE  n[2] \in Processes /\ n[3] \in 0 .. MaxStagings - 1
  BY DEF Names

LEMMA Directories ==
    /\ Absent \in Contents /\ Empty \in Contents /\ Empty # Absent /\ ~IsFile(Absent)
    /\ \A d \in Contents : \A f \in Files : \A s \in {"torn", "whole"} :
          d # Absent => [d EXCEPT ![f] = s] \in Contents /\ [d EXCEPT ![f] = s] # Absent
  <1>1. Binary \in Files
    BY StoreAssumption
  <1>2. Absent \in Contents /\ Empty \in Contents /\ Empty # Absent /\ ~IsFile(Absent)
    BY <1>1 DEF Contents, Absent, Empty, IsFile
  <1>3. ASSUME NEW d \in Contents, NEW f \in Files, NEW s \in {"torn", "whole"}, d # Absent
        PROVE  [d EXCEPT ![f] = s] \in Contents /\ [d EXCEPT ![f] = s] # Absent
    <2>1. d \in [Files -> {"none", "torn", "whole"}]
      BY <1>3 DEF Contents
    <2>2. [d EXCEPT ![f] = s] \in [Files -> {"none", "torn", "whole"}]
      BY <2>1
    <2>3. [d EXCEPT ![f] = s][f] = s
      BY <2>1
    <2>4. Absent[f] = "gone"
      BY DEF Absent
    <2> QED
      BY <2>2, <2>3, <2>4 DEF Contents
  <1> QED
    BY <1>2, <1>3

(* The other calls rely on what they relied on: what c did to a staging    *)
(* directory it did to one of none of theirs, and a version that is there  *)
(* stays as it is.                                                         *)
LEMMA OthersKeep ==
    ASSUME StoreInv, NEW c \in Callers, NEW j, Moves(c, j), home' = home, NEW n,
           \A m \in Names : m # n => staging'[m] = staging[m],
           \A d \in Callers : d # c /\ Busy(d) => caller[d].name # n,
           \A p \in Processes : attempt'[p] >= attempt[p],
           attempt' \in [Processes -> 0 .. MaxStagings],
           \A v \in Versions : dirs[v] # Absent => dirs'[v] = dirs[v],
           NEW d \in Callers, d # c
    PROVE  Right(caller'[d], home'[d], staging', attempt', dirs')
  <1>1. StoreTypes /\ Right(caller[d], home[d], staging, attempt, dirs)
    BY DEF StoreInv
  <1>2. caller'[d] = caller[d] /\ home'[d] = home[d] /\ home[d] \in Processes
    BY <1>1, PutIs DEF StoreTypes
  <1> DEFINE i == caller[d]
  <1>3. i \in CallerSet
    BY <1>1 DEF StoreTypes
  <1>4. i.version \in Versions
    BY <1>3, CallFields
  <1>5. attempt'[home[d]] >= attempt[home[d]] /\ attempt[home[d]] \in Int /\ attempt'[home[d]] \in Int
    BY <1>1, <1>2 DEF StoreTypes
  <1>6. i.at \in InFlight => staging'[i.name] = staging[i.name]
    BY <1>1 DEF Busy, Right
  <1>7. i.at = "ready" => IsFile(dirs'[i.version])
    <2>1. IsFile(dirs[i.version]) => dirs'[i.version] = dirs[i.version]
      BY <1>4, Directories
    <2> QED
      BY <1>1, <2>1 DEF Right
  <1>8. i.at \in InFlight => i.name \in Names /\ i.name[2] = home[d] /\ i.name[3] < attempt'[home[d]]
    <2>1. i.name \in Names => i.name[3] \in Int
      BY NameParts
    <2> QED
      BY <1>1, <1>5, <2>1 DEF Right
  <1>9. i.at \in {"extract", "write", "rename"} => Fill(i, staging'[i.name])
    BY <1>1, <1>6 DEF Right, InFlight
  <1>10. /\ i.at \in {"idle", "manifest", "zip", "install"} => ~i.found
         /\ i.at = "install" => Files \ {Binary} \subseteq i.left
    BY <1>1 DEF Right
  <1> HIDE DEF i
  <1>11. Right(i, home[d], staging', attempt', dirs')
    BY <1>7, <1>8, <1>9, <1>10 DEF Right
  <1> QED
    BY <1>2, <1>11 DEF i

(* A step of c that leaves the directories alone, and neither takes nor    *)
(* gives back a staging directory.                                         *)
LEMMA QuietKeeps ==
    ASSUME StoreInv, NEW c \in Callers, NEW j, Moves(c, j), Quiet,
           (j.at \in InFlight) <=> Busy(c), j.name = caller[c].name \/ j.at \notin InFlight,
           Right(j, home[c], staging, attempt, dirs)
    PROVE  StoreInv'
  <1>1. StoreTypes /\ Apart /\ Owned
    BY DEF StoreInv
  <1>2. UNCHANGED <<home, stable, dirs, staging, attempt, deaths>>
    BY DEF Quiet
  <1>3. /\ caller' \in [Callers -> CallerSet] /\ caller'[c] = j
        /\ \A d \in Callers : d # c => caller'[d] = caller[d]
    BY <1>1, PutIs
  <1>4. StoreTypes'
    BY <1>1, <1>2, <1>3 DEF StoreTypes
  <1>5. \A d \in Callers : Busy(d)' <=> Busy(d)
    BY <1>3 DEF Busy
  <1>6. \A d \in Callers : Busy(d) => caller'[d].name = caller[d].name
    BY <1>3 DEF Busy
  <1>7. Apart'
    BY <1>1, <1>5, <1>6 DEF Apart
  <1>8. Owned'
    BY <1>1, <1>2, <1>5, <1>6 DEF Owned
  <1>9. \A d \in Callers : Right(caller'[d], home'[d], staging', attempt', dirs')
    BY <1>2, <1>3 DEF StoreInv
  <1>10. \A v \in Versions : Whole(dirs'[v])
    BY <1>2 DEF StoreInv
  <1> QED
    BY <1>4, <1>7, <1>8, <1>9, <1>10 DEF StoreInv

(* ensure() or install() returns.                                          *)
LEMMA EndDoes ==
    ASSUME StoreInv, NEW c \in Callers, NEW at \in Settled, End(c, at)
    PROVE  \E j : /\ Moves(c, j) /\ j.at = at /\ ~j.found
                  /\ at = "ready" => j.version = caller[c].version
  <1>1. caller[c] \in CallerSet /\ caller[c].version \in Versions /\ 0 \in Versions
    BY CallFields, StoreAssumption DEF StoreInv, StoreTypes
  <1> DEFINE v == IF at = "ready" THEN caller[c].version ELSE 0
             j == [Idle EXCEPT !.at = at, !.version = v]
  <1>2. v \in Versions
    BY <1>1
  <1>3. caller' = [caller EXCEPT ![c] = j]
    BY DEF End
  <1> HIDE DEF v
  <1>4. j \in CallerSet /\ j.at = at /\ j.version = v /\ j.found = FALSE
    BY <1>2, IdleIs DEF Idle, CallerSet
  <1> HIDE DEF j
  <1> QED
    BY <1>3, <1>4 DEF Moves, v

LEMMA EndKeeps ==
    ASSUME StoreInv, NEW c \in Callers, NEW at \in Settled, End(c, at), Quiet, ~Busy(c),
           at = "ready" => IsFile(dirs[caller[c].version])
    PROVE  StoreInv'
  <1>1. PICK j : /\ Moves(c, j) /\ j.at = at /\ ~j.found
                 /\ at = "ready" => j.version = caller[c].version
    BY EndDoes
  <1>2. Right(j, home[c], staging, attempt, dirs)
    BY <1>1 DEF Right, Settled, InFlight
  <1>3. j.at \notin InFlight
    BY <1>1 DEF Settled, InFlight
  <1> QED
    BY <1>1, <1>2, <1>3, QuietKeeps

(* The call goes on to a step before it has a staging directory.           *)
LEMMA GoKeeps ==
    ASSUME StoreInv, NEW c \in Callers, NEW j \in CallerSet, caller' = [caller EXCEPT ![c] = j],
           Quiet, ~Busy(c), j.at \in {"manifest", "zip", "install", "ready"},
           j.at = "ready" => IsFile(dirs[j.version]), j.at # "ready" => ~j.found,
           j.at = "install" => Files \ {Binary} \subseteq j.left
    PROVE  StoreInv'
  <1>1. Right(j, home[c], staging, attempt, dirs) /\ j.at \notin InFlight
    BY DEF Right, InFlight
  <1> QED
    BY <1>1, QuietKeeps DEF Moves

(* ensure up to the install: lookups and fetches (download/mod.rs).        *)
LEMMA EnsureKeeps ==
    ASSUME StoreInv, NEW c \in Callers,
           \/ Explicit(c) \/ Lookup(c) \/ FetchAgain(c) \/ FetchFinal(c)
           \/ Manifest(c) \/ Download(c) \/ Reuse(c)
    PROVE  StoreInv'
  <1> DEFINE i == caller[c]
  <1>1. /\ caller \in [Callers -> CallerSet] /\ i \in CallerSet /\ stable \in Versions
        /\ Right(i, home[c], staging, attempt, dirs)
    BY DEF StoreInv, StoreTypes
  <1>2. /\ i.at \in {"idle", "manifest", "zip", "install"} /\ ~Busy(c) /\ Quiet
    BY DEF Explicit, Lookup, FetchAgain, FetchFinal, Manifest, Download, Reuse, Busy, InFlight
  <1>3. ~i.found
    BY <1>1, <1>2 DEF Right
  <1>4. i.tries \in 0 .. MaxAttempts - 1 /\ MaxAttempts \in Nat \ {0}
    BY <1>1, CallFields, StoreAssumption
  <1>5. ASSUME End(c, "failed") \/ End(c, "external") PROVE StoreInv'
    BY <1>2, <1>5, EndKeeps DEF Settled
  <1>6. CASE Explicit(c) \/ FetchFinal(c)
    BY <1>5, <1>6 DEF Explicit, FetchFinal
  <1>7. CASE Reuse(c)
    <2>1. CASE i.version = 0
      BY <1>5, <1>7, <2>1 DEF Reuse
    <2>2. CASE i.version # 0
      <3>1. End(c, "ready") /\ IsFile(dirs[i.version])
        BY <1>7, <2>2 DEF Reuse
      <3> QED
        BY <1>2, <3>1, EndKeeps DEF Settled
    <2> QED
      BY <2>1, <2>2
  <1>8. CASE FetchAgain(c)
    <2>1. CASE i.tries + 1 < MaxAttempts
      <3> DEFINE k == i.tries + 1
                 j == [i EXCEPT !.tries = k]
      <3>1. k \in 0 .. MaxAttempts - 1
        BY <2>1, <1>4
      <3>2. caller' = [caller EXCEPT ![c] = j]
        BY <1>8, <2>1, <1>1 DEF FetchAgain
      <3> HIDE DEF k
      <3>3. j \in CallerSet /\ j.at = i.at /\ j.found = i.found
        BY <1>1, <3>1 DEF CallerSet
      <3>4. i.at \in {"manifest", "zip"}
        BY <1>8 DEF FetchAgain
      <3> HIDE DEF j
      <3> QED
        BY <1>2, <1>3, <3>2, <3>3, <3>4, GoKeeps
    <2>2. CASE ~(i.tries + 1 < MaxAttempts)
      BY <1>5, <1>8, <2>2 DEF FetchAgain
    <2> QED
      BY <2>1, <2>2
  <1>9. CASE Lookup(c)
    <2>1. CASE Go(c, "manifest")
      <3> DEFINE j == [i EXCEPT !.at = "manifest"]
      <3>1. caller' = [caller EXCEPT ![c] = j]
        BY <2>1, <1>1 DEF Go
      <3>2. j \in CallerSet /\ j.at = "manifest" /\ j.found = i.found
        BY <1>1 DEF CallerSet
      <3> HIDE DEF j
      <3> QED
        BY <1>2, <1>3, <3>1, <3>2, GoKeeps
    <2>2. CASE ~Go(c, "manifest")
      <3>1. PICK v \in Versions : /\ Newest(v)
                                  /\ caller' = [caller EXCEPT ![c].at = "ready", ![c].version = v]
        BY <1>9, <2>2 DEF Lookup
      <3> DEFINE j == [i EXCEPT !.at = "ready", !.version = v]
      <3>2. caller' = [caller EXCEPT ![c] = j]
        BY <3>1, <1>1
      <3>3. j \in CallerSet /\ j.at = "ready" /\ j.version = v
        BY <1>1 DEF CallerSet, Settled
      <3>4. IsFile(dirs[v])
        BY <3>1 DEF Newest, Launchable
      <3> HIDE DEF j
      <3> QED
        BY <1>2, <3>2, <3>3, <3>4, GoKeeps
    <2> QED
      BY <2>1, <2>2
  <1>10. CASE Manifest(c)
    <2> DEFINE a == IF Newest(stable) THEN "ready" ELSE "zip"
               j == [i EXCEPT !.at = a, !.version = stable, !.tries = 0]
    <2>1. caller' = [caller EXCEPT ![c] = j]
      BY <1>10, <1>1 DEF Manifest
    <2>2. a \in {"ready", "zip"} /\ 0 \in 0 .. MaxAttempts - 1
      BY <1>4
    <2>3. a = "ready" => IsFile(dirs[stable])
      BY DEF Newest, Launchable
    <2> HIDE DEF a
    <2>4. j \in CallerSet /\ j.at = a /\ j.version = stable /\ j.found = i.found
      BY <1>1, <2>2 DEF CallerSet, Settled
    <2> HIDE DEF j
    <2> QED
      BY <1>2, <1>3, <2>1, <2>2, <2>3, <2>4, GoKeeps
  <1>11. CASE Download(c)
    <2>1. PICK archive \in {Files, Files \ {Binary}} :
            caller' = [caller EXCEPT ![c].at = "install", ![c].left = archive]
      BY <1>11 DEF Download
    <2> DEFINE j == [i EXCEPT !.at = "install", !.left = archive]
    <2>2. caller' = [caller EXCEPT ![c] = j]
      BY <2>1, <1>1
    <2>3. j \in CallerSet /\ j.at = "install" /\ j.left = archive /\ j.found = i.found
      BY <1>1, <2>1 DEF CallerSet
    <2>4. Files \ {Binary} \subseteq archive
      BY <2>1
    <2> HIDE DEF j
    <2> QED
      BY <1>2, <1>3, <2>2, <2>3, <2>4, GoKeeps
  <1> QED
    BY <1>6, <1>7, <1>8, <1>9, <1>10, <1>11

(* install gives up on an archive, or has all of it.                       *)
LEMMA TurnKeeps ==
    ASSUME StoreInv, NEW c \in Callers, Refuse(c) \/ Extracted(c)
    PROVE  StoreInv'
  <1> DEFINE i == caller[c]
             a == IF Refuse(c) THEN "cleanup"
                  ELSE IF i.found THEN "rename" ELSE "cleanup"
             j == [i EXCEPT !.at = a]
  <1>1. /\ caller \in [Callers -> CallerSet] /\ i \in CallerSet
        /\ Right(i, home[c], staging, attempt, dirs)
    BY DEF StoreInv, StoreTypes
  <1>2. caller' = [caller EXCEPT ![c] = j] /\ Quiet
    BY <1>1 DEF Refuse, Extracted, Go
  <1>3. i.at \in {"extract", "write"} /\ Busy(c)
    BY DEF Refuse, Extracted, Busy, InFlight
  <1>4. a \in {"cleanup", "rename"}
    OBVIOUS
  <1>5. a = "rename" => i.at = "extract" /\ i.left = {} /\ i.found
    BY DEF Extracted, Refuse
  <1> HIDE DEF a
  <1>6. /\ j \in CallerSet /\ j.at = a /\ j.name = i.name /\ j.left = i.left
        /\ j.found = i.found /\ j.file = i.file
    BY <1>1, <1>4 DEF CallerSet, InFlight
  <1> HIDE DEF j
  <1>7. j.at \in InFlight
    BY <1>4, <1>6 DEF InFlight
  <1>8. j.name \in Names /\ j.name[2] = home[c] /\ j.name[3] < attempt[home[c]]
    BY <1>1, <1>3, <1>6 DEF Right, Busy
  <1>9. a = "rename" => Fill(j, staging[j.name])
    <2> HAVE a = "rename"
    <2>1. Fill(i, staging[i.name])
      BY <1>1, <1>3 DEF Right
    <2> QED
      BY <2>1, <1>5, <1>6 DEF Fill
  <1>10. Right(j, home[c], staging, attempt, dirs)
    BY <1>4, <1>6, <1>8, <1>9 DEF Right
  <1> QED
    BY <1>2, <1>3, <1>6, <1>7, <1>10, QuietKeeps DEF Moves

(* A step of c on the staging directory n, its own and no other call's.    *)
LEMMA StagingKeeps ==
    ASSUME StoreInv, NEW c \in Callers, NEW j, Moves(c, j), NEW n \in Names,
           UNCHANGED <<home, stable, deaths>>,
           staging' \in [Names -> Contents],
           \A m \in Names : m # n => staging'[m] = staging[m],
           \A d \in Callers : d # c /\ Busy(d) => caller[d].name # n,
           Busy(c) => caller[c].name = n,
           j.at \in InFlight => j.name = n,
           staging'[n] # Absent => j.at \in InFlight,
           attempt' \in [Processes -> 0 .. MaxStagings],
           \A p \in Processes : attempt'[p] >= attempt[p],
           dirs' \in [Versions -> Contents],
           \A v \in Versions : dirs[v] # Absent => dirs'[v] = dirs[v],
           \A v \in Versions : Whole(dirs'[v]),
           Right(j, home[c], staging', attempt', dirs')
    PROVE  StoreInv'
  <1>1. StoreTypes /\ Apart /\ Owned
    BY DEF StoreInv
  <1>2. /\ caller' \in [Callers -> CallerSet] /\ caller'[c] = j
        /\ \A d \in Callers : d # c => caller'[d] = caller[d]
    BY <1>1, PutIs
  <1>3. StoreTypes'
    BY <1>1, <1>2 DEF StoreTypes
  <1>4. ASSUME NEW d \in Callers PROVE Right(caller'[d], home'[d], staging', attempt', dirs')
    <2>1. CASE d = c
      BY <2>1, <1>2
    <2>2. CASE d # c
      BY <2>2, OthersKeep
    <2> QED
      BY <2>1, <2>2
  <1>5. \A d \in Callers : d # c /\ Busy(d)' => Busy(d) /\ caller'[d].name = caller[d].name
                                               /\ caller[d].name # n
    BY <1>2 DEF Busy
  <1>6. Busy(c)' => caller'[c].name = n
    BY <1>2 DEF Busy
  <1>7. Apart'
    BY <1>1, <1>5, <1>6 DEF Apart
  <1>8. Owned'
    <2> SUFFICES ASSUME deaths = 0, NEW m \in Names, staging'[m] # Absent
                 PROVE  \E d \in Callers : Busy(d)' /\ caller'[d].name = m
      BY DEF Owned
    <2>1. CASE m = n
      BY <2>1, <1>2 DEF Busy
    <2>2. CASE m # n
      <3>1. PICK d \in Callers : Busy(d) /\ caller[d].name = m
        BY <2>2, <1>1 DEF Owned
      <3>2. d # c
        BY <3>1, <2>2
      <3> QED
        BY <3>1, <3>2, <1>2 DEF Busy
    <2> QED
      BY <2>1, <2>2
  <1> QED
    BY <1>3, <1>4, <1>7, <1>8 DEF StoreInv

(* A process that stages takes a number none of its calls in flight has.   *)
LEMMA StageKeeps ==
    ASSUME StoreInv, NEW c \in Callers, Stage(c)
    PROVE  StoreInv'
  <1> DEFINE i == caller[c]
             p == home[c]
             v == caller[c].version
             n == NameOf(v, p)
             j == [i EXCEPT !.at = "extract", !.name = n]
             e == IF staging[n] = Absent THEN Empty ELSE staging[n]
  <1>1. /\ StoreTypes /\ caller \in [Callers -> CallerSet] /\ i \in CallerSet
        /\ Right(i, p, staging, attempt, dirs)
        /\ p \in Processes /\ v \in Versions /\ attempt \in [Processes -> 0 .. MaxStagings]
        /\ staging \in [Names -> Contents] /\ dirs \in [Versions -> Contents]
        /\ \A u \in Versions : Whole(dirs[u])
    BY CallFields DEF StoreInv, StoreTypes
  <1>2. /\ i.at = "install" /\ attempt[p] < MaxStagings
        /\ attempt' = [attempt EXCEPT ![p] = @ + 1]
        /\ staging' = [staging EXCEPT ![n] = e]
        /\ caller' = [caller EXCEPT ![c] = j]
        /\ UNCHANGED <<home, stable, dirs, deaths>>
    BY <1>1 DEF Stage
  <1>3. attempt[p] \in 0 .. MaxStagings - 1 /\ MaxStagings \in Nat
    BY <1>1, <1>2, StoreAssumption
  <1>4. n \in Names /\ n[2] = p /\ n[3] = attempt[p]
    BY <1>1, <1>3, NameIs DEF NameOf
  <1>5. /\ attempt' \in [Processes -> 0 .. MaxStagings]
        /\ attempt'[p] = attempt[p] + 1
        /\ \A q \in Processes : attempt'[q] >= attempt[q]
    <2> DEFINE k == attempt[p] + 1
    <2>1. k \in 0 .. MaxStagings /\ k >= attempt[p]
      BY <1>3
    <2>2. attempt' = [attempt EXCEPT ![p] = k]
      BY <1>2
    <2>3. \A q \in Processes : attempt[q] >= attempt[q]
      BY <1>1
    <2> HIDE DEF k
    <2>4. attempt' \in [Processes -> 0 .. MaxStagings] /\ attempt'[p] = k
          /\ \A q \in Processes : q # p => attempt'[q] = attempt[q]
      BY <1>1, <2>1, <2>2
    <2>5. \A q \in Processes : attempt'[q] >= attempt[q]
      BY <2>1, <2>3, <2>4
    <2> QED
      BY <2>4, <2>5 DEF k
  <1> HIDE DEF n
  <1>6. e \in Contents /\ e # Absent
    BY <1>1, <1>4, Directories
  <1> HIDE DEF e
  <1>7. /\ staging' \in [Names -> Contents] /\ staging'[n] = e
        /\ \A m \in Names : m # n => staging'[m] = staging[m]
    BY <1>1, <1>2, <1>4, <1>6
  <1>8. /\ j \in CallerSet /\ j.at = "extract" /\ j.name = n /\ j.left = i.left
        /\ j.found = i.found
    BY <1>1, <1>4 DEF CallerSet, InFlight
  <1> HIDE DEF j
  <1>9. \A d \in Callers : d # c /\ Busy(d) => caller[d].name # n
    <2> SUFFICES ASSUME NEW d \in Callers, Busy(d), caller[d].name = n PROVE FALSE
      OBVIOUS
    <2>1. Right(caller[d], home[d], staging, attempt, dirs)
      BY DEF StoreInv
    <2>2. n[2] = home[d] /\ n[3] < attempt[home[d]]
      BY <2>1 DEF Right, Busy
    <2>3. attempt[p] < attempt[p] /\ attempt[p] \in Int
      BY <2>2, <1>3, <1>4
    <2> QED
      BY <2>3
  <1>10. ~Busy(c)
    BY <1>2 DEF Busy, InFlight
  <1>11. ~i.found /\ Files \ {Binary} \subseteq i.left
    BY <1>1, <1>2 DEF Right
  <1>12. Fill(j, e)
    BY <1>6, <1>8, <1>11 DEF Fill
  <1>13. n[3] < attempt'[p]
    BY <1>3, <1>4, <1>5
  <1>14. Right(j, p, staging', attempt', dirs')
    BY <1>4, <1>7, <1>8, <1>12, <1>13 DEF Right
  <1>15. j.at \in InFlight
    BY <1>8 DEF InFlight
  <1>16. /\ dirs' \in [Versions -> Contents] /\ \A u \in Versions : Whole(dirs'[u])
         /\ \A u \in Versions : dirs[u] # Absent => dirs'[u] = dirs[u]
    BY <1>1, <1>2
  <1>17. Moves(c, j) /\ UNCHANGED <<home, stable, deaths>>
    BY <1>2, <1>8 DEF Moves
  <1> HIDE DEF p, i, v
  <1> QED
    BY <1>4, <1>5, <1>7, <1>8, <1>9, <1>10, <1>14, <1>15, <1>16, <1>17, StagingKeeps DEF p

(* A write of install touches one file of the call's own directory.        *)
LEMMA WriteKeeps ==
    ASSUME StoreInv, NEW c \in Callers, NEW j, Moves(c, j), NEW f \in Files,
           NEW s \in {"torn", "whole"}, Put(c, f, s), UNCHANGED <<home, stable, attempt, deaths>>,
           caller[c].at \in {"extract", "write"}, j.at \in {"extract", "write"},
           j.name = caller[c].name, Fill(j, [staging[j.name] EXCEPT ![f] = s])
    PROVE  StoreInv'
  <1> DEFINE i == caller[c]
             n == caller[c].name
             e == [staging[n] EXCEPT ![f] = s]
  <1>1. /\ StoreTypes /\ Right(i, home[c], staging, attempt, dirs) /\ Apart
        /\ staging \in [Names -> Contents] /\ dirs \in [Versions -> Contents]
        /\ attempt \in [Processes -> 0 .. MaxStagings]
        /\ \A v \in Versions : Whole(dirs[v])
    BY DEF StoreInv, StoreTypes
  <1>2. Busy(c) /\ j.at \in InFlight
    BY DEF Busy, InFlight
  <1>3. n \in Names /\ n[2] = home[c] /\ n[3] < attempt[home[c]] /\ Fill(i, staging[n])
    BY <1>1, <1>2 DEF Right, Busy
  <1>4. staging[n] # Absent /\ staging[n] \in Contents
    BY <1>1, <1>3 DEF Fill
  <1>5. e \in Contents
    BY <1>4, Directories
  <1>6. staging' = [staging EXCEPT ![n] = e] /\ dirs' = dirs
    BY <1>4 DEF Put
  <1>7. Fill(j, e) /\ j.name = n
    OBVIOUS
  <1> HIDE DEF e
  <1>8. /\ staging' \in [Names -> Contents] /\ staging'[n] = e
        /\ \A m \in Names : m # n => staging'[m] = staging[m]
    BY <1>1, <1>3, <1>5, <1>6
  <1>9. \A d \in Callers : d # c /\ Busy(d) => caller[d].name # n
    BY <1>1, <1>2 DEF Apart
  <1>10. \A p \in Processes : attempt[p] >= attempt[p]
    BY <1>1, StoreAssumption
  <1> HIDE DEF n
  <1>11. attempt' = attempt
    OBVIOUS
  <1>12. Right(j, home[c], staging', attempt', dirs')
    BY <1>3, <1>7, <1>8, <1>11 DEF Right
  <1>13. /\ attempt' \in [Processes -> 0 .. MaxStagings]
         /\ \A p \in Processes : attempt'[p] >= attempt[p]
    BY <1>1, <1>10, <1>11
  <1>14. /\ dirs' \in [Versions -> Contents] /\ \A v \in Versions : Whole(dirs'[v])
         /\ \A v \in Versions : dirs[v] # Absent => dirs'[v] = dirs[v]
    BY <1>1, <1>6
  <1>15. caller[c].name = n
    BY DEF n
  <1> QED
    BY <1>2, <1>3, <1>7, <1>8, <1>9, <1>12, <1>13, <1>14, <1>15, StagingKeeps

LEMMA OpenKeeps ==
    ASSUME StoreInv, NEW c \in Callers, Open(c)
    PROVE  StoreInv'
  <1> DEFINE i == caller[c]
  <1>1. /\ caller \in [Callers -> CallerSet] /\ i \in CallerSet /\ i.at = "extract"
        /\ Right(i, home[c], staging, attempt, dirs) /\ staging \in [Names -> Contents]
    BY DEF StoreInv, StoreTypes, Open
  <1>2. PICK f \in i.left :
          /\ Put(c, f, "torn")
          /\ caller' = [caller EXCEPT ![c].at = "write", ![c].left = @ \ {f}, ![c].file = f]
    BY DEF Open
  <1>3. i.left \subseteq Files /\ f \in Files /\ UNCHANGED <<home, stable, attempt, deaths>>
    BY <1>1, CallFields DEF Open
  <1> DEFINE l == i.left \ {f}
             j == [i EXCEPT !.at = "write", !.left = l, !.file = f]
  <1>4. caller' = [caller EXCEPT ![c] = j]
    BY <1>1, <1>2
  <1>5. l \subseteq Files
    BY <1>3
  <1> HIDE DEF l
  <1>6. /\ j \in CallerSet /\ j.at = "write" /\ j.name = i.name /\ j.left = l
        /\ j.file = f /\ j.found = i.found
    BY <1>1, <1>3, <1>5 DEF CallerSet, InFlight
  <1> HIDE DEF j
  <1>7. Fill(i, staging[i.name]) /\ i.name \in Names
    BY <1>1 DEF Right, InFlight
  <1> DEFINE d == staging[i.name]
             e == [d EXCEPT ![f] = "torn"]
  <1>8. d \in Contents /\ d # Absent
    BY <1>1, <1>7 DEF Fill
  <1>9. e # Absent
    BY <1>3, <1>8, Directories
  <1>10. \A g \in Files : g # f => e[g] = d[g]
    BY <1>8 DEF Contents, Absent
  <1>11. Fill(i, d)
    BY <1>7
  <1> HIDE DEF d, e
  <1>12. \A g \in Files : g # f => (e[g] = "whole" \/ g \in l \/ (g = Binary /\ ~j.found))
    BY <1>1, <1>6, <1>10, <1>11 DEF Fill, l
  <1>13. j.found => Binary \notin l /\ f # Binary
    BY <1>2, <1>6, <1>11 DEF Fill, l
  <1>14. Fill(j, e)
    BY <1>6, <1>9, <1>12, <1>13 DEF Fill, l
  <1>15. Fill(j, [staging[j.name] EXCEPT ![f] = "torn"])
    BY <1>6, <1>14 DEF d, e
  <1> QED
    BY <1>1, <1>2, <1>3, <1>4, <1>6, <1>15, WriteKeeps DEF Moves

LEMMA WroteKeeps ==
    ASSUME StoreInv, NEW c \in Callers, Wrote(c)
    PROVE  StoreInv'
  <1> DEFINE i == caller[c]
             f == caller[c].file
             d == staging[caller[c].name]
             e == [d EXCEPT ![f] = "whole"]
  <1>1. /\ caller \in [Callers -> CallerSet] /\ i \in CallerSet /\ i.at = "write"
        /\ Right(i, home[c], staging, attempt, dirs) /\ staging \in [Names -> Contents]
    BY DEF StoreInv, StoreTypes, Wrote
  <1>2. Fill(i, d) /\ i.name \in Names
    BY <1>1 DEF Right, InFlight
  <1>3. /\ f \in Files /\ d \in Contents /\ d # Absent /\ UNCHANGED <<home, stable, attempt, deaths>>
        /\ Put(c, f, "whole")
    BY <1>1, <1>2, CallFields DEF Wrote, Fill
  <1>4. PICK b \in BOOLEAN : b <=> i.found \/ f = Binary
    BY Zenon
  <1> DEFINE j == [i EXCEPT !.at = "extract", !.found = b]
  <1>5. caller' = [caller EXCEPT ![c] = j]
    <2>1. caller' = [caller EXCEPT ![c].at = "extract", ![c].found = @ \/ f = Binary]
      BY <1>3 DEF Wrote
    <2>2. i.found \in BOOLEAN
      BY <1>1, CallFields
    <2>3. (i.found \/ f = Binary) = b
      BY <1>4, <2>2
    <2> HIDE DEF f
    <2> QED
      BY <1>1, <2>1, <2>3
  <1>6. /\ j \in CallerSet /\ j.at = "extract" /\ j.name = i.name /\ j.left = i.left
        /\ j.file = f /\ j.found = b
    BY <1>1, <1>4 DEF CallerSet, InFlight
  <1> HIDE DEF j
  <1>9. e # Absent
    BY <1>3, Directories
  <1>10. e[f] = "whole" /\ \A g \in Files : g # f => e[g] = d[g]
    BY <1>3 DEF Contents, Absent
  <1> HIDE DEF d, e
  <1>12. \A g \in Files : e[g] = "whole" \/ g \in i.left \/ (g = Binary /\ ~b)
    BY <1>1, <1>2, <1>4, <1>10 DEF Fill
  <1>13. b => Binary \notin i.left
    BY <1>1, <1>2, <1>4 DEF Fill
  <1>14. Fill(j, e)
    BY <1>6, <1>9, <1>12, <1>13 DEF Fill
  <1>15. Fill(j, [staging[j.name] EXCEPT ![f] = "whole"])
    BY <1>6, <1>14 DEF d, e
  <1> HIDE DEF f
  <1> QED
    BY <1>1, <1>3, <1>5, <1>6, <1>15, WriteKeeps DEF Moves

(* install ends: its staging directory is removed, or becomes the          *)
(* directory of the version.                                               *)
LEMMA GiveBackKeeps ==
    ASSUME StoreInv, NEW c \in Callers, Cleanup(c) \/ Rename(c) \/ Beaten(c)
    PROVE  StoreInv'
  <1> DEFINE i == caller[c]
             n == caller[c].name
             v == caller[c].version
  <1>1. /\ StoreTypes /\ Right(i, home[c], staging, attempt, dirs) /\ Apart /\ i \in CallerSet
        /\ staging \in [Names -> Contents] /\ dirs \in [Versions -> Contents]
        /\ attempt \in [Processes -> 0 .. MaxStagings]
        /\ \A u \in Versions : Whole(dirs[u])
    BY DEF StoreInv, StoreTypes
  <1>2. Busy(c) /\ v \in Versions
    BY <1>1, CallFields DEF Cleanup, Rename, Beaten, Busy, InFlight
  <1>3. n \in Names
    BY <1>1, <1>2 DEF Right, Busy
  <1>4. /\ staging' = [staging EXCEPT ![n] = Absent]
        /\ UNCHANGED <<home, stable, attempt, deaths>>
    BY DEF Cleanup, Rename, Beaten
  <1>5. PICK at \in {"ready", "failed"} : End(c, at) /\ (at = "ready" => IsFile(dirs'[v]))
    <2>1. CASE Cleanup(c)
      BY <2>1 DEF Cleanup
    <2>2. CASE Beaten(c)
      BY <2>2 DEF Beaten
    <2>3. CASE Rename(c)
      <3>1. Fill(i, staging[n]) /\ i.left = {} /\ i.found /\ i.at = "rename"
        BY <2>3, <1>1 DEF Rename, Right, Fill
      <3>2. staging[n][Binary] = "whole"
        BY <3>1, StoreAssumption DEF Fill
      <3>3. dirs' = [dirs EXCEPT ![v] = staging[n]] /\ End(c, "ready")
        BY <2>3 DEF Rename
      <3>4. dirs'[v] = staging[n]
        BY <3>3, <1>1, <1>2
      <3> QED
        BY <3>2, <3>3, <3>4 DEF IsFile
    <2> QED
      BY <2>1, <2>2, <2>3
  <1>6. /\ dirs' \in [Versions -> Contents] /\ \A u \in Versions : Whole(dirs'[u])
        /\ \A u \in Versions : dirs[u] # Absent => dirs'[u] = dirs[u]
    <2>1. CASE Cleanup(c) \/ Beaten(c)
      BY <2>1, <1>1 DEF Cleanup, Beaten
    <2>3. CASE Rename(c)
      <3>1. Fill(i, staging[n]) /\ i.left = {} /\ i.found /\ i.at = "rename"
        BY <2>3, <1>1 DEF Rename, Right, Fill
      <3>2. Whole(staging[n])
        BY <3>1 DEF Fill, Whole
      <3>3. dirs' = [dirs EXCEPT ![v] = staging[n]] /\ dirs[v] = Absent /\ staging[n] \in Contents
        BY <2>3, <1>1, <1>3 DEF Rename
      <3>4. /\ dirs' \in [Versions -> Contents] /\ dirs'[v] = staging[n]
            /\ \A u \in Versions : u # v => dirs'[u] = dirs[u]
        BY <3>3, <1>1, <1>2
      <3> HIDE DEF n, v
      <3> QED
        BY <3>2, <3>3, <3>4, <1>1
    <2> QED
      BY <2>1, <2>3
  <1>7. PICK j : Moves(c, j) /\ j.at = at /\ ~j.found /\ (at = "ready" => j.version = v)
    BY <1>5, EndDoes DEF Settled
  <1>8. j.at \notin InFlight /\ Right(j, home[c], staging', attempt', dirs')
    BY <1>5, <1>7 DEF Right, InFlight
  <1>9. /\ staging' \in [Names -> Contents] /\ staging'[n] = Absent
        /\ \A m \in Names : m # n => staging'[m] = staging[m]
    BY <1>1, <1>3, <1>4, Directories
  <1>10. \A d \in Callers : d # c /\ Busy(d) => caller[d].name # n
    BY <1>1, <1>2 DEF Apart
  <1>11. /\ attempt' \in [Processes -> 0 .. MaxStagings]
         /\ \A p \in Processes : attempt'[p] >= attempt[p]
    BY <1>1, <1>4, StoreAssumption
  <1>12. caller[c].name = n
    OBVIOUS
  <1>13. UNCHANGED <<home, stable, deaths>> /\ Moves(c, j)
    BY <1>4, <1>7
  <1> HIDE DEF n, v, i
  <1> QED
    BY <1>3, <1>6, <1>8, <1>9, <1>10, <1>11, <1>12, <1>13, StagingKeeps

LEMMA DieKeeps ==
    ASSUME StoreInv, NEW p \in Processes, Die(p)
    PROVE  StoreInv'
  <1>1. /\ StoreTypes /\ Apart /\ caller \in [Callers -> CallerSet]
        /\ attempt \in [Processes -> 0 .. MaxStagings] /\ deaths \in 0 .. MaxDeaths
        /\ MaxDeaths \in Nat /\ MaxStagings \in Nat
    BY StoreAssumption DEF StoreInv, StoreTypes
  <1>2. /\ deaths < MaxDeaths /\ deaths' = deaths + 1
        /\ attempt' = [attempt EXCEPT ![p] = 0]
        /\ caller' = [c \in Callers |-> IF home[c] = p THEN Idle ELSE caller[c]]
        /\ UNCHANGED <<home, stable, dirs, staging>>
    BY DEF Die
  <1>3. deaths' \in 0 .. MaxDeaths /\ deaths' # 0
    BY <1>1, <1>2
  <1>4. /\ attempt' \in [Processes -> 0 .. MaxStagings]
        /\ \A q \in Processes : q # p => attempt'[q] = attempt[q]
    BY <1>1, <1>2
  <1>5. \A c \in Callers : /\ home[c] = p => caller'[c] = Idle
                           /\ home[c] # p => caller'[c] = caller[c]
    BY <1>2
  <1>6. caller' \in [Callers -> CallerSet]
    BY <1>1, <1>2, IdleIs
  <1>7. StoreTypes'
    BY <1>1, <1>2, <1>3, <1>4, <1>6 DEF StoreTypes
  <1>8. ASSUME NEW c \in Callers PROVE Right(caller'[c], home'[c], staging', attempt', dirs')
    <2>1. CASE home[c] = p
      BY <2>1, <1>5, IdleIs DEF Right, InFlight
    <2>2. CASE home[c] # p
      <3>1. Right(caller[c], home[c], staging, attempt, dirs) /\ home[c] \in Processes
        BY <1>1 DEF StoreInv, StoreTypes
      <3>2. attempt'[home[c]] = attempt[home[c]] /\ caller'[c] = caller[c]
        BY <2>2, <3>1, <1>4, <1>5
      <3>3. Right(caller[c], home[c], staging, attempt', dirs)
        BY <3>1, <3>2 DEF Right
      <3> QED
        BY <3>2, <3>3, <1>2
    <2> QED
      BY <2>1, <2>2
  <1>9. \A c \in Callers : Busy(c)' => Busy(c) /\ caller'[c] = caller[c]
    BY <1>5, IdleIs DEF Busy, InFlight
  <1>10. Apart'
    BY <1>1, <1>9 DEF Apart
  <1>11. Owned'
    BY <1>3 DEF Owned
  <1>12. \A v \in Versions : Whole(dirs'[v])
    BY <1>2 DEF StoreInv
  <1> QED
    BY <1>7, <1>8, <1>10, <1>11, <1>12 DEF StoreInv

(* The invariant from which a whole install follows is inductive.          *)
LEMMA StoreInit == Init => StoreInv
  <1> SUFFICES ASSUME Init PROVE StoreInv
    OBVIOUS
  <1>1. /\ Idle \in CallerSet /\ Idle.at = "idle" /\ ~Idle.found /\ Absent \in Contents
        /\ MaxDeaths \in Nat /\ MaxStagings \in Nat
    BY IdleIs, Directories, StoreAssumption
  <1>2. \A c \in Callers : caller[c] = Idle
    BY DEF Init
  <1>3. StoreTypes
    BY <1>1 DEF Init, StoreTypes
  <1>4. \A c \in Callers : Right(caller[c], home[c], staging, attempt, dirs)
    BY <1>1, <1>2 DEF Right, InFlight
  <1>5. Apart
    BY <1>1, <1>2 DEF Apart, Busy, InFlight
  <1>6. (\A v \in Versions : Whole(dirs[v])) /\ Owned
    BY DEF Init, Whole, Owned
  <1> QED
    BY <1>3, <1>4, <1>5, <1>6 DEF StoreInv

LEMMA StoreStep == StoreInv /\ [Next]_vars => StoreInv'
  <1> SUFFICES ASSUME StoreInv, [Next]_vars PROVE StoreInv'
    OBVIOUS
  <1>1. CASE UNCHANGED vars
    <2>1. /\ UNCHANGED <<home, stable, dirs, staging, attempt, caller, deaths>>
      BY <1>1 DEF vars
    <2> QED
      BY <2>1 DEF StoreInv, StoreTypes, Apart, Owned, Busy
  <1>2. CASE Publish
    <2>1. /\ UNCHANGED <<home, dirs, staging, attempt, caller, deaths>> /\ stable' \in Versions
      BY <1>2 DEF Publish
    <2> QED
      BY <2>1 DEF StoreInv, StoreTypes, Apart, Owned, Busy
  <1>3. ASSUME NEW c \in Callers, Ensure(c) PROVE StoreInv'
    BY <1>3, EnsureKeeps, StageKeeps, OpenKeeps, WroteKeeps, TurnKeeps, GiveBackKeeps DEF Ensure
  <1>4. ASSUME NEW p \in Processes, Die(p) PROVE StoreInv'
    BY <1>4, DieKeeps
  <1> QED
    BY <1>1, <1>2, <1>3, <1>4 DEF Next

(* What the steps of ensure and install rely on, in whatever order the     *)
(* calls of several processes take them and whoever dies: a call in flight *)
(* has a staging directory of its own with every entry it is done with     *)
(* whole in it (EngineStore::install).                                     *)
THEOREM StoreInductive == Spec => []StoreInv
  <1>1. Init => StoreInv
    BY StoreInit
  <1>2. StoreInv /\ [Next]_vars => StoreInv'
    BY StoreStep
  <1> QED
    BY <1>1, <1>2, PTL DEF Spec

LEMMA OneWorks ==
    ASSUME StoreInv, NEW n \in Names
    PROVE  /\ Cardinality(Working(n)) <= 1
           /\ staging[n] # Absent /\ deaths = 0 => Working(n) # {}
  <1>1. \A c \in Callers : c \in Working(n) <=> Busy(c) /\ caller[c].name = n
    BY DEF Working, Busy, InFlight
  <1>2. Working(n) \subseteq Callers
    BY DEF Working
  <1>3. staging[n] # Absent /\ deaths = 0 => Working(n) # {}
    BY <1>1 DEF StoreInv, Owned
  <1>4. CASE Working(n) = {}
    BY <1>3, <1>4, FS_EmptySet
  <1>5. CASE Working(n) # {}
    <2>1. PICK c \in Callers : c \in Working(n)
      BY <1>2, <1>5
    <2>2. Working(n) = {c}
      BY <1>1, <1>2, <2>1 DEF StoreInv, Apart
    <2> QED
      BY <2>2, <1>3, FS_Singleton
  <1> QED
    BY <1>4, <1>5

(* Whatever installs race, of one process or of several, and whoever dies  *)
(* in the middle of them: a version another process can find holds every   *)
(* file whole, a call told of an engine finds one, and while no process    *)
(* dies no staging directory outlives its install (store.rs, install).     *)
THEOREM InstallWhole == Spec => []InstallsWhole
  <1>1. StoreInv => InstallsWhole
    <2> SUFFICES ASSUME StoreInv PROVE InstallsWhole
      OBVIOUS
    <2>1. StoreTypes
      BY DEF StoreInv
    <2>2. TypeOK
      <3>1. \A c \in Callers : caller[c] \in CallerSet
        BY <2>1 DEF StoreTypes
      <3> QED
        BY <2>1, <3>1, CallFields DEF TypeOK, StoreTypes, InFlight
    <2>3. VisibleWhole
      BY DEF StoreInv, VisibleWhole, Whole, Right
    <2>4. StagingOwned
      BY OneWorks DEF StagingOwned
    <2> QED
      BY <2>2, <2>3, <2>4 DEF InstallsWhole
  <1> QED
    BY <1>1, StoreInductive, PTL
-------------------------------------------------------------------------------
(* Launching: who owns a browser, and what an engine says of its contexts. *)

LaunchSet ==
    [at : {"down", "spawn", "connect", "version", "up"}, n : 0 .. MaxLaunches,
     port : Ports \cup {0}, conn : Launches \cup {<<>>}, isolation : BOOLEAN,
     contexts : SUBSET {"own", "shared"}]
BrowserSet ==
    [at : {"none", "starting", "open", "deaf", "dead"}, port : Ports \cup {0}, child : BOOLEAN]

(* A launch that is under way has a number, and no context until it is up. *)
Fit(j) ==
    /\ j.at # "down" => j.n \in 1 .. MaxLaunches
    /\ j.at \in {"version", "up"} => j.conn \in Launches
    /\ j.at \in {"spawn", "connect", "version"} => j.contexts = {} /\ j.isolation = TRUE
    /\ j.at = "up" => /\ j.conn[1] \in Isolating => j.contexts \subseteq {"own"}
                      /\ j.isolation <=> "shared" \notin j.contexts

Owns(j) == j.at \in {"connect", "version", "up"}
Runs(b) == Alive(b) /\ browser[b].child

LaunchInv ==
    /\ strangers \subseteq Ports
    /\ launch \in [Launchers -> LaunchSet] /\ browser \in [Launches -> BrowserSet]
    /\ \A l \in Launchers : Fit(launch[l])
    /\ NoneLeft

LEMMA LaunchFields ==
    ASSUME NEW j \in LaunchSet
    PROVE  /\ j.at \in {"down", "spawn", "connect", "version", "up"} /\ j.n \in 0 .. MaxLaunches
           /\ j.port \in Ports \cup {0} /\ j.conn \in Launches \cup {<<>>}
           /\ j.isolation \in BOOLEAN /\ j.contexts \subseteq {"own", "shared"}
  BY DEF LaunchSet

LEMMA DownIs == /\ Down \in LaunchSet /\ Down.at = "down" /\ Down.contexts = {}
                /\ Down.isolation = TRUE
  BY LaunchAssumption DEF Down, LaunchSet

(* A step of launcher l keeps the browsers it does not end under their     *)
(* owners: it leaves those of the others, and of its own only the one of   *)
(* the launch it is at.                                                    *)
LEMMA LauncherKeeps ==
    ASSUME LaunchInv, NEW l \in Launchers, NEW j \in LaunchSet, Fit(j),
           launch' = [launch EXCEPT ![l] = j], strangers' = strangers,
           browser' \in [Launches -> BrowserSet],
           \A b \in Launches : Runs(b)' => \/ b[1] # l /\ Runs(b)
                                           \/ b = <<l, j.n>> /\ Owns(j)
    PROVE  LaunchInv'
  <1>1. /\ launch' \in [Launchers -> LaunchSet] /\ launch'[l] = j
        /\ \A k \in Launchers : k # l => launch'[k] = launch[k]
    BY DEF LaunchInv
  <1>2. \A k \in Launchers : Fit(launch'[k])
    BY <1>1 DEF LaunchInv
  <1>3. NoneLeft'
    <2> SUFFICES ASSUME NEW b \in Launches, Runs(b)'
                 PROVE  launch'[b[1]].n = b[2] /\ launch'[b[1]].at \in {"connect", "version", "up"}
      BY DEF NoneLeft, Runs
    <2>1. b[1] \in Launchers
      BY DEF Launches
    <2>2. CASE b[1] # l /\ Runs(b)
      BY <2>1, <2>2, <1>1 DEF LaunchInv, NoneLeft, Runs
    <2>3. CASE b = <<l, j.n>> /\ Owns(j)
      BY <2>3, <1>1 DEF Owns
    <2> QED
      BY <2>2, <2>3
  <1> QED
    BY <1>1, <1>2, <1>3 DEF LaunchInv

(* A browser on its own neither comes to life nor becomes rutter's child.  *)
LEMMA BrowserKeeps ==
    ASSUME LaunchInv, NEW b \in Launches, Listen(b) \/ HandOff(b) \/ Crash(b)
    PROVE  LaunchInv'
  <1>1. /\ launch' = launch /\ strangers' = strangers
        /\ browser \in [Launches -> BrowserSet] /\ browser[b] \in BrowserSet
    BY DEF LaunchInv, Listen, HandOff, Crash
  <1>2. PICK x \in BrowserSet : /\ browser' = [browser EXCEPT ![b] = x]
                                /\ x.at \in {"starting", "open", "deaf"} /\ x.child => Runs(b)
    <2>1. CASE Listen(b)
      <3> DEFINE a == IF Taken(browser[b].port) THEN "deaf" ELSE "open"
                 x == [browser[b] EXCEPT !.at = a]
      <3>1. a \in {"deaf", "open"}
        OBVIOUS
      <3>2. browser' = [browser EXCEPT ![b] = x] /\ Alive(b)
        BY <2>1, <1>1 DEF Listen, Alive
      <3> HIDE DEF a
      <3>3. x \in BrowserSet /\ x.child = browser[b].child
        BY <1>1, <3>1 DEF BrowserSet
      <3> QED
        BY <3>2, <3>3 DEF Runs
    <2>2. CASE HandOff(b)
      <3> DEFINE x == [browser[b] EXCEPT !.child = FALSE]
      <3>1. x \in BrowserSet /\ x.child = FALSE
        BY <1>1 DEF BrowserSet
      <3>2. browser' = [browser EXCEPT ![b] = x]
        BY <2>2, <1>1 DEF HandOff
      <3> QED
        BY <3>1, <3>2
    <2>3. CASE Crash(b)
      <3> DEFINE x == [browser[b] EXCEPT !.at = "dead"]
      <3>1. x \in BrowserSet /\ x.at = "dead"
        BY <1>1 DEF BrowserSet
      <3>2. browser' = [browser EXCEPT ![b] = x]
        BY <2>3, <1>1 DEF Crash
      <3> QED
        BY <3>1, <3>2
    <2> QED
      BY <2>1, <2>2, <2>3
  <1>3. browser' \in [Launches -> BrowserSet] /\ \A d \in Launches : Runs(d)' => Runs(d)
    BY <1>1, <1>2 DEF Runs, Alive
  <1>4. NoneLeft'
    BY <1>1, <1>3 DEF LaunchInv, NoneLeft, Runs
  <1> QED
    BY <1>1, <1>3, <1>4 DEF LaunchInv

(* Of the browsers of l only the one of the launch it is at can be alive.  *)
LEMMA OwnOnly ==
    ASSUME LaunchInv, NEW l \in Launchers, NEW b \in Launches, b[1] = l, Runs(b)
    PROVE  b = Own(l) /\ Owns(launch[l])
  BY DEF LaunchInv, NoneLeft, Runs, Own, Owns, Launches

(* A launch up to its engine: the guard kills what it owns wherever it     *)
(* ends (CdpLauncher::launch).                                             *)
LEMMA LaunchKeeps ==
    ASSUME LaunchInv, NEW l \in Launchers,
           Pick(l) \/ Spawn(l) \/ Connect(l) \/ GiveUp(l) \/ Version(l)
    PROVE  LaunchInv'
  <1> DEFINE i == launch[l]
  <1>1. /\ launch \in [Launchers -> LaunchSet] /\ i \in LaunchSet /\ Fit(i)
        /\ browser \in [Launches -> BrowserSet]
    BY DEF LaunchInv
  <1>2. i.n \in 0 .. MaxLaunches /\ MaxLaunches \in Nat /\ i.port \in Ports \cup {0}
    BY <1>1, LaunchFields, LaunchAssumption
  <1>3. i.at # "down" => Own(l) \in Launches /\ Own(l) = <<l, i.n>>
    BY <1>1 DEF Own, Fit, Launches
  <1>4. \A b \in Launches : b[1] = l /\ Runs(b) => b = <<l, i.n>> /\ Owns(i)
    BY OwnOnly DEF Own
  <1>5. CASE Pick(l)
    <2>1. PICK port \in Ports \cup {0} :
            launch' = [launch EXCEPT ![l] = [Down EXCEPT !.at = "spawn", !.n = i.n + 1,
                                                         !.port = port]]
      BY <1>5, LaunchAssumption DEF Pick
    <2> DEFINE k == i.n + 1
               j == [Down EXCEPT !.at = "spawn", !.n = k, !.port = port]
    <2>2. k \in 1 .. MaxLaunches /\ UNCHANGED <<browser, strangers>> /\ i.at = "down"
      <3>1. i.at = "down" /\ i.n < MaxLaunches /\ browser' = browser /\ strangers' = strangers
        BY <1>5 DEF Pick
      <3> QED
        BY ONLY <3>1, <1>2
    <2>3. launch' = [launch EXCEPT ![l] = j]
      <3>1. [Down EXCEPT !.at = "spawn", !.n = i.n + 1, !.port = port] = j
        OBVIOUS
      <3> QED
        BY ONLY <2>1, <3>1
    <2> HIDE DEF k
    <2>4. /\ j \in LaunchSet /\ j.at = "spawn" /\ j.n = k /\ j.contexts = {}
          /\ j.isolation = TRUE
      <3>1. k \in 0 .. MaxLaunches
        BY <2>2, <1>2
      <3>2. j = [Down EXCEPT !.at = "spawn", !.n = k, !.port = port]
        OBVIOUS
      <3>3. Down \in LaunchSet /\ Down.contexts = {} /\ Down.isolation = TRUE
        BY DownIs
      <3> HIDE DEF j
      <3> DEFINE d == Down
      <3>4. d \in LaunchSet /\ j = [d EXCEPT !.at = "spawn", !.n = k, !.port = port]
        BY <3>2, <3>3
      <3> HIDE DEF d
      <3>5. /\ j \in LaunchSet /\ j.at = "spawn" /\ j.n = k /\ j.contexts = d.contexts
            /\ j.isolation = d.isolation
        BY <3>1, <3>4 DEF LaunchSet
      <3> QED
        BY <3>3, <3>5 DEF d
    <2> HIDE DEF j
    <2>5. Fit(j)
      BY <2>2, <2>4 DEF Fit
    <2>6. \A b \in Launches : Runs(b)' => b[1] # l /\ Runs(b)
      BY <1>4, <2>2 DEF Runs, Alive, Owns
    <2>7. browser' \in [Launches -> BrowserSet] /\ strangers' = strangers
      BY <1>1, <2>2
    <2> QED
      BY <2>3, <2>4, <2>5, <2>6, <2>7, LauncherKeeps
  <1>6. CASE ~Pick(l)
    <2>1. i.at \in {"spawn", "connect", "version"} /\ strangers' = strangers
      BY <1>6 DEF Spawn, Connect, GiveUp, Version
    <2>2. i.n \in 1 .. MaxLaunches /\ i.contexts = {} /\ i.isolation = TRUE
          /\ Own(l) \in Launches /\ Own(l) = <<l, i.n>>
      BY <2>1, <1>1, <1>3 DEF Fit
    <2>3. ASSUME NEW at \in {"down", "connect"}, launch' = [launch EXCEPT ![l].at = at],
                 browser' \in [Launches -> BrowserSet],
                 \A b \in Launches : Runs(b)' => \/ b[1] # l /\ Runs(b)
                                                 \/ b = <<l, i.n>> /\ at = "connect"
          PROVE  LaunchInv'
      <3> DEFINE j == [i EXCEPT !.at = at]
      <3>1. launch' = [launch EXCEPT ![l] = j]
        BY <1>1, <2>3
      <3>2. /\ j \in LaunchSet /\ j.at = at /\ j.n = i.n /\ j.contexts = i.contexts
            /\ j.isolation = i.isolation
        BY <1>1 DEF LaunchSet
      <3> HIDE DEF j
      <3>3. Fit(j)
        BY <2>2, <3>2 DEF Fit
      <3>4. \A b \in Launches : Runs(b)' => \/ b[1] # l /\ Runs(b)
                                            \/ b = <<l, j.n>> /\ Owns(j)
        BY <2>3, <3>2 DEF Owns
      <3> HIDE DEF i
      <3> QED
        BY <2>1, <2>3, <3>1, <3>2, <3>3, <3>4, LauncherKeeps
    <2>4. CASE Spawn(l)
      <3>1. i.at = "spawn"
        BY <2>4 DEF Spawn
      <3>2. \A b \in Launches : Runs(b) => b[1] # l
        BY <3>1, <1>4 DEF Owns
      <3>3. CASE launch' = [launch EXCEPT ![l].at = "down"] /\ browser' = browser
        <4>1. \A b \in Launches : Runs(b)' => b[1] # l /\ Runs(b)
          BY <3>2, <3>3 DEF Runs, Alive
        <4> HIDE DEF i
        <4> QED
          BY <1>1, <2>3, <3>3, <4>1
      <3>4. CASE /\ launch' = [launch EXCEPT ![l].at = "connect"]
                 /\ browser' = [browser EXCEPT ![Own(l)] =
                                   [at |-> "starting", port |-> launch[l].port, child |-> TRUE]]
        <4> DEFINE x == [at |-> "starting", port |-> launch[l].port, child |-> TRUE]
        <4>1. x \in BrowserSet
          BY <1>2 DEF BrowserSet
        <4>2. browser' = [browser EXCEPT ![Own(l)] = x]
          BY <3>4
        <4> HIDE DEF x
        <4>3. /\ browser' \in [Launches -> BrowserSet]
              /\ \A b \in Launches : b # <<l, i.n>> => browser'[b] = browser[b]
          BY <1>1, <2>2, <4>1, <4>2
        <4>4. \A b \in Launches : Runs(b)' => (b[1] # l /\ Runs(b)) \/ b = <<l, i.n>>
          BY <3>2, <4>3 DEF Runs, Alive
        <4> HIDE DEF i
        <4> QED
          BY <2>3, <3>4, <4>3, <4>4
      <3> QED
        BY <2>4, <3>3, <3>4 DEF Spawn
    <2>5. CASE GiveUp(l)
      <3>1. /\ launch' = [launch EXCEPT ![l].at = "down"]
            /\ browser' = [browser EXCEPT ![Own(l)] = Killed(Own(l))]
        BY <2>5 DEF GiveUp
      <3>2. Killed(Own(l)) \in BrowserSet /\ ~(Killed(Own(l)).child /\ Killed(Own(l)).at # "dead")
        BY <1>1, <2>2 DEF Killed, BrowserSet
      <3>3. /\ browser' \in [Launches -> BrowserSet] /\ browser'[Own(l)] = Killed(Own(l))
            /\ \A b \in Launches : b # Own(l) => browser'[b] = browser[b]
        BY <1>1, <2>2, <3>1, <3>2
      <3>4. \A b \in Launches : Runs(b)' => b[1] # l /\ Runs(b)
        BY <1>4, <2>2, <3>2, <3>3 DEF Runs, Alive
      <3> HIDE DEF i
      <3> QED
        BY <2>3, <3>1, <3>3, <3>4
    <2>6. CASE Connect(l) \/ Version(l)
      <3>1. PICK at \in {"version", "up"}, conn \in Launches :
              launch' = [launch EXCEPT ![l].at = at, ![l].conn = conn]
        <4>1. CASE Connect(l)
          BY <4>1 DEF Connect, OpenAt
        <4>2. CASE Version(l)
          <5>1. i.conn \in Launches /\ launch' = [launch EXCEPT ![l].at = "up"]
            BY <4>2, <1>1 DEF Version, Fit
          <5>2. [i EXCEPT !.at = "up"] = [i EXCEPT !.at = "up", !.conn = i.conn]
            BY <1>1 DEF LaunchSet
          <5>3. launch' = [launch EXCEPT ![l].at = "up", ![l].conn = i.conn]
            BY <1>1, <5>1, <5>2
          <5> QED
            BY <5>1, <5>3
        <4> QED
          BY <2>6, <4>1, <4>2
      <3>2. UNCHANGED browser /\ Owns(i)
        BY <2>6 DEF Connect, Version, Owns
      <3> DEFINE j == [i EXCEPT !.at = at, !.conn = conn]
      <3>3. launch' = [launch EXCEPT ![l] = j]
        BY <1>1, <3>1
      <3>4. /\ j \in LaunchSet /\ j.at = at /\ j.n = i.n /\ j.contexts = i.contexts
            /\ j.isolation = i.isolation /\ j.conn = conn
        BY <1>1 DEF LaunchSet
      <3> HIDE DEF j
      <3>5. Fit(j)
        BY <2>2, <3>4 DEF Fit
      <3>6. \A b \in Launches : Runs(b)' => \/ b[1] # l /\ Runs(b)
                                            \/ b = <<l, j.n>> /\ Owns(j)
        BY <1>4, <3>2, <3>4 DEF Runs, Alive, Owns
      <3>7. browser' \in [Launches -> BrowserSet]
        BY <1>1, <3>2
      <3> HIDE DEF i
      <3> QED
        BY <2>1, <3>3, <3>4, <3>5, <3>6, <3>7, LauncherKeeps
    <2> QED
      BY <1>6, <2>4, <2>5, <2>6
  <1> QED
    BY <1>5, <1>6

(* An engine: its flag follows what it told of each context, and its       *)
(* shutdown kills what it owns (engine.rs).                                *)
LEMMA EngineKeeps ==
    ASSUME LaunchInv, NEW l \in Launchers, CreateContext(l) \/ Shutdown(l)
    PROVE  LaunchInv'
  <1> DEFINE i == launch[l]
  <1>1. /\ launch \in [Launchers -> LaunchSet] /\ i \in LaunchSet /\ Fit(i)
        /\ browser \in [Launches -> BrowserSet] /\ i.at = "up" /\ strangers' = strangers
    BY DEF LaunchInv, CreateContext, Shutdown
  <1>2. /\ i.n \in 1 .. MaxLaunches /\ i.contexts \subseteq {"own", "shared"}
        /\ i.isolation \in BOOLEAN /\ Own(l) \in Launches /\ Own(l) = <<l, i.n>>
    BY <1>1, LaunchFields DEF Fit, Own, Launches
  <1>3. \A b \in Launches : b[1] = l /\ Runs(b) => b = <<l, i.n>> /\ Owns(i)
    BY OwnOnly DEF Own
  <1>4. CASE CreateContext(l) /\ UNCHANGED launch
    <2>1. UNCHANGED <<launch, browser, strangers>>
      BY <1>4 DEF CreateContext
    <2> QED
      BY <2>1 DEF LaunchInv, NoneLeft, Alive
  <1>5. CASE CreateContext(l) /\ ~UNCHANGED launch
    <2>1. PICK d \in BOOLEAN : d <=> i.isolation /\ i.conn[1] \in Isolating
      BY Zenon
    <2>2. (i.isolation /\ i.conn[1] \in Isolating) = d
      BY <1>2, <2>1
    <2> DEFINE s == i.contexts \cup {IF d THEN "own" ELSE "shared"}
               j == [i EXCEPT !.isolation = d, !.contexts = s]
    <2>3. launch' = [launch EXCEPT ![l] = j] /\ browser' = browser
      <3>1. Context(l, i.isolation /\ i.conn[1] \in Isolating) /\ browser' = browser
        BY <1>5 DEF CreateContext
      <3>2. Context(l, d)
        BY <2>2, <3>1
      <3> QED
        BY <1>1, <3>1, <3>2 DEF Context
    <2>4. s \subseteq {"own", "shared"}
      BY <1>2
    <2> HIDE DEF s
    <2>5. /\ j \in LaunchSet /\ j.at = "up" /\ j.n = i.n /\ j.conn = i.conn
          /\ j.isolation = d /\ j.contexts = s
      BY <1>1, <2>1, <2>4 DEF LaunchSet
    <2> HIDE DEF j
    <2>6. Fit(j)
      <3>1. /\ i.conn[1] \in Isolating => i.contexts \subseteq {"own"}
            /\ i.isolation <=> "shared" \notin i.contexts
        BY <1>1 DEF Fit
      <3>2. i.conn[1] \in Isolating => s \subseteq {"own"}
        BY <2>1, <3>1 DEF s
      <3>3. d <=> "shared" \notin s
        BY <2>1, <3>1 DEF s
      <3> QED
        BY <1>1, <1>2, <2>5, <3>2, <3>3 DEF Fit
    <2>7. \A b \in Launches : Runs(b)' => \/ b[1] # l /\ Runs(b)
                                          \/ b = <<l, j.n>> /\ Owns(j)
      BY <1>1, <1>3, <2>3, <2>5 DEF Runs, Alive, Owns
    <2>8. browser' \in [Launches -> BrowserSet]
      BY <1>1, <2>3
    <2> HIDE DEF i
    <2> QED
      BY <1>1, <2>3, <2>5, <2>6, <2>7, <2>8, LauncherKeeps
  <1>6. CASE Shutdown(l)
    <2>1. PICK closes \in BOOLEAN :
            browser' = [b \in Launches |->
                          IF closes /\ b = launch[l].conn THEN [browser[b] EXCEPT !.at = "dead"]
                          ELSE IF b = Own(l) THEN Killed(b) ELSE browser[b]]
      BY <1>6 DEF Shutdown
    <2> DEFINE j == [i EXCEPT !.at = "down"]
    <2>2. launch' = [launch EXCEPT ![l] = j]
      BY <1>1, <1>6 DEF Shutdown
    <2>3. j \in LaunchSet /\ j.at = "down" /\ j.n = i.n
      BY <1>1 DEF LaunchSet
    <2> HIDE DEF j
    <2>4. Fit(j)
      BY <2>3 DEF Fit
    <2>5. ASSUME NEW b \in Launches
          PROVE  /\ browser'[b] \in BrowserSet
                 /\ browser'[b].at # "dead" => \/ browser'[b] = browser[b] /\ b # Own(l)
                                               \/ browser'[b].child = FALSE
      <3>1. browser[b] \in BrowserSet
        BY <1>1
      <3>2. [browser[b] EXCEPT !.at = "dead"] \in BrowserSet
            /\ [browser[b] EXCEPT !.at = "dead"].at = "dead"
        BY <3>1 DEF BrowserSet
      <3>3. /\ Killed(b) \in BrowserSet
            /\ Killed(b).at # "dead" => Killed(b).child = FALSE
        BY <3>1 DEF Killed, BrowserSet
      <3> QED
        BY <2>1, <3>1, <3>2, <3>3
    <2>6. browser' \in [Launches -> BrowserSet]
      BY <2>1, <2>5
    <2>7. \A b \in Launches : Runs(b)' => b[1] # l /\ Runs(b)
      BY <1>2, <1>3, <2>5 DEF Runs, Alive
    <2> HIDE DEF i
    <2> QED
      BY <1>1, <2>2, <2>3, <2>4, <2>6, <2>7, LauncherKeeps
  <1> QED
    BY <1>4, <1>5, <1>6

LEMMA LaunchStart == LaunchInit => LaunchInv
  <1> SUFFICES ASSUME LaunchInit PROVE LaunchInv
    OBVIOUS
  <1>1. NoBrowser \in BrowserSet /\ NoBrowser.at = "none"
    BY DEF NoBrowser, BrowserSet
  <1>2. launch \in [Launchers -> LaunchSet] /\ browser \in [Launches -> BrowserSet]
    BY <1>1, DownIs DEF LaunchInit
  <1>3. \A l \in Launchers : Fit(launch[l])
    BY DownIs DEF LaunchInit, Fit
  <1>4. NoneLeft
    BY <1>1 DEF LaunchInit, NoneLeft, Alive
  <1> QED
    BY <1>2, <1>3, <1>4 DEF LaunchInv, LaunchInit

LEMMA LaunchStep == LaunchInv /\ [LaunchNext]_launchVars => LaunchInv'
  <1> SUFFICES ASSUME LaunchInv, [LaunchNext]_launchVars PROVE LaunchInv'
    OBVIOUS
  <1>1. CASE UNCHANGED launchVars
    BY <1>1 DEF launchVars, LaunchInv, NoneLeft, Alive
  <1>2. ASSUME NEW port \in Ports, Stranger(port) PROVE LaunchInv'
    <2>1. UNCHANGED <<launch, browser>> /\ strangers' \subseteq Ports
      BY <1>2 DEF Stranger, LaunchInv
    <2> QED
      BY <2>1 DEF LaunchInv, NoneLeft, Alive
  <1>3. ASSUME NEW b \in Launches, Listen(b) \/ HandOff(b) \/ Crash(b) PROVE LaunchInv'
    BY <1>3, BrowserKeeps
  <1>4. ASSUME NEW l \in Launchers,
               Pick(l) \/ Spawn(l) \/ Connect(l) \/ GiveUp(l) \/ Version(l)
                  \/ CreateContext(l) \/ Shutdown(l)
        PROVE  LaunchInv'
    BY <1>4, LaunchKeeps, EngineKeeps
  <1> QED
    BY <1>1, <1>2, <1>3, <1>4 DEF LaunchNext

(* A browser rutter started and did not hand off runs only under the       *)
(* launch or engine that owns it, whichever browser that one talks to, and *)
(* an engine that can isolate never shares a context, for any number of    *)
(* launchers, ports and launches (launch.rs; engine.rs, create_context).   *)
THEOREM LaunchTidy == LaunchSpec => []LaunchesTidy
  <1>1. LaunchInv => LaunchesTidy
    <2> SUFFICES ASSUME LaunchInv PROVE LaunchesTidy
      OBVIOUS
    <2>1. /\ \A l \in Launchers : launch[l] \in LaunchSet /\ Fit(launch[l])
          /\ \A b \in Launches : browser[b] \in BrowserSet
      BY DEF LaunchInv
    <2>2. LaunchTypes
      <3>1. \A b \in Launches : browser[b].at \in {"none", "starting", "open", "deaf", "dead"}
                                /\ browser[b].child \in BOOLEAN
        BY <2>1 DEF BrowserSet
      <3> QED
        BY <2>1, <3>1, LaunchFields DEF LaunchInv, LaunchTypes, Fit
    <2>3. IsolationTold
      <3> SUFFICES ASSUME NEW l \in Launchers, launch[l].at = "up"
                   PROVE  /\ launch[l].conn[1] \in Isolating => launch[l].contexts \subseteq {"own"}
                          /\ launch[l].isolation = ("shared" \notin launch[l].contexts)
        BY DEF IsolationTold
      <3>1. launch[l].isolation \in BOOLEAN
        BY <2>1, LaunchFields
      <3>2. /\ launch[l].conn[1] \in Isolating => launch[l].contexts \subseteq {"own"}
            /\ launch[l].isolation <=> "shared" \notin launch[l].contexts
        BY <2>1 DEF Fit
      <3> QED
        BY <3>1, <3>2
    <2> QED
      BY <2>2, <2>3 DEF LaunchInv, LaunchesTidy
  <1> QED
    BY <1>1, LaunchStart, LaunchStep, PTL DEF LaunchSpec
-------------------------------------------------------------------------------
(* Reference scopes: what a reference resolves to, and whose minter is met. *)

Preparing ==
    {"register", "ran", "locked", "claimed", "recheck", "mint", "claim", "define", "verify"}
AdopterSet ==
    [at : Preparing \cup {"idle", "insert", "held", "failed", "refused"},
     ctx : Contexts \cup {Nobody}, scope : 0 .. MaxScopes, previous : 0 .. MaxScopes,
     handle : Adopters \cup {Nobody}, began : 0 .. MaxDocs, clean : BOOLEAN]
DocSet ==
    [n : 1 .. MaxDocs, started : BOOLEAN,
     minter : [by : {"none", "page", "engine"}, scope : 0 .. MaxScopes], claim : 0 .. MaxScopes,
     scope : 0 .. MaxScopes, counter : Nat, refs : [Elements -> Nat],
     reverse : SUBSET Elements, gone : SUBSET Elements]

ScopeState ==
    /\ doc \in DocSet /\ doc.claim <= drawn /\ doc.minter.scope <= drawn
    /\ drawn \in 0 .. MaxScopes /\ known \subseteq 1 .. drawn
    /\ gate \in [holder : Adopters \cup {Nobody}, recorded : 0 .. drawn]
    /\ sessions \subseteq Adopters /\ adopter \in [Adopters -> AdopterSet]
    /\ tracked \in [Contexts -> Adopters \cup {Nobody}]

(* A minter of the engine's in a document its scripts did not run in was   *)
(* defined by an adopter, and the gate still remembers which claim it was. *)
ByHand == doc.minter.by = "engine" /\ ~doc.started

(* No claim of a page's own minter is remembered for the engine's, but for *)
(* the one that is about to be refused.                                    *)
MinterInv ==
    /\ doc.minter.by = "none" => doc.minter.scope = 0
    /\ doc.minter.by = "engine" => doc.minter.scope \in known
    /\ doc.started => doc.minter.by = "engine"
    /\ ByHand => doc.claim = doc.minter.scope /\ gate.recorded = doc.minter.scope
    /\ doc.minter.by = "page" => \/ doc.claim = 0 \/ doc.claim # gate.recorded
                                 \/ \E a \in Adopters : adopter[a].at = "define"

(* What an adopter relies on at each step of its preparation.              *)
Apt(a) ==
    /\ adopter[a].at \in Preparing => gate.holder = a
    /\ adopter[a].at \in (Preparing \ {"register"}) \cup {"insert", "held"} => a \in sessions
    /\ adopter[a].at \in Preparing \cup {"insert"} => adopter[a].ctx \in Contexts
    /\ adopter[a].scope <= drawn
    /\ adopter[a].at \in {"claim", "define"} =>
          adopter[a].scope \in 1 .. drawn /\ adopter[a].scope \notin known
    /\ adopter[a].at = "claim" => gate.recorded # adopter[a].scope
    /\ adopter[a].at = "define" =>
          /\ gate.recorded = adopter[a].scope /\ adopter[a].previous # adopter[a].scope
          /\ doc.claim = adopter[a].scope \/ (doc.claim = 0 /\ doc.started)
          /\ adopter[a].previous <= drawn
    /\ adopter[a].at = "locked" => doc.started
    /\ doc.minter.by = "page" => adopter[a].at \notin {"recheck", "verify", "insert", "held"}
    /\ ByHand => adopter[a].at \notin {"mint", "claim", "define"}
    /\ adopter[a].clean =>
          /\ adopter[a].at \in {"claimed", "recheck", "mint", "claim", "define", "refused"} =>
                ~doc.started
          /\ adopter[a].at = "refused" => doc.minter.by = "page"

(* The numbers of a document's references are told apart, and a reference  *)
(* handed out carries a scope no other document has.                       *)
RefInv ==
    /\ doc.scope # 0 => doc.minter.by = "engine" /\ doc.scope = doc.minter.scope
    /\ doc.scope = 0 => doc.reverse = {} /\ \A e \in Elements : doc.refs[e] = 0
    /\ \A e \in Elements : /\ doc.refs[e] <= doc.counter
                           /\ e \in doc.reverse => doc.refs[e] # 0
                           /\ doc.refs[e] # 0 /\ e \notin doc.gone => e \in doc.reverse
    /\ \A e, f \in Elements : doc.refs[e] = doc.refs[f] /\ doc.refs[e] # 0 => e = f
    /\ \A i \in issued :
          /\ i.ref[1] \in known /\ i.doc \in 1 .. doc.n /\ i.element \in Elements
          /\ i.doc = doc.n => /\ i.ref = <<doc.scope, doc.refs[i.element]>>
                              /\ doc.scope # 0 /\ doc.refs[i.element] # 0
          /\ i.doc # doc.n /\ doc.minter.by = "engine" => i.ref[1] # doc.minter.scope

ScopeInv == ScopeState /\ MinterInv /\ (\A a \in Adopters : Apt(a)) /\ RefInv

LEMMA AdopterFields ==
    ASSUME NEW j \in AdopterSet
    PROVE  /\ j.at \in Preparing \cup {"idle", "insert", "held", "failed", "refused"}
           /\ j.scope \in 0 .. MaxScopes /\ j.previous \in 0 .. MaxScopes /\ j.clean \in BOOLEAN
           /\ j.ctx \in Contexts \cup {Nobody}
  BY DEF AdopterSet

LEMMA DocFields ==
    ASSUME NEW d \in DocSet
    PROVE  /\ d.n \in 1 .. MaxDocs /\ d.started \in BOOLEAN
           /\ d.minter \in [by : {"none", "page", "engine"}, scope : 0 .. MaxScopes]
           /\ d.minter.by \in {"none", "page", "engine"} /\ d.minter.scope \in 0 .. MaxScopes
           /\ d.claim \in 0 .. MaxScopes /\ d.scope \in 0 .. MaxScopes /\ d.counter \in Nat
           /\ d.refs \in [Elements -> Nat] /\ d.reverse \subseteq Elements
           /\ d.gone \subseteq Elements
  BY DEF DocSet

(* Only the gate's holder prepares.                                        *)
LEMMA OnePrepares ==
    ASSUME ScopeInv, NEW a \in Adopters, NEW b \in Adopters, a # b,
           adopter[a].at \in Preparing
    PROVE  adopter[b].at \notin Preparing
  BY DEF ScopeInv, Apt

(* An adopter that does not move keeps what it relies on, when the         *)
(* document and the gate stay ...                                          *)
LEMMA OthersSame ==
    ASSUME ScopeInv, NEW b \in Adopters, adopter'[b] = adopter[b], gate' = gate,
           doc'.minter = doc.minter, doc'.claim = doc.claim, doc'.started = doc.started,
           known' = known, drawn' = drawn, b \in sessions => b \in sessions'
    PROVE  Apt(b)'
  BY DEF ScopeInv, Apt, ByHand

(* ... and when it is another's turn at the gate.                          *)
LEMMA OthersWait ==
    ASSUME ScopeInv, NEW b \in Adopters, adopter'[b] = adopter[b],
           adopter[b].at \notin Preparing, drawn' \in Nat, drawn' >= drawn,
           b \in sessions => b \in sessions',
           doc'.minter.by = "page" <=> doc.minter.by = "page", doc'.started = doc.started
    PROVE  Apt(b)'
  <1>1. adopter[b] \in AdopterSet /\ Apt(b) /\ drawn \in Nat
    BY ScopeAssumption DEF ScopeInv, ScopeState
  <1> QED
    BY <1>1, AdopterFields DEF Apt, Preparing, ByHand

(* The minters' part of the invariant only reads these parts of the state. *)
LEMMA MinterSame ==
    ASSUME ScopeInv, doc'.minter = doc.minter, doc'.claim = doc.claim,
           doc'.started = doc.started, known' = known, gate'.recorded = gate.recorded,
           doc.minter.by = "page" =>
              \A b \in Adopters : adopter[b].at = "define" => adopter'[b].at = "define"
    PROVE  MinterInv'
  BY DEF ScopeInv, MinterInv, ByHand

LEMMA RefSame ==
    ASSUME ScopeInv, UNCHANGED <<doc, issued>>, known \subseteq known'
    PROVE  RefInv'
  BY DEF ScopeInv, RefInv

(* An adopter moves on: the others stay, and of its record little changes. *)
Goes(a, at) ==
    /\ adopter' \in [Adopters -> AdopterSet] /\ adopter'[a].at = at
    /\ adopter'[a].scope = adopter[a].scope /\ adopter'[a].previous = adopter[a].previous
    /\ adopter'[a].ctx = adopter[a].ctx /\ (adopter'[a].clean => adopter[a].clean)
    /\ \A b \in Adopters : b # a => adopter'[b] = adopter[b]

Sides == Preparing \cup {"idle", "insert", "held", "failed", "refused"}

LEMMA GoesTo ==
    ASSUME ScopeInv, NEW a \in Adopters, NEW at \in Sides, To(a, at)
    PROVE  Goes(a, at)
  <1>1. adopter \in [Adopters -> AdopterSet] /\ adopter[a] \in AdopterSet
    BY DEF ScopeInv, ScopeState
  <1>2. [adopter[a] EXCEPT !.at = at] \in AdopterSet
    BY <1>1 DEF AdopterSet, Sides
  <1>3. adopter' = [adopter EXCEPT ![a] = [adopter[a] EXCEPT !.at = at]]
    BY DEF To
  <1> QED
    BY <1>1, <1>2, <1>3 DEF Goes, AdopterSet

LEMMA GoesFailed ==
    ASSUME ScopeInv, NEW a \in Adopters, NEW clean \in BOOLEAN, Failed(a, clean)
    PROVE  Goes(a, "failed")
  <1>1. adopter \in [Adopters -> AdopterSet] /\ adopter[a] \in AdopterSet
    BY DEF ScopeInv, ScopeState
  <1> DEFINE c == adopter[a].clean /\ clean
             j == [adopter[a] EXCEPT !.at = "failed", !.clean = c]
  <1>2. c \in BOOLEAN /\ (c => adopter[a].clean)
    BY <1>1, AdopterFields
  <1>3. adopter' = [adopter EXCEPT ![a] = j]
    BY DEF Failed
  <1> HIDE DEF c
  <1>4. j \in AdopterSet /\ j.at = "failed" /\ j.scope = adopter[a].scope
        /\ j.previous = adopter[a].previous /\ j.clean = c /\ j.ctx = adopter[a].ctx
    BY <1>1, <1>2 DEF AdopterSet
  <1> HIDE DEF j
  <1> QED
    BY <1>1, <1>2, <1>3, <1>4 DEF Goes

GateSet == [holder : Adopters \cup {Nobody}, recorded : 0 .. MaxScopes]

(* A move of the gate's holder that leaves the document and the record is  *)
(* right when the mover finds what it will rely on.                        *)
LEMMA MoveKeeps ==
    ASSUME ScopeInv, NEW a \in Adopters, adopter[a].at \in Preparing,
           adopter[a].at = "define" => doc.minter.by # "page",
           UNCHANGED <<doc, known, tracked, issued>>, drawn' \in drawn .. MaxScopes,
           sessions \subseteq sessions', sessions' \subseteq Adopters,
           gate' \in GateSet, gate'.recorded = gate.recorded,
           adopter' \in [Adopters -> AdopterSet], Apt(a)',
           \A b \in Adopters : b # a => adopter'[b] = adopter[b]
    PROVE  ScopeInv'
  <1>1. ScopeState'
    BY ScopeAssumption DEF ScopeInv, ScopeState, GateSet, DocSet
  <1>2. MinterInv'
    BY MinterSame
  <1>3. ASSUME NEW b \in Adopters PROVE Apt(b)'
    <2>1. CASE b = a
      BY <2>1
    <2>2. CASE b # a
      <3>1. adopter[b].at \notin Preparing
        BY <2>2, OnePrepares
      <3>2. drawn' \in Nat /\ drawn' >= drawn
        BY ScopeAssumption DEF ScopeInv, ScopeState
      <3> QED
        BY <2>2, <3>1, <3>2, OthersWait
    <2> QED
      BY <2>1, <2>2
  <1>4. RefInv'
    BY RefSame
  <1> QED
    BY <1>1, <1>2, <1>3, <1>4 DEF ScopeInv

(* What an adopter at a step of its preparation knows.                     *)
LEMMA AdopterIs ==
    ASSUME ScopeInv, NEW a \in Adopters
    PROVE  /\ Apt(a) /\ adopter[a] \in AdopterSet /\ adopter \in [Adopters -> AdopterSet]
           /\ adopter[a].scope \in Nat /\ drawn \in Nat /\ drawn <= MaxScopes
           /\ MaxScopes \in Nat /\ gate \in GateSet /\ gate.recorded \in 0 .. drawn
           /\ doc \in DocSet /\ MinterInv /\ RefInv /\ known \subseteq 1 .. drawn
  <1>1. MaxScopes \in Nat /\ drawn \in 0 .. MaxScopes
    BY ScopeAssumption DEF ScopeInv, ScopeState
  <1>2. gate \in [holder : Adopters \cup {Nobody}, recorded : 0 .. drawn]
    BY DEF ScopeInv, ScopeState
  <1>3. gate \in GateSet /\ gate.recorded \in 0 .. drawn
    BY <1>1, <1>2 DEF GateSet
  <1> QED
    BY <1>1, <1>3, AdopterFields DEF ScopeInv, ScopeState

(* Where the prepared scope is looked at, nothing but the adopter's place  *)
(* and the gate's holder changes (context.rs, prepare_once).               *)
LEMMA LookKeeps ==
    ASSUME ScopeInv, NEW a \in Adopters, Ran(a) \/ Claimed(a)
    PROVE  ScopeInv'
  <1>1. Apt(a) /\ adopter[a] \in AdopterSet /\ gate \in GateSet /\ MinterInv /\ drawn \in Nat
        /\ drawn <= MaxScopes /\ known \subseteq 1 .. drawn /\ RefInv /\ doc \in DocSet
    BY AdopterIs
  <1>2. UNCHANGED <<doc, known, drawn, gate, sessions, tracked, issued>>
    BY DEF Ran, Claimed
  <1>3. adopter[a].at \in {"ran", "claimed"}
    BY DEF Ran, Claimed
  <1>4. CASE Ran(a)
    <2> DEFINE at == IF doc.started THEN "locked" ELSE "claimed"
    <2>1. at \in Sides /\ To(a, at)
      BY <1>4 DEF Ran, Sides, Preparing
    <2>2. Goes(a, at)
      BY <2>1, GoesTo
    <2>3. Apt(a)'
      BY <1>1, <1>2, <1>4, <2>2 DEF Apt, Goes, Ran, Preparing, ByHand
    <2> QED
      BY <1>1, <1>2, <1>3, <2>2, <2>3, MoveKeeps DEF Goes, Preparing, ScopeInv, ScopeState
  <1>5. CASE Claimed(a)
    <2> DEFINE at == IF Named THEN "recheck" ELSE "mint"
    <2>1. at \in Sides /\ To(a, at)
      BY <1>5 DEF Claimed, Sides, Preparing
    <2>2. Goes(a, at)
      BY <2>1, GoesTo
    <2>3. doc.minter.by = "page" => ~Named
      BY <1>1, <1>5, OnePrepares DEF MinterInv, Named, Claimed, Preparing
    <2>4. ByHand => Named
      BY <1>1, DocFields DEF MinterInv, Named, ByHand
    <2>5. Apt(a)'
      BY <1>1, <1>2, <1>5, <2>2, <2>3, <2>4 DEF Apt, Goes, Claimed, Preparing, ByHand
    <2> QED
      BY <1>1, <1>2, <1>3, <2>2, <2>5, MoveKeeps DEF Goes, Preparing, ScopeInv, ScopeState
  <1> QED
    BY <1>4, <1>5

(* The gate opens: who it prepared holds nothing of it any more.           *)
LEMMA PreparedKeeps ==
    ASSUME ScopeInv, NEW a \in Adopters, adopter[a].at \in Preparing \ {"register", "define"},
           Prepared(a), doc.minter.by # "page",
           UNCHANGED <<doc, known, drawn, sessions, tracked, issued>>
    PROVE  ScopeInv'
  <1>1. Apt(a) /\ adopter[a] \in AdopterSet /\ gate \in GateSet /\ drawn \in Nat
        /\ drawn <= MaxScopes
    BY AdopterIs
  <1>2. Goes(a, "insert")
    BY GoesTo DEF Prepared, Sides, To
  <1>3. gate' \in GateSet /\ gate'.recorded = gate.recorded
    BY <1>1 DEF Prepared, GateSet
  <1>4. Apt(a)'
    BY <1>1, <1>2 DEF Apt, Goes, Preparing, ByHand
  <1> QED
    BY <1>1, <1>2, <1>3, <1>4, MoveKeeps DEF Goes, ScopeInv, ScopeState

LEMMA FailedKeeps ==
    ASSUME ScopeInv, NEW a \in Adopters, adopter[a].at \in Preparing,
           adopter[a].at = "define" => doc.minter.by # "page",
           NEW clean \in BOOLEAN, Failed(a, clean),
           UNCHANGED <<doc, known, drawn, sessions, tracked, issued>>
    PROVE  ScopeInv'
  <1>1. Apt(a) /\ adopter[a] \in AdopterSet /\ gate \in GateSet /\ drawn \in Nat
        /\ drawn <= MaxScopes
    BY AdopterIs
  <1>2. Goes(a, "failed")
    BY GoesFailed
  <1>3. gate' \in GateSet /\ gate'.recorded = gate.recorded
    BY <1>1 DEF Failed, GateSet
  <1>4. Apt(a)'
    BY <1>1, <1>2 DEF Apt, Goes, Preparing, ByHand
  <1> QED
    BY <1>1, <1>2, <1>3, <1>4, MoveKeeps DEF Goes, ScopeInv, ScopeState

(* A minter that is there is some page's or the engine's.                  *)
LEMMA NoneIs ==
    ASSUME ScopeInv
    PROVE  doc.minter = NoMinter <=> doc.minter.by = "none"
  <1>1. doc.minter \in [by : {"none", "page", "engine"}, scope : 0 .. MaxScopes]
    BY DocFields DEF ScopeInv, ScopeState
  <1>2. doc.minter.by = "none" => doc.minter.scope = 0
    BY DEF ScopeInv, MinterInv
  <1>3. NoMinter.by = "none"
    BY DEF NoMinter
  <1>4. doc.minter.by = "none" => doc.minter = NoMinter
    BY <1>1, <1>2 DEF NoMinter
  <1> QED
    BY <1>3, <1>4

LEMMA LockedKeeps ==
    ASSUME ScopeInv, NEW a \in Adopters, Locked(a)
    PROVE  ScopeInv'
  <1>1. Apt(a) /\ adopter[a] \in AdopterSet /\ gate \in GateSet /\ drawn \in Nat
        /\ drawn <= MaxScopes /\ MinterInv
    BY AdopterIs
  <1>2. /\ UNCHANGED <<doc, known, drawn, sessions, tracked, issued>>
        /\ adopter[a].at = "locked"
    BY DEF Locked
  <1>3. doc.started /\ doc.minter.by = "engine" /\ doc.minter # NoMinter
    BY <1>1, <1>2, NoneIs DEF Apt, MinterInv
  <1>4. CASE Prepared(a)
    BY <1>2, <1>3, <1>4, PreparedKeeps DEF Preparing
  <1>5. CASE ~Prepared(a)
    <2> DEFINE j == [adopter[a] EXCEPT !.at = "claimed", !.clean = FALSE]
    <2>1. adopter' = [adopter EXCEPT ![a] = j] /\ gate' = gate
      BY <1>3, <1>5 DEF Locked
    <2>2. /\ j \in AdopterSet /\ j.at = "claimed" /\ j.clean = FALSE
          /\ j.scope = adopter[a].scope /\ j.ctx = adopter[a].ctx
      BY <1>1 DEF AdopterSet, Preparing
    <2> HIDE DEF j
    <2>3. adopter'[a] = j /\ adopter' \in [Adopters -> AdopterSet]
          /\ \A b \in Adopters : b # a => adopter'[b] = adopter[b]
      BY <2>1, <2>2, AdopterIs
    <2>4. Apt(a)'
      BY <1>1, <1>2, <2>1, <2>2, <2>3 DEF Apt, Preparing, ByHand
    <2> QED
      BY <1>1, <1>2, <2>1, <2>3, <2>4, MoveKeeps DEF Preparing, ScopeInv, ScopeState
  <1> QED
    BY <1>4, <1>5

LEMMA RecheckKeeps ==
    ASSUME ScopeInv, NEW a \in Adopters, Recheck(a)
    PROVE  ScopeInv'
  <1>1. Apt(a) /\ adopter[a] \in AdopterSet /\ gate \in GateSet /\ drawn \in Nat
        /\ drawn <= MaxScopes /\ MinterInv
    BY AdopterIs
  <1>2. /\ UNCHANGED <<doc, known, drawn, sessions, tracked, issued>>
        /\ adopter[a].at = "recheck"
    BY DEF Recheck
  <1>3. doc.minter.by # "page" /\ (ByHand => doc.minter.scope = gate.recorded)
    BY <1>1, <1>2 DEF Apt, MinterInv
  <1>4. CASE Failed(a, TRUE)
    BY <1>2, <1>4, FailedKeeps DEF Preparing
  <1>5. CASE Prepared(a)
    BY <1>2, <1>3, <1>5, PreparedKeeps DEF Preparing
  <1>6. CASE ~Failed(a, TRUE) /\ ~Prepared(a)
    <2>1. To(a, "mint") /\ gate' = gate /\ ~ByHand
      BY <1>3, <1>6, NoneIs DEF Recheck, ByHand
    <2>2. Goes(a, "mint")
      BY <2>1, GoesTo DEF Sides, Preparing
    <2>3. Apt(a)'
      BY <1>1, <1>2, <1>3, <2>1, <2>2 DEF Apt, Goes, Preparing, ByHand
    <2> QED
      BY <1>1, <1>2, <2>1, <2>2, <2>3, MoveKeeps DEF Goes, Preparing, ScopeInv, ScopeState
  <1> QED
    BY <1>4, <1>5, <1>6

LEMMA VerifyKeeps ==
    ASSUME ScopeInv, NEW a \in Adopters, Verify(a) \/ Fault(a)
    PROVE  ScopeInv'
  <1>1. Apt(a)
    BY AdopterIs
  <1>2. /\ UNCHANGED <<doc, known, drawn, sessions, tracked, issued>>
        /\ adopter[a].at \in Preparing \ {"define"}
    BY DEF Verify, Fault, Preparing
  <1>3. CASE Failed(a, TRUE) \/ Failed(a, FALSE)
    BY <1>2, <1>3, FailedKeeps
  <1>4. CASE Prepared(a) /\ Verify(a)
    BY <1>1, <1>2, <1>4, PreparedKeeps DEF Apt, Verify
  <1> QED
    BY <1>3, <1>4 DEF Verify, Fault

LEMMA UnadoptedIs ==
    /\ Unadopted \in AdopterSet /\ Unadopted.at = "idle" /\ Unadopted.scope = 0
  BY ScopeAssumption DEF Unadopted, AdopterSet

LEMMA EnterKeeps ==
    ASSUME ScopeInv, NEW a \in Adopters, NEW c \in Contexts, Enter(a, c)
    PROVE  ScopeInv'
  <1> DEFINE j == [Unadopted EXCEPT !.at = "register", !.ctx = c, !.began = doc.n]
  <1>1. Apt(a) /\ gate \in GateSet /\ drawn \in Nat /\ drawn <= MaxScopes /\ MaxScopes \in Nat
        /\ doc \in DocSet /\ gate.recorded \in 0 .. drawn
        /\ adopter \in [Adopters -> AdopterSet] /\ Nobody \notin Adopters
    BY AdopterIs, ScopeAssumption
  <1>2. /\ adopter[a].at = "idle" /\ gate.holder = Nobody
        /\ UNCHANGED <<doc, known, drawn, sessions, tracked, issued>>
        /\ gate' = [gate EXCEPT !.holder = a]
    BY DEF Enter
  <1>3. adopter' = [adopter EXCEPT ![a] = j]
    BY DEF Enter
  <1>4. j \in AdopterSet /\ j.at = "register" /\ j.scope = 0 /\ j.ctx = c
    <2> DEFINE u == Unadopted
               n == doc.n
    <2>1. u \in AdopterSet /\ u.scope = 0 /\ n \in 0 .. MaxDocs
      BY <1>1, DocFields, UnadoptedIs, ScopeAssumption
    <2>2. j = [u EXCEPT !.at = "register", !.ctx = c, !.began = n]
      OBVIOUS
    <2> HIDE DEF u, n, j
    <2> QED
      BY <2>1, <2>2 DEF AdopterSet, Preparing
  <1> HIDE DEF j
  <1>5. /\ adopter' \in [Adopters -> AdopterSet] /\ adopter'[a] = j
        /\ \A b \in Adopters : b # a => adopter'[b] = adopter[b]
    BY <1>1, <1>3, <1>4
  <1>6. \A b \in Adopters : adopter[b].at \notin Preparing
    BY <1>1, <1>2 DEF ScopeInv, Apt
  <1>7. gate'.holder = a /\ gate'.recorded = gate.recorded
        /\ gate' \in [holder : Adopters \cup {Nobody}, recorded : 0 .. drawn]
    BY <1>1, <1>2 DEF GateSet
  <1>8. ScopeState'
    BY <1>2, <1>5, <1>7 DEF ScopeInv, ScopeState
  <1>9. MinterInv'
    BY <1>2, <1>6, <1>7, MinterSame DEF Preparing
  <1>10. Apt(a)'
    BY <1>1, <1>2, <1>4, <1>5, <1>7 DEF Apt, Preparing
  <1>11. \A b \in Adopters : b # a => Apt(b)'
    BY <1>1, <1>2, <1>5, <1>6, OthersWait
  <1>12. RefInv'
    BY <1>2, RefSame
  <1> QED
    BY <1>8, <1>9, <1>10, <1>11, <1>12 DEF ScopeInv

LEMMA RegisterKeeps ==
    ASSUME ScopeInv, NEW a \in Adopters, Register(a)
    PROVE  ScopeInv'
  <1>1. Apt(a) /\ adopter[a] \in AdopterSet /\ gate \in GateSet /\ drawn \in Nat
        /\ drawn <= MaxScopes
    BY AdopterIs
  <1>2. /\ UNCHANGED <<doc, known, drawn, gate, tracked, issued>>
        /\ adopter[a].at = "register" /\ sessions' = sessions \cup {a} /\ To(a, "ran")
    BY DEF Register
  <1>3. Goes(a, "ran")
    BY <1>2, GoesTo DEF Sides, Preparing
  <1>4. Apt(a)'
    BY <1>1, <1>2, <1>3 DEF Apt, Goes, Preparing, ByHand
  <1> QED
    BY <1>1, <1>2, <1>3, <1>4, MoveKeeps DEF Goes, Preparing, ScopeInv, ScopeState

LEMMA MintKeeps ==
    ASSUME ScopeInv, NEW a \in Adopters, Mint(a)
    PROVE  ScopeInv'
  <1> DEFINE s == drawn'
             j == [adopter[a] EXCEPT !.at = "claim", !.scope = s]
  <1>1. Apt(a) /\ adopter[a] \in AdopterSet /\ adopter \in [Adopters -> AdopterSet]
        /\ gate \in GateSet /\ drawn \in Nat /\ MaxScopes \in Nat
        /\ gate.recorded \in 0 .. drawn /\ known \subseteq 1 .. drawn /\ MinterInv
    BY AdopterIs
  <1>2. /\ UNCHANGED <<doc, known, gate, sessions, tracked, issued>>
        /\ adopter[a].at = "mint" /\ drawn' = drawn + 1 /\ drawn < MaxScopes
    BY DEF Mint
  <1>3. adopter' = [adopter EXCEPT ![a] = j]
    BY DEF Mint
  <1>4. drawn' \in 1 .. MaxScopes
    BY <1>1, <1>2
  <1>5. j \in AdopterSet /\ j.at = "claim" /\ j.scope = drawn' /\ j.clean = adopter[a].clean
        /\ j.ctx = adopter[a].ctx
    <2>1. s \in 0 .. MaxScopes
      BY <1>4
    <2> HIDE DEF s
    <2>2. j \in AdopterSet /\ j.at = "claim" /\ j.scope = s /\ j.clean = adopter[a].clean
          /\ j.ctx = adopter[a].ctx
      BY <1>1, <2>1 DEF AdopterSet, Preparing
    <2> QED
      BY <2>2 DEF s
  <1> HIDE DEF j
  <1>6. /\ adopter' \in [Adopters -> AdopterSet] /\ adopter'[a] = j
        /\ \A b \in Adopters : b # a => adopter'[b] = adopter[b]
    BY <1>1, <1>3, <1>5
  <1>7. drawn' \notin known /\ gate.recorded # drawn'
    BY <1>1, <1>2
  <1>8. Apt(a)'
    BY <1>1, <1>2, <1>4, <1>5, <1>6, <1>7 DEF Apt, Preparing, ByHand
  <1>9. drawn' \in drawn .. MaxScopes
    BY <1>1, <1>2
  <1> QED
    BY <1>1, <1>2, <1>6, <1>8, <1>9, MoveKeeps DEF Preparing, ScopeInv, ScopeState

(* The claim of a document, and the record of it, are made together.       *)
LEMMA ClaimKeeps ==
    ASSUME ScopeInv, NEW a \in Adopters, Claim(a)
    PROVE  ScopeInv'
  <1> DEFINE s == adopter[a].scope
             p == gate.recorded
             j == [adopter[a] EXCEPT !.at = "define", !.previous = p]
  <1>1. Apt(a) /\ adopter[a] \in AdopterSet /\ adopter \in [Adopters -> AdopterSet]
        /\ gate \in GateSet /\ drawn \in Nat /\ MaxScopes \in Nat /\ drawn <= MaxScopes
        /\ gate.recorded \in 0 .. drawn /\ MinterInv /\ doc \in DocSet
    BY AdopterIs
  <1>2. /\ UNCHANGED <<known, drawn, sessions, tracked, issued>>
        /\ adopter[a].at = "claim" /\ doc' = [doc EXCEPT !.claim = s]
        /\ gate' = [gate EXCEPT !.recorded = s]
    BY DEF Claim
  <1>3. adopter' = [adopter EXCEPT ![a] = j]
    BY DEF Claim
  <1>4. s \in 1 .. drawn /\ s \notin known /\ gate.recorded # s /\ ~ByHand
    BY <1>1, <1>2 DEF Apt
  <1>5. j \in AdopterSet /\ j.at = "define" /\ j.scope = s /\ j.previous = gate.recorded
        /\ j.clean = adopter[a].clean /\ j.ctx = adopter[a].ctx
    <2>1. p \in 0 .. MaxScopes
      BY <1>1
    <2> HIDE DEF p
    <2>2. j \in AdopterSet /\ j.at = "define" /\ j.scope = s /\ j.previous = p
          /\ j.clean = adopter[a].clean /\ j.ctx = adopter[a].ctx
      BY <1>1, <2>1 DEF AdopterSet, Preparing
    <2> QED
      BY <2>2 DEF p
  <1> HIDE DEF j
  <1>6. /\ adopter' \in [Adopters -> AdopterSet] /\ adopter'[a] = j
        /\ \A b \in Adopters : b # a => adopter'[b] = adopter[b]
    BY <1>1, <1>3, <1>5
  <1>7. gate'.holder = gate.holder /\ gate'.recorded = s
        /\ gate' \in [holder : Adopters \cup {Nobody}, recorded : 0 .. drawn]
    BY <1>1, <1>2, <1>4 DEF GateSet
  <1>8. /\ doc' \in DocSet /\ doc'.claim = s /\ doc'.minter = doc.minter
        /\ doc'.started = doc.started /\ doc'.n = doc.n /\ doc'.scope = doc.scope
        /\ doc'.refs = doc.refs /\ doc'.reverse = doc.reverse /\ doc'.gone = doc.gone
        /\ doc'.counter = doc.counter
    BY <1>1, <1>2, <1>4 DEF DocSet
  <1>9. ScopeState'
    BY <1>1, <1>2, <1>4, <1>6, <1>7, <1>8 DEF ScopeInv, ScopeState
  <1>10. MinterInv'
    BY <1>1, <1>2, <1>4, <1>5, <1>6, <1>8 DEF MinterInv, ByHand
  <1>11. Apt(a)'
    BY <1>1, <1>2, <1>4, <1>5, <1>6, <1>7, <1>8 DEF Apt, Preparing, ByHand
  <1>12. ASSUME NEW b \in Adopters, b # a PROVE Apt(b)'
    <2>1. adopter[b].at \notin Preparing
      BY <1>2, <1>12, OnePrepares DEF Preparing
    <2> QED
      BY <1>1, <1>2, <1>6, <1>8, <1>12, <2>1, OthersWait
  <1>13. RefInv'
    BY <1>2, <1>8 DEF ScopeInv, RefInv
  <1> QED
    BY <1>9, <1>10, <1>11, <1>12, <1>13 DEF ScopeInv

(* The engine's define takes in the document it claimed, and its scope is  *)
(* one no document had.                                                    *)
LEMMA InstallKeeps ==
    ASSUME ScopeInv, NEW a \in Adopters, adopter[a].at = "define", doc.minter = NoMinter,
           doc' = Installed(a), known' = known \cup {adopter[a].scope},
           UNCHANGED <<drawn, sessions, tracked, issued>>,
           gate' \in GateSet, gate'.recorded = gate.recorded,
           adopter' \in [Adopters -> AdopterSet], adopter'[a].scope = adopter[a].scope,
           adopter'[a].ctx = adopter[a].ctx,
           \/ adopter'[a].at = "failed"
           \/ adopter'[a].at = "verify" /\ gate' = gate,
           \A b \in Adopters : b # a => adopter'[b] = adopter[b]
    PROVE  ScopeInv'
  <1> DEFINE s == adopter[a].scope
  <1>1. Apt(a) /\ gate \in GateSet /\ drawn \in Nat /\ MaxScopes \in Nat /\ drawn <= MaxScopes
        /\ gate.recorded \in 0 .. drawn /\ MinterInv /\ doc \in DocSet /\ known \subseteq 1 .. drawn
    BY AdopterIs
  <1>2. doc.minter.by = "none" /\ ~doc.started
    BY <1>1, NoneIs DEF MinterInv
  <1>3. /\ s \in 1 .. drawn /\ s \notin known /\ gate.recorded = s /\ doc.claim = s
        /\ gate.holder = a /\ a \in sessions
    BY <1>1, <1>2 DEF Apt, Preparing
  <1>4. /\ doc' \in DocSet /\ doc'.claim = doc.claim /\ doc'.minter = Engines(s)
        /\ doc'.started = doc.started /\ doc'.n = doc.n /\ doc'.scope = doc.scope
        /\ doc'.refs = doc.refs /\ doc'.reverse = doc.reverse /\ doc'.gone = doc.gone
        /\ doc'.counter = doc.counter
    <2>1. Engines(s) \in [by : {"none", "page", "engine"}, scope : 0 .. MaxScopes]
      BY <1>1, <1>3 DEF Engines
    <2> DEFINE m == Engines(s)
    <2>2. doc' = [doc EXCEPT !.minter = m]
      BY DEF Installed
    <2> HIDE DEF m
    <2>3. m \in [by : {"none", "page", "engine"}, scope : 0 .. MaxScopes]
      BY <2>1 DEF m
    <2>4. /\ doc' \in DocSet /\ doc'.claim = doc.claim /\ doc'.minter = m
          /\ doc'.started = doc.started /\ doc'.n = doc.n /\ doc'.scope = doc.scope
          /\ doc'.refs = doc.refs /\ doc'.reverse = doc.reverse /\ doc'.gone = doc.gone
          /\ doc'.counter = doc.counter
      BY <1>1, <2>2, <2>3 DEF DocSet
    <2> QED
      BY <2>4 DEF m
  <1>5. doc'.minter.by = "engine" /\ doc'.minter.scope = s
    BY <1>4 DEF Engines
  <1>6. ScopeState'
    BY <1>1, <1>3, <1>4, <1>5 DEF ScopeInv, ScopeState, GateSet
  <1>7. MinterInv'
    BY <1>2, <1>3, <1>4, <1>5 DEF MinterInv, ByHand
  <1>8. Apt(a)'
    BY <1>1, <1>3, <1>5 DEF Apt, Preparing
  <1>9. ASSUME NEW b \in Adopters, b # a PROVE Apt(b)'
    <2>1. adopter[b].at \notin Preparing
      BY <1>9, OnePrepares DEF Preparing
    <2> QED
      BY <1>1, <1>2, <1>4, <1>5, <1>9, <2>1, OthersWait
  <1>10. RefInv'
    <2>1. doc.scope = 0 /\ RefInv
      BY <1>2 DEF ScopeInv, RefInv
    <2>2. \A i \in issued : i.doc # doc.n /\ i.ref[1] \in known /\ i.ref[1] # s
      BY <1>3, <2>1 DEF RefInv
    <2> QED
      BY <1>4, <1>5, <2>1, <2>2 DEF RefInv
  <1> QED
    BY <1>6, <1>7, <1>8, <1>9, <1>10 DEF ScopeInv

LEMMA DefineLostKeeps ==
    ASSUME ScopeInv, NEW a \in Adopters, DefineLost(a)
    PROVE  ScopeInv'
  <1>1. /\ UNCHANGED <<drawn, sessions, tracked, issued>> /\ Failed(a, FALSE)
        /\ adopter[a].at = "define" /\ doc.minter = NoMinter
    BY DEF DefineLost
  <1>2. Goes(a, "failed")
    BY <1>1, GoesFailed
  <1>3. gate \in GateSet
    BY AdopterIs
  <1>4. gate' \in GateSet /\ gate'.recorded = gate.recorded
    BY <1>1, <1>3 DEF Failed, GateSet
  <1>5. CASE UNCHANGED <<doc, known>>
    BY <1>1, <1>5, NoneIs, FailedKeeps DEF Preparing
  <1>6. CASE doc' = Installed(a) /\ known' = known \cup {adopter[a].scope}
    BY <1>1, <1>2, <1>4, <1>6, InstallKeeps DEF Goes
  <1> QED
    BY <1>5, <1>6 DEF DefineLost

(* Refused, the define leaves the record as it was before the claim.       *)
LEMMA DefineKeeps ==
    ASSUME ScopeInv, NEW a \in Adopters, Define(a)
    PROVE  ScopeInv'
  <1>1. /\ UNCHANGED <<drawn, sessions, tracked, issued>> /\ adopter[a].at = "define"
    BY DEF Define
  <1>2. Apt(a) /\ gate \in GateSet /\ drawn \in Nat /\ MaxScopes \in Nat /\ drawn <= MaxScopes
        /\ gate.recorded \in 0 .. drawn /\ MinterInv /\ adopter[a] \in AdopterSet
        /\ doc \in DocSet
    BY AdopterIs
  <1>3. CASE doc.minter = NoMinter
    <2>1. /\ doc' = Installed(a) /\ known' = known \cup {adopter[a].scope}
          /\ To(a, "verify") /\ gate' = gate
      BY <1>3 DEF Define
    <2>2. Goes(a, "verify")
      BY <2>1, GoesTo DEF Sides, Preparing
    <2> QED
      BY <1>1, <1>2, <1>3, <2>1, <2>2, InstallKeeps DEF Goes
  <1>4. CASE doc.minter # NoMinter
    <2>1. /\ adopter' = [adopter EXCEPT ![a].at = "refused"] /\ UNCHANGED <<doc, known>>
          /\ gate' = [gate EXCEPT !.holder = Nobody, !.recorded = adopter[a].previous]
      BY <1>4 DEF Define
    <2>2. Goes(a, "refused")
      BY <2>1, GoesTo DEF Sides, To
    <2>3. /\ adopter[a].previous \in 0 .. drawn /\ ~ByHand /\ doc.minter.by # "none"
          /\ doc.claim = 0 \/ doc.claim # adopter[a].previous
      BY <1>1, <1>2, <1>4, NoneIs, AdopterFields DEF Apt
    <2>4. gate' \in [holder : Adopters \cup {Nobody}, recorded : 0 .. drawn]
          /\ gate'.recorded = adopter[a].previous
      BY <1>2, <2>1, <2>3 DEF GateSet
    <2>5. ScopeState'
      BY <1>1, <2>1, <2>2, <2>4 DEF ScopeInv, ScopeState, Goes
    <2>6. MinterInv'
      BY <1>2, <2>1, <2>3, <2>4 DEF MinterInv, ByHand
    <2>7. adopter[a].clean => doc.minter.by = "page"
      BY <1>1, <1>2, <2>3, DocFields DEF Apt, ByHand
    <2>8. Apt(a)'
      BY <1>1, <1>2, <2>1, <2>2, <2>7 DEF Apt, Goes, Preparing, ByHand
    <2>9. ASSUME NEW b \in Adopters, b # a PROVE Apt(b)'
      <3>1. adopter[b].at \notin Preparing /\ adopter'[b] = adopter[b]
        BY <1>1, <2>2, <2>9, OnePrepares DEF Preparing, Goes
      <3> QED
        BY <1>1, <1>2, <2>1, <3>1, OthersWait
    <2>10. RefInv'
      BY <1>1, <2>1, RefSame
    <2> QED
      BY <2>5, <2>6, <2>8, <2>9, <2>10 DEF ScopeInv
  <1> QED
    BY <1>3, <1>4

(* An adopter outside the gate comes or goes: the gate, the document and   *)
(* the others stay.                                                        *)
LEMMA OutsideKeeps ==
    ASSUME ScopeInv, NEW a \in Adopters, adopter[a].at \notin Preparing,
           UNCHANGED <<doc, known, drawn, gate, issued>>,
           sessions' \subseteq Adopters, \A b \in sessions : b # a => b \in sessions',
           tracked' \in [Contexts -> Adopters \cup {Nobody}],
           adopter' \in [Adopters -> AdopterSet], Apt(a)',
           \A b \in Adopters : b # a => adopter'[b] = adopter[b]
    PROVE  ScopeInv'
  <1>1. ScopeState'
    BY DEF ScopeInv, ScopeState
  <1>2. MinterInv'
    BY MinterSame DEF Preparing
  <1>3. \A b \in Adopters : b # a => Apt(b)'
    BY OthersSame
  <1>4. RefInv'
    BY RefSame
  <1> QED
    BY <1>1, <1>2, <1>3, <1>4 DEF ScopeInv

LEMMA LeaveKeeps ==
    ASSUME ScopeInv, NEW a \in Adopters, AdoptFails(a) \/ Release(a)
    PROVE  ScopeInv'
  <1>1. Apt(a) /\ drawn \in Nat /\ adopter[a] \in AdopterSet
        /\ adopter \in [Adopters -> AdopterSet]
    BY AdopterIs
  <1>2. /\ UNCHANGED <<doc, known, drawn, gate, issued>> /\ sessions' = sessions \ {a}
        /\ adopter' = [adopter EXCEPT ![a] = Unadopted] /\ adopter[a].at \notin Preparing
    BY DEF AdoptFails, Release, Preparing
  <1>3. tracked' \in [Contexts -> Adopters \cup {Nobody}]
    BY DEF ScopeInv, ScopeState, AdoptFails, Release
  <1>4. /\ adopter' \in [Adopters -> AdopterSet] /\ adopter'[a].at = "idle"
        /\ adopter'[a].scope = 0 /\ \A b \in Adopters : b # a => adopter'[b] = adopter[b]
    BY <1>1, <1>2, UnadoptedIs
  <1>5. Apt(a)'
    BY <1>1, <1>2, <1>4 DEF Apt, Preparing
  <1>6. sessions' \subseteq Adopters
    BY <1>2 DEF ScopeInv, ScopeState
  <1> QED
    BY <1>2, <1>3, <1>4, <1>5, <1>6, OutsideKeeps

LEMMA InsertKeeps ==
    ASSUME ScopeInv, NEW a \in Adopters, Insert(a)
    PROVE  ScopeInv'
  <1> DEFINE h == IF tracked[adopter[a].ctx] = Nobody THEN a ELSE tracked[adopter[a].ctx]
             j == [adopter[a] EXCEPT !.at = "held", !.handle = h]
  <1>1. Apt(a) /\ drawn \in Nat /\ adopter[a] \in AdopterSet
        /\ adopter \in [Adopters -> AdopterSet]
    BY AdopterIs
  <1>2. /\ UNCHANGED <<doc, known, drawn, gate, sessions, issued>>
        /\ adopter' = [adopter EXCEPT ![a] = j] /\ adopter[a].at = "insert"
        /\ tracked' = [tracked EXCEPT ![adopter[a].ctx] = a]
    BY DEF Insert
  <1>3. /\ tracked \in [Contexts -> Adopters \cup {Nobody}] /\ sessions \subseteq Adopters
        /\ tracked' \in [Contexts -> Adopters \cup {Nobody}]
    BY <1>2 DEF ScopeInv, ScopeState
  <1>4. h \in Adopters \cup {Nobody}
    BY <1>1, <1>2, <1>3 DEF Apt
  <1> HIDE DEF h
  <1>5. j \in AdopterSet /\ j.at = "held" /\ j.scope = adopter[a].scope
        /\ j.clean = adopter[a].clean
    BY <1>1, <1>4 DEF AdopterSet
  <1> HIDE DEF j
  <1>6. /\ adopter' \in [Adopters -> AdopterSet] /\ adopter'[a] = j
        /\ \A b \in Adopters : b # a => adopter'[b] = adopter[b]
    BY <1>1, <1>2, <1>5
  <1>7. Apt(a)'
    BY <1>1, <1>2, <1>5, <1>6 DEF Apt, Preparing, ByHand
  <1> QED
    BY <1>2, <1>3, <1>6, <1>7, OutsideKeeps DEF Preparing

(* A new document is covered by the scripts of whoever prepares or holds   *)
(* one, and then has a scope of its own.                                   *)
LEMMA NavigateKeeps ==
    ASSUME ScopeInv, Navigate
    PROVE  ScopeInv'
  <1> DEFINE n == doc.n + 1
             j(a) == [adopter[a] EXCEPT !.clean = FALSE]
  <1>1. /\ drawn \in Nat /\ MaxScopes \in Nat /\ drawn <= MaxScopes /\ MaxDocs \in Nat
        /\ known \subseteq 1 .. drawn /\ doc \in DocSet /\ RefInv /\ doc.n \in 1 .. MaxDocs
        /\ adopter \in [Adopters -> AdopterSet] /\ gate.recorded \in Nat
    BY DocFields, ScopeAssumption DEF ScopeInv, ScopeState
  <1>2. /\ n \in 1 .. MaxDocs /\ UNCHANGED <<gate, sessions, tracked, issued>>
        /\ adopter' = [a \in Adopters |-> j(a)]
    BY <1>1 DEF Navigate
  <1>3. \A a \in Adopters : /\ j(a) \in AdopterSet /\ j(a).at = adopter[a].at
                            /\ j(a).scope = adopter[a].scope /\ j(a).ctx = adopter[a].ctx
                            /\ j(a).previous = adopter[a].previous /\ j(a).clean = FALSE
    BY <1>1 DEF AdopterSet
  <1>4. /\ adopter' \in [Adopters -> AdopterSet]
        /\ \A a \in Adopters :
              /\ adopter'[a].at = adopter[a].at /\ adopter'[a].scope = adopter[a].scope
              /\ adopter'[a].ctx = adopter[a].ctx /\ adopter'[a].clean = FALSE
              /\ adopter'[a].previous = adopter[a].previous
    <2> HIDE DEF j
    <2> QED
      BY <1>2, <1>3
  <1>5. PICK started \in BOOLEAN, minter \in [by : {"none", "page", "engine"},
                                              scope : 0 .. MaxScopes] :
          /\ doc' = Fresh(n, started, minter)
          /\ \/ /\ started /\ minter.by = "engine" /\ minter.scope = drawn + 1
                /\ drawn' = drawn + 1 /\ drawn < MaxScopes /\ known' = known \cup {drawn + 1}
             \/ /\ ~started /\ minter.by # "engine" /\ sessions = {} /\ UNCHANGED <<drawn, known>>
                /\ minter.scope <= drawn /\ (minter.by = "none" => minter.scope = 0)
    <2>1. CASE sessions # {}
      <3> DEFINE m == Engines(drawn + 1)
      <3>1. /\ drawn < MaxScopes /\ drawn' = drawn + 1 /\ known' = known \cup {drawn + 1}
            /\ doc' = Fresh(n, TRUE, m)
        BY <2>1 DEF Navigate
      <3>2. m \in [by : {"none", "page", "engine"}, scope : 0 .. MaxScopes]
            /\ m.by = "engine" /\ m.scope = drawn + 1
        BY <1>1, <3>1 DEF Engines
      <3> QED
        BY <3>1, <3>2
    <2>2. CASE sessions = {}
      <3>1. PICK m \in {NoMinter} \cup {Pages(s) : s \in known \cup {0}} :
              doc' = Fresh(n, FALSE, m)
        BY <2>2 DEF Navigate
      <3>2. m \in [by : {"none", "page", "engine"}, scope : 0 .. MaxScopes]
            /\ m.by # "engine" /\ m.scope <= drawn /\ (m.by = "none" => m.scope = 0)
        <4>1. CASE m = NoMinter
          BY <1>1, <4>1 DEF NoMinter
        <4>2. CASE m # NoMinter
          <5>1. PICK s \in known \cup {0} : m = Pages(s)
            BY <3>1, <4>2
          <5>2. s \in 0 .. MaxScopes /\ s <= drawn
            BY <1>1
          <5> QED
            BY <5>1, <5>2 DEF Pages
        <4> QED
          BY <4>1, <4>2
      <3>3. UNCHANGED <<drawn, known>>
        BY <2>2 DEF Navigate
      <3> QED
        BY <2>2, <3>1, <3>2, <3>3
    <2> QED
      BY <2>1, <2>2
  <1>6. /\ doc' \in DocSet /\ doc'.n = n /\ doc'.started = started /\ doc'.minter = minter
        /\ doc'.claim = 0 /\ doc'.scope = 0 /\ doc'.counter = 0 /\ doc'.reverse = {}
        /\ doc'.gone = {} /\ \A e \in Elements : doc'.refs[e] = 0
    BY <1>1, <1>2, <1>5 DEF Fresh, DocSet
  <1>7. ScopeState'
    BY <1>1, <1>2, <1>4, <1>5, <1>6 DEF ScopeInv, ScopeState
  <1>8. MinterInv'
    BY <1>5, <1>6 DEF MinterInv, ByHand
  <1>9. ASSUME NEW a \in Adopters PROVE Apt(a)'
    <2>1. Apt(a) /\ adopter[a].scope \in Nat /\ adopter[a].previous \in Nat
      BY AdopterIs, AdopterFields
    <2>2. CASE started
      <3>1. /\ gate' = gate /\ sessions' = sessions /\ drawn' = drawn + 1
            /\ known' = known \cup {drawn + 1} /\ doc'.started /\ doc'.minter.by = "engine"
            /\ doc'.claim = 0
        BY <1>2, <1>5, <1>6, <2>2
      <3>2. /\ adopter'[a].at = adopter[a].at /\ adopter'[a].scope = adopter[a].scope
            /\ adopter'[a].ctx = adopter[a].ctx /\ ~adopter'[a].clean
            /\ adopter'[a].previous = adopter[a].previous
        BY <1>4
      <3>3. adopter[a].scope <= drawn =>
               adopter[a].scope <= drawn + 1 /\ adopter[a].scope # drawn + 1
        BY <1>1, <2>1
      <3>4. /\ adopter[a].previous <= drawn => adopter[a].previous <= drawn + 1
            /\ adopter[a].scope \in 1 .. drawn => adopter[a].scope \in 1 .. drawn + 1
        BY <1>1, <2>1
      <3> QED
        BY ONLY <2>1, <3>1, <3>2, <3>3, <3>4 DEF Apt, ByHand
    <2>3. CASE ~started
      BY <1>1, <1>2, <1>4, <1>5, <1>6, <2>1, <2>3 DEF Apt, ByHand, Preparing
    <2> QED
      BY <2>2, <2>3
  <1>10. RefInv'
    BY <1>1, <1>2, <1>5, <1>6 DEF RefInv
  <1> QED
    BY <1>7, <1>8, <1>9, <1>10 DEF ScopeInv

LEMMA CollectKeeps ==
    ASSUME ScopeInv, NEW e \in Elements, Collect(e)
    PROVE  ScopeInv'
  <1>1. doc \in DocSet /\ UNCHANGED <<known, drawn, gate, sessions, adopter, tracked, issued>>
    BY DEF ScopeInv, ScopeState, Collect
  <1>2. /\ doc' \in DocSet /\ doc'.gone = doc.gone \cup {e} /\ doc'.claim = doc.claim
        /\ doc'.minter = doc.minter /\ doc'.started = doc.started /\ doc'.n = doc.n
        /\ doc'.scope = doc.scope /\ doc'.refs = doc.refs /\ doc'.reverse = doc.reverse
        /\ doc'.counter = doc.counter
    BY <1>1 DEF Collect, DocSet
  <1>3. ScopeState'
    BY <1>1, <1>2 DEF ScopeInv, ScopeState
  <1>4. MinterInv'
    BY <1>1, <1>2, MinterSame
  <1>5. \A b \in Adopters : Apt(b)'
    BY <1>1, <1>2, OthersSame
  <1>6. RefInv'
    BY <1>1, <1>2 DEF ScopeInv, RefInv
  <1> QED
    BY <1>3, <1>4, <1>5, <1>6 DEF ScopeInv

LEMMA KeptIs ==
    ASSUME NEW d
    PROVE  /\ Kept(d) \subseteq d.reverse
           /\ \A e \in d.reverse : e \notin d.gone => e \in Kept(d)
  BY DEF Kept

(* A snapshot numbers an element for good, in the scope of its document.   *)
LEMMA SnapshotKeeps ==
    ASSUME ScopeInv, NEW a \in Adopters, NEW e \in Elements, Snapshot(a, e)
    PROVE  ScopeInv'
  <1> DEFINE scope == IF doc.scope = 0 THEN doc.minter.scope ELSE doc.scope
             n     == IF doc.refs[e] = 0 THEN doc.counter + 1 ELSE doc.refs[e]
             count == IF doc.refs[e] = 0 THEN n ELSE doc.counter
             rev   == IF doc.refs[e] = 0 THEN Kept(doc) \cup {e} ELSE Kept(doc)
  <1>1. /\ UNCHANGED <<known, drawn, gate, sessions, adopter, tracked>>
        /\ adopter[a].at = "held" /\ e \notin doc.gone /\ doc.minter # NoMinter
        /\ doc' = [doc EXCEPT !.scope = scope, !.refs[e] = n, !.counter = count, !.reverse = rev]
        /\ issued' = issued \cup {[ref |-> <<scope, n>>, doc |-> doc.n, element |-> e]}
    BY DEF Snapshot, Reference
  <1>2. Apt(a) /\ doc \in DocSet /\ RefInv /\ MinterInv
    BY AdopterIs
  <1>3. doc.minter.by = "engine" /\ doc.minter.scope \in known /\ known \subseteq 1 .. drawn
        /\ drawn <= MaxScopes /\ drawn \in Nat /\ MaxScopes \in Nat
    BY <1>1, <1>2, NoneIs, DocFields, AdopterIs DEF Apt, MinterInv
  <1>4. scope = doc.minter.scope /\ scope # 0 /\ scope \in 0 .. MaxScopes
    <2>1. doc.minter.scope \in 1 .. drawn
      BY <1>3
    <2>2. scope = doc.minter.scope
      BY <1>2 DEF RefInv
    <2> QED
      BY ONLY <2>1, <2>2, <1>3
  <1>5. n \in Nat /\ n # 0 /\ count \in Nat /\ n <= count /\ doc.counter <= count
    BY <1>2, DocFields DEF RefInv
  <1>6. rev \subseteq Elements /\ rev \subseteq doc.reverse \cup {e} /\ e \in rev
        /\ \A f \in doc.reverse : f \notin doc.gone => f \in rev
    BY <1>1, <1>2, DocFields, KeptIs DEF RefInv
  <1>7. /\ doc.refs[e] # 0 => n = doc.refs[e]
        /\ \A f \in Elements : f # e => doc.refs[f] # n
    BY <1>2, DocFields DEF RefInv
  <1> HIDE DEF scope, n, count, rev
  <1>8. /\ doc' \in DocSet /\ doc'.scope = scope /\ doc'.counter = count /\ doc'.reverse = rev
        /\ doc'.refs = [doc.refs EXCEPT ![e] = n] /\ doc'.gone = doc.gone
        /\ doc'.claim = doc.claim /\ doc'.minter = doc.minter /\ doc'.started = doc.started
        /\ doc'.n = doc.n
    BY <1>1, <1>2, <1>4, <1>5, <1>6 DEF DocSet
  <1>9. doc'.refs[e] = n /\ \A f \in Elements : f # e => doc'.refs[f] = doc.refs[f]
    BY <1>2, <1>8, DocFields
  <1>10. ScopeState' /\ MinterInv' /\ \A b \in Adopters : Apt(b)'
    BY <1>1, <1>8, MinterSame, OthersSame DEF ScopeInv, ScopeState
  <1>11. ASSUME NEW i \in issued'
         PROVE  /\ i.ref[1] \in known' /\ i.doc \in 1 .. doc'.n /\ i.element \in Elements
                /\ i.doc = doc'.n => /\ i.ref = <<doc'.scope, doc'.refs[i.element]>>
                                     /\ doc'.scope # 0 /\ doc'.refs[i.element] # 0
                /\ i.doc # doc'.n => i.ref[1] # doc'.minter.scope
    <2>1. CASE i \in issued
      <3>1. /\ i.ref[1] \in known /\ i.doc \in 1 .. doc.n /\ i.element \in Elements
            /\ i.doc = doc.n => /\ i.ref = <<doc.scope, doc.refs[i.element]>>
                                /\ doc.scope # 0 /\ doc.refs[i.element] # 0
            /\ i.doc # doc.n => i.ref[1] # doc.minter.scope
        BY <1>2, <1>3, <2>1 DEF RefInv
      <3>2. doc.scope # 0 => doc.scope = scope
        BY <1>2, <1>4 DEF RefInv
      <3>3. doc.refs[i.element] # 0 => doc'.refs[i.element] = doc.refs[i.element]
        BY <1>7, <1>9, <3>1
      <3> QED
        BY <1>1, <1>8, <3>1, <3>2, <3>3
    <2>2. CASE i = [ref |-> <<scope, n>>, doc |-> doc.n, element |-> e]
      BY <1>1, <1>2, <1>3, <1>4, <1>5, <1>8, <1>9, <2>2, DocFields
    <2> QED
      BY <1>1, <2>1, <2>2
  <1>12. /\ \A f \in Elements : /\ doc'.refs[f] <= doc'.counter
                                /\ f \in doc'.reverse => doc'.refs[f] # 0
                                /\ doc'.refs[f] # 0 /\ f \notin doc'.gone => f \in doc'.reverse
         /\ \A f, g \in Elements : doc'.refs[f] = doc'.refs[g] /\ doc'.refs[f] # 0 => f = g
    <2>1. \A f \in Elements : /\ doc.refs[f] \in Nat /\ doc.refs[f] <= doc.counter
                              /\ f \in doc.reverse => doc.refs[f] # 0
                              /\ doc.refs[f] # 0 /\ f \notin doc.gone => f \in doc.reverse
      BY <1>2, DocFields DEF RefInv
    <2>2. doc.counter \in Nat
      BY <1>2, DocFields
    <2>3. \A f, g \in Elements : doc.refs[f] = doc.refs[g] /\ doc.refs[f] # 0 => f = g
      BY <1>2 DEF RefInv
    <2>4. \A f \in Elements : /\ doc'.refs[f] <= doc'.counter
                              /\ f \in doc'.reverse => doc'.refs[f] # 0
                              /\ doc'.refs[f] # 0 /\ f \notin doc'.gone => f \in doc'.reverse
      BY <1>5, <1>6, <1>8, <1>9, <2>1, <2>2
    <2>5. \A f, g \in Elements : doc'.refs[f] = doc'.refs[g] /\ doc'.refs[f] # 0 => f = g
      BY <1>7, <1>9, <2>3
    <2> QED
      BY <2>4, <2>5
  <1>13. RefInv'
    BY <1>3, <1>4, <1>8, <1>11, <1>12 DEF RefInv
  <1> QED
    BY <1>10, <1>13 DEF ScopeInv

LEMMA ScopeStart == ScopeInit => ScopeInv
  <1> SUFFICES ASSUME ScopeInit PROVE ScopeInv
    OBVIOUS
  <1>1. /\ known = {} /\ drawn = 0 /\ gate = [holder |-> Nobody, recorded |-> 0]
        /\ sessions = {} /\ issued = {} /\ MaxScopes \in Nat /\ MaxDocs \in Nat \ {0}
        /\ adopter = [a \in Adopters |-> Unadopted] /\ tracked = [c \in Contexts |-> Nobody]
    BY ScopeAssumption DEF ScopeInit
  <1>2. /\ doc \in DocSet /\ doc.n = 1 /\ ~doc.started /\ doc.minter.by = "none"
        /\ doc.minter.scope = 0 /\ doc.claim = 0 /\ doc.scope = 0 /\ doc.reverse = {}
        /\ doc.counter = 0 /\ \A e \in Elements : doc.refs[e] = 0
    <2> DEFINE m == NoMinter
    <2>1. m \in [by : {"none", "page", "engine"}, scope : 0 .. MaxScopes] /\ m.by = "none"
          /\ m.scope = 0
      BY <1>1 DEF NoMinter
    <2>2. doc = Fresh(1, FALSE, m)
      BY DEF ScopeInit
    <2> HIDE DEF m
    <2> QED
      BY <1>1, <2>1, <2>2 DEF Fresh, DocSet
  <1>3. ScopeState
    BY <1>1, <1>2, UnadoptedIs DEF ScopeState
  <1>4. MinterInv
    BY <1>2 DEF MinterInv, ByHand
  <1>5. \A a \in Adopters : Apt(a)
    BY <1>1, <1>2, UnadoptedIs DEF Apt, Preparing, ByHand
  <1>6. RefInv
    BY <1>1, <1>2 DEF RefInv
  <1> QED
    BY <1>3, <1>4, <1>5, <1>6 DEF ScopeInv

LEMMA ScopeStep == ScopeInv /\ [ScopeNext]_scopeVars => ScopeInv'
  <1> SUFFICES ASSUME ScopeInv, [ScopeNext]_scopeVars PROVE ScopeInv'
    OBVIOUS
  <1>1. CASE UNCHANGED scopeVars
    BY <1>1 DEF scopeVars, ScopeInv, ScopeState, MinterInv, Apt, RefInv, ByHand
  <1>2. CASE Navigate
    BY <1>2, NavigateKeeps
  <1>3. ASSUME NEW e \in Elements, Collect(e) PROVE ScopeInv'
    BY <1>3, CollectKeeps
  <1>4. ASSUME NEW a \in Adopters, NEW c \in Contexts, Enter(a, c) PROVE ScopeInv'
    BY <1>4, EnterKeeps
  <1>5. ASSUME NEW a \in Adopters,
               Register(a) \/ Ran(a) \/ Locked(a) \/ Claimed(a) \/ Recheck(a) \/ Mint(a)
        PROVE  ScopeInv'
    BY <1>5, RegisterKeeps, LookKeeps, LockedKeeps, RecheckKeeps, MintKeeps
  <1>6. ASSUME NEW a \in Adopters,
               Claim(a) \/ Define(a) \/ DefineLost(a) \/ Verify(a) \/ Fault(a)
        PROVE  ScopeInv'
    BY <1>6, ClaimKeeps, DefineKeeps, DefineLostKeeps, VerifyKeeps
  <1>7. ASSUME NEW a \in Adopters, AdoptFails(a) \/ Insert(a) \/ Release(a) PROVE ScopeInv'
    BY <1>7, LeaveKeeps, InsertKeeps
  <1>8. ASSUME NEW a \in Adopters, NEW e \in Elements, Snapshot(a, e) PROVE ScopeInv'
    BY <1>8, SnapshotKeeps
  <1> QED
    BY <1>1, <1>2, <1>3, <1>4, <1>5, <1>6, <1>7, <1>8 DEF ScopeNext

(* A reference resolves to the element it was handed out for while that    *)
(* lives in the document shown, and else to nothing, for any adopters,     *)
(* contexts, documents and elements and any threshold of the sweep         *)
(* (serializer.js, mintScope; context.rs, prepare_once).                   *)
THEOREM Resolved == ScopeSpec => []RefsFaithful
  <1>1. ScopeInv => RefsFaithful
    <2> SUFFICES ASSUME ScopeInv PROVE RefsFaithful
      OBVIOUS
    <2>1. ScopeTypes
      <3>1. \A a \in Adopters : adopter[a].at \in
              {"idle", "register", "ran", "locked", "claimed", "recheck", "mint", "claim",
               "define", "verify", "insert", "held", "failed", "refused"}
        BY AdopterFields DEF ScopeInv, ScopeState, Preparing
      <3>2. /\ drawn \in Nat /\ MaxScopes \in Nat
            /\ gate.holder \in Adopters \cup {Nobody} /\ gate.recorded \in 0 .. drawn
        BY ScopeAssumption DEF ScopeInv, ScopeState
      <3>3. doc.n \in 1 .. MaxDocs /\ doc.minter.scope \in 0 .. drawn /\ doc.claim \in 0 .. drawn
            /\ doc.gone \subseteq Elements /\ doc.reverse \subseteq Elements
        BY <3>2, DocFields DEF ScopeInv, ScopeState
      <3> QED
        BY <3>1, <3>2, <3>3 DEF ScopeInv, ScopeState, ScopeTypes
    <2>2. ASSUME NEW i \in issued
          PROVE  Resolve(i.ref) = IF i.doc = doc.n /\ i.element \notin doc.gone
                                  THEN {i.element} ELSE {}
      <3>1. RefInv /\ doc \in DocSet /\ doc.reverse \subseteq Elements
            /\ doc.refs \in [Elements -> Nat]
        BY DocFields DEF ScopeInv, ScopeState
      <3>2. CASE i.doc = doc.n
        <4>1. /\ i.ref = <<doc.scope, doc.refs[i.element]>> /\ i.element \in Elements
              /\ doc.refs[i.element] # 0
          BY <3>1, <3>2 DEF RefInv
        <4>2. \A e \in Elements : <<doc.scope, doc.refs[e]>> = i.ref <=> e = i.element
          BY <3>1, <4>1 DEF RefInv
        <4>3. i.element \notin doc.gone => i.element \in doc.reverse
          BY <3>1, <4>1 DEF RefInv
        <4> QED
          BY <3>1, <3>2, <4>2, <4>3 DEF Resolve, Reference
      <3>3. CASE i.doc # doc.n
        <4>1. \A e \in doc.reverse : doc.scope # i.ref[1]
          BY <3>1, <3>3 DEF RefInv
        <4>2. \A e \in doc.reverse : <<doc.scope, doc.refs[e]>> # i.ref
          BY <4>1
        <4> QED
          BY <3>3, <4>2 DEF Resolve, Reference
      <3> QED
        BY <3>2, <3>3
    <2> QED
      BY <2>1, <2>2 DEF RefsFaithful, Faithful
  <1> QED
    BY <1>1, ScopeStart, ScopeStep, PTL DEF ScopeSpec

(* An engine's define never meets the engine's own install in a document   *)
(* that stayed while it was prepared, for any adopters and contexts, with  *)
(* answers lost anywhere (context.rs, prepare_once).                       *)
THEOREM InstallKnown == ScopeSpec => []OwnInstallKnown
  <1>1. ScopeInv => OwnInstallKnown
    BY DEF ScopeInv, Apt, OwnInstallKnown
  <1> QED
    BY <1>1, ScopeStart, ScopeStep, PTL DEF ScopeSpec
================================================================================
