---------------------------- MODULE PageBuffers -----------------------------
(***************************************************************************)
(* Two small stateful rules of a CDP page (crates/engine-cdp/src/page.rs): *)
(* the reservation that spaces screenshots, made by concurrent callers     *)
(* whose reading of the clock may be old by the time they hold the lock,   *)
(* and the bounded table that pairs a network request with its outcome.    *)
(***************************************************************************)
EXTENDS Integers, Sequences, FiniteSets, Functions

CONSTANTS Captors, MinInterval, PENDING_CAP, RequestIds,
          MaxClock, MaxReserved, MaxNotes   \* bounds on the checked behaviours

ASSUME IntervalAssumption == MinInterval \in Nat
ASSUME CapAssumption == PENDING_CAP \in Nat \ {0}

VARIABLES
    clock,        \* the machine's clock
    now,          \* per caller of capture_screenshot: Instant::now(), None before
    last,         \* last_capture: the latest reservation, None before the first
    map,          \* PendingRequests.map: request id -> what was sent (a number)
    order,        \* PendingRequests.order: the ids, oldest first
    notes         \* how many requests were noted: the next one's content

captureVars == <<clock, now, last>>
pendingVars == <<map, order, notes>>
bufferVars == <<clock, now, last, map, order, notes>>

None == -1

BuffersInit ==
    /\ clock = 0
    /\ now = [c \in Captors |-> None]
    /\ last = None
    /\ map = << >> /\ order = << >> /\ notes = 0

---------------------------------------------------------------------------
(* Screenshots *)

Tick == clock < MaxClock /\ clock' = clock + 1 /\ UNCHANGED <<now, last, pendingVars>>

\* capture_screenshot reads the clock before it takes the lock.
ReadClock(c) ==
    /\ now[c] = None
    /\ now' = [now EXCEPT ![c] = clock]
    /\ UNCHANGED <<clock, last, pendingVars>>

\* Mutant: `elapsed()` of a reservation in the future saturates to zero.
CaptureDueElapsed(at, n) ==
    n + (IF at = None THEN 0
         ELSE LET gone == IF n > at THEN n - at ELSE 0
              IN  IF MinInterval > gone THEN MinInterval - gone ELSE 0)

CaptureDue(at, n) ==
    LET past == MinInterval - (n - at)
    IN  n + (IF at = None THEN 0
             ELSE IF at > n THEN (at - n) + MinInterval
             ELSE IF past > 0 THEN past ELSE 0)

\* Under the lock: reserve the slot.  The sleep and the capture come after.
Reserve(c) ==
    /\ now[c] # None /\ last < MaxReserved
    /\ last' = CaptureDue(last, now[c])
    /\ now' = [now EXCEPT ![c] = None]
    /\ UNCHANGED <<clock, pendingVars>>

---------------------------------------------------------------------------
(* Pending requests *)

Without(f, id) == Restrict(f, DOMAIN f \ {id})

\* Mutant: a redirect queues its id a second time.
NoteTwice(id) ==
    /\ notes < MaxNotes
    /\ order' = Append(IF Len(order) >= PENDING_CAP THEN Tail(order) ELSE order, id)
    /\ map' = [x \in DOMAIN map \cup {id} |-> IF x = id THEN notes + 1 ELSE map[x]]
    /\ notes' = notes + 1
    /\ UNCHANGED captureVars

\* A request is about to be sent; a redirect notes its id again.
Note(id) ==
    /\ notes < MaxNotes
    /\ LET full == id \notin DOMAIN map /\ Len(order) >= PENDING_CAP
           m == IF full THEN Without(map, Head(order)) ELSE map
           o == IF full THEN Tail(order) ELSE order
       IN  /\ order' = IF id \in DOMAIN m THEN o ELSE Append(o, id)
           /\ map' = [x \in DOMAIN m \cup {id} |-> IF x = id THEN notes + 1 ELSE m[x]]
    /\ notes' = notes + 1
    /\ UNCHANGED captureVars

\* retain, on a queue that lists an id once (QueueIsTable)
Unqueued(id) ==
    LET p == CHOOSE i \in DOMAIN order : order[i] = id
    IN  [i \in 1 .. Len(order) - 1 |-> IF i < p THEN order[i] ELSE order[i + 1]]

\* The outcome of a request arrives.
Take(id) ==
    /\ map' = Without(map, id)
    /\ order' = IF id \in DOMAIN map THEN Unqueued(id) ELSE order
    /\ UNCHANGED <<notes, captureVars>>

---------------------------------------------------------------------------
CaptureNext == Tick \/ \E c \in Captors : ReadClock(c) \/ Reserve(c)

RequestNext == \E id \in RequestIds : Note(id) \/ Take(id)

BuffersNext == CaptureNext \/ RequestNext

BuffersSpec == BuffersInit /\ [][BuffersNext]_bufferVars

---------------------------------------------------------------------------
(* Two consecutive reservations are at least the interval apart, however old *)
(* the clock readings they were made with: the rate cap holds for concurrent *)
(* captures, which read the clock before they hold the lock.                 *)
CapturesSpaced ==
    [][last' # last /\ last # None => last' >= last + MinInterval]_bufferVars

(* The queue of request ids lists exactly the ids of the table, each once and *)
(* never more than PENDING_CAP: otherwise a request noted again would be      *)
(* dropped twice or the table would grow for ever.                            *)
QueueIsTable ==
    /\ Range(order) = DOMAIN map
    /\ IsInjective(order)
    /\ Len(order) =< PENDING_CAP

=============================================================================
