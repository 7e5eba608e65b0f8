------------------------------- MODULE Approvals -------------------------------
(***************************************************************************)
(* Supervised operations of a session: Session::enforce and park           *)
(* (crates/session/src/session/mod.rs), the broker that holds the question *)
(* (crates/policy/src/broker.rs) and the audit trail.  Each call reviews   *)
(* its operation, asks when the rules say so, waits for a human or for the *)
(* window to close, and may go away with its client at any await.  Humans  *)
(* decide and the page moves between any two steps.                        *)
(***************************************************************************)
EXTENDS PolicyReview, FiniteSets

CONSTANTS
    Calls,         \* agent calls; each makes one operation
    MaxRequests,   \* bound: approvals ever opened
    MaxMoves       \* bound: times the page moves on its own

ASSUME BoundAssumption == MaxRequests \in Nat /\ MaxMoves \in Nat

VARIABLES
    counter,   \* ApprovalBroker::counter
    pending,   \* ApprovalBroker::pending: requests whose sender is parked
    channel,   \* the oneshot of each request
    page,      \* location.href of the page all calls act on
    moves,     \* how often it moved on its own
    job,       \* where each call stands
    events,    \* approval events published, by request
    trail,     \* outcomes handed to ApprovalAudit::record, by request
    kept,      \* requests whose audit line is in the file
    acked      \* history: decisions the broker called delivered

vars == <<counter, pending, channel, page, moves, job, events, trail, kept, acked>>

Requests == 1 .. MaxRequests
Decisions == {"grant", "deny"}

Call == [at |-> "idle", effect |-> [kind |-> "pointer", target |-> NoUrl],
         raw |-> NoUrl, judged |-> NoUrl, id |-> 0, outcome |-> "none",
         next |-> "done", seen |-> NoUrl, landed |-> NoUrl]

Init ==
    /\ counter = 1
    /\ pending = {}
    /\ channel = [r \in Requests |-> "empty"]
    /\ page \in Raw /\ moves = 0
    /\ job = [c \in Calls |-> Call]
    /\ events = [r \in Requests |-> <<>>]
    /\ trail = [r \in Requests |-> <<>>] /\ kept = {}
    /\ acked = {}

At(c, l)  == job[c].at = l
Put(c, j) == job' = [job EXCEPT ![c] = j]

\* PageOps::url: the page answers or it does not
Readable == {page, NoUrl}
-------------------------------------------------------------------------------
(* execute and set_cookies up to the verdict *)

Begin(c, effect) ==
    /\ At(c, "idle")
    /\ \E raw \in IF effect.kind = "navigation" THEN {effect.target} ELSE Readable :
          Put(c, [job[c] EXCEPT !.at = "review", !.effect = effect, !.raw = raw])
    /\ UNCHANGED <<counter, pending, channel, page, moves, events, trail, kept, acked>>

Allowed(c) ==
    /\ At(c, "review") /\ Review(job[c].effect, job[c].raw) = "allow"
    /\ Put(c, [job[c] EXCEPT !.at = "run", !.id = 0,
                             !.judged = JudgedUrl(job[c].effect, job[c].raw)])
    /\ UNCHANGED <<counter, pending, channel, page, moves, events, trail, kept, acked>>

Denied(c) ==
    /\ At(c, "review") /\ Review(job[c].effect, job[c].raw) = "deny"
    /\ Put(c, [job[c] EXCEPT !.at = "done", !.id = 0])
    /\ UNCHANGED <<counter, pending, channel, page, moves, events, trail, kept, acked>>

\* broker.open
Open(c) ==
    /\ At(c, "review") /\ Review(job[c].effect, job[c].raw) = "require_approval"
    /\ counter <= MaxRequests
    /\ counter' = counter + 1
    /\ pending' = pending \cup {counter}
    /\ Put(c, [job[c] EXCEPT !.at = "opened", !.id = counter, !.outcome = "none",
                             !.next = "done",
                             !.judged = JudgedUrl(job[c].effect, job[c].raw)])
    /\ UNCHANGED <<channel, page, moves, events, trail, kept, acked>>
-------------------------------------------------------------------------------
(* park *)

Ask(c) ==
    /\ At(c, "opened")
    /\ events' = [events EXCEPT ![job[c].id] = Append(@, "requested")]
    /\ Put(c, [job[c] EXCEPT !.at = "parked"])
    /\ UNCHANGED <<counter, pending, channel, page, moves, trail, kept, acked>>

\* mutant: a grant is taken as it is, the page not read again
AnsweredAsIs(c) ==
    /\ At(c, "parked") /\ channel[job[c].id] # "empty"
    /\ pending' = pending \ {job[c].id}
    /\ Put(c, IF channel[job[c].id] = "deny"
              THEN [job[c] EXCEPT !.at = "resolve", !.outcome = "denied"]
              ELSE [job[c] EXCEPT !.at = "resolve", !.outcome = "granted",
                                  !.next = "run"])
    /\ UNCHANGED <<counter, channel, page, moves, events, trail, kept, acked>>

\* wait returns the decision; a navigation's target rides in its effect, a
\* grant of anything else has the page read again
Answered(c) ==
    /\ At(c, "parked") /\ channel[job[c].id] # "empty"
    /\ pending' = pending \ {job[c].id}
    /\ Put(c, CASE channel[job[c].id] = "deny" ->
                     [job[c] EXCEPT !.at = "resolve", !.outcome = "denied"]
                [] channel[job[c].id] = "grant" /\ job[c].effect.kind = "navigation" ->
                     [job[c] EXCEPT !.at = "resolve", !.outcome = "granted",
                                    !.next = "run"]
                [] OTHER ->
                     [job[c] EXCEPT !.at = "reread", !.outcome = "granted"])
    /\ UNCHANGED <<counter, channel, page, moves, events, trail, kept, acked>>

\* the timer is polled after the receiver had nothing
Elapse(c) ==
    /\ At(c, "parked") /\ channel[job[c].id] = "empty"
    /\ Put(c, [job[c] EXCEPT !.at = "expired"])
    /\ UNCHANGED <<counter, pending, channel, page, moves, events, trail, kept, acked>>

\* mutant: the slot of a request nobody answered stays parked
ReclaimNothing(c) ==
    /\ At(c, "expired")
    /\ Put(c, [job[c] EXCEPT !.at = "resolve", !.outcome = "timed_out"])
    /\ UNCHANGED <<counter, pending, channel, page, moves, events, trail, kept, acked>>

\* Reclaim::drop
Reclaim(c) ==
    /\ At(c, "expired")
    /\ pending' = pending \ {job[c].id}
    /\ Put(c, [job[c] EXCEPT !.at = "resolve", !.outcome = "timed_out"])
    /\ UNCHANGED <<counter, channel, page, moves, events, trail, kept, acked>>

\* judged_at: a page that moved is reviewed from scratch
Reread(c) ==
    /\ At(c, "reread")
    /\ \E current \in Readable :
          Put(c, IF Canon[current] = job[c].judged
                 THEN [job[c] EXCEPT !.at = "resolve", !.next = "run",
                                     !.seen = Canon[current]]
                 ELSE [job[c] EXCEPT !.at = "resolve", !.next = "review",
                                     !.raw = current])
    /\ UNCHANGED <<counter, pending, channel, page, moves, events, trail, kept, acked>>

\* the client goes away: the future is dropped at an await
Cancel(c) ==
    /\ \/ At(c, "parked") /\ Put(c, [job[c] EXCEPT !.at = "resolve"])
       \/ At(c, "reread") /\ Put(c, [job[c] EXCEPT !.at = "resolve", !.next = "done"])
       \/ At(c, "run") /\ Put(c, [job[c] EXCEPT !.at = "done"])
    /\ pending' = pending \ {job[c].id}
    /\ UNCHANGED <<counter, channel, page, moves, events, trail, kept, acked>>

\* ParkTicket::drop, on every way out: first the event,
Resolve(c) ==
    /\ At(c, "resolve")
    /\ events' = [events EXCEPT ![job[c].id] =
                    Append(@, IF job[c].outcome = "granted" THEN "granted" ELSE "refused")]
    /\ Put(c, [job[c] EXCEPT !.at = "record"])
    /\ UNCHANGED <<counter, pending, channel, page, moves, trail, kept, acked>>

\* mutant: a wait that was dropped leaves no line
RecordAnswers(c) ==
    /\ At(c, "record")
    /\ trail' = IF job[c].outcome = "none" THEN trail
                ELSE [trail EXCEPT ![job[c].id] = Append(@, job[c].outcome)]
    /\ Put(c, [job[c] EXCEPT !.at = job[c].next])
    /\ UNCHANGED <<counter, pending, channel, page, moves, events, kept, acked>>

\* then the audit line, dropped when there is no state directory or the
\* write fails
Record(c) ==
    /\ At(c, "record")
    /\ trail' = [trail EXCEPT ![job[c].id] =
                    Append(@, IF job[c].outcome = "none" THEN "cancelled"
                              ELSE job[c].outcome)]
    /\ kept' \in {kept, kept \cup {job[c].id}}
    /\ Put(c, [job[c] EXCEPT !.at = job[c].next])
    /\ UNCHANGED <<counter, pending, channel, page, moves, events, acked>>
-------------------------------------------------------------------------------
(* what the verdict and the grant were for *)

\* the action lands on the page as it is now
Run(c) ==
    /\ At(c, "run")
    /\ Put(c, [job[c] EXCEPT !.at = "ran", !.landed = Canon[page]])
    /\ page' \in CASE job[c].effect.kind = "navigation" -> {job[c].effect.target}
                   [] job[c].effect.kind = "pointer"    -> Raw
                   [] OTHER                             -> {page}
    /\ UNCHANGED <<counter, pending, channel, moves, events, trail, kept, acked>>

\* decide: the sender is taken out of the map and used
Decide(r, d) ==
    /\ r \in pending
    /\ pending' = pending \ {r}
    /\ channel' = [channel EXCEPT ![r] = d]
    /\ acked' = acked \cup {r}
    /\ UNCHANGED <<counter, page, moves, job, events, trail, kept>>

\* a redirect, or another call's navigation
Move ==
    /\ moves < MaxMoves
    /\ moves' = moves + 1
    /\ page' \in Raw \ {page}
    /\ UNCHANGED <<counter, pending, channel, job, events, trail, kept, acked>>
-------------------------------------------------------------------------------
CallStep(c) ==
    \/ Allowed(c) \/ Denied(c) \/ Open(c) \/ Ask(c) \/ Answered(c) \/ Elapse(c)
    \/ Reclaim(c) \/ Reread(c) \/ Resolve(c) \/ Record(c) \/ Run(c)

Next ==
    \/ \E c \in Calls : (\E e \in Effects : Begin(c, e)) \/ CallStep(c) \/ Cancel(c)
    \/ \E r \in Requests, d \in Decisions : Decide(r, d)
    \/ Move

Spec == Init /\ [][Next]_vars
-------------------------------------------------------------------------------
(* Properties. *)

Outcomes == {"none", "granted", "denied", "timed_out"}
Held == 0 .. MaxRequests

JobSet == [at : {"idle", "review", "opened", "parked", "expired", "reread",
                 "resolve", "record", "run", "ran", "done"},
           effect : Effects, raw : Raw \cup {NoUrl}, judged : Urls \cup {NoUrl},
           id : Held, outcome : Outcomes,
           next : {"run", "review", "done"},
           seen : Urls \cup {NoUrl}, landed : Urls \cup {NoUrl}]

TypeOK ==
    /\ counter \in 1 .. MaxRequests + 1
    /\ pending \subseteq Requests
    /\ channel \in [Requests -> {"empty"} \cup Decisions]
    /\ page \in Raw /\ moves \in 0 .. MaxMoves
    /\ job \in [Calls -> JobSet]
    /\ events \in [Requests -> Seq({"requested", "granted", "refused"})]
    /\ trail \in [Requests -> Seq({"granted", "denied", "timed_out", "cancelled"})]
    /\ kept \subseteq Held /\ acked \subseteq Requests

\* the calls whose request is not settled in every record yet
Asking == {"opened", "parked", "expired", "reread", "resolve", "record"}
Unsettled(r) == \E c \in Calls : job[c].id = r /\ job[c].at \in Asking

(* A sender stays in the broker's map only while its call still waits: an  *)
(* answered, expired or abandoned request leaves no slot behind.           *)
NoLeakedSlot ==
    \A r \in pending : \E c \in Calls :
        job[c].id = r /\ job[c].at \in {"opened", "parked", "expired"}

(* A question leaves nothing parked behind it, however its call ends       *)
(* (broker.rs), in a state whose every part has its type.                  *)
SlotsSound == TypeOK /\ NoLeakedSlot

(* However a request ends - answered, timed out, dropped with its client   *)
(* before or after the answer, superseded by a second review - its card is *)
(* retired once, it is recorded once, and the two agree; the line may be   *)
(* lost to a failed write, and a line in the file has its request recorded.*)
Accounted ==
    \A r \in Requests :
        /\ Len(events[r]) <= 2 /\ Len(trail[r]) <= 1
        /\ r \in kept => Len(trail[r]) = 1
        /\ r < counter /\ ~Unsettled(r) =>
              /\ Len(trail[r]) = 1
              /\ events[r] = <<"requested",
                    IF trail[r] = <<"granted">> THEN "granted" ELSE "refused">>

(* What runs was allowed by the rules for this very effect on a usable URL,*)
(* or a human granted the request that described it; and after a grant the *)
(* page was read once more and still was where the request said.           *)
Supervised ==
    \A c \in Calls : job[c].at = "ran" =>
        \/ /\ job[c].id = 0 /\ job[c].judged # NoUrl
           /\ Judge(job[c].effect.kind, job[c].judged) = "allow"
        \/ /\ job[c].id # 0 /\ channel[job[c].id] = "grant"
           /\ trail[job[c].id] = <<"granted">>
           /\ IF job[c].effect.kind = "navigation"
              THEN job[c].judged = Canon[job[c].effect.target]
              ELSE job[c].judged = job[c].seen

(* brief.rs: a page that moved is a different judgment, and the grant never *)
(* follows it.                                                              *)
GrantNeverFollows ==
    \A c \in Calls :
        job[c].at = "ran" /\ job[c].id # 0 /\ job[c].effect.kind # "navigation"
            => job[c].landed = job[c].judged

(* broker.rs: a decision on a request whose window closed reports false.    *)
LateRefused ==
    \A r \in acked : trail[r] # <<"timed_out">>
===============================================================================
