--------------------------------- MODULE PageFeeds ---------------------------------
(***************************************************************************)
(* The observation feed of one page id (crates/session/src/observations.rs)*)
(* over the page's single-consumer stream (observe and                     *)
(* forward_observations in crates/engine-cdp/src/page.rs).  An id comes    *)
(* back when its page is released and adopted again, with a handle of its  *)
(* own; the task of the feed before may still be winding down then.        *)
(***************************************************************************)
EXTENDS Naturals, Sequences

CONSTANTS
    Handles,      \* the successive handles of the page, one after the other
    Blind,        \* those of a backend that observes nothing: their stream is empty
    FeedCapacity, \* FEED_CAPACITY, 200 in the program
    ChannelSize,  \* 64 in the program
    MaxSpawns,    \* bound: tasks ever spawned
    MaxEvents     \* bound: console lines a page emits

VARIABLES
    tracked,   \* the handle the session tracks
    used,      \* handles tracked so far
    feed,      \* the map's entry for the id
    task,      \* the spawned tasks, by token
    page       \* of each handle: claimed (its stream), the events in its
               \* listeners, the channel, and whether a dialog is open

feedVars == <<tracked, used, feed, task, page>>

None == "none"
Dialog == 0   \* the observation of a dialog; a console line is its number
NoFeed == [token |-> 0, entries |-> <<>>, kept |-> <<>>]
NoTask == [at |-> "unused", handle |-> None, aborted |-> FALSE]
Tokens == 1 .. MaxSpawns

ASSUME FeedAssumption ==
    /\ Blind \subseteq Handles /\ None \notin Handles
    /\ FeedCapacity \in Nat \ {0} /\ ChannelSize \in Nat \ {0}
    /\ MaxSpawns \in Nat /\ MaxEvents \in Nat

FeedInit ==
    /\ tracked = None /\ used = {} /\ feed = NoFeed
    /\ task = [t \in Tokens |-> NoTask]
    /\ page = [h \in Handles |-> [claimed |-> FALSE, emitted |-> 0, lines |-> <<>>,
                                  asks |-> FALSE, dialog |-> FALSE, channel |-> <<>>]]
-------------------------------------------------------------------------------
(* The session *)

\* the page is tracked anew, by a handle nobody had
Track(h) ==
    /\ tracked = None /\ h \notin used
    /\ tracked' = h /\ used' = used \cup {h}
    /\ UNCHANGED <<feed, task, page>>

Unspawned(t) == task[t].at = "unused" /\ \A u \in 1 .. t - 1 : task[u].at # "unused"

\* spawned whatever the map holds, and aborted as a duplicate (a mutant of Spawn)
SpawnAborted(t) ==
    /\ tracked # None /\ Unspawned(t)
    /\ feed' = IF feed.token = 0 THEN [NoFeed EXCEPT !.token = t] ELSE feed
    /\ task' = [task EXCEPT ![t] = [at |-> "spawned", handle |-> tracked,
                                    aborted |-> feed.token # 0]]
    /\ UNCHANGED <<tracked, used, page>>

\* spawn: the first feed of an id wins
Spawn(t) ==
    /\ tracked # None /\ Unspawned(t) /\ feed.token = 0
    /\ feed' = [NoFeed EXCEPT !.token = t]
    /\ task' = [task EXCEPT ![t] = [at |-> "spawned", handle |-> tracked, aborted |-> FALSE]]
    /\ UNCHANGED <<tracked, used, page>>

\* remove and clear, after the page left the session: the entry goes and
\* its task is aborted
RemoveFeed ==
    /\ tracked # None
    /\ tracked' = None
    /\ feed' = NoFeed
    /\ task' = [t \in Tokens |-> IF t = feed.token THEN [task[t] EXCEPT !.aborted = TRUE]
                                                    ELSE task[t]]
    /\ UNCHANGED <<used, page>>
-------------------------------------------------------------------------------
(* run_feed, up to its next await.  An abort shows at an await that has to *)
(* wait; up to there the task runs on.                                     *)

Becomes(t, at) == task' = [task EXCEPT ![t].at = at]
Of(t)     == page[task[t].handle]

\* observe: the claim, and the stream of a backend that observes nothing
Observe(t) ==
    /\ task[t].at = "spawned"
    /\ IF task[t].handle \in Blind
       THEN Becomes(t, "over") /\ UNCHANGED page
       ELSE IF Of(t).claimed
       THEN Becomes(t, "refused") /\ UNCHANGED page
       ELSE /\ Becomes(t, "listening")
            /\ page' = [page EXCEPT ![task[t].handle].claimed = TRUE]
    /\ UNCHANGED <<tracked, used, feed>>

Listen(t) ==
    /\ task[t].at = "listening" /\ ~task[t].aborted
    /\ Becomes(t, "reading")
    /\ UNCHANGED <<tracked, used, feed, page>>

\* the claim outlives a registration that failed (a mutant of ListenFails)
ListenFailsClaimed(t) ==
    /\ task[t].at = "listening" /\ ~task[t].aborted
    /\ Becomes(t, "ended")
    /\ UNCHANGED <<tracked, used, feed, page>>

\* release_observation_claim; the entry stays for remove or clear
ListenFails(t) ==
    /\ task[t].at = "listening" /\ ~task[t].aborted
    /\ Becomes(t, "ended")
    /\ page' = [page EXCEPT ![task[t].handle].claimed = FALSE]
    /\ UNCHANGED <<tracked, used, feed>>

\* the newest go when the buffer is full (a mutant of Pushed)
PushedFirst(entries, n) ==
    IF Len(entries) >= FeedCapacity THEN entries ELSE Append(entries, n)

\* push_bounded
Pushed(entries, n) ==
    Append(IF Len(entries) >= FeedCapacity THEN Tail(entries) ELSE entries, n)

\* a console line is recorded in whatever feed the id has, a dialog answered
Read(t) ==
    /\ task[t].at = "reading" /\ Of(t).channel # <<>>
    /\ LET n == Head(Of(t).channel)
       IN IF n = Dialog
          THEN Becomes(t, "answering") /\ UNCHANGED feed
          ELSE /\ feed' = IF feed.token = 0 THEN feed
                          ELSE [feed EXCEPT !.entries = Pushed(@, n), !.kept = Append(@, n)]
               /\ UNCHANGED task
    /\ page' = [page EXCEPT ![task[t].handle].channel = Tail(@)]
    /\ UNCHANGED <<tracked, used>>

\* handle_dialog(false): dismissed, or an error nobody hears of
Answer(t) ==
    /\ task[t].at = "answering" /\ ~task[t].aborted
    /\ Becomes(t, "reading")
    /\ page' = [page EXCEPT ![task[t].handle].dialog = FALSE]
    /\ UNCHANGED <<tracked, used, feed>>

\* whatever entry the id has goes (a mutant of Reap)
ReapAny(t) ==
    /\ task[t].at = "over"
    /\ feed' = NoFeed
    /\ Becomes(t, "ended")
    /\ UNCHANGED <<tracked, used, page>>

\* reap: only the entry of this very spawn
Reap(t) ==
    /\ task[t].at = "over"
    /\ feed' = IF feed.token = t THEN NoFeed ELSE feed
    /\ Becomes(t, "ended")
    /\ UNCHANGED <<tracked, used, page>>

\* the abort takes effect; the receiver goes with the task, and with it the
\* forwarder and its listeners
Die(t) ==
    /\ task[t].aborted /\ task[t].at \in {"spawned", "listening", "reading", "answering", "over"}
    /\ Becomes(t, "ended")
    /\ page' = IF task[t].at \in {"reading", "answering"}
               THEN [page EXCEPT ![task[t].handle].lines = <<>>, ![task[t].handle].asks = FALSE,
                                 ![task[t].handle].channel = <<>>]
               ELSE page
    /\ UNCHANGED <<tracked, used, feed>>
-------------------------------------------------------------------------------
(* The page and forward_observations *)

Watched(h) == \E t \in Tokens : task[t].handle = h /\ task[t].at \in {"reading", "answering"}

\* a console line, which a page with a dialog open cannot write
Emit(h) ==
    /\ Watched(h) /\ page[h].emitted < MaxEvents /\ ~page[h].dialog
    /\ page' = [page EXCEPT ![h].emitted = @ + 1, ![h].lines = Append(@, page[h].emitted + 1)]
    /\ UNCHANGED <<tracked, used, feed, task>>

Ask(h) ==
    /\ Watched(h) /\ ~page[h].dialog
    /\ page' = [page EXCEPT ![h].dialog = TRUE, ![h].asks = TRUE]
    /\ UNCHANGED <<tracked, used, feed, task>>

\* try_forward: over a full channel an observation is dropped
Sent(h, observation) ==
    IF Len(page[h].channel) < ChannelSize THEN Append(page[h].channel, observation)
                                          ELSE page[h].channel

\* one arm of the select: the listeners keep no order among each other.
\* (The task outlives its listeners: closed() stays pending, so that the
\* else arm is not reached and the stream of a closed page does not end.)
Forward(h) ==
    /\ Watched(h)
    /\ \/ /\ page[h].lines # <<>>
          /\ page' = [page EXCEPT ![h].lines = Tail(@), ![h].channel = Sent(h, Head(page[h].lines))]
       \/ /\ page[h].asks
          /\ page' = [page EXCEPT ![h].asks = FALSE, ![h].channel = Sent(h, Dialog)]
    /\ UNCHANGED <<tracked, used, feed, task>>

FeedNext ==
    \/ RemoveFeed
    \/ \E h \in Handles : Track(h) \/ Emit(h) \/ Ask(h) \/ Forward(h)
    \/ \E t \in Tokens :
          \/ Spawn(t) \/ Observe(t) \/ Listen(t) \/ ListenFails(t) \/ Read(t) \/ Answer(t)
          \/ Reap(t) \/ Die(t)

FeedSpec == FeedInit /\ [][FeedNext]_feedVars
-------------------------------------------------------------------------------
(* Every part of the state has its type (observations.rs, page.rs).        *)
FeedTypes ==
    /\ tracked \in Handles \cup {None} /\ used \subseteq Handles
    /\ feed.token \in 0 .. MaxSpawns /\ Len(feed.entries) <= FeedCapacity
    /\ task \in [Tokens -> [at : {"unused", "spawned", "listening", "reading", "answering",
                                  "over", "refused", "ended"},
                            handle : Handles \cup {None}, aborted : BOOLEAN]]
    /\ \A h \in Handles : Len(page[h].channel) <= ChannelSize

(* observations.rs: "a task winding down after its page left can never     *)
(* take a slot a newer spawn owns": a task that runs, and was not aborted, *)
(* has the entry of its id, and so is the only one.                        *)
RunningHasEntry ==
    \A t \in Tokens :
        task[t].at \in {"spawned", "listening", "reading", "answering", "over"} /\ ~task[t].aborted =>
            feed.token = t

(* spawn and observe: the task of the feed is never refused its page's     *)
(* stream, and a claim nobody reads under is one an abort cut short: no    *)
(* page is left "with no observations at all".                             *)
FeedHasStream ==
    /\ feed.token # 0 => task[feed.token].at # "refused"
    /\ \A h \in Handles : page[h].claimed =>
          \E t \in Tokens : task[t].handle = h /\ (task[t].aborted \/
                            task[t].at \in {"listening", "reading", "answering"})

(* FEED_CAPACITY: the buffer is the newest entries of all that were        *)
(* recorded in it, in their order.                                         *)
BufferNewest ==
    LET n == Len(feed.kept)
    IN feed.entries = SubSeq(feed.kept, IF n > FeedCapacity THEN n - FeedCapacity + 1 ELSE 1, n)

(* A running feed task has the entry of its page or will be reaped, a page  *)
(* that observes keeps its stream, and its buffer holds the newest lines    *)
(* (crates/session/src/observations.rs, spawn, run_feed and reap).          *)
FeedsSound == FeedTypes /\ RunningHasEntry /\ FeedHasStream /\ BufferNewest

(* observations.rs: "a dialog is dismissed immediately - an unanswered     *)
(* dialog wedges the page".  An open dialog of a page whose feed reads is  *)
(* on its way to the feed or being answered.  The code does not keep this: *)
(* a full channel drops the dialog's observation like any other.           *)
DialogsReachTheFeed ==
    \A t \in Tokens :
        task[t].at = "reading" /\ ~task[t].aborted /\ Of(t).dialog =>
            Of(t).asks \/ \E i \in DOMAIN Of(t).channel : Of(t).channel[i] = Dialog
===============================================================================
