-------------------------------- MODULE Executor --------------------------------
(***************************************************************************)
(* The action executor (crates/session/src/actions/mod.rs, resolve.rs and  *)
(* wait.rs, with the page scripts of crates/observe/src/resolver.rs): one  *)
(* action against one page that keeps changing under it.  A reference      *)
(* action waits until its element is visible, stable and enabled, each     *)
(* phase within a budget, and only then acts on the page, in one or two    *)
(* more round trips.  Time is counted in sampling intervals.               *)
(***************************************************************************)
EXTENDS Naturals, Sequences, FiniteSetsExt

CONSTANTS
    PhaseTimeout,     \* phase_timeout of the session's configuration
    MaxPhaseRestarts, \* MAX_PHASE_RESTARTS, 2 in the program
    PollBudget,       \* what a wait_for asks for
    MaxPollBudget,    \* MAX_POLL_BUDGET, 600 s in the program
    Slowest,          \* bound: intervals one page evaluation takes
    Places,           \* where an element may be
    MaxDocs           \* bound: documents the page ever shows

VARIABLES
    shown,  \* the document shown and the element the reference names
    ex,     \* the action in progress
    effects \* what the action did, and to what

actionVars == <<shown, ex, effects>>

Phases == <<"visible", "stable", "enabled">>
Rank(phase) == CHOOSE i \in DOMAIN Phases : Phases[i] = phase

Referenced == {"click", "hover", "type", "select", "scroll", "files"}
Plain      == {"key", "wheel", "history", "navigate", "wait_for"}
Refusals   == {"expired", "timed_out", "refused"}
Answers    == Refusals \cup {"ok", "engine"}
Hidden     == "hidden"
Never      == "never"

ASSUME ExecutorAssumption ==
    /\ {PhaseTimeout, MaxPhaseRestarts, PollBudget, MaxPollBudget, Slowest} \subseteq Nat
    /\ MaxDocs \in Nat \ {0} /\ Places # {} /\ Hidden \notin Places /\ Never \notin Places

Unseen == [place |-> Hidden, off |-> FALSE]  \* of the trail of samples taken

Idle == [at |-> "idle", action |-> "key", seen |-> Never, pending |-> "visible",
         left |-> 0, restarts |-> 0, waited |-> 0, doc |-> 0,
         trail |-> <<Unseen, Unseen>>]

ActionInit ==
    /\ shown = [doc |-> 1, live |-> TRUE, place |-> Hidden, off |-> FALSE]
    /\ ex = Idle /\ effects = {}

Resolves == shown.live /\ shown.doc = ex.doc

Ends(answer) == ex' = [ex EXCEPT !.at = answer]
Do(what, doc)  == effects' = effects \cup {<<what, doc>>}
Still          == UNCHANGED <<shown, effects>>
-------------------------------------------------------------------------------
(* The page: it moves, hides, disables or removes the element and loads    *)
(* other documents whenever it likes.  The element's reference resolves    *)
(* only in the document that it was minted in.                             *)

Move ==
    /\ shown.live
    /\ \E place \in Places \cup {Hidden}, off \in BOOLEAN :
          shown' = [shown EXCEPT !.place = place, !.off = off]
    /\ UNCHANGED <<ex, effects>>

Detach ==
    /\ shown.live
    /\ shown' = [shown EXCEPT !.live = FALSE]
    /\ UNCHANGED <<ex, effects>>

Reload ==
    /\ shown.doc < MaxDocs
    /\ shown' = [doc |-> shown.doc + 1, live |-> FALSE, place |-> Hidden, off |-> FALSE]
    /\ UNCHANGED <<ex, effects>>
-------------------------------------------------------------------------------
(* Executor::run begins *)

\* PageOps::wait_for clamps what it is asked for
Budget(action) ==
    IF action = "wait_for" THEN Min({PollBudget, MaxPollBudget}) ELSE PhaseTimeout

\* an upload of no files is refused before anything is waited for
BeginAction ==
    /\ ex.at = "idle"
    /\ \E action \in Referenced \cup Plain :
          ex' = [Idle EXCEPT
                    !.action = action, !.doc = shown.doc,
                    !.at = CASE action \in Referenced -> "wait"
                             [] action = "wait_for"   -> "poll"
                             [] OTHER                 -> "act",
                    !.left = Budget(action)]
    /\ Still

NoFiles ==
    /\ ex.at = "idle"
    /\ ex' = [Idle EXCEPT !.action = "files", !.at = "refused"]
    /\ Still
-------------------------------------------------------------------------------
(* auto_wait *)

Less(n, d) == IF n > d THEN n - d ELSE 0

\* one evaluation took d intervals; then the loop sleeps for one, unless
\* the deadline has come
Pause(e, d, answer) ==
    IF Less(e.left, d) = 0 THEN [e EXCEPT !.at = answer, !.waited = @ + d, !.left = 0]
    ELSE [e EXCEPT !.waited = @ + d + 1, !.left = Less(@, d + 1)]

\* the box kept when the element hides between two samples (a mutant of Seen)
SeenKept(visible) == IF visible THEN shown.place ELSE ex.seen

\* the box the next sample is compared with
Seen(visible) == IF visible THEN shown.place ELSE Never

\* the budget renewed at every change of phase (a mutant of Renewed)
RenewedAlways(now) == now # ex.pending

\* phase_rank: a later phase renews the budget, MAX_PHASE_RESTARTS times
Renewed(now) ==
    Rank(now) > Rank(ex.pending) /\ ex.restarts < MaxPhaseRestarts

\* RESOLVER_TEMPLATE scrolls an element that is there into view before it reads
\* its box, which is what place stands for
Scroll == Do("scroll", shown.doc)

\* resolve::element_box answers within d intervals
Sample ==
    /\ ex.at = "wait" /\ Resolves
    /\ \E d \in 0 .. Slowest :
         LET visible == shown.place # Hidden
             stable  == visible /\ ex.seen = shown.place
             now     == IF ~visible THEN "visible"
                        ELSE IF ~stable THEN "stable" ELSE "enabled"
             box     == [place |-> shown.place, off |-> shown.off]
             e       == [ex EXCEPT !.seen = Seen(visible), !.pending = now,
                                   !.trail = <<@[2], box>>]
         IN IF stable /\ ~shown.off
            THEN ex' = [e EXCEPT !.at = "act", !.waited = @ + d]
            ELSE IF Renewed(now)
            THEN ex' = Pause([e EXCEPT !.left = PhaseTimeout, !.waited = @ + d,
                                       !.restarts = @ + 1], 0, "timed_out")
            ELSE ex' = Pause(e, d, "timed_out")
    /\ Scroll
    /\ UNCHANGED shown

\* the reference resolves to nothing
Missing ==
    /\ ex.at = "wait" /\ ~Resolves
    /\ Ends("expired")
    /\ Still

\* the evaluation fails, as in a page mid-navigation, or its answer is lost; the
\* deadline may pass before the error is looked at or right after
Rejected ==
    /\ ex.at = "wait"
    /\ \E d \in 0 .. Slowest, answer \in {"engine", "timed_out"} : ex' = Pause(ex, d, answer)
    /\ UNCHANGED effects \/ (Resolves /\ Scroll)
    /\ UNCHANGED shown

\* poll_until: the text is there, or the rest of the budget is slept
Poll ==
    /\ ex.at = "poll"
    /\ \E d \in 0 .. Slowest, found \in BOOLEAN :
         ex' = IF found THEN [ex EXCEPT !.at = "snapshot", !.waited = @ + d]
               ELSE Pause(ex, d, "timed_out")
    /\ Still
-------------------------------------------------------------------------------
(* The act itself: one round trip to the page at a time, and the page may  *)
(* have moved on between any two.  Each may fail with an engine error.     *)

EngineFails ==
    /\ ex.at \in {"act", "release", "insert", "hand", "snapshot"}
    /\ Ends("engine")
    /\ Still

\* CdpPage::dispatch_input: the engine has the event, whose answer may
\* still miss the deadline
Dispatch(what, next) ==
    /\ Do(what, shown.doc)
    /\ Ends(next) \/ Ends("engine")
    /\ UNCHANGED shown

\* dispatch_press, first half
Press ==
    /\ ex.at = "act" /\ ex.action \in {"click", "key"}
    /\ Dispatch("press", "release")

\* dispatch_press, the release
Release ==
    /\ ex.at = "release"
    /\ Dispatch("release", "settle")

\* a move or a wheel; a wheel without a reference goes to the viewport
Point ==
    /\ ex.at = "act" /\ ex.action \in {"hover", "scroll", "wheel"}
    /\ Dispatch("point", "settle")

\* focus_script: the resolver once more, which also gives the element the focus
Focus ==
    /\ ex.at = "act" /\ ex.action = "type"
    /\ IF Resolves
       THEN /\ effects' = effects \cup {<<"scroll", shown.doc>>, <<"focus", shown.doc>>}
            /\ Ends("insert") \/ Ends("engine")
       ELSE Ends("expired") /\ UNCHANGED effects
    /\ UNCHANGED shown

Insert ==
    /\ ex.at = "insert"
    /\ Dispatch("text", "settle")

\* the page's answer to a script about the reference
Scripted == IF Resolves THEN {"not_it", "it"} ELSE {"missing"}

\* options cleared before they are matched (a mutant of SelectScript)
SelectClears(answer, matched) == answer = "it"

\* SELECT_TEMPLATE touches the options when one of them matches
SelectScript(answer, matched) == answer = "it" /\ matched

\* run_select_option: gone; not a select or no option matches; selected
SelectOption ==
    /\ ex.at = "act" /\ ex.action = "select"
    /\ \E answer \in Scripted, matched \in BOOLEAN :
         /\ IF SelectScript(answer, matched) THEN Do("select", shown.doc)
            ELSE UNCHANGED effects
         /\ \/ Ends(CASE answer = "missing" -> "expired"
                        [] answer = "it" /\ matched -> "settle"
                        [] OTHER -> "refused")
            \/ Ends("engine")
    /\ UNCHANGED shown

\* FILE_CHECK_TEMPLATE: a file input that takes as many files as are given
FileCheck(answer, fits) == answer = "it" /\ fits

\* run_set_input_files: the script's answer, then whether each path exists
CheckFiles ==
    /\ ex.at = "act" /\ ex.action = "files"
    /\ \E answer \in Scripted, fits, found \in BOOLEAN :
         Ends(CASE answer = "missing" -> "expired"
                  [] FileCheck(answer, fits) /\ found -> "hand"
                  [] OTHER -> "refused")
    /\ Still

\* PageHandle::set_input_files resolves the reference once more
HandFiles ==
    /\ ex.at = "hand"
    /\ IF Resolves THEN Do("files", shown.doc) /\ (Ends("settle") \/ Ends("engine"))
       ELSE Ends("expired") /\ UNCHANGED effects
    /\ UNCHANGED shown

\* the page lands on another document; after that the deadline may pass,
\* or the page not tell its URL
Land(next) ==
    /\ shown.doc < MaxDocs
    /\ shown' = [doc |-> shown.doc + 1, live |-> FALSE, place |-> Hidden, off |-> FALSE]
    /\ Do("load", shown.doc + 1)
    /\ Ends(next) \/ Ends("engine")

\* run_navigate publishes where it landed and does not settle
Navigate ==
    /\ ex.at = "act" /\ ex.action = "navigate"
    /\ Land("snapshot")

\* reload, and back or forward to an entry the history has
History ==
    /\ ex.at = "act" /\ ex.action = "history"
    /\ Land("settle")

\* the settle pause
Settle ==
    /\ ex.at = "settle"
    /\ Ends("snapshot")
    /\ Still

\* PageOps::snapshot
Snapshot ==
    /\ ex.at = "snapshot"
    /\ Ends("ok")
    /\ Still

(* The answer goes back; the next action's reference is of a new snapshot. *)
Return ==
    /\ ex.at \in Answers
    /\ ex' = Idle /\ effects' = {}
    /\ shown' = [shown EXCEPT !.live = TRUE]

ActionNext ==
    \/ Move \/ Detach \/ Reload
    \/ BeginAction \/ NoFiles \/ Sample \/ Missing \/ Rejected \/ Poll
    \/ EngineFails \/ Press \/ Release \/ Point \/ Focus \/ Insert \/ SelectOption
    \/ CheckFiles \/ HandFiles \/ Navigate \/ History \/ Settle \/ Snapshot \/ Return

ActionSpec == ActionInit /\ [][ActionNext]_actionVars
-------------------------------------------------------------------------------
(* Every part of the state has its type (actions/mod.rs).                  *)
ActionTypes ==
    /\ shown.doc \in 1 .. MaxDocs /\ shown.live \in BOOLEAN /\ shown.off \in BOOLEAN
    /\ shown.place \in Places \cup {Hidden}
    /\ ex.at \in Answers \cup {"idle", "wait", "poll", "act", "release", "insert", "hand",
                               "settle", "snapshot"}
    /\ ex.action \in Referenced \cup Plain /\ ex.seen \in Places \cup {Never}
    /\ ex.pending \in {"visible", "stable", "enabled"} /\ ex.restarts \in 0 .. MaxPhaseRestarts
    /\ ex.left \in Nat /\ ex.waited \in Nat
    /\ effects \subseteq {"scroll", "focus", "press", "release", "point", "text", "select",
                          "files", "load"}
                         \X (1 .. MaxDocs)

(* auto_wait: "a flickering page cannot stretch the wait without end: the  *)
(* total stays bounded by MAX_PHASE_RESTARTS + 1 budgets", each longer by  *)
(* at most one slow evaluation and one pause; a wait_for by its own, once  *)
(* clamped (poll_until).                                                   *)
WaitBounded ==
    ex.waited <= IF ex.action = "wait_for" THEN Budget("wait_for") + Slowest
                 ELSE (MaxPhaseRestarts + 1) * (PhaseTimeout + Slowest)

\* the page scrolled to the element, in the document the reference is of
Scrolled == {<<"scroll", ex.doc>>}

(* An action with a reference does no more to the page than to scroll to   *)
(* its element before two samples in a row, none between them that found   *)
(* the element hidden, saw it in one place, the second one enabled         *)
(* (auto_wait, ElementBox::stable_against).                                *)
ActedOnSettled ==
    ~(effects \subseteq Scrolled) /\ ex.action \in Referenced =>
        /\ ex.trail[1].place = ex.trail[2].place /\ ex.trail[2].place # Hidden
        /\ ~ex.trail[2].off

(* resolver.rs: "a refused action must not clear the select as a side      *)
(* effect": an action refused, expired or timed out has scrolled the page  *)
(* at most, and what a script does to the element it does in the document  *)
(* the reference was minted in, however the page reloads between the steps.*)
RefusedOnlyScrolled ==
    /\ ex.at \in Refusals => effects \subseteq Scrolled
    /\ \A effect \in effects :
          effect[1] \in {"scroll", "focus", "select", "files"} => effect[2] = ex.doc

(* What an action did it did to the element its reference named when the    *)
(* element was seen settled, within its renewed budgets; an action that was *)
(* refused has only scrolled to it (actions/mod.rs, auto_wait and the       *)
(* actions after it).                                                       *)
ActsOnSettled == ActionTypes /\ WaitBounded /\ ActedOnSettled /\ RefusedOnlyScrolled
===============================================================================
