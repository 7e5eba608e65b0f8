------------------------------ MODULE MCSession -----------------------------
(***************************************************************************)
(* The parts of a session (crates/session): its pages, on an engine that    *)
(* creates targets and on a browser shell that only has its windows, the    *)
(* actions it executes and the observation feeds of a page.                 *)
(* Each module abstracts the others away, so they share no state here: part *)
(* says which one a behaviour exercises, the others stay as they began.     *)
(***************************************************************************)
EXTENDS SessionPages, PageFeeds, Executor, TLC

\* a shell with one window
Shell == INSTANCE SessionPages WITH
    Creates <- FALSE, MaxTabs <- 1

CONSTANT MaxCalls   \* bound: calls on the pages that ever begin, the last of
                    \* them after a replacement or while nobody else calls

VARIABLES
    part,
    calls,
    relisted    \* history: a page entered the list under an id that was there

all == <<part, calls, relisted, vars, actionVars, feedVars>>

\* a call begins where a client leaves its rest
Counted(A) ==
    /\ A
    /\ calls' = calls + Cardinality({c \in Clients : job[c].at = "idle" /\ job'[c].at # "idle"})
    /\ calls' <= MaxCalls
    /\ calls < calls' /\ calls' = MaxCalls =>
          engines > 1 \/ \A c \in Clients : job[c].at = "idle"
    /\ relisted' = (relisted \/ Relist)

MCInit ==
    /\ relisted = FALSE
    /\ part \in {"pages", "shell", "action", "feeds"}
    /\ calls = 0 /\ Init /\ ActionInit /\ FeedInit

MCNext ==
    \/ part = "pages" /\ Counted(Next) /\ UNCHANGED <<part, actionVars, feedVars>>
    \/ part = "shell" /\ Counted(Shell!Next) /\ UNCHANGED <<part, actionVars, feedVars>>
    \/ part = "action" /\ ActionNext /\ UNCHANGED <<part, calls, relisted, vars, feedVars>>
    \/ part = "feeds" /\ FeedNext /\ UNCHANGED <<part, calls, relisted, vars, actionVars>>

MCSpec == MCInit /\ [][MCNext]_all

\* what tells two states apart: not retired, a history this run does not ask
\* about, nor the keys that only it is made of; of an engine that is gone, what
\* it registered as long as somebody looks there, but not how far it had counted;
\* of a saved list, what the rebuild reads; no target that is gone
Keyless(slots) == [i \in DOMAIN slots |-> [slots[i] EXCEPT !.key = 0]]
Known(e) ==
    IF \/ e >= context \/ \E c \in Clients : job[c].ctx = e
       \/ \E i \in DOMAIN reg.slots : reg.slots[i].ctx = e
    THEN driven[e] ELSE {}
PagesView ==
    <<calls, relisted, reg.recovering, Keyless(reg.slots), feeds,
      context, engine, engines, tabs, windows, [e \in 1 .. engines |-> Known(e)],
      IF engine = 0 THEN 0 ELSE serial[engine], born,
      [c \in Clients |-> [job[c] EXCEPT !.key = 0]],
      [rec EXCEPT !.saved = [i \in DOMAIN @ |-> <<@[i].url, @[i].active>>],
                  !.restored = Keyless(@)],
      unclosed \cap tabs, mistaken \cap tabs, late>>
View ==
    CASE part = "action" -> <<part, actionVars>>
      [] part = "feeds"  -> <<part, feedVars>>
      [] OTHER           -> <<part, PagesView>>

(* At most one page is active, whatever two clients, a rebuild and the      *)
(* browser do to the list, until an ensure_page lists a page under an id    *)
(* of the engine before that is still there (pages.rs).                     *)
OneActiveUnlessRelisted == relisted \/ OneActive

Symmetry == Permutations(Clients)
=============================================================================
