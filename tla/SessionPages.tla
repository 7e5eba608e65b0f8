----------------------------- MODULE SessionPages -----------------------------
(***************************************************************************)
(* The pages of one session: its registry (PageRegistry), the engine       *)
(* context it opens pages in (crates/engine-cdp/src/context.rs), the calls *)
(* that open, close, select and discover pages, and the rebuild on a fresh *)
(* context after the engine was replaced (crates/session/src/session).     *)
(*                                                                         *)
(* A step takes one lock once (the registry, the feeds, the context or its *)
(* page map) or is one answer of the engine; calls of several clients and  *)
(* the rebuild interleave between any two of them.                         *)
(***************************************************************************)
EXTENDS PageRegistry, FiniteSets

CONSTANTS
    Clients,     \* tasks calling into the session
    MaxPages,    \* ContextConfig::max_pages
    MaxTabs,     \* bound: tabs that ever exist
    MaxSerial,   \* bound: pages one context opens
    MaxEngines,  \* bound: engines that ever exist
    MayAbandon,  \* whether a rebuild may be dropped halfway
    Creates      \* whether the engines create targets; a browser shell does not

ASSUME PagesAssumption == /\ MaxPages \in Nat \ {0}
                          /\ MaxTabs \in Nat /\ MaxSerial \in Nat
                          /\ MaxEngines \in Nat \ {0}
                          /\ MayAbandon \in BOOLEAN /\ Creates \in BOOLEAN

VARIABLES
    reg,       \* the PageRegistry
    context,   \* Session::context: the engine its context belongs to
    engine,    \* the engine that is up, 0 when none is
    engines,   \* how many engines there have been
    tabs,      \* targets that exist in the live engine
    windows,   \* those of them outside the session's own browser context
    driven,    \* CdpContext::pages of each engine: registered ids and targets
    serial,    \* CdpContext::page_counter of each engine
    born,      \* how many targets there have been
    feeds,     \* page ids with an observation feed
    job,       \* where each client's call stands
    rec,       \* where the rebuild stands
    retired,   \* history: tabs a client was told are closed
    unclosed,  \* history: targets whose loser could not close them
    mistaken,  \* history: targets whose slot the close of another page took
    late       \* history: feeds started for a page that was not listed by then

pastVars == <<retired, unclosed, mistaken, late>>
vars == <<reg, context, engine, engines, tabs, windows, driven, serial, born,
          feeds, job, rec, pastVars>>
engineVars == <<context, engine, engines, tabs, windows, driven, serial, born>>
-------------------------------------------------------------------------------
\* CdpContext::open_page counts per context, and a new engine counts anew;
\* foreign_page_id is derived from the target itself
OwnId(n)     == <<"page", n>>
ForeignId(t) == <<"target", t>>
Urls == {"blank", "site"}

Ids == {OwnId(n) : n \in 1 .. MaxSerial} \cup {ForeignId(t) : t \in 1 .. MaxTabs}

Free == [at |-> "idle", op |-> "none", ctx |-> 0, id |-> OwnId(0), tab |-> 0,
         key |-> 0, list |-> {}]
Resting == [at |-> "idle", ctx |-> 0, saved |-> <<>>, next |-> 1, id |-> OwnId(0), tab |-> 0,
            restored |-> <<>>]

\* back to the loop over the foreign pages
Onward(j) == [Free EXCEPT !.at = "adopt", !.op = "list", !.ctx = j.ctx, !.list = j.list]
\* with a page to work on
Working(id, tab) == [Free EXCEPT !.at = "act", !.id = id, !.tab = tab]

At(c, l)  == job[c].at = l
Put(c, j) == job' = [job EXCEPT ![c] = j]

Registered(e, id) == \E d \in driven[e] : d.id = id
TabOf(e, id)      == (CHOOSE d \in driven[e] : d.id = id).tab
Full(e)           == Cardinality(driven[e]) >= MaxPages
Forget(e, id)     == [driven EXCEPT ![e] = {d \in @ : d.id # id}]

DrivenTargets(e)  == {d.tab : d \in driven[e]}
\* pick_drivable_target: a surface that no registered page drives
Drivable(e)       == windows \ DrivenTargets(e)
\* mutant: a surface is closed like a target
GoneAlways(t)     == tabs \ {t}
\* a surface is the engine's own and never closed
Gone(t)           == tabs \ ({t} \ windows)

Init ==
    /\ reg = Empty
    /\ context = 1 /\ engine = 1 /\ engines = 1
    /\ tabs = {} /\ windows = {}
    /\ driven = [e \in 1 .. MaxEngines |-> {}]
    /\ serial = [e \in 1 .. MaxEngines |-> 0]
    /\ born = 0
    /\ feeds = {}
    /\ job = [c \in Clients |-> Free]
    /\ rec = Resting
    /\ retired = {} /\ unclosed = {} /\ mistaken = {} /\ late = {}
-------------------------------------------------------------------------------
(* The checks a call makes before its first await. *)

\* ensure_page: the active page,
Ensure(c) ==
    /\ At(c, "idle")
    /\ Put(c, IF HasActive(reg) THEN Working(ActiveSlot(reg).id, ActiveSlot(reg).tab)
              ELSE [Free EXCEPT !.at = "gate", !.op = "ensure"])
    /\ UNCHANGED <<reg, engineVars, feeds, rec, pastVars>>

\* or a new one unless recovery owns the list
Gate(c) ==
    /\ At(c, "gate")
    /\ Put(c, IF AcceptsNewPage(reg) THEN [job[c] EXCEPT !.at = "context"] ELSE Free)
    /\ UNCHANGED <<reg, engineVars, feeds, rec, pastVars>>

\* open_page (tabs_open) and sync_foreign_pages (tabs_list)
Begin(c, op) ==
    /\ op \in {"open", "list"}
    /\ At(c, "idle") /\ AcceptsNewPage(reg)
    /\ Put(c, [Free EXCEPT !.at = "context", !.op = op])
    /\ UNCHANGED <<reg, engineVars, feeds, rec, pastVars>>

\* close_page (tabs_close); key names the tab the client means.  Its two reads of
\* the registry are one here: a slot is only ever added under an open gate, so
\* where both answered yes one after the other there is a moment both held
BeginClose(c, i) ==
    /\ At(c, "idle") /\ AcceptsNewPage(reg)
    /\ Put(c, [Free EXCEPT !.at = "context", !.op = "close",
                           !.id = reg.slots[i].id, !.key = reg.slots[i].key])
    /\ UNCHANGED <<reg, engineVars, feeds, rec, pastVars>>

\* select_page (tabs_select)
Select(c, i) ==
    /\ At(c, "idle")
    /\ reg' = Activate(reg, reg.slots[i].id)
    /\ UNCHANGED <<engineVars, feeds, job, rec, pastVars>>

\* self.context.read().await.clone()
ReadContext(c) ==
    /\ At(c, "context")
    /\ Put(c, [job[c] EXCEPT !.ctx = context,
                             !.at = CASE job[c].op = "list"  -> "list"
                                      [] job[c].op = "close" -> "lookup"
                                      [] OTHER               -> "create"])
    /\ UNCHANGED <<reg, engineVars, feeds, rec, pastVars>>

\* an engine call that answers with an error ends the call
Fail(c) ==
    /\ job[c].at \in {"create", "close", "list"}
    /\ Put(c, Free)
    /\ UNCHANGED <<reg, engineVars, feeds, rec, pastVars>>
-------------------------------------------------------------------------------
(* CdpContext::open_page *)

CreateTarget(c) ==
    /\ Creates /\ At(c, "create") /\ job[c].ctx = engine
    /\ ~Full(engine) /\ born < MaxTabs /\ serial[engine] < MaxSerial
    /\ born' = born + 1
    /\ tabs' = tabs \cup {born'}
    /\ serial' = [serial EXCEPT ![engine] = @ + 1]
    /\ Put(c, [job[c] EXCEPT !.at = "prepare", !.tab = born',
                             !.id = OwnId(serial'[engine])])
    /\ UNCHANGED <<reg, context, engine, engines, windows, driven, feeds, rec, pastVars>>

\* attach_existing_surface: the engine answered that it creates no target, and
\* the call drives a surface it has; without a free one the call Fails
AttachSurface(c) ==
    /\ ~Creates /\ At(c, "create") /\ job[c].ctx = engine
    /\ ~Full(engine) /\ serial[engine] < MaxSerial
    /\ serial' = [serial EXCEPT ![engine] = @ + 1]
    /\ \E t \in Drivable(engine) :
          Put(c, [job[c] EXCEPT !.at = "prepare", !.tab = t, !.id = OwnId(serial'[engine])])
    /\ UNCHANGED <<reg, context, engine, engines, tabs, windows, born, driven, feeds,
                   rec, pastVars>>

\* the preparation fails, or the caps are met under the registering lock: the
\* target is closed if that works, and belongs to nobody if it does not
Unprepared(c) ==
    /\ At(c, "prepare")
    /\ tabs' \in {Gone(job[c].tab), tabs}
    /\ Put(c, Free)
    /\ UNCHANGED <<reg, context, engine, engines, windows, driven, serial, born,
                   feeds, rec, pastVars>>

Register(c) ==
    LET j == job[c] IN
    /\ At(c, "prepare") /\ j.tab \in tabs /\ ~Full(j.ctx)
    /\ driven' = [driven EXCEPT ![j.ctx] = @ \cup {[id |-> j.id, tab |-> j.tab]}]
    /\ Put(c, [j EXCEPT !.at = "admit"])
    /\ UNCHANGED <<reg, context, engine, engines, tabs, windows, serial, born, feeds, rec,
                   pastVars>>
-------------------------------------------------------------------------------
(* What ensure_page, open_page and sync_foreign_pages do with the page. *)

Offered(j) == Slot(j.id, IF j.op = "list" THEN "site" ELSE "blank", j.tab, j.ctx, FALSE, j.tab)

\* admit_active
AdmitFirst(c) ==
    /\ At(c, "admit") /\ job[c].op = "ensure" /\ CanAdmitActive(reg)
    /\ reg' = AdmitActive(reg, Offered(job[c]))
    /\ Put(c, [job[c] EXCEPT !.at = "feed"])
    /\ UNCHANGED <<engineVars, feeds, rec, pastVars>>

\* mutant: two calls that raced the same discovery both register it
AdmitTwice(c) ==
    /\ At(c, "admit") /\ job[c].op # "ensure" /\ AcceptsNewPage(reg)
    /\ reg' = [reg EXCEPT !.slots = Append(@, Offered(job[c]))]
    /\ Put(c, [job[c] EXCEPT !.at = IF job[c].op = "open" THEN "activate" ELSE "feed"])
    /\ UNCHANGED <<engineVars, feeds, rec, pastVars>>

\* admit: registered once however many calls attach; no cap, not active yet
AdmitMore(c) ==
    /\ At(c, "admit") /\ job[c].op # "ensure" /\ CanAdmit(reg, Offered(job[c]))
    /\ reg' = Admit(reg, Offered(job[c]))
    /\ Put(c, [job[c] EXCEPT !.at = IF job[c].op = "open" THEN "activate" ELSE "feed"])
    /\ UNCHANGED <<engineVars, feeds, rec, pastVars>>

\* a concurrent caller was first, or recovery took the list over
Lose(c) ==
    /\ At(c, "admit")
    /\ IF job[c].op = "ensure" THEN ~CanAdmitActive(reg) ELSE ~CanAdmit(reg, Offered(job[c]))
    /\ Put(c, IF job[c].op = "list" THEN Onward(job[c])
              ELSE [job[c] EXCEPT !.at = "discard"])
    /\ UNCHANGED <<reg, engineVars, feeds, rec, pastVars>>

\* tabs_open's page takes the active flag by its id
ActivateOwn(c) ==
    /\ At(c, "activate")
    /\ reg' = Activate(reg, job[c].id)
    /\ Put(c, [job[c] EXCEPT !.at = "feed"])
    /\ UNCHANGED <<engineVars, feeds, rec, pastVars>>

StartFeed(c) ==
    LET j == job[c] IN
    /\ At(c, "feed")
    /\ feeds' = feeds \cup {j.id}
    /\ late' = IF Contains(reg, j.id) /\ ~reg.recovering THEN late ELSE late \cup {j.id}
    /\ Put(c, IF j.op = "list" THEN Onward(j) ELSE Working(j.id, j.tab))
    /\ UNCHANGED <<reg, engineVars, rec, retired, unclosed, mistaken>>

\* what the loser of an opening race answers
After(j) == IF j.op = "ensure" THEN [Free EXCEPT !.at = "fallback"] ELSE Free

\* mutant: a page nothing tracks is left to itself
DiscardNothing(c) ==
    /\ At(c, "discard")
    /\ Put(c, After(job[c]))
    /\ UNCHANGED <<reg, engineVars, feeds, rec, pastVars>>

\* the loser closes what it opened,
Discard(c) ==
    LET j == job[c] IN
    /\ At(c, "discard")
    /\ tabs' = IF Registered(j.ctx, j.id) THEN Gone(j.tab) ELSE tabs
    /\ driven' = Forget(j.ctx, j.id)
    /\ Put(c, After(j))
    /\ UNCHANGED <<reg, context, engine, engines, windows, serial, born, feeds, rec, pastVars>>

\* and does not look whether that worked
DiscardFails(c) ==
    LET j == job[c] IN
    /\ At(c, "discard") /\ Registered(j.ctx, j.id) /\ j.tab \notin windows
    /\ unclosed' = unclosed \cup {j.tab}
    /\ Put(c, After(j))
    /\ UNCHANGED <<reg, engineVars, feeds, rec, retired, mistaken, late>>

\* an ensure then answers the winner's page
Fallback(c) ==
    /\ At(c, "fallback")
    /\ Put(c, IF HasActive(reg) THEN Working(ActiveSlot(reg).id, ActiveSlot(reg).tab)
              ELSE Free)
    /\ UNCHANGED <<reg, engineVars, feeds, rec, pastVars>>

\* the call's own work: a page that answers has its URL refreshed by id
Act(c) ==
    /\ At(c, "act")
    /\ reg' \in {reg} \cup (IF job[c].tab \in tabs
                            THEN {SetUrl(reg, job[c].id, "site")} ELSE {})
    /\ Put(c, Free)
    /\ UNCHANGED <<engineVars, feeds, rec, pastVars>>
-------------------------------------------------------------------------------
(* close_page *)

\* an id the context does not know counts as closed at once
CloseUnknown(c) ==
    /\ At(c, "lookup") /\ ~Registered(job[c].ctx, job[c].id)
    /\ Put(c, [job[c] EXCEPT !.at = "remove"])
    /\ UNCHANGED <<reg, engineVars, feeds, rec, pastVars>>

CloseTarget(c) ==
    /\ At(c, "lookup") /\ Registered(job[c].ctx, job[c].id)
    /\ Put(c, [job[c] EXCEPT !.at = "close", !.tab = TabOf(job[c].ctx, job[c].id)])
    /\ UNCHANGED <<reg, engineVars, feeds, rec, pastVars>>

\* the target is closed, or found gone; a window outside the context's
\* isolation only loses its registration
Close(c) ==
    LET j == job[c] IN
    /\ At(c, "close") /\ j.ctx = engine
    /\ tabs' = Gone(j.tab)
    /\ driven' = Forget(engine, j.id)
    /\ Put(c, [j EXCEPT !.at = "remove"])
    /\ UNCHANGED <<reg, context, engine, engines, windows, serial, born, feeds, rec, pastVars>>

\* the registry goes by the id alone, whatever page has it by now: not always
\* the one that was closed
Meant(j, s) == \/ s.tab = j.tab /\ s.ctx = j.ctx
               \/ ~Registered(s.ctx, s.id)

RemovePage(c) ==
    LET j == job[c] IN
    /\ At(c, "remove")
    /\ reg' = Remove(reg, j.id)
    /\ mistaken' = IF Contains(reg, j.id) /\ ~Meant(j, reg.slots[Place(reg, j.id)])
                   THEN mistaken \cup {reg.slots[Place(reg, j.id)].tab} ELSE mistaken
    /\ Put(c, [Free EXCEPT !.at = "unfeed", !.id = j.id, !.key = j.key])
    /\ UNCHANGED <<engineVars, feeds, rec, retired, unclosed, late>>

\* mutant: the feed outlives the page
DropNoFeed(c) ==
    /\ At(c, "unfeed")
    /\ retired' = retired \cup {job[c].key}
    /\ Put(c, Free)
    /\ UNCHANGED <<reg, engineVars, feeds, rec, unclosed, mistaken, late>>

DropFeed(c) ==
    /\ At(c, "unfeed")
    /\ feeds' = feeds \ {job[c].id} /\ late' = late \ {job[c].id}
    /\ retired' = retired \cup {job[c].key}
    /\ Put(c, Free)
    /\ UNCHANGED <<reg, engineVars, rec, unclosed, mistaken>>
-------------------------------------------------------------------------------
(* sync_foreign_pages *)

ListForeign(c) ==
    /\ At(c, "list") /\ job[c].ctx = engine
    /\ Put(c, [job[c] EXCEPT !.at = "adopt",
                             !.list = tabs \ DrivenTargets(engine)])
    /\ UNCHANGED <<reg, engineVars, feeds, rec, pastVars>>

\* the loop passes over what is tracked by now, or gone
Skip(c) ==
    /\ At(c, "adopt")
    /\ \E t \in job[c].list :
          /\ Contains(reg, ForeignId(t)) \/ t \notin tabs
          /\ Put(c, [job[c] EXCEPT !.list = @ \ {t}])
    /\ UNCHANGED <<reg, engineVars, feeds, rec, pastVars>>

Listed(c) ==
    /\ At(c, "adopt") /\ job[c].list = {}
    /\ Put(c, Free)
    /\ UNCHANGED <<reg, engineVars, feeds, rec, pastVars>>

\* adopt_page looks the target up again and attaches to it
Attach(c) ==
    /\ At(c, "adopt")
    /\ \E t \in job[c].list \cap tabs :
          /\ ~Contains(reg, ForeignId(t))
          /\ Put(c, [job[c] EXCEPT !.at = "attach", !.tab = t, !.id = ForeignId(t),
                                   !.list = @ \ {t}])
    /\ UNCHANGED <<reg, engineVars, feeds, rec, pastVars>>

AttachFails(c) ==
    /\ At(c, "attach")
    /\ Put(c, Onward(job[c]))
    /\ UNCHANGED <<reg, engineVars, feeds, rec, pastVars>>

\* the context's page map keeps one handle however many calls attach, uncapped
Adopt(c) ==
    LET j == job[c] IN
    /\ At(c, "attach")
    /\ j.tab \in tabs \/ Registered(j.ctx, j.id)
    /\ driven' = [driven EXCEPT ![j.ctx] = @ \cup {[id |-> j.id, tab |-> j.tab]}]
    /\ Put(c, [j EXCEPT !.at = "admit"])
    /\ UNCHANGED <<reg, context, engine, engines, tabs, windows, serial, born, feeds, rec,
                   pastVars>>
-------------------------------------------------------------------------------
(* recover: the rebuild on a context of the engine that replaced a dead one. *)

\* the replacement and begin_recovery: the new engine is nobody's in between
RecoverBegin ==
    /\ rec.at = "idle" /\ engine = 0 /\ engines < MaxEngines
    /\ engines' = engines + 1
    /\ engine' = engines'
    /\ reg' = BeginRecovery(reg)
    /\ rec' = [Resting EXCEPT !.at = "clear", !.ctx = engines', !.saved = reg.slots]
    /\ UNCHANGED <<context, tabs, windows, driven, serial, born, feeds, job, pastVars>>

ClearFeeds ==
    /\ rec.at = "clear"
    /\ feeds' = {} /\ late' = {}
    /\ rec' = [rec EXCEPT !.at = "swap"]
    /\ UNCHANGED <<reg, engineVars, job, retired, unclosed, mistaken>>

Swap ==
    /\ rec.at = "swap"
    /\ context' = rec.ctx
    /\ rec' = [rec EXCEPT !.at = "restore"]
    /\ UNCHANGED <<reg, engine, engines, tabs, windows, driven, serial, born,
                   feeds, job, pastVars>>

Restoring == rec.at = "restore" /\ rec.next <= Len(rec.saved)

\* mutant: the loop counts past the saved list
PassOverEnd ==
    /\ rec.at = "restore"
    /\ rec' = [rec EXCEPT !.next = @ + 1]
    /\ UNCHANGED <<reg, engineVars, feeds, job, pastVars>>

\* a blank page is not restored; one that cannot be opened is left out
PassOver ==
    /\ Restoring
    /\ rec' = [rec EXCEPT !.next = @ + 1]
    /\ UNCHANGED <<reg, engineVars, feeds, job, pastVars>>

\* open_page for a saved page: a new target or a free surface,
Reopen ==
    /\ Restoring /\ rec.saved[rec.next].url # "blank"
    /\ engine = rec.ctx /\ ~Full(engine) /\ serial[engine] < MaxSerial
    /\ serial' = [serial EXCEPT ![engine] = @ + 1]
    /\ \E t \in IF Creates THEN {born + 1} \cap 1 .. MaxTabs ELSE Drivable(engine) :
          /\ tabs' = tabs \cup {t}
          /\ born' = IF Creates THEN t ELSE born
          /\ rec' = [rec EXCEPT !.at = "prepare", !.id = OwnId(serial'[engine]), !.tab = t]
    /\ UNCHANGED <<reg, context, engine, engines, windows, driven, feeds, job, pastVars>>

ReopenFails ==
    /\ rec.at = "prepare"
    /\ tabs' \in {Gone(rec.tab), tabs}
    /\ rec' = [rec EXCEPT !.at = "restore", !.next = @ + 1, !.id = OwnId(0), !.tab = 0]
    /\ UNCHANGED <<reg, context, engine, engines, windows, driven, serial, born, feeds, job,
                   pastVars>>

Reopened ==
    /\ rec.at = "prepare" /\ rec.tab \in tabs /\ ~Full(rec.ctx)
    /\ driven' = [driven EXCEPT ![rec.ctx] = @ \cup {[id |-> rec.id, tab |-> rec.tab]}]
    /\ rec' = [rec EXCEPT !.at = "feed"]
    /\ UNCHANGED <<reg, context, engine, engines, tabs, windows, serial, born, feeds, job,
                   pastVars>>

\* the active page comes back by position, and its feed starts
RestorePage ==
    LET old == rec.saved[rec.next]
        was == ActiveIn(rec.saved)
        s   == Slot(rec.id, old.url, rec.tab, rec.ctx,
                    was # {} /\ rec.next = First(was), old.key)
    IN  /\ rec.at = "feed"
        /\ feeds' = feeds \cup {rec.id}
        /\ rec' = [rec EXCEPT !.at = "restore", !.next = @ + 1, !.id = OwnId(0), !.tab = 0,
                                  !.restored = Append(@, s)]
        /\ UNCHANGED <<reg, engineVars, job, pastVars>>

\* mutant: an empty rebuild returns early, the gate still shut
FinishOnlyPages ==
    /\ rec.at = "restore" /\ rec.next > Len(rec.saved)
    /\ reg' = IF rec.restored = <<>> THEN reg ELSE FinishRecovery(rec.restored)
    /\ rec' = Resting
    /\ UNCHANGED <<engineVars, feeds, job, pastVars>>

\* finish_recovery; the gate it drops afterwards finds itself open
Finish ==
    /\ rec.at = "restore" /\ rec.next > Len(rec.saved)
    /\ reg' = FinishRecovery(rec.restored)
    /\ rec' = Resting
    /\ UNCHANGED <<engineVars, feeds, job, pastVars>>

\* a rebuild that panics or is dropped: only the gate's Drop runs
Abandon ==
    /\ MayAbandon /\ rec.at # "idle"
    /\ reg' = DropGate(reg)
    /\ rec' = Resting
    /\ UNCHANGED <<engineVars, feeds, job, pastVars>>
-------------------------------------------------------------------------------
(* The browser's own moves. *)

EngineDies ==
    /\ engine # 0
    /\ engine' = 0 /\ tabs' = {} /\ windows' = {}
    /\ UNCHANGED <<reg, context, engines, driven, serial, born, feeds, job, rec,
                   pastVars>>

\* a window.open tab in the session's context, or a person's own window; a shell
\* has no contexts to put a tab in
Appear ==
    /\ engine # 0 /\ born < MaxTabs
    /\ born' = born + 1
    /\ tabs' = tabs \cup {born'}
    /\ windows' \in (IF Creates THEN {windows} ELSE {}) \cup {windows \cup {born'}}
    /\ UNCHANGED <<reg, context, engine, engines, driven, serial, feeds, job, rec,
                   pastVars>>

Vanish(t) ==
    /\ t \in tabs
    /\ tabs' = tabs \ {t} /\ windows' = windows \ {t}
    /\ UNCHANGED <<reg, context, engine, engines, driven, serial, born, feeds, job,
                   rec, pastVars>>
-------------------------------------------------------------------------------
OpenStep(c) ==
    \/ CreateTarget(c) \/ AttachSurface(c) \/ Unprepared(c) \/ Register(c)
    \/ AdmitFirst(c) \/ AdmitMore(c) \/ Lose(c) \/ ActivateOwn(c) \/ StartFeed(c)
    \/ Discard(c) \/ DiscardFails(c) \/ Fallback(c) \/ Act(c)
CloseStep(c) == CloseUnknown(c) \/ CloseTarget(c) \/ Close(c) \/ RemovePage(c) \/ DropFeed(c)
ListStep(c) ==
    \/ ListForeign(c) \/ Skip(c) \/ Listed(c) \/ Attach(c) \/ AttachFails(c) \/ Adopt(c)
CallStep(c) ==
    Gate(c) \/ ReadContext(c) \/ Fail(c) \/ OpenStep(c) \/ CloseStep(c) \/ ListStep(c)

RecoverStep ==
    \/ ClearFeeds \/ Swap \/ PassOver \/ Reopen \/ ReopenFails \/ Reopened \/ RestorePage
    \/ Finish

Next ==
    \/ \E c \in Clients :
          \/ Ensure(c)
          \/ \E op \in {"open", "list"} : Begin(c, op)
          \/ \E i \in Indices(reg) : BeginClose(c, i) \/ Select(c, i)
          \/ CallStep(c)
    \/ RecoverBegin \/ RecoverStep \/ Abandon
    \/ EngineDies \/ Appear \/ \E t \in tabs : Vanish(t)

Spec == Init /\ [][Next]_vars

(* Every engine command answers or runs into its deadline, so a call and a *)
(* rebuild under way go on; nobody has to call, and no engine has to die.  *)
Fairness == (\A c \in Clients : WF_vars(CallStep(c))) /\ WF_vars(RecoverStep)
FairSpec == Spec /\ Fairness
-------------------------------------------------------------------------------
(* Properties. *)

SlotSet == [id : Ids, url : Urls, tab : 1 .. MaxTabs, ctx : 1 .. MaxEngines,
            active : BOOLEAN, key : 1 .. MaxTabs]

JobSet == [at : {"idle", "gate", "act", "context", "create", "prepare", "admit", "activate",
                 "feed", "discard", "fallback", "lookup", "close", "remove", "unfeed",
                 "list", "adopt", "attach"},
           op : {"none", "ensure", "open", "list", "close"},
           ctx : 0 .. MaxEngines, id : Ids \cup {OwnId(0)}, tab : 0 .. MaxTabs,
           key : 0 .. MaxTabs, list : SUBSET (1 .. MaxTabs)]

TypeOK ==
    /\ reg.slots \in Seq(SlotSet) /\ reg.recovering \in BOOLEAN
    /\ context \in 1 .. MaxEngines
    /\ engines \in 1 .. MaxEngines /\ engine \in {0, engines}
    /\ born \in 0 .. MaxTabs
    /\ windows \subseteq tabs /\ tabs \subseteq 1 .. born
    /\ driven \in [1 .. MaxEngines -> SUBSET [id : Ids, tab : 1 .. MaxTabs]]
    /\ serial \in [1 .. MaxEngines -> 0 .. MaxSerial]
    /\ feeds \subseteq Ids
    /\ job \in [Clients -> JobSet]
    /\ rec.at \in {"idle", "clear", "swap", "restore", "prepare", "feed"}
    /\ rec.ctx \in 0 .. MaxEngines /\ rec.id \in Ids \cup {OwnId(0)} /\ rec.tab \in 0 .. MaxTabs
    /\ rec.saved \in Seq(SlotSet) /\ rec.restored \in Seq(SlotSet)
    /\ rec.next \in 1 .. Len(rec.saved) + 1
    /\ retired \cup unclosed \cup mistaken \subseteq 0 .. MaxTabs /\ late \subseteq feeds

(* At most one slot is active, whatever opens, closes, adoptions, selects  *)
(* and rebuilds interleave: what pages.rs calls the invariant every caller *)
(* relies on.                                                              *)
OneActive == AtMostOneActive(reg)

\* an ensure_page admits a page under an id that is listed: of the two engines,
\* for both name their first page alike
Relist == \E c \in Clients : AdmitFirst(c) /\ Contains(reg, job[c].id)

OwnIds == {OwnId(n) : n \in 1 .. MaxSerial}

(* No page is tracked twice: neither two calls racing one discovery nor a  *)
(* rebuild on an engine that counts its pages from one again lists an id   *)
(* of one engine a second time.                                            *)
UniqueIds ==
    \A i, j \in Indices(reg) :
        reg.slots[i].id = reg.slots[j].id /\ reg.slots[i].ctx = reg.slots[j].ctx => i = j

Quiet == /\ \A c \in Clients : job[c].at = "idle"
         /\ ~reg.recovering /\ engine = context

(* A page opened for the session is tracked once its call is over: the     *)
(* losers of the opening races and pages opened into a rebuild were closed,*)
(* not left alive, uncounted and invisible to tabs_list - but for one whose*)
(* close failed, and one whose slot the close of another page took.        *)
NoOrphan ==
    Quiet => \A d \in driven[context] :
                d.tab \in tabs \ (unclosed \cup mistaken) /\ d.id \in OwnIds
                    => \E i \in Indices(reg) : reg.slots[i].tab = d.tab

(* An observation feed belongs to a page that is tracked, being restored or *)
(* being closed, unless it was started for a page that had left the list,  *)
(* or was in one under rebuild.                                            *)
NoStrayFeed ==
    \A id \in feeds \ late :
        \/ Contains(reg, id)
        \/ \E i \in DOMAIN rec.restored : rec.restored[i].id = id
        \/ \E c \in Clients : At(c, "unfeed") /\ job[c].id = id

(* The gate reopens: no crash during a rebuild leaves the session refusing *)
(* lookups and new pages for good.                                         *)
GateReopens == reg.recovering ~> ~reg.recovering

(* While a page of the session's own is tracked some page is active, or a  *)
(* tabs_open is about to make it so: closes, adoptions and rebuilds never  *)
(* leave the agent without a page but for a list of adopted surfaces alone.*)
OwnHasActive ==
    \A i \in Indices(reg) : ~reg.recovering /\ reg.slots[i].id \in OwnIds =>
        HasActive(reg) \/ \E c \in Clients : At(c, "activate") /\ job[c].id = reg.slots[i].id

(* The page list is one an agent can work with: every part of the state has *)
(* its type, no id is tracked twice, and while a page of the session's own  *)
(* is tracked some page is active (pages.rs, session/mod.rs).               *)
PagesSound == TypeOK /\ UniqueIds /\ OwnHasActive

(* docs/sessions.md: exactly one page is active while pages are tracked.   *)
SomeActive == reg.slots # <<>> /\ ~reg.recovering => ActiveIn(reg.slots) # {}

(* close_page's comment: a close never reports a tab closed that the       *)
(* rebuild's write-back then resurrects.                                   *)
ClosedStaysClosed ==
    ~reg.recovering => \A i \in Indices(reg) : reg.slots[i].key \notin retired

(* context.rs: the listing and the attach never hand one target out twice. *)
TabTrackedOnce ==
    \A i, j \in Indices(reg) : reg.slots[i].tab = reg.slots[j].tab => i = j
===============================================================================
