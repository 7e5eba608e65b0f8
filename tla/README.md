# rutter in TLA+

`rutter` is a server that gives AI agents a supervised browser. It launches one
Chromium (the *engine*), keeps it alive, gives every agent session one browser
context with its pages, asks a human before operations the policy is strict
about, streams what happens to a dashboard and carries the login of a session
over engine crashes. This directory models its concurrent core, checks it with
TLC and proves parts of it with TLAPS.

Paths below are relative to `src/crates/` of the repository.

## 1. Inventory

| Component (code) | State | Operations | Talks to |
|---|---|---|---|
| Engine supervisor (`engine/src/supervisor`) | `Phase` with the engine and the `RestartHistory`, the replacement ticket, the heartbeat handle | `start`, `shutdown`, `engine`, the heartbeat task, `bring_up` | the launcher; the manager reads `engine()` and the restart watch |
| Engine download (`engine/src/download`) | the cache directory: versions, staging directories | `ensure`, `install`, the lookups, fetch with its attempts | file system, vendor; several processes share the cache |
| Engine launch (`engine-cdp/src/launch.rs`, `engine.rs`) | the child process and who owns it, whether contexts are isolated | `launch`, `create_context`, `shutdown` | operating system, browser |
| Session manager (`session/src/manager.rs`) | engine slot, startup lock, session map | `session`, `close_session`, `shutdown`, `ensure_running`, the recovery task | supervisor, sessions, event backbone |
| Page registry (`session/src/pages.rs`) | slots, active flag, recovery gate | admit, activate, remove, begin and finish recovery, the gate's `Drop` | called by the session under one mutex |
| Session (`session/src/session/mod.rs`) | its context, registry, feeds, storage state | page calls, `enforce`/`park`, `recover`, persistence | CDP context, broker, backbone, file system |
| CDP context (`engine-cdp/src/context.rs`) | registered pages, id counter, page cap | `open_page` (creating a target, or attaching to a surface of a shell), `close_page`, `foreign_pages`, `adopt_page` | the browser |
| Reference scopes (`context.rs`, `observe/src/assets`) | minter and claim of a document, the candidates remembered, the store of references | `prepare_once` with `define`, `verify`, `evict`, the serializer's handout and sweep | the page |
| Action executor (`session/src/actions`, `resolve.rs`, `wait.rs`, `observe/src/resolver.rs`) | one action: phase, budget, last box | `auto_wait`, `poll_until`, each action's round trips | the page |
| Observation feeds (`session/src/observations.rs`, `engine-cdp/src/page.rs`) | feed map, claim of a page's stream, two bounded buffers | spawn, abort, reap, forward, dismiss a dialog | the page |
| Live view (`engine-cdp/src/page.rs`, `dashboard/src/ws.rs`) | the browser's capture, a task and a channel per stream, the connection's receiver | start, forward a frame, restart after a navigation, stop, drop | the browser |
| Page limits (`engine-cdp/src/page.rs`) | last capture instant, pending requests | reserve a capture, note and take a request | |
| Approvals (`policy/src/broker.rs`, `brief.rs`, `rules.rs`; `session/src/audit.rs`) | parked senders, counter; rules; audit file | `open`, `wait`, `decide`, `Drop`s | session, dashboard, MCP |
| Policy file and patterns (`policy/src/config.rs`, `pattern.rs`) | none | parse a file, parse a pattern, match a URL | start-up, rules |
| Event backbone (`events/src`) | sequence counter, one bounded ring per session, a bounded broadcast channel | `publish`, `history_after`, `forget` | everybody publishes; dashboard connections read |
| Dashboard WebSocket (`dashboard/src/ws.rs`) | a watermark, a receiver, the keepalive | replay, forward, refill after a lag, ping | backbone |
| Dashboard access (`dashboard/src/lib.rs`, `auth.rs`, frontend `app.js`) | the bound port, the hand-off file, the token; the browser's cookies and tabs | bind, hand off, the gate of every request, the cookie exchange, a decision | browser, broker |
| Storage persistence (`session/src/storage.rs`, `session/mod.rs`) | remembered state, "the file holds it", the file | persist on change, load, save, replay, the dump of localStorage | CDP context, file system |
| Snapshots (`observe/src/snapshot_builder`, `response.rs`) | none | convert, cut, fold, fit, render | the page's answer in, an agent's text out |
| MCP server and serve (`mcp/src/server`, `http.rs`, `cli/src/serve.rs`) | a connection's cached session and its permit; the life of the process | tool calls, `close_session`, start, drain and stop | manager, dashboard |
| Reader, keys, error tables, one-shot commands, shells, frontend | see section 7 | | |

What is hard about it: everything runs on a multi-threaded runtime and every
`await` is a place where another task may get in; locks are dropped before
engine round trips; futures are cancelled when a client goes away; the engine
may die at any step, and its replacement is rebuilt into while calls go on; the
process may be killed while it writes; two bounded buffers feed one client; a
page changes between any two of an action's round trips; a command whose answer
is lost may have run; several processes share a cache directory, the ports of a
machine and a browser's one cookie slot.

What makes each component correct:

- **supervisor**: one engine at a time, one relaunch at a time, a bounded number
  of attempts in a window whoever makes them, an engine that comes back;
- **manager**: the cap, one browser, sessions shared and not replaced, a closed
  session holding nothing, no replacement missed;
- **pages**: at most one active page, one while the agent has pages, nothing
  opened left untracked, ids unique, a gate that reopens;
- **approvals**: nothing runs unless allowed or granted as it was described,
  every request ends once in every record, no slot leaks;
- **events**: sent once and in order, nothing lost, clients catch up;
- **storage**: the file reads back whole, the claim about it is true, newer is
  not overwritten by older, an unreadable engine does not erase the login;
- **store and launch**: what another process can find is whole, a browser has an
  owner that ends it;
- **references**: a reference names the element it was handed out for or nothing;
- **executor**: acts on what it saw settled, within its budgets, and has at most
  scrolled the page when it refuses;
- **feeds and live view**: a running feed is known and reads the newest, a
  capture has a task that stops it;
- **snapshots, patterns, policy files**: say what they were given, cut only as
  documented;
- **dashboard access**: an answer reaches a process it was meant for;
- **serve**: a closed session stays closed, nothing is left when serve answers.

## 2. Modules

| Module | What it is |
|---|---|
| `EngineSlot` | abstract: what `engine()` promises, a slot emptied before it is filled again |
| `Supervisor` | `start`, `shutdown`, the heartbeats, `bring_up`, the policy; `SupervisorProofs` the theorems |
| `EngineStore` | `ensure` and `install` by several processes on one cache directory, with deaths and reused pids; `EngineProofs` |
| `EngineLaunch` | port, spawn, connect, guard, `create_context` and its fallback; `EngineProofs` |
| `SessionManager` | the manager and its recovery tasks; supervisors as it sees them; `SessionManagerProofs` |
| `PageRegistry` | the registry as functions of its value |
| `SessionPages` | composes the registry with the CDP context, the session's page calls and `recover`, on an engine that creates targets or on a shell (`Creates`); `SessionPagesProofs` |
| `RefScope` | the preparation of one target by several adoptions, and the reference store; `EngineProofs` |
| `Executor` | one action against a page that changes under it; `SessionPagesProofs` |
| `PageFeeds` | the feeds of one page id that is released and adopted again; `SessionPagesProofs` |
| `Screencast` | captures, their tasks, the connections that hold streams; `ScreencastProofs` |
| `PageBuffers` | capture spacing, pending requests; `EngineProofs` |
| `PolicyReview` | rules, default, fail-closed upgrade as operators |
| `Approvals` | composes the review with `enforce`, `park`, the broker and the audit; `ApprovalsProofs` |
| `EventPromises` | the part of the backbone and a connection a dashboard client sees, and what it is promised of it |
| `EventSubscription` | abstract: what a client that connects is delivered, with no rings, bus, watermark or refill |
| `EventStream` | how that state changes: the backbone with one dashboard connection; implements `EventSubscription`; `EventStreamProofs` |
| `DashboardAccess` | processes, ports, hand-off file, one browser with its cookies and tabs; `ApprovalsProofs` |
| `StoragePersist` | one session's persistence with calls, recovery, crashes; `StoragePersistProofs` |
| `McpServe` | connections with their cached sessions, and the serve command's life; `SessionManagerProofs` |
| `StorageDump` | the dump of localStorage and what a restore finds of it: pages grouped, asked at once, answering in any order or not; `StoragePersistProofs` |
| `UrlPattern`, `WildcardLoop` | what a URL pattern means, by positions; the matching loop turn by turn; `ApprovalsProofs` |
| `PolicyConfig`, `PolicyInputs` | reading a policy file; what an accepted one and its patterns decide; `ApprovalsProofs` |
| `SnapshotTree`, `SnapshotInputs` | the snapshot pipeline as operators; its input trees, grown a node at a time |

Two more kinds of module are there for TLC. `MCSupervisor`, `MCEventStream`,
`MCStoragePersist`, `MCStorageDump` and `MCSessionPages` give one module its
constants and symmetry; in the last the variable `kind` says whether the session
is on an engine or on a shell. `MCApprovals`, `MCLives`, `MCSession`, `MCEngine` and
`MCServing` are sums: they extend or instantiate several modules that share no state, the
variable `part` says from the initial state on which of them a behaviour
exercises, and the others stay as they began. A run of a sum thus checks the
union of the state graphs, not a product, and a property of a part holds
trivially in the states of another. Where a sum extends a module, the run checks
the very definitions the theorems are about.

| Sum | Parts |
|---|---|
| `MCApprovals` | `Approvals`, `EventStream`, `DashboardAccess`, `PolicyInputs` |
| `MCLives` | `EventStream`, `Screencast`, `Supervisor` |
| `MCSession` | `SessionPages` twice (engine, shell), `Executor`, `PageFeeds` |
| `MCEngine` | `EngineStore`, `EngineLaunch`, `RefScope`, `PageBuffers` |
| `MCServing` | `SessionManager`, `McpServe`, `StoragePersist`, `StorageDump`, `SnapshotInputs` |

An action is the code between two lock acquisitions or two awaits; its guard is
the code's condition, and the comment above it names the function. Where two
acquisitions are one action the comment says why no interleaving is lost (`BeginClose`
of `SessionPages`). `PROJECT.json`
maps each definition to its lines. Conventions used throughout:

- A task is a record or a program counter: `job[c].at` in `SessionPages`,
  `Approvals` and `SessionManager`, `pc[t]` in `Supervisor`,
  `caller`, `launch`, `adopter`, `ex`, `task`, `stream`, `call` elsewhere.
- Engines, contexts, tabs, pages and requests are numbers in the order they were
  made. Nothing is reused but what the program reuses (session ids, page ids of
  a new engine).
- Time: `Supervisor` counts ticks (one action ages attempts and timers),
  `Executor` sampling intervals, `PageBuffers` reads a clock; everywhere else a deadline is an action that may happen. A timer that has to
  fire is fair, an answer that has to come is not.
- `history` variables (`spent`, `retired`, `acked`, `bare`, `blind`, `cleared`,
  `refused`, `overtaken`, `unclosed`, `mistaken`, `late`, `relisted`, `loaded`, `raced`,
  `issued`, `taken`, `kept`) record what properties ask about and are read by no guard.
- Operators named as a variant of an action and commented as its mutant
  (`CheckSkipped`, `LockBriefly`) are used by no specification; each is a bug the
  action's code could plausibly have, for which its property must fail. Types are
  not a property of their own but a part of one that a bug of the code can break.

How the models leave data out: URLs are model values with a canonical form each
(`Canon`); a cookie jar is the number of the change that made it; an envelope is
its sequence number; a page has the URL "blank" or "site"; policy patterns are
the sets of URLs they match (`UrlPattern` has the matching itself); an archive is
a set of files; an element is a model value with a place; a pattern's or a
name's characters are drawn from a handful that the code treats differently.

## 3. Runs

All run without error except where marked, and each under five minutes with two
workers. CHECK_DEADLOCK is FALSE where the system may stop: calls are bounded
and nobody has to make another. `Supervisor_callers` does check
deadlock.

| Run | Bounds | Shows |
|---|---|---|
| `Supervisor_callers` | 2 callers, 2 heartbeats, 3 engines, one restart per window of 2 ticks | `BreakerBound`, `EnginesSound` (types and `OneEngine`), and that `Supervisor` implements `EngineSlot`. Two heartbeats are what it takes for an aborted one to run beside its successor; 3 engines for a crash of the second one |
| `SessionPages_rebuilds` | 1 client, cap 1, 3 tabs, 2 engines, rebuilds dropped halfway; the shell with 2 windows | `OneActive` at and beyond the cap, `GateReopens` |
| `Supervision_safety` | approvals: 2 calls, 3 requests, one move of the page, 4 spellings of 2 URLs, one of them unusable, rules of all three verdicts; events: 2 sessions, rings and channel of 2, 4 envelopes; access: 2 processes, ports 80 and 8420, 2 tabs; policy: patterns of up to 4 bytes, texts of up to 3, files of up to 2 entries with windows past both ends of the allowed | `SlotsSound` (types and `NoLeakedSlot`), `Accounted`, `Supervised`; that `EventStream` implements `EventSubscription`, `LostOnlyWhileDraining`; `AnswersReach`; `PolicyMeans`. 3 requests let one call be reviewed a second time after a redirect while another asks; 4 envelopes overflow both buffers, let a client lag and a session reopen; port 80 is the one a browser leaves out of an origin, and two processes can lose a bind race and take over a port |
| `SessionPages_closed_stays` (violated) | 1 client | section 6 |
| `Session_parts` | pages: 2 clients that make 3 calls (the third overlaps another only after a replacement), cap 2, 2 tabs, 2 engines, or a shell with one window that is replaced once; action: 2 places, budgets of 2 intervals, 2 restarts, 3 documents; feeds: 3 handles, one of them blind, 3 tasks, 2 lines, buffers of 2 and 1 | `PagesSound`, `OneActiveUnlessRelisted`, `NoOrphan`, `NoStrayFeed` for two calls racing each other and a rebuild, with closes that fail; `ActsOnSettled`; `FeedsSound`. Three tasks let a reaped one meet its successor's successor |
| `Engine_parts` | store: 2 calls in 1 or 2 processes, versions 0 to 2, archives of 2 files, one death; launch: 2 launchers, 2 ports, 2 launches each; scopes: 2 adoptions in 1 or 2 contexts, 2 elements, 3 documents, 2 scopes, a sweep at 1; captures: 3 callers, interval 3, a clock to 6; requests: 3 ids, table of 2 | `InstallsWhole`, `LaunchesTidy`, `RefsFaithful`, `OwnInstallKnown`, `CapturesSpaced`, `QueueIsTable` |
| `Serving_parts` | manager: 2 clients, 2 ids, cap 1, 2 supervisors, 3 engines, 2 contexts; MCP: 2 connections, 3 calls, 3 objects; storage: 2 calls, 2 changes, 3 engines, 2 processes; dump: up to 4 pages at 3 URLs; snapshots: trees of 5 nodes, cut at depth 3 and at 4 nodes | `OneBrowserPerManager`, `ClosedHoldsNothing`, `NoneMissed`, `NeverReplaced`; `ClosedForGood`; `StorageSound`, `FileNeverOlder`, `EmptiedOnlyBare`; `DumpsEachUrl`; `SnapshotHonest`. 3 engines let one die while the watcher rebuilds for another |
| `Lives` | supervisor: 1 caller, 1 heartbeat, 2 engines, 2 restarts per window of 2 ticks, backoff 1 and 2 ticks; events: 1 session, 4 envelopes, one keepalive tick due; screencast: 2 connections, 3 streams, a channel of 1 | `Recovers`: the heartbeat brings an engine back, also after the breaker was open; `CatchesUp`, `VanishedIsReleased`, `StreamsEnd`; `NoStrayCapture` |
| `EventStream_watermark` (violated) | 2 sessions | section 6 |
| `StoragePersist_login_kept` (violated) | 2 calls, 2 engines | section 6 |
| `StorageDump_by_url` (violated) | up to 4 pages at 3 URLs of 2 origins | section 6 |
| `Screencast_watched` (violated) | 1 connection, 2 streams | section 6 |

A property whose name is a part's (`PagesSound`, `InstallsWhole`, ...) is a
conjunction of named invariants of the module it is about; the comment above it
says what each is. What some of them say that is easy to miss:

- `RefsFaithful`: of all references handed out in a document, each resolves to
  its element or to nothing, also after the store was swept, after another
  context adopted the target and after the document was replaced.
- `OwnInstallKnown`: a command whose answer was lost may have run; the retry never
  takes the engine's own install for a page's.
- `ActedOnSettled`: until two samples in a row agree, with none between them that
  saw the element hidden, the page is scrolled to the element and no more: every
  sample scrolls (resolver.rs:92-94). Between the last sample and the action the page
  may still move, and the model lets it. `RefusedOnlyScrolled`: a scroll is all that an
  action that is refused, expires or runs out of time has done.
- `OneActiveUnlessRelisted`: at most one page is active until an `ensure_page` lists
  a page under an id that is still there (`Relist`, section 6). One client cannot get
  there, so `SessionPages_rebuilds` checks `OneActive` as it is.
- `NoOrphan` and `NoStrayFeed` name what the code gives up: a loser whose close
  failed (`unclosed`), a page whose slot the close of another took (`mistaken`), a feed
  started for a page that was out of the list by then (`late`).
- `ClosedHoldsNothing` leaves out the contexts that the engine failed to close;
  `NoneMissed` the sessions whose engine was replaced before the watcher had its
  baseline.
- `SlotsSound` and `Accounted`: what is recorded once is the outcome handed to the audit;
  its line may be lost on the way to the file (`kept`).
- `SnapshotHonest`: the size carried along in the tree is that of the rendered
  text and keeps to the budget (unless the root's own line is over it), a snapshot
  that is not all the page reported is marked truncated, and the references in it
  are the page's own, each once and in document order. Two exceptions: a role, name or
  reference that is no string reads as absent and is not marked (the builder's
  tests.rs:61-81, docs/snapshot-format.md section 3), and a reference beyond its clamp
  is cut, which is marked.
- `PolicyMeans`: the matching loop agrees with a definition by positions of what
  `*` means; a pattern with a `*` in its authority matches no URL that ends inside
  the authority; an accepted policy file decides every class and URL by its first entry that writes them, by
  the default without one, and the window it opens is one that can be answered in.
  What is written under a misspelled key counts as not written (section 6).
- `DumpsEachUrl`: a dump of localStorage has each URL one of whose pages answers
  exactly once, from the first page that does, in the registry's order, and a page
  at that URL is given it. By URL, not by origin: section 6.
- `ImplementsSubscription`: the envelopes given up are those published while a drain
  was reading, those a ring evicted and those of a session closed since (`Excused`);
  every other one published since the client joined is delivered, in order and once,
  before any later one is.
- `StorageSound`: `ReadsWhole` and `HoldsState`, the claim that "the file holds it".

Every bound is a constant whose comment starts with "bound"; the others are
parameters of the program (`MaxRestarts`, `RingCapacity`, `MaxPages`, ...). A
bound disables the action that would exceed it, which only cuts behaviours off.

The bounds that are literals are the substitutions of the sums.

Symmetry is used in the runs that check no liveness: callers and heartbeats keep
their identities; attempts, engines, clients, calls, sessions and ids, which no
action singles out, are permuted. `Session_parts` and `Serving_parts` also state a
VIEW, which leaves out what no guard and no property of the run reads any more: the
history variables of other properties (`retired`, `known`, the author of a file), the
cookies, the registrations and the page counter of an engine that is gone, and of the
manager's engines and restart counts all but whether the two that are compared are
the same.

## 4. Fairness

- `Supervisor!LuckySpec`: every task is polled again and time passes, all weak
  fairness, and `LaunchesSucceed`: a launcher that is asked again and again succeeds
  eventually. The last is an assumption on the machine; without it the breaker
  is all one can hope for. It is the one strong fairness, since attempts come and
  go. Crashes are not fair and not bounded.
- `SessionPages!FairSpec`: engine commands answer or run into their deadline, so
  calls and the rebuild go on. Nobody has to call.
- `EventStream!FairSpec`: the connection's task is polled and `select!` picks
  ready branches at random, hence strong fairness of the tick and the pong and
  weak fairness of replay and live forwarding. Nothing is assumed of the peer or
  the publishers.
- `Screencast!Fairness`: the forwarding tasks are polled, a start is bounded by its
  deadline, a connection's loop forwards what arrived. The browser need not paint.
- `MCLives` and `MCSessionPages!FairMCSpec` restate these conditions for the part or kind a
  behaviour exercises.

## 5. Proofs

`SupervisorProofs` proves for any number of tasks, engines and attempts and any
policy: `TypeCorrect`, `BreakerHolds`, `RelaunchOnce`, `Refinement`. The
assumptions are `TasksAssumption` and `PolicyAssumption` (the floor at one
attempt, which `RestartPolicy::new` enforces). `BreakerBound` is not inductive:
that a new attempt fits the window depends on the local history `bring_up`
works on, read under the ticket and written back with every transition. `IInv`
adds that whoever is in `bring_up` holds the ticket (`TicketInv`), that an engine
sits in the phase exactly when it is Running, never while the ticket's holder is
launching (`PhaseInv`), and that every attempt that counts is in the phase's
history and in the one a decision is read from, with room for the attempt about
to be recorded (`HistoryInv`). `OneEngine` and the refinement follow from
`TicketInv` and `PhaseInv`. `FiniteInv` is there for the cardinalities.

`ApprovalsProofs` proves for any rules, default, canonicalisation and number of
calls: `TypeCorrect`, `SlotsReclaimed`, `EachAccounted`, `RunsSupervised`. Its
`IInv` says which call owns which request (`IdsInv`), that an id not minted yet
left no trace (`FreshInv`), that a parked sender is unused (`SlotInv`), and for each
stage of a call what channel, event and audit line of its request hold
(`RecordInv`, `SettledInv`) and how far the grant has come (`GrantInv`). There
is one lemma per action.

The same module proves `AnswersReached` (`AnswersReach`) of `DashboardAccess`, for
any processes, ports and tabs (`AccessAssumption`). Its `AccessInv` adds to the
types what a browser can hold (`CookieShapes`: one cookie slot for every port, and
before it at most a planted one), that a port has one holder (`OneHolder`), so that
only the holder rewrites its hand-off file, and that a page opened by its access
URL only ever shows briefs of that URL's process (`CardsOwn`), because a query
token decides alone. An origin determines the port it was served on (`PortMeant`),
hence a page of another port is turned away.

Of the policy's algorithms it proves `LoopInductive`, `LoopDecides` and `LoopEnds`
of `WildcardLoop`: for every pattern and every text the loop ends, and answers what
the pattern means (`InputsAreBytes`: both are sequences). The code comes back only
to the last star it met, so the proof has to show that no other way to take the
text is lost. `TakenInv` is about what lies behind the cursors: the start of the
pattern up to its cursor takes the start of the text, and so does the part before the
last star. `LeftInv` is about what lies ahead: if the pattern takes the text at all,
then the rest can still be taken from the cursors, or, past a star, from some
position no earlier than the star's text cursor; and what follows the star and was
compared byte by byte since keeps any such position abreast of the cursor
(`Abreast`). `LoopEnds` names what grows with every turn.
`PolicyDecides` (`PolicyMeans`) adds what an accepted file decides, for any files
(`ConfigAssumption`: the default window is an allowed one, entries are numbered),
and the anchoring. That a set of entries has a first one
is an induction; it is taken from the well-foundedness of the order on numbers,
which the library states without an operator parameter (`BelowFounded`, `Least`).
`CutsKeep` says that a byte that is no star stands in the text where the pattern is
cut, and in the pattern's order; so the slash that anchors a pattern lies behind the
URL's scheme (`MatchAnchored`).

`SessionManagerProofs` proves for any number of clients, ids, supervisors and
engines (`ManagerAssumption`) every invariant the run checks of the manager. The
map comes first: `CapHolds` (`WithinCap`) and `Shared` (`NeverReplaced`). The cap
is checked before an await and the session inserted after it, so `WithinCap` is
not inductive: `CreateInv` says that a call at its creation holds the map's lock,
that its id is still absent and that there is room; `MapInv` makes the count a
cardinality that the insertion raises by one. `LifeInv` is about what outlives a
call: which step of a call holds which lock and what it read under it, which
supervisor a running engine belongs to, and for a recovery task which part of its
round is behind it, with the restart count it has seen. From it come `TypeCorrect`,
`OneBrowserRuns` (what a call read of the slot under the startup lock is still so
when it launches), `ManagerSound` (the conjunction the run checks),
`ClosedIsClosed` (between the engine's answer and the second membership check a
closed session's context is known to the task that made it; a context whose close
failed is in `unclosed`) and `ReplacementsNoticed` (once it has its baseline, the task
has seen every replacement or has one ahead of it). The proof of the last one failed
first, in a case the run's bounds exclude: section 6, `SoleDriver`.

It also proves `OneForGood` (`ClosedForGood`) of `McpServe`, for any number of
connections, calls and sessions (`ServeAssumption`). `OneObject` is not inductive:
`ServeInv` needs that whoever creates a connection's session holds its permit before
an empty cell (`Initializing`), that the object on its way to the cell is the one
the map has or had (`Produced`), and that a connection with a session, or a closed
one, has its cell filled or about to be by the call at it (`Kept`). So no call can
create a second session after a close, and one that began later finds the map
without the session it cached (`LateStuck`). For the shutdown `Quiet` says that
without a call in flight when it takes the engine none is left to start another.

`SessionPagesProofs` proves for any number of clients, tabs, engines and pages,
on an engine that creates targets and on a shell: `OnePageActive`, `ListSound`,
`FeedsListed` and `NothingOrphaned`. Each operation of the registry gets a lemma
on what it does to a list in order (`Good`: unique ids, at most one active slot,
one while there is a page of the session's own). `PagesInv` adds what a call
holds over its awaits, and of a rebuild that the gate is closed exactly while it
runs and that the slots it restored are those of a list in order. `FeedInv`,
`AheadInv` and `OrphanInv` account for feeds and opened targets: each is in the
registry, in the rebuild's list, a call's own to register or to close, or in
one of the histories that the properties name. `OnePageActive` is proved of behaviours
in which no id is listed twice (`[][~Relist]_vars`), and TLC shows that it needs that.
`FeedsListed` and `NothingOrphaned` are proved of behaviours in which no rebuild is dropped
halfway (`[][~Abandon]_vars`), and the hypothesis is needed: TLC shows that a
`recover` dropped between two pages leaves behind the pages it opened with their
feeds. The run that checks the two has `MayAbandon` FALSE for the same reason.

It also proves `FeedsKept` (`FeedsSound`) of `PageFeeds`, for any number of handles,
tasks and console lines and any buffer and channel (`FeedAssumption`).
`FeedHasStream` rests on which task is of which handle: a task that was aborted is of
a handle no longer tracked (`TaskOf`), the entry's task is of the tracked one
(`EntryOf`), and handles never come back; so the one who could hold a claim
against the entry's task is that task itself (`Unclaimed`). `Newest` says entry by
entry that the buffer is the end of what was recorded, which `push_bounded` keeps
(`PushKeepsNewest`).

Last, it proves `ActsSettled` (`ActsOnSettled`) of `Executor`, for any budgets, any
number of restarts, any slowness of the page, any places and documents
(`ExecutorAssumption`). `Timed` says that what a wait has taken and may still take
lies within the budgets renewed so far, so that `auto_wait` ends within
`MAX_PHASE_RESTARTS + 1` of them (`Spans`, `WithinBudgets`: one multiplication per
lemma, the solver does no more); `Compared` that the box a sample is compared with
is the last sample, unless that one was hidden, so that two equal boxes in a row are two
samples in a row (`SeenSettled`); `LeftAlone` names the stages up to which the page was
only scrolled, which is what a refusal rests on.

`EventStreamProofs` proves for any number of sessions and envelopes and any ring
and channel (`CapacityAssumption`): `InOrder` and `NoHole`. `SentOnceInOrder` needs
only that nothing sent is above the watermark and nothing in a batch below it
(`OrderInv`). `LostOnlyWhileDraining` needs to say of every envelope a
client is owed where it will come from (`DueInv`): below the watermark it was
sent; above it, while rings are read, it is in a ring still to be read, in the batch, or
above all of the batch and on the bus; in the live state it is on the bus, not
yet received. An envelope that breaks this is one published while a drain is
under way, which is what `blind` collects. `TypeCorrect` adds the bounds, the ring's
first (`BoundInv`, `PushFits`). `Refinement` puts the two together, step by step:
under the mapping of `Feed` (what was published is the log's length, what is given
up is `Excused`, a client has joined once its receiver subscribed) every
action of the server and of the publishers is a step of `EventSubscription` or is
not seen by the client. The step that needs the invariant is a delivery: that
nothing due lies between what was sent last and the envelope sent now is `DueInv`
and `OrderInv`; `StageInv` says that a client that is out has not joined and was sent
nothing.

`EngineProofs` has four components. Of `EngineStore` it proves `InstallWhole`, for
any callers, processes, files, versions and deaths (`StoreAssumption`): all three parts of
`InstallsWhole`. `StoreInv` says what a call relies on at each step (`Right`): its staging
name carries its process and a number below that process's counter, every
entry it is done with is whole in that directory (`Fill`), and the version it
was told of is there. `Apart` says that two calls in flight never have one name:
the number comes from a counter that goes back only when the process
dies, and then its calls are gone too. From `Fill` a directory that is renamed is whole,
whatever a dead process of the same pid had left in it. `Owned` is the converse
for the cleanup. The attempt also showed an assumption the module had left
unsaid: that 0, the version that does not parse, is among the versions.

Of `PageBuffers` it proves `Spaced`, that two captures of a page keep the interval, for
any interval, any number of callers and clock readings of any age, from the one
fact that a reservation is computed from the last one under its lock; and
`QueueFits` (`QueueIsTable`) for any bound and any requests: the queue of a table in order
lists each id once, so that the eviction of the oldest frees exactly one place.
Two operators were restated so that they can be reasoned about: the newest
version is defined by its order (`Newest`), and the queue without one id by that
id's place (`Unqueued`), which is what `retain` leaves of a queue without repeats.

Of `EngineLaunch` it proves `LaunchTidy` (`LaunchesTidy`) for any launchers, ports and
launches (`LaunchAssumption`): a browser rutter started and did not hand off runs
only under the launch or engine that owns it, and contexts share only once the
engine refused to isolate them. `NoneLeft` is inductive with the types and `Fit`, what a
launch holds at each stage. The argument is that of the guard: wherever a launch ends
it kills the one browser its number names, while the connection may have reached another's.

Of `RefScope` it proves `Resolved` (`RefsFaithful`) and `InstallKnown` (`OwnInstallKnown`)
for any adopters, contexts, documents and elements and any sweep threshold
(`ScopeAssumption`). `Apt` says what an adopter relies on at each step of its
preparation: its scope is one no document had, the claim and the record are those it
made, and it does not go past a page's own minter. `MinterInv` says of the document
that a minter defined by hand is the one the record names, so that a
preparation that lost its answer recognises it, and that no claim remembered for the
engine stands beside a page's minter. A snapshot is taken only by a
handle whose session holds the document-start scripts, so a document that replaces the
one prepared has a scope of its own. From there `RefInv`: numbers are told apart within
a document, scopes across documents. TLC checked the invariant (`ScopeInv`, 3.5 million
states) before it was proved.

`StoragePersistProofs` proves for any number of calls, engines, processes and
changes (`StorageAssumption`): `TypeCorrect`, `Whole`, `Holds`, their
conjunction `Sound` (`StorageSound`), `NeverOlder` and `EmptiedBare`. `WholeInv` says that what is about to be renamed was flushed; `PastInv`
orders every state on its way to the file below the clock and every context
below its engine; `UnloadedInv` says, for a process that has not loaded, what the
holder of the persist lock knows, that what is remembered is no older than what
any call captured before it, and (`RebuildInv`) that a rebuild's context is empty
until the replay.

The same module proves `DumpInductive` and `DumpSound` (`DumpsEachUrl`) of
`StorageDump`, for any number of pages, any URLs and every order of answers and
refusals (`PairsAssumption`: the registry gives a list of URLs). `GroupedInv` says
that the groups stand in the order the registry first names their URLs and that each
holds exactly its URL's pages in order; `AskedInv` that the pages of a group before
its cursor are those that did not answer, but for the one whose answer was taken;
`CollectedInv` that the entries come from the groups collected so far, in their
order. From these `FirstToAnswer`: the page an entry is from is the first of its
URL's that answers.

`ScreencastProofs` proves `TypeCorrect`, with the bound of a stream's channel
(`CapacityPositive`), and `CaptureOwned`: while no command was lost, the browser
captures only for a task that will stop it, for any number of connections and
streams. `NoStrayCapture` is inductive with the types alone.

Only model-checked: liveness (`Recovers`, `GateReopens`, `CatchesUp`,
`VanishedIsReleased`, `StreamsEnd`) and with it ENABLED, which are beyond the
prover; and `SnapshotHonest`, which is about recursive definitions over trees:
`SnapshotTree` is checked on all trees up to the bounds.

## 6. Where the code does not do what it says

Five runs expect a violation and show a behaviour of the code that contradicts
its own documentation; PROJECT.json quotes it.

- `EventStream_watermark`: `drain_history` reads the rings one session at a time
  and then raises the watermark over all of them. An envelope published in
  between into a ring already read is in neither the batch nor the live stream.
- `StoragePersist_login_kept`: `recover` swaps the fresh context in before it
  replays the cookies. A call that passed the gate before the engine died
  persists in between, reads the context empty, and overwrites the login.
- `SessionPages_closed_stays`: `close_page` checks the gate, awaits, and removes
  its page from a registry a rebuild has taken; the rebuild writes it back.
- `Screencast_watched`: a viewer that changes its stream drops the one before and
  starts the next; the dropped one's task stops the capture on its own time, and
  the browser may run that stop after the new start.
- `StorageDump_by_url`: the localStorage of a page is kept under the full URL the
  registry tracks (`PageRegistry::pairs`, session/src/pages.rs:229-235), and a page
  is given the entry whose string equals its `location.href`
  (session/src/session/mod.rs:742-751). storage.rs:92-93 promises it to "pages whose
  origin matches an entry", and its field is documented as
  "Origin, for example `https://example.com`" (storage.rs:46). A page that answers at
  another URL of its origin - after a redirect, or with another query - is given
  nothing. `DumpsEachUrl` is what holds.

The modules state further promises of docs and comments that TLC refutes in a
moment. They are not among the runs; each can be seen by naming the definition
as INVARIANT (`ShutdownStops`: PROPERTY, in a run without the VIEW, which hides
the history it reads) in the run in parentheses, or of the
instance with that module in the run of its sum.

- `ShutdownClears` (`Supervisor_callers`): `abort()` reaches the heartbeat at its
  next await; one that has just launched installs its engine after the slot was
  cleared, and nothing watches it.
- `SomeActive` (`Session_parts`): `tabs_list` adopts surfaces as inactive
  into an empty registry; docs/sessions.md promises exactly one active page.
  `OwnHasActive` is what holds.
- `TabTrackedOnce` (`Session_parts`): a target being opened is reported as
  foreign before it is registered and adopted under a second id. On a shell,
  where an open attaches to a window, two opens that overlap choose the same one:
  the list of driven targets they avoid knows registered pages only, while the
  comment of `attach_existing_surface` has the second open fail.
- `GrantNeverFollows` (`Supervision_safety`): after the re-read that follows a
  grant the page may move once more before the action. `Supervised` is what
  holds.
- `LateRefused` (`Supervision_safety`): a decision between the expiry of the timer
  and the guard's `Drop` is reported delivered and lost. `NoLeakedSlot` bounds
  the moment.
- `ClosedHaveNoRing` (`EventStream_watermark`): an operation that outlives the close
  of its session publishes once more and recreates the ring.
- `HealthyKept` (`Lives`): a loop kept busy for an interval has
  its next tick due beside an unread pong and may take the tick first.
- `GapRefilled` (`EventStream_watermark` with one session, a channel of 3 and 7
  envelopes): a ring smaller than the channel has evicted what a refill needs.
  The program has rings of 1000 and a channel of 1024.
- `ReusedIdHoldsNothing` (`Serving_parts`): the watcher's membership check
  goes by id; a session closed and asked for again has its predecessor rebuilt
  into a context nobody closes. `ClosedHoldsNothing` is what holds.
- `OneContextPerSession` (`Serving_parts`): a session created on the
  replacement before the watcher lists the sessions is rebuilt once more and its
  first context stays.
- `SoleDriver` (`SessionManager` with one client, 2 supervisors, 4 engines and 3
  contexts): the watcher of a stopped supervisor
  that is still in a round reads the engine of the next one through the manager
  and creates a session's context there. When that engine dies and is replaced before
  the late watcher swaps, it swaps a lost context in, possibly over the one the
  supervisor's own watcher made, which has no restart left to notice. "The sole
  recovery driver" of manager.rs:41 are two for that moment. The bounds of
  `Serving_parts` are too small for it; the proof of `NoneMissed` found it, and
  its `overtaken` now names these sessions.
- `ShutdownStops` (`Serving_parts`): a shutdown during the first launch
  finds the slot empty; the launch installs its engine afterwards.
- `RetryRecovers` (`RefScope`): a claim whose `define` never ran is verified by the
  retry, which finds no minter and fails; the comment has it succeed.
- `OneHandle` (`RefScope`): two adoptions of one target that both find none
  registered each insert a handle, and the first caller keeps a displaced one.
- `DialogsReachTheFeed` (`PageFeeds`): a full channel drops the observation of a
  dialog like any other, and nobody dismisses it.
- `ViewerTold` (`Screencast`, a PROPERTY under `Spec`): with the page closed the
  listeners end, and the arm meant for that waits for one that is never disabled:
  the viewer is not told.
- `CookieKept` (`DashboardAccess`): cookies have no port. A second dashboard of the
  host replaces the cookie of the first, whose bare path is then refused;
  docs/dashboard.md has later requests authenticate through the cookie alone.
- `EveryAnswerOwnBrief` (`DashboardAccess`): a tab opened by the bare path outlives
  its process; another one takes the port and its page's cookie replaces the old
  one; the tab reconnects, keeps the card of the dead process (`connect` clears the
  timeline only) and an answer to `apr-1` decides the new process's first request,
  since ids count from one in each. A token pinned for both processes does the
  same to every tab. `AnswersReach` has the statement for tabs opened by an access
  URL with tokens of their own.
- `StartReturns` (`Supervisor`, under `FairSpec`, five attempts, a window of 6
  ticks, launches of up to 3): launches that each fail slowly let the window
  drain, and `start()` retries without end.

Further cases the checked properties leave out by a condition or a history. Each
shows when that is dropped from the property, or follows from the lines quoted.

- `OneActive` (`Session_parts`): an `ensure_page` parked over a rebuild comes back with
  a page of the engine before, both engines count their pages from one, and
  `admit_active` goes by the active flag alone. The list then has an id twice, a later
  `activate` sets the flag of both, and pages.rs:4-6 has exactly one active.
- Feeds: the list is given up (`begin_recovery`, `remove`) between the admission of a page
  (session/mod.rs:249, 498) and the start of its feed (255, 508). The feed then belongs to no
  listed page, and if the rebuild cleared the feeds before, it stays (`late`).
- The loser of an opening race closes its target and ignores an error
  (session/mod.rs:267, 504): the page lives on, registered, counted by the cap and
  invisible to `tabs_list` (`unclosed`). A preparation that fails, or meets the cap, closes
  its target in the same way (context.rs:263-286, 399-426); that one is registered
  nowhere.
- `close_page` removes the slot by its id after an await (session/mod.rs:592). A rebuild
  in between has restored another page under the same id, which leaves the list
  and stays open (`mistaken`).
- A page that `sync_foreign_pages` adopts while a rebuild has the list is registered with
  the context but refused by the list; it counts as known from then on and is not
  offered again.
- Every sample of an action's wait scrolls the page to the element
  (resolver.rs:92-94), and the script that types focuses it: an action that is refused
  or times out is not without effect.
- `Session::close` tolerates that its context cannot be closed (session/mod.rs:847-852):
  the session is out of the map and its context stays in the live engine (`unclosed` of
  `SessionManager`).
- The watcher is spawned and takes the supervisor's restart count when it first runs; a
  replacement before that moment is its baseline and not noticed (manager.rs:333-346,
  whose comment says so), and `start_running` (313) does not wait for it (`overtaken`).
- A misspelled key of a policy entry is ignored (config.rs:15-35 does not deny unknown
  fields): an entry with `url_patern` and a class applies to the class at every URL,
  while config.rs:79-82 takes care that a pattern that is present but broken never widens a
  rule to every URL.
- A `load_storage` that overlaps a persist can leave a state marked persisted that the
  file does not hold (`HoldsState` without `~loaded`).
- The first action of a new process overwrites the state an earlier one left for
  `load_storage`.

## 7. Not modelled

Left out of components that are modelled: `Session::close` clearing the registry
while calls run; a `remove_dir_all` of an install's error path that itself fails
(store.rs:165, 172, 181), which leaves the directory a death of the process leaves; the URL that `set_cookies` writes back and may have read before
the approval; the durability of the rename itself (the directory is not
flushed); decision messages of the WebSocket, which are `Approvals!Decide`; the
arguments and the profile directory of a launch, and the retries inside connect,
which are one step; names, hosts and size caps of an archive, which are one
refusal; states and values of a snapshot node, which no rule looks at; the
syntax of TOML; the
origin the dump script reports beside its entries, which `parse_dump` ignores, and a
page that moves between being paired and being asked; the dashboard's static assets, response headers and count of
pending requests.

Left out as a whole: the reader (a text extraction without state), key names and
error tables, the shared data types, argument handling and the one-shot commands,
the Electron shell's and the frontend's rendering. `PROJECT.json` gives the reason
for each.

What a tool does on its session is one step in `McpServe`, what the manager does in
a call another, and the parts of a sum do not interact: `SessionManager` composed
with `EventStream` (which announcement a new client may miss) and `Approvals`
composed with `DashboardAccess` (a decision from the right page on its way to the
right request) are not modelled as one system. Each interface is checked from
both sides instead: a replacement as the supervisor's slot (`ImplementsSlot`) and as
the engine the manager reads; a session's close in the manager and in the
connection that cached it; a decision as an answer taken (`AnswersReach`) and as
one of any number of answers to any id (`Approvals!Decide`).

## 8. Plan

Done, in this order: supervisor and its proofs; registry, pages and rebuild;
policy and approvals with their proofs; events and the dashboard connection;
storage; manager; then the engine side (store, launch, reference scopes), the
executor, feeds and the live view, the connection and the serve command,
snapshots, patterns and policy files, the shell's surfaces, dashboard access; the
proofs of the manager's map, the persistence, the capture and its spacing; then
those of the manager's whole life, the session's pages, the event stream, the
table of requests, the engine store, the launches, the reference scopes, the
access to the dashboard, the connections of the MCP server, the feeds and the
executor; last the event subscription with its refinement, the matching loop and the
meaning of a policy file, and the dump of localStorage, with their proofs.

Next:

1. `Session::close` against calls in flight, and the URL's life in `set_cookies`.
2. `SnapshotTree` as a machine that cuts and folds one node at a time, so that what
   it says of a tree can be proved by an invariant and not by induction.
