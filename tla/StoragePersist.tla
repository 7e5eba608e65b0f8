---------------------------- MODULE StoragePersist ----------------------------
(***************************************************************************)
(* The storage state of one session: the copy the session remembers        *)
(* (PersistState) and the file it is persisted to, as                      *)
(* crates/session/src/session/mod.rs (write_storage_if_changed,            *)
(* load_storage, recover) and crates/session/src/storage.rs handle them.   *)
(* Calls capture, compare and write; the engine dies and the session is    *)
(* rebuilt on a new one; the process is killed, or the power fails, between *)
(* any two steps.  The model keeps the cookie half of the state, as the    *)
(* number of the change that produced it: 0 is the empty, logged-out jar.  *)
(***************************************************************************)
EXTENDS Naturals

CONSTANTS
    Callers,     \* calls into the session
    NoHolder,    \* no holder of the persist lock
    MaxChanges,  \* bound: changes pages make to the cookies
    MaxBrowsers, \* bound: engines that ever exist
    MaxBoots,    \* bound: processes that ever run
    ReplayFails  \* whether the rebuild's set_cookies may fail

ASSUME StorageAssumption ==
    /\ NoHolder \notin Callers
    /\ MaxChanges \in Nat /\ MaxBrowsers \in Nat \ {0} /\ MaxBoots \in Nat \ {0}
    /\ ReplayFails \in BOOLEAN

VARIABLES
    engine,    \* the engine that is up, 0 when none is
    browsers,  \* how many engines there have been
    boots,     \* how many processes there have been
    clock,     \* how many changes there have been
    jar,       \* the cookies of the session's context in each engine
    bare,      \* contexts of a rebuild that were not given the cookies (yet)
    context,   \* Session::context: the engine its context belongs to
    persist,   \* PersistState
    holder,    \* who holds Session::persist
    file,      \* the persistence file: content, whether it is on the disk for
               \* good, whether it reads back whole, the process that wrote it
    caller,    \* where each call stands
    rec,       \* where the rebuild stands
    loaded     \* history: load_storage was called in this process

storageVars == <<engine, browsers, boots, clock, jar, bare, context, persist, holder,
                 file, caller, rec, loaded>>
world == <<engine, browsers, boots, clock, jar, bare, context>>

States  == 0 .. MaxChanges
Engines == 1 .. MaxBrowsers
NoCall  == [at |-> "idle", ctx |-> 0, state |-> 0, bare |-> FALSE, synced |-> FALSE]
Resting == [at |-> "idle", ctx |-> 0, state |-> 0]
Fresh   == [state |-> 0, persisted |-> FALSE]

CallAt(c, l)  == caller[c].at = l
PutCall(c, j) == caller' = [caller EXCEPT ![c] = j]

StorageInit ==
    /\ engine = 1 /\ browsers = 1 /\ boots = 1 /\ clock = 0
    /\ jar = [e \in Engines |-> 0] /\ bare = {}
    /\ context = 1
    /\ persist = Fresh /\ holder = NoHolder
    /\ file = [state |-> 0, synced |-> TRUE, whole |-> TRUE, by |-> 0]
    /\ caller = [c \in Callers |-> NoCall]
    /\ rec = Resting /\ loaded = FALSE
-------------------------------------------------------------------------------
(* A call: it acts, then persists what changed (execute, open_page,        *)
(* set_cookies, save_storage).                                             *)

\* the registry's gate refuses calls while a rebuild runs
Begin(c) ==
    /\ CallAt(c, "idle") /\ rec.at = "idle"
    /\ PutCall(c, [NoCall EXCEPT !.at = "act", !.ctx = context])
    /\ UNCHANGED <<world, persist, holder, file, rec, loaded>>

Change(c) ==
    /\ CallAt(c, "act") /\ caller[c].ctx = engine /\ clock < MaxChanges
    /\ clock' = clock + 1
    /\ jar' = [jar EXCEPT ![engine] = clock + 1]
    /\ PutCall(c, [caller[c] EXCEPT !.at = "lock"])
    /\ UNCHANGED <<engine, browsers, boots, bare, context, persist, holder, file, rec, loaded>>

\* an action that failed or changed nothing persists all the same
NoChange(c) ==
    /\ CallAt(c, "act")
    /\ PutCall(c, [caller[c] EXCEPT !.at = "lock"])
    /\ UNCHANGED <<world, persist, holder, file, rec, loaded>>

\* the capture is taken before the guard (a mutant of Take)
TakeLate(c) ==
    /\ CallAt(c, "lock")
    /\ holder' = c
    /\ PutCall(c, [caller[c] EXCEPT !.at = "sample"])
    /\ UNCHANGED <<world, persist, file, rec, loaded>>

\* write_storage_if_changed: one guard over capture, comparison and write
Take(c) ==
    /\ CallAt(c, "lock") /\ holder = NoHolder
    /\ holder' = c
    /\ PutCall(c, [caller[c] EXCEPT !.at = "sample"])
    /\ UNCHANGED <<world, persist, file, rec, loaded>>

Release(c) == holder' = NoHolder /\ PutCall(c, NoCall)

\* an unreadable context is the empty state (a mutant of Unreadable)
UnreadableIsEmpty(c) ==
    /\ CallAt(c, "sample")
    /\ PutCall(c, [caller[c] EXCEPT !.at = "write", !.state = 0, !.bare = context \in bare])
    /\ UNCHANGED <<world, persist, holder, file, rec, loaded>>

\* try_capture answers None: the known state stands
Unreadable(c) ==
    /\ CallAt(c, "sample")
    /\ Release(c)
    /\ UNCHANGED <<world, persist, file, rec, loaded>>

\* a live context answers its cookies; nothing to do when they are the
\* remembered ones and the file holds them
Sample(c) ==
    /\ CallAt(c, "sample") /\ context = engine
    /\ IF persist = [state |-> jar[context], persisted |-> TRUE]
       THEN Release(c)
       ELSE /\ PutCall(c, [caller[c] EXCEPT !.at = "write", !.state = jar[context],
                                     !.bare = context \in bare])
            /\ UNCHANGED holder
    /\ UNCHANGED <<world, persist, file, rec, loaded>>

\* the flush is left out (a mutant of Stage)
StageUnflushed(c) ==
    /\ CallAt(c, "write")
    /\ PutCall(c, [caller[c] EXCEPT !.at = "rename"])
    /\ UNCHANGED <<world, persist, holder, file, rec, loaded>>

\* StorageState::write: the staging file is written and flushed
Stage(c) ==
    /\ CallAt(c, "write")
    /\ PutCall(c, [caller[c] EXCEPT !.at = "rename", !.synced = TRUE])
    /\ UNCHANGED <<world, persist, holder, file, rec, loaded>>

\* publish: one rename replaces the file
Rename(c) ==
    /\ CallAt(c, "rename")
    /\ file' = [state |-> caller[c].state, synced |-> caller[c].synced, whole |-> TRUE,
                by |-> boots]
    /\ persist' = [state |-> caller[c].state, persisted |-> TRUE]
    /\ Release(c)
    /\ UNCHANGED <<world, rec, loaded>>

\* a failed write is taken for a landed one (a mutant of WriteFails)
WriteFailsUnnoticed(c) ==
    /\ caller[c].at \in {"write", "rename"}
    /\ persist' = [persist EXCEPT !.state = caller[c].state]
    /\ Release(c)
    /\ UNCHANGED <<world, file, rec, loaded>>

\* the staging or the rename fails: remembered, to be written next time
WriteFails(c) ==
    /\ caller[c].at \in {"write", "rename"}
    /\ persist' = [state |-> caller[c].state, persisted |-> FALSE]
    /\ Release(c)
    /\ UNCHANGED <<world, file, rec, loaded>>
-------------------------------------------------------------------------------
(* load_storage *)

Load(c) ==
    /\ CallAt(c, "idle")
    /\ PutCall(c, [NoCall EXCEPT !.at = "restore", !.state = IF file.whole THEN file.state ELSE 0])
    /\ loaded' = TRUE
    /\ UNCHANGED <<world, persist, holder, file, rec>>

\* StorageState::restore, best effort: an empty state sets nothing
Restore(c) ==
    /\ CallAt(c, "restore")
    /\ jar' \in {jar} \cup (IF caller[c].state # 0 /\ context = engine
                            THEN {[jar EXCEPT ![engine] = caller[c].state]} ELSE {})
    /\ PutCall(c, [caller[c] EXCEPT !.at = "adopt"])
    /\ UNCHANGED <<engine, browsers, boots, clock, bare, context, persist, holder,
                   file, rec, loaded>>

Adopt(c) ==
    /\ CallAt(c, "adopt") /\ holder = NoHolder
    /\ persist' = [persist EXCEPT !.state = caller[c].state]
    /\ PutCall(c, NoCall)
    /\ UNCHANGED <<world, holder, file, rec, loaded>>
-------------------------------------------------------------------------------
(* recover, on the engine that replaced a dead one *)

RecoverBegin ==
    /\ rec.at = "idle" /\ engine = 0 /\ browsers < MaxBrowsers
    /\ browsers' = browsers + 1 /\ engine' = browsers + 1
    /\ bare' = bare \cup {browsers + 1}
    /\ rec' = [Resting EXCEPT !.at = "read", !.ctx = browsers + 1]
    /\ UNCHANGED <<boots, clock, jar, context, persist, holder, file, caller, loaded>>

\* the remembered state, read out under the lock and released
ReadOut ==
    /\ rec.at = "read" /\ holder = NoHolder
    /\ rec' = [rec EXCEPT !.at = "swap", !.state = persist.state]
    /\ UNCHANGED <<world, persist, holder, file, caller, loaded>>

SwapContext ==
    /\ rec.at = "swap"
    /\ context' = rec.ctx
    /\ rec' = [rec EXCEPT !.at = "replay"]
    /\ UNCHANGED <<engine, browsers, boots, clock, jar, bare, persist, holder, file, caller, loaded>>

Replay ==
    /\ rec.at = "replay"
    /\ IF rec.ctx = engine
       THEN jar' = [jar EXCEPT ![engine] = IF rec.state # 0 THEN rec.state ELSE @]
            /\ bare' = bare \ {engine}
       ELSE UNCHANGED <<jar, bare>>
    /\ rec' = [rec EXCEPT !.at = "pages"]
    /\ UNCHANGED <<engine, browsers, boots, clock, context, persist, holder, file, caller, loaded>>

ReplayError ==
    /\ ReplayFails /\ rec.at = "replay"
    /\ rec' = [rec EXCEPT !.at = "pages"]
    /\ UNCHANGED <<world, persist, holder, file, caller, loaded>>

\* the pages are back, the gate reopens
Finish ==
    /\ rec.at = "pages"
    /\ rec' = Resting
    /\ UNCHANGED <<world, persist, holder, file, caller, loaded>>
-------------------------------------------------------------------------------
EngineLost ==
    /\ engine # 0
    /\ engine' = 0
    /\ UNCHANGED <<browsers, boots, clock, jar, bare, context, persist, holder, file,
                   caller, rec, loaded>>

\* the next process and its session on a context of its own; what the last
\* one did not flush may be lost with the power
Reboot ==
    /\ boots < MaxBoots /\ browsers < MaxBrowsers
    /\ boots' = boots + 1
    /\ browsers' = browsers + 1 /\ engine' = browsers + 1 /\ context' = browsers + 1
    /\ persist' = Fresh /\ holder' = NoHolder
    /\ caller' = [c \in Callers |-> NoCall] /\ rec' = Resting /\ loaded' = FALSE
    /\ \/ file' = [file EXCEPT !.synced = TRUE]
       \/ ~file.synced /\ file' = [file EXCEPT !.synced = TRUE, !.whole = FALSE]
    /\ UNCHANGED <<clock, jar, bare>>

Call(c) ==
    \/ Begin(c) \/ Change(c) \/ NoChange(c) \/ Take(c) \/ Unreadable(c) \/ Sample(c)
    \/ Stage(c) \/ Rename(c) \/ WriteFails(c)
    \/ Load(c) \/ Restore(c) \/ Adopt(c)

Recovery == RecoverBegin \/ ReadOut \/ SwapContext \/ Replay \/ ReplayError \/ Finish

StorageNext == (\E c \in Callers : Call(c)) \/ Recovery \/ EngineLost \/ Reboot

StorageSpec == StorageInit /\ [][StorageNext]_storageVars
-------------------------------------------------------------------------------
Stages == {"idle", "act", "lock", "sample", "write", "rename", "restore", "adopt"}

JobSet == [at : Stages, ctx : 0 .. MaxBrowsers, state : States, bare : BOOLEAN,
           synced : BOOLEAN]

(* Every part of the state has its type, and the persist lock is held by   *)
(* the call that captures or writes, and by no other.                      *)
StorageTypes ==
    /\ engine \in {0, browsers} /\ browsers \in Engines /\ boots \in 1 .. MaxBoots
    /\ clock \in States /\ jar \in [Engines -> 0 .. clock] /\ bare \subseteq Engines
    /\ context \in Engines
    /\ persist \in [state : States, persisted : BOOLEAN]
    /\ file \in [state : States, synced : BOOLEAN, whole : BOOLEAN, by : 0 .. MaxBoots]
    /\ caller \in [Callers -> JobSet]
    /\ rec \in [at : {"idle", "read", "swap", "replay", "pages"},
                ctx : 0 .. MaxBrowsers, state : States]
    /\ loaded \in BOOLEAN
    /\ \A c \in Callers : (caller[c].at \in {"sample", "write", "rename"}) <=> (holder = c)

(* PersistState: "the file holds this state is a single claim".  Whenever  *)
(* nobody is writing, a state marked persisted is what the file holds,     *)
(* through overlapping calls, failed writes and rebuilds, in a process     *)
(* that never calls load_storage (which reads the file outside the lock).  *)
HoldsState ==
    ~loaded /\ holder = NoHolder /\ persist.persisted => file.state = persist.state

(* An overlapping call never publishes an older capture over a newer one   *)
(* (the guard of write_storage_if_changed): unless a load asked for it,    *)
(* the file goes back only to the empty jar of a context that has no       *)
(* cookies yet.                                                            *)
FileNeverOlder ==
    [][~loaded => file'.state >= file.state \/ file'.state = 0]_storageVars

(* The remembered login - what recovery replays - is replaced by an empty  *)
(* state only when a call captured a rebuilt context that was not given    *)
(* its cookies yet; an engine that cannot be read never erases it.         *)
EmptiedOnlyBare ==
    [][~loaded /\ persist.state # 0 /\ persist'.state = 0 /\ boots' = boots
       => \E c \in Callers : caller[c].at \in {"write", "rename"} /\ caller[c].bare]_storageVars

(* The file always reads back whole: no kill and no power cut between two  *)
(* steps of a write leaves a torn one (StorageState::write).               *)
ReadsWhole == file.whole

(* Between any two steps the claim about the file is true and the file can  *)
(* be read (session/mod.rs, PersistState; storage.rs, StorageState::write). *)
StorageSound == StorageTypes /\ ReadsWhole /\ HoldsState

(* session/mod.rs, write_storage_if_changed: the empty state "must not be  *)
(* published over the last known one - the exact state recovery replays".  *)
LoginKept ==
    [][~loaded /\ persist.state # 0 /\ boots' = boots => persist'.state # 0]_storageVars
===============================================================================
