-------------------------- MODULE StoragePersistProofs --------------------------
(* The persistence file for any number of calls, engines and processes, and *)
(* the localStorage dump of any registry.                                   *)
EXTENDS StoragePersist, StorageDump, SequenceTheorems, TLAPS

Writing == {c \in Callers : caller[c].at \in {"write", "rename"}}

(* Nothing is newer than the last change, and no engine ran before it      *)
(* existed.                                                                *)
PastInv ==
    /\ file.state <= clock /\ persist.state <= clock /\ rec.state <= clock
    /\ \A c \in Callers : caller[c].state <= clock /\ caller[c].ctx <= browsers
    /\ context <= browsers /\ rec.ctx <= browsers
    /\ rec.at \in {"read", "swap", "replay"} => rec.ctx = browsers
    /\ \A e \in Engines : e > browsers => jar[e] = 0 /\ e \notin bare

(* What is renamed into place was flushed, so no crash tears it.           *)
WholeInv ==
    /\ file.whole /\ file.synced
    /\ \A c \in Callers : caller[c].at = "rename" => caller[c].synced

(* A rebuild's context stays empty until the replay, because the calls in  *)
(* flight are of the engine before it.                                     *)
RebuildInv ==
    rec.at \in {"read", "swap", "replay"} =>
        /\ jar[rec.ctx] = 0 /\ rec.ctx \in bare
        /\ context = rec.ctx <=> rec.at = "replay"
        /\ \A c \in Callers : caller[c].at = "act" => caller[c].ctx < rec.ctx

(* Of the remembered state, the file and the states on their way there,    *)
(* none goes back but to the empty one.                                    *)
NewerInv ==
    /\ persist.persisted => file.state = persist.state
    /\ file.state <= persist.state \/ persist.state = 0
    /\ \A c \in Writing : file.state <= caller[c].state \/ caller[c].state = 0
    /\ context = engine => file.state <= jar[context] \/ jar[context] = 0
    /\ context = engine => \A c \in Writing : caller[c].state <= jar[context]

(* What the rebuild replays is what is remembered, but for the emptied     *)
(* state of a call that read the context before the replay.                *)
ReplayInv ==
    /\ rec.at = "swap" => Writing = {}
    /\ rec.at = "replay" => \A c \in Writing : caller[c].state = 0
    /\ rec.at \in {"swap", "replay"} =>
           /\ file.state <= rec.state \/ rec.state = 0 \/ file.state = 0
           /\ rec.state = 0 => persist.state = 0

(* An empty state is captured from an empty context that was given its     *)
(* cookies only when nothing else is remembered.                           *)
BareInv ==
    /\ context = engine /\ jar[context] = 0 /\ context \notin bare => persist.state = 0
    /\ \A c \in Writing : caller[c].state = 0 /\ ~caller[c].bare => persist.state = 0

UnloadedInv ==
    ~loaded => /\ \A c \in Callers : caller[c].at \notin {"restore", "adopt"}
               /\ RebuildInv /\ NewerInv /\ ReplayInv /\ BareInv

IInv == StorageTypes /\ PastInv /\ WholeInv /\ UnloadedInv

PersistSet == [state : States, persisted : BOOLEAN]
FileSet    == [state : States, synced : BOOLEAN, whole : BOOLEAN, by : 0 .. MaxBoots]
RecSet     == [at : {"idle", "read", "swap", "replay", "pages"},
               ctx : 0 .. MaxBrowsers, state : States]

(* A call goes on as a call (session/mod.rs).                              *)
LEMMA Going ==
    ASSUME NEW j \in JobSet, NEW s \in Stages PROVE [j EXCEPT !.at = s] \in JobSet
  BY DEF JobSet

(* A staged write is flushed (StorageState::write).                        *)
LEMMA Syncing ==
    ASSUME NEW j \in JobSet, NEW s \in Stages
    PROVE  [j EXCEPT !.at = s, !.synced = TRUE] \in JobSet
  BY DEF JobSet

(* A call notes the context it acts on.                                    *)
LEMMA Entering ==
    ASSUME NEW j \in JobSet, NEW s \in Stages, NEW x \in 0 .. MaxBrowsers
    PROVE  [j EXCEPT !.at = s, !.ctx = x] \in JobSet
  BY DEF JobSet

(* A load carries what it read from the file (load_storage).               *)
LEMMA Carrying ==
    ASSUME NEW j \in JobSet, NEW s \in Stages, NEW x \in States
    PROVE  [j EXCEPT !.at = s, !.state = x] \in JobSet
  BY DEF JobSet

(* A capture carries what try_capture answered.                            *)
LEMMA Capturing ==
    ASSUME NEW j \in JobSet, NEW s \in Stages, NEW x \in States, NEW b \in BOOLEAN
    PROVE  [j EXCEPT !.at = s, !.state = x, !.bare = b] \in JobSet
  BY DEF JobSet

(* A rebuild notes the engine it runs on (recover).                        *)
LEMMA Rebuilding ==
    ASSUME NEW r \in RecSet, NEW x \in 0 .. MaxBrowsers
    PROVE  [r EXCEPT !.at = "read", !.ctx = x] \in RecSet
  BY DEF RecSet

(* An ended call is a call.                                                *)
LEMMA FreeTyped == NoCall \in JobSet
  BY StorageAssumption DEF JobSet, NoCall, Stages, States

(* The stages the actions move a call to.                                  *)
LEMMA Staged ==
    /\ "act" \in Stages /\ "lock" \in Stages /\ "sample" \in Stages /\ "write" \in Stages
    /\ "rename" \in Stages /\ "restore" \in Stages /\ "adopt" \in Stages
  BY DEF Stages

(* Moving one call leaves the others typed.                                *)
LEMMA PutTyped ==
    ASSUME caller \in [Callers -> JobSet], NEW c \in Callers, NEW j \in JobSet, PutCall(c, j)
    PROVE  caller' \in [Callers -> JobSet]
  BY DEF PutCall

(* A call enters through the gate of the registry.                         *)
LEMMA BeginKeeps ==
    ASSUME IInv, NEW c \in Callers, Begin(c)
    PROVE IInv'
  <1> USE DEF IInv, Begin, CallAt, world
  <1>1. StorageTypes'
    <2>0. NoCall \in JobSet /\ context \in 0 .. MaxBrowsers
      BY FreeTyped, StorageAssumption DEF StorageTypes, Engines
    <2>1. [NoCall EXCEPT !.at = "act", !.ctx = context] \in JobSet
      BY <2>0, Entering, Staged, Zenon
    <2>2. caller' \in [Callers -> JobSet]
      BY <2>1, PutTyped, Zenon DEF StorageTypes
    <2>3. \A d \in Callers : caller'[d].at \in {"sample", "write", "rename"} <=> holder' = d
      BY StorageAssumption DEF StorageTypes, JobSet, NoCall, PutCall
    <2> QED
      BY <2>2, <2>3, StorageAssumption DEF StorageTypes, States, Engines, PersistSet,
         FileSet, RecSet
  <1>2. PastInv'
    BY StorageAssumption DEF StorageTypes, JobSet, Stages, States, Engines, NoCall, Resting,
           Fresh, PastInv, PutCall
  <1>3. WholeInv'
    BY StorageAssumption DEF StorageTypes, JobSet, NoCall, WholeInv, PutCall
  <1>4. UnloadedInv'
    BY StorageAssumption DEF StorageTypes, JobSet, Stages, States, Engines, NoCall, Resting,
           Fresh, PastInv,
           UnloadedInv, RebuildInv, NewerInv, ReplayInv, BareInv, Writing, PutCall
  <1> QED
    BY <1>1, <1>2, <1>3, <1>4

(* A page changes the cookies of the engine that is up.                    *)
LEMMA ChangeKeeps ==
    ASSUME IInv, NEW c \in Callers, Change(c)
    PROVE IInv'
  <1> USE DEF IInv, Change, CallAt, world
  <1>1. StorageTypes'
    <2>0. caller[c] \in JobSet
      BY DEF StorageTypes
    <2>1. [caller[c] EXCEPT !.at = "lock"] \in JobSet
      BY <2>0, Going, Staged
    <2>2. caller' \in [Callers -> JobSet]
      BY <2>1, PutTyped, Zenon DEF StorageTypes
    <2>3. \A d \in Callers : caller'[d].at \in {"sample", "write", "rename"} <=> holder' = d
      BY StorageAssumption DEF StorageTypes, JobSet, NoCall, PutCall
    <2>4. jar' \in [Engines -> 0 .. clock']
      <3>1. clock \in Nat /\ clock' = clock + 1
        BY StorageAssumption DEF StorageTypes, States
      <3>2. jar \in [Engines -> 0 .. clock'] /\ clock + 1 \in 0 .. clock'
        BY <3>1 DEF StorageTypes
      <3> QED
        BY <3>2, Zenon
    <2>5. clock' \in States
      BY StorageAssumption DEF StorageTypes, States
    <2>6. /\ engine' \in {0, browsers'} /\ browsers' \in Engines /\ boots' \in 1 .. MaxBoots
          /\ bare' \subseteq Engines /\ context' \in Engines
      BY DEF StorageTypes
    <2>7. /\ persist' \in PersistSet /\ file' \in FileSet /\ rec' \in RecSet
          /\ loaded' \in BOOLEAN
      BY DEF StorageTypes, PersistSet, FileSet, RecSet
    <2> QED
      BY <2>2, <2>3, <2>4, <2>5, <2>6, <2>7, Zenon DEF StorageTypes, PersistSet, FileSet, RecSet
  <1>2. PastInv'
    BY StorageAssumption DEF StorageTypes, JobSet, Stages, States, Engines, NoCall, Resting,
           Fresh, PastInv, PutCall
  <1>3. WholeInv'
    BY StorageAssumption DEF StorageTypes, JobSet, NoCall, WholeInv, PutCall
  <1>4. UnloadedInv'
    BY StorageAssumption DEF StorageTypes, JobSet, Stages, States, Engines, NoCall, Resting,
           Fresh, PastInv,
           UnloadedInv, RebuildInv, NewerInv, ReplayInv, BareInv, Writing, PutCall
  <1> QED
    BY <1>1, <1>2, <1>3, <1>4

(* An action that failed or changed nothing persists all the same.         *)
LEMMA NoChangeKeeps ==
    ASSUME IInv, NEW c \in Callers, NoChange(c)
    PROVE IInv'
  <1> USE DEF IInv, NoChange, CallAt, world
  <1>1. StorageTypes'
    <2>0. caller[c] \in JobSet
      BY DEF StorageTypes
    <2>1. [caller[c] EXCEPT !.at = "lock"] \in JobSet
      BY <2>0, Going, Staged
    <2>2. caller' \in [Callers -> JobSet]
      BY <2>1, PutTyped, Zenon DEF StorageTypes
    <2>3. \A d \in Callers : caller'[d].at \in {"sample", "write", "rename"} <=> holder' = d
      BY StorageAssumption DEF StorageTypes, JobSet, NoCall, PutCall
    <2> QED
      BY <2>2, <2>3, StorageAssumption DEF StorageTypes, States, Engines, PersistSet,
         FileSet, RecSet
  <1>2. PastInv'
    BY StorageAssumption DEF StorageTypes, JobSet, Stages, States, Engines, NoCall, Resting,
           Fresh, PastInv, PutCall
  <1>3. WholeInv'
    BY StorageAssumption DEF StorageTypes, JobSet, NoCall, WholeInv, PutCall
  <1>4. UnloadedInv'
    BY StorageAssumption DEF StorageTypes, JobSet, Stages, States, Engines, NoCall, Resting,
           Fresh, PastInv,
           UnloadedInv, RebuildInv, NewerInv, ReplayInv, BareInv, Writing, PutCall
  <1> QED
    BY <1>1, <1>2, <1>3, <1>4

(* The guard over capture, comparison and write is taken.                  *)
LEMMA TakeKeeps ==
    ASSUME IInv, NEW c \in Callers, Take(c)
    PROVE IInv'
  <1> USE DEF IInv, Take, CallAt, world
  <1>1. StorageTypes'
    <2>0. caller[c] \in JobSet
      BY DEF StorageTypes
    <2>1. [caller[c] EXCEPT !.at = "sample"] \in JobSet
      BY <2>0, Going, Staged
    <2>2. caller' \in [Callers -> JobSet]
      BY <2>1, PutTyped, Zenon DEF StorageTypes
    <2>3. \A d \in Callers : caller'[d].at \in {"sample", "write", "rename"} <=> holder' = d
      BY StorageAssumption DEF StorageTypes, JobSet, NoCall, PutCall
    <2> QED
      BY <2>2, <2>3, StorageAssumption DEF StorageTypes, States, Engines, PersistSet,
         FileSet, RecSet
  <1>2. PastInv'
    BY StorageAssumption DEF StorageTypes, JobSet, Stages, States, Engines, NoCall, Resting,
           Fresh, PastInv, PutCall
  <1>3. WholeInv'
    BY StorageAssumption DEF StorageTypes, JobSet, NoCall, WholeInv, PutCall
  <1>4. UnloadedInv'
    BY StorageAssumption DEF StorageTypes, JobSet, Stages, States, Engines, NoCall, Resting,
           Fresh, PastInv,
           UnloadedInv, RebuildInv, NewerInv, ReplayInv, BareInv, Writing, PutCall
  <1> QED
    BY <1>1, <1>2, <1>3, <1>4

(* try_capture answers None and the known state stands.                    *)
LEMMA UnreadableKeeps ==
    ASSUME IInv, NEW c \in Callers, Unreadable(c)
    PROVE IInv'
  <1> USE DEF IInv, Unreadable, Release, CallAt, world
  <1>1. StorageTypes'
    <2>1. NoCall \in JobSet
      BY FreeTyped
    <2>2. caller' \in [Callers -> JobSet]
      BY <2>1, PutTyped, Zenon DEF StorageTypes
    <2>3. \A d \in Callers : caller'[d].at \in {"sample", "write", "rename"} <=> holder' = d
      BY StorageAssumption DEF StorageTypes, JobSet, NoCall, PutCall
    <2> QED
      BY <2>2, <2>3, StorageAssumption DEF StorageTypes, States, Engines, PersistSet,
         FileSet, RecSet
  <1>2. PastInv'
    BY StorageAssumption DEF StorageTypes, JobSet, Stages, States, Engines, NoCall, Resting,
           Fresh, PastInv, PutCall
  <1>3. WholeInv'
    BY StorageAssumption DEF StorageTypes, JobSet, NoCall, WholeInv, PutCall
  <1>4. UnloadedInv'
    BY StorageAssumption DEF StorageTypes, JobSet, Stages, States, Engines, NoCall, Resting,
           Fresh, PastInv,
           UnloadedInv, RebuildInv, NewerInv, ReplayInv, BareInv, Writing, PutCall
  <1> QED
    BY <1>1, <1>2, <1>3, <1>4

(* try_capture answers; an unchanged state is not written again.           *)
LEMMA SampleKeeps ==
    ASSUME IInv, NEW c \in Callers, Sample(c)
    PROVE IInv'
  <1> USE DEF IInv, CallAt, world
  <1> DEFINE j == [caller[c] EXCEPT !.at = "write", !.state = jar[context],
                                 !.bare = context \in bare]
  <1>0. /\ caller[c] \in JobSet /\ jar[context] \in States /\ jar[context] <= clock
        /\ (context \in bare) \in BOOLEAN
    BY StorageAssumption DEF StorageTypes, PastInv, States, Engines
  <1>1. CASE PutCall(c, NoCall) /\ holder' = NoHolder
    <2>1. caller' \in [Callers -> JobSet]
      BY <1>1, FreeTyped, PutTyped, Zenon DEF StorageTypes
    <2>2. \A d \in Callers : caller'[d].at \in {"sample", "write", "rename"} <=> holder' = d
      BY <1>1, StorageAssumption DEF Sample, StorageTypes, JobSet, NoCall, PutCall
    <2>3. StorageTypes'
      BY <2>1, <2>2 DEF Sample, StorageTypes
    <2>4. PastInv'
      <3>1. \A d \in Callers : caller'[d] = caller[d] \/ caller'[d] = NoCall
        BY <1>1 DEF StorageTypes, PutCall
      <3>2. NoCall.state = 0 /\ NoCall.ctx = 0
        BY DEF NoCall
      <3>3. UNCHANGED <<world, persist, file, rec>>
        BY DEF Sample
      <3>4. 0 <= clock /\ 0 <= browsers
        BY StorageAssumption DEF StorageTypes, States, Engines
      <3> QED
        BY <3>1, <3>2, <3>3, <3>4 DEF PastInv
    <2>5. WholeInv'
      BY <1>1 DEF Sample, StorageTypes, JobSet, NoCall, WholeInv, PutCall
    <2>6. UnloadedInv'
      BY <1>1, StorageAssumption DEF Sample, StorageTypes, JobSet, States, Engines, NoCall, PastInv,
           UnloadedInv, RebuildInv, NewerInv, ReplayInv, BareInv, Writing, PutCall
    <2> QED
      BY <2>3, <2>4, <2>5, <2>6
  <1>2. CASE PutCall(c, j) /\ UNCHANGED holder
    <2>0. j \in JobSet
      BY <1>0, Capturing, Staged, Zenon
    <2>00. /\ j.at = "write" /\ j.state = jar[context] /\ j.bare = (context \in bare)
           /\ j.ctx = caller[c].ctx
      BY <1>0 DEF JobSet
    <2> HIDE DEF j
    <2>1. caller' \in [Callers -> JobSet]
      BY <1>2, <2>0, PutTyped, Zenon DEF StorageTypes
    <2>2. \A d \in Callers : caller'[d].at \in {"sample", "write", "rename"} <=> holder' = d
      BY <1>2, <2>00, StorageAssumption DEF Sample, StorageTypes, JobSet, PutCall
    <2>3. StorageTypes'
      BY <2>1, <2>2 DEF Sample, StorageTypes
    <2>4. PastInv'
      BY <1>0, <1>2, <2>00, StorageAssumption DEF Sample, StorageTypes, PastInv, PutCall, States
    <2>5. WholeInv'
      BY <1>2, <2>00 DEF Sample, StorageTypes, JobSet, WholeInv, PutCall
    <2>6. UnloadedInv'
      <3> SUFFICES ASSUME ~loaded PROVE UnloadedInv'
        BY DEF Sample, UnloadedInv
      <3>1. /\ caller'[c] = j /\ \A d \in Callers : d # c => caller'[d] = caller[d]
            /\ Writing' = Writing \cup {c} /\ Writing \subseteq Callers
            /\ UNCHANGED <<world, persist, file, rec, loaded>> /\ context = engine
        BY <1>2, <2>00 DEF Sample, StorageTypes, PutCall, Writing
      <3>2. RebuildInv'
        BY <3>1, <2>00 DEF UnloadedInv, RebuildInv
      <3>3. NewerInv'
        <4>1. jar[context] \in Nat
          BY <1>0, StorageAssumption DEF States
        <4>2. \A d \in Writing \cup {c} :
              caller'[d].state = jar[context] \/ (d \in Writing /\ caller'[d] = caller[d])
          BY <3>1, <2>00
        <4> QED
          BY <3>1, <4>1, <4>2 DEF UnloadedInv, NewerInv
      <3>4. ReplayInv'
        <4>1. rec.at # "swap"
          BY <3>1, StorageAssumption DEF UnloadedInv, PastInv, RebuildInv, StorageTypes, Engines
        <4>2. rec.at = "replay" => jar[context] = 0
          BY <3>1 DEF UnloadedInv, RebuildInv
        <4>3. \A d \in Writing \cup {c} :
              caller'[d].state = jar[context] \/ (d \in Writing /\ caller'[d] = caller[d])
          BY <3>1, <2>00
        <4> QED
          BY <3>1, <4>1, <4>2, <4>3 DEF UnloadedInv, ReplayInv
      <3>5. BareInv'
        BY <3>1, <2>00 DEF UnloadedInv, BareInv, Writing
      <3> QED
        BY <3>1, <3>2, <3>3, <3>4, <3>5, <2>00 DEF UnloadedInv
    <2> QED
      BY <2>3, <2>4, <2>5, <2>6
  <1> QED
    BY <1>1, <1>2, Zenon DEF Sample, Release

(* The staging file is written and flushed.                                *)
LEMMA StageKeeps ==
    ASSUME IInv, NEW c \in Callers, Stage(c)
    PROVE IInv'
  <1> USE DEF IInv, Stage, CallAt, world
  <1>1. StorageTypes'
    <2>0. caller[c] \in JobSet
      BY DEF StorageTypes
    <2>1. [caller[c] EXCEPT !.at = "rename", !.synced = TRUE] \in JobSet
      BY <2>0, Syncing, Staged, Zenon
    <2>2. caller' \in [Callers -> JobSet]
      BY <2>1, PutTyped, Zenon DEF StorageTypes
    <2>3. \A d \in Callers : caller'[d].at \in {"sample", "write", "rename"} <=> holder' = d
      BY StorageAssumption DEF StorageTypes, JobSet, NoCall, PutCall
    <2> QED
      BY <2>2, <2>3, StorageAssumption DEF StorageTypes, States, Engines, PersistSet,
         FileSet, RecSet
  <1>2. PastInv'
    BY StorageAssumption DEF StorageTypes, JobSet, Stages, States, Engines, NoCall, Resting,
           Fresh, PastInv, PutCall
  <1>3. WholeInv'
    BY StorageAssumption DEF StorageTypes, JobSet, NoCall, WholeInv, PutCall
  <1>4. UnloadedInv'
    BY StorageAssumption DEF StorageTypes, JobSet, Stages, States, Engines, NoCall, Resting,
           Fresh, PastInv,
           UnloadedInv, RebuildInv, NewerInv, ReplayInv, BareInv, Writing, PutCall
  <1> QED
    BY <1>1, <1>2, <1>3, <1>4

(* publish renames the staged file into place.                             *)
LEMMA RenameKeeps ==
    ASSUME IInv, NEW c \in Callers, Rename(c)
    PROVE IInv'
  <1> USE DEF IInv, Rename, Release, CallAt, world
  <1>1. StorageTypes'
    <2>1. NoCall \in JobSet
      BY FreeTyped
    <2>2. caller' \in [Callers -> JobSet]
      BY <2>1, PutTyped, Zenon DEF StorageTypes
    <2>3. \A d \in Callers : caller'[d].at \in {"sample", "write", "rename"} <=> holder' = d
      BY StorageAssumption DEF StorageTypes, JobSet, NoCall, PutCall
    <2>4. persist' \in PersistSet
      BY StorageAssumption DEF StorageTypes, JobSet, States, Engines, PersistSet, FileSet,
             RecSet, Resting, Fresh
    <2>5. file' \in FileSet
      BY StorageAssumption DEF StorageTypes, JobSet, States, Engines, PersistSet, FileSet,
             RecSet, Resting, Fresh
    <2> QED
      BY <2>2, <2>3, <2>4, <2>5, StorageAssumption DEF StorageTypes, States, Engines, PersistSet,
         FileSet, RecSet
  <1>2. PastInv'
    BY StorageAssumption DEF StorageTypes, JobSet, Stages, States, Engines, NoCall, Resting,
           Fresh, PastInv, PutCall
  <1>3. WholeInv'
    BY StorageAssumption DEF StorageTypes, JobSet, NoCall, WholeInv, PutCall
  <1>4. UnloadedInv'
    BY StorageAssumption DEF StorageTypes, JobSet, Stages, States, Engines, NoCall, Resting,
           Fresh, PastInv,
           UnloadedInv, RebuildInv, NewerInv, ReplayInv, BareInv, Writing, PutCall
  <1> QED
    BY <1>1, <1>2, <1>3, <1>4

(* A failed write is remembered as not persisted.                          *)
LEMMA WriteFailsKeeps ==
    ASSUME IInv, NEW c \in Callers, WriteFails(c)
    PROVE IInv'
  <1> USE DEF IInv, WriteFails, Release, CallAt, world
  <1>1. StorageTypes'
    <2>1. NoCall \in JobSet
      BY FreeTyped
    <2>2. caller' \in [Callers -> JobSet]
      BY <2>1, PutTyped, Zenon DEF StorageTypes
    <2>3. \A d \in Callers : caller'[d].at \in {"sample", "write", "rename"} <=> holder' = d
      BY StorageAssumption DEF StorageTypes, JobSet, NoCall, PutCall
    <2>4. persist' \in PersistSet
      BY StorageAssumption DEF StorageTypes, JobSet, States, Engines, PersistSet, FileSet,
             RecSet, Resting, Fresh
    <2> QED
      BY <2>2, <2>3, <2>4, StorageAssumption DEF StorageTypes, States, Engines, PersistSet,
         FileSet, RecSet
  <1>2. PastInv'
    BY StorageAssumption DEF StorageTypes, JobSet, Stages, States, Engines, NoCall, Resting,
           Fresh, PastInv, PutCall
  <1>3. WholeInv'
    BY StorageAssumption DEF StorageTypes, JobSet, NoCall, WholeInv, PutCall
  <1>4. UnloadedInv'
    BY StorageAssumption DEF StorageTypes, JobSet, Stages, States, Engines, NoCall, Resting,
           Fresh, PastInv,
           UnloadedInv, RebuildInv, NewerInv, ReplayInv, BareInv, Writing, PutCall
  <1> QED
    BY <1>1, <1>2, <1>3, <1>4

(* load_storage reads the file.                                            *)
LEMMA LoadKeeps ==
    ASSUME IInv, NEW c \in Callers, Load(c)
    PROVE IInv'
  <1> USE DEF IInv, Load, CallAt, world
  <1>1. StorageTypes'
    <2>0. NoCall \in JobSet /\ (IF file.whole THEN file.state ELSE 0) \in States
      BY FreeTyped, StorageAssumption DEF StorageTypes, States
    <2>1. [NoCall EXCEPT !.at = "restore",
                       !.state = IF file.whole THEN file.state ELSE 0] \in JobSet
      BY <2>0, Carrying, Staged, Zenon
    <2>2. caller' \in [Callers -> JobSet]
      BY <2>1, PutTyped, Zenon DEF StorageTypes
    <2>3. \A d \in Callers : caller'[d].at \in {"sample", "write", "rename"} <=> holder' = d
      BY StorageAssumption DEF StorageTypes, JobSet, NoCall, PutCall
    <2> QED
      BY <2>2, <2>3, StorageAssumption DEF StorageTypes, States, Engines, PersistSet,
         FileSet, RecSet
  <1>2. PastInv'
    BY StorageAssumption DEF StorageTypes, JobSet, Stages, States, Engines, NoCall, Resting,
           Fresh, PastInv, PutCall
  <1>3. WholeInv'
    BY StorageAssumption DEF StorageTypes, JobSet, NoCall, WholeInv, PutCall
  <1>4. UnloadedInv'
    BY StorageAssumption DEF StorageTypes, JobSet, Stages, States, Engines, NoCall, Resting,
           Fresh, PastInv,
           UnloadedInv, RebuildInv, NewerInv, ReplayInv, BareInv, Writing, PutCall
  <1> QED
    BY <1>1, <1>2, <1>3, <1>4

(* load_storage sets what it read in the live context.                     *)
LEMMA RestoreKeeps ==
    ASSUME IInv, NEW c \in Callers, Restore(c)
    PROVE IInv'
  <1> USE DEF IInv, Restore, CallAt, world
  <1>1. StorageTypes'
    <2>0. caller[c] \in JobSet
      BY DEF StorageTypes
    <2>1. [caller[c] EXCEPT !.at = "adopt"] \in JobSet
      BY <2>0, Going, Staged
    <2>2. caller' \in [Callers -> JobSet]
      BY <2>1, PutTyped, Zenon DEF StorageTypes
    <2>3. \A d \in Callers : caller'[d].at \in {"sample", "write", "rename"} <=> holder' = d
      BY StorageAssumption DEF StorageTypes, JobSet, NoCall, PutCall
    <2>4. jar' \in [Engines -> 0 .. clock']
      <3>1. /\ clock \in Nat /\ clock' \in Nat /\ clock <= clock'
            /\ DOMAIN jar' = Engines /\ jar' = [e \in Engines |-> jar'[e]]
        BY StorageAssumption DEF StorageTypes, States
      <3>2. \A e \in Engines : jar[e] \in 0 .. clock
        BY DEF StorageTypes
      <3>3. \A e \in Engines : jar'[e] \in 0 .. clock'
        BY <3>1, <3>2, StorageAssumption DEF StorageTypes, PastInv, States, JobSet
      <3> QED
        BY <3>1, <3>3
    <2> QED
      BY <2>2, <2>3, <2>4, StorageAssumption DEF StorageTypes, States, Engines, PersistSet,
         FileSet, RecSet
  <1>2. PastInv'
    <2>1. \A d \in Callers : caller'[d].state = caller[d].state /\ caller'[d].ctx = caller[d].ctx
      BY DEF StorageTypes, JobSet, PutCall
    <2>2. \A e \in Engines : e > browsers => jar'[e] = jar[e]
      BY StorageAssumption DEF StorageTypes, Engines
    <2> QED
      BY <2>1, <2>2 DEF PastInv
  <1>3. WholeInv'
    BY StorageAssumption DEF StorageTypes, JobSet, NoCall, WholeInv, PutCall
  <1>4. UnloadedInv'
    BY StorageAssumption DEF StorageTypes, JobSet, Stages, States, Engines, NoCall, Resting,
           Fresh, PastInv,
           UnloadedInv, RebuildInv, NewerInv, ReplayInv, BareInv, Writing, PutCall
  <1> QED
    BY <1>1, <1>2, <1>3, <1>4

(* load_storage adopts what it read as the remembered state.               *)
LEMMA AdoptKeeps ==
    ASSUME IInv, NEW c \in Callers, Adopt(c)
    PROVE IInv'
  <1> USE DEF IInv, Adopt, CallAt, world
  <1>1. StorageTypes'
    <2>1. NoCall \in JobSet
      BY FreeTyped
    <2>2. caller' \in [Callers -> JobSet]
      BY <2>1, PutTyped, Zenon DEF StorageTypes
    <2>3. \A d \in Callers : caller'[d].at \in {"sample", "write", "rename"} <=> holder' = d
      BY StorageAssumption DEF StorageTypes, JobSet, NoCall, PutCall
    <2>4. persist' \in PersistSet
      BY StorageAssumption DEF StorageTypes, JobSet, States, Engines, PersistSet, FileSet,
             RecSet, Resting, Fresh
    <2> QED
      BY <2>2, <2>3, <2>4, StorageAssumption DEF StorageTypes, States, Engines, PersistSet,
         FileSet, RecSet
  <1>2. PastInv'
    BY StorageAssumption DEF StorageTypes, JobSet, Stages, States, Engines, NoCall, Resting,
           Fresh, PastInv, PutCall
  <1>3. WholeInv'
    BY StorageAssumption DEF StorageTypes, JobSet, NoCall, WholeInv, PutCall
  <1>4. UnloadedInv'
    BY StorageAssumption DEF StorageTypes, JobSet, Stages, States, Engines, NoCall, Resting,
           Fresh, PastInv,
           UnloadedInv, RebuildInv, NewerInv, ReplayInv, BareInv, Writing, PutCall
  <1> QED
    BY <1>1, <1>2, <1>3, <1>4

(* The supervisor brings an engine up and the rebuild starts.              *)
LEMMA RecoverBeginKeeps ==
    ASSUME IInv, RecoverBegin
    PROVE IInv'
  <1> USE DEF IInv, RecoverBegin, world
  <1>1. StorageTypes'
    <2>0. Resting \in RecSet /\ browsers + 1 \in 0 .. MaxBrowsers
      BY StorageAssumption DEF StorageTypes, Engines, RecSet, Resting, States
    <2>1. rec' \in RecSet
      BY <2>0, Rebuilding, Zenon
    <2> QED
      BY <2>1, StorageAssumption DEF StorageTypes, States, Engines, PersistSet,
         FileSet, RecSet
  <1>2. PastInv'
    BY StorageAssumption DEF StorageTypes, JobSet, Stages, States, Engines, NoCall, Resting,
           Fresh, PastInv
  <1>3. WholeInv'
    BY StorageAssumption DEF StorageTypes, JobSet, NoCall, WholeInv
  <1>4. UnloadedInv'
    BY StorageAssumption DEF StorageTypes, JobSet, Stages, States, Engines, NoCall, Resting,
           Fresh, PastInv,
           UnloadedInv, RebuildInv, NewerInv, ReplayInv, BareInv, Writing
  <1> QED
    BY <1>1, <1>2, <1>3, <1>4

(* recover reads the remembered state out under the lock.                  *)
LEMMA ReadOutKeeps ==
    ASSUME IInv, ReadOut
    PROVE IInv'
  <1> USE DEF IInv, ReadOut, world
  <1>1. StorageTypes'
    <2>1. rec' \in RecSet
      BY StorageAssumption DEF StorageTypes, JobSet, States, Engines, PersistSet, FileSet,
             RecSet, Resting, Fresh
    <2> QED
      BY <2>1, StorageAssumption DEF StorageTypes, States, Engines, PersistSet,
         FileSet, RecSet
  <1>2. PastInv'
    BY StorageAssumption DEF StorageTypes, JobSet, Stages, States, Engines, NoCall, Resting,
           Fresh, PastInv
  <1>3. WholeInv'
    BY StorageAssumption DEF StorageTypes, JobSet, NoCall, WholeInv
  <1>4. UnloadedInv'
    BY StorageAssumption DEF StorageTypes, JobSet, Stages, States, Engines, NoCall, Resting,
           Fresh, PastInv,
           UnloadedInv, RebuildInv, NewerInv, ReplayInv, BareInv, Writing
  <1> QED
    BY <1>1, <1>2, <1>3, <1>4

(* recover puts the new context in place.                                  *)
LEMMA SwapKeeps ==
    ASSUME IInv, SwapContext
    PROVE IInv'
  <1> USE DEF IInv, SwapContext, world
  <1>1. StorageTypes'
    <2>1. rec' \in RecSet
      BY StorageAssumption DEF StorageTypes, JobSet, States, Engines, PersistSet, FileSet,
             RecSet, Resting, Fresh
    <2> QED
      BY <2>1, StorageAssumption DEF PastInv, StorageTypes, States, Engines, PersistSet, FileSet,
         RecSet
  <1>2. PastInv'
    BY StorageAssumption DEF StorageTypes, JobSet, Stages, States, Engines, NoCall, Resting,
           Fresh, PastInv
  <1>3. WholeInv'
    BY StorageAssumption DEF StorageTypes, JobSet, NoCall, WholeInv
  <1>4. UnloadedInv'
    BY StorageAssumption DEF StorageTypes, JobSet, Stages, States, Engines, NoCall, Resting,
           Fresh, PastInv,
           UnloadedInv, RebuildInv, NewerInv, ReplayInv, BareInv, Writing
  <1> QED
    BY <1>1, <1>2, <1>3, <1>4

(* recover replays the cookies into the new context.                       *)
LEMMA ReplayKeeps ==
    ASSUME IInv, Replay
    PROVE IInv'
  <1> USE DEF IInv, Replay, world
  <1>1. StorageTypes'
    <2>1. rec' \in RecSet
      BY StorageAssumption DEF StorageTypes, JobSet, States, Engines, PersistSet, FileSet,
             RecSet, Resting, Fresh
    <2>2. jar' \in [Engines -> 0 .. clock']
      <3>1. /\ clock \in Nat /\ clock' \in Nat /\ clock <= clock'
            /\ DOMAIN jar' = Engines /\ jar' = [e \in Engines |-> jar'[e]]
        BY StorageAssumption DEF StorageTypes, States
      <3>2. \A e \in Engines : jar[e] \in 0 .. clock
        BY DEF StorageTypes
      <3>3. \A e \in Engines : jar'[e] \in 0 .. clock'
        BY <3>1, <3>2, StorageAssumption DEF StorageTypes, PastInv, States, JobSet
      <3> QED
        BY <3>1, <3>3
    <2> QED
      BY <2>1, <2>2, StorageAssumption DEF StorageTypes, States, Engines, PersistSet,
         FileSet, RecSet
  <1>2. PastInv'
    BY StorageAssumption DEF StorageTypes, JobSet, Stages, States, Engines, NoCall, Resting,
           Fresh, PastInv
  <1>3. WholeInv'
    BY StorageAssumption DEF StorageTypes, JobSet, NoCall, WholeInv
  <1>4. UnloadedInv'
    BY StorageAssumption DEF StorageTypes, JobSet, Stages, States, Engines, NoCall, Resting,
           Fresh, PastInv,
           UnloadedInv, RebuildInv, NewerInv, ReplayInv, BareInv, Writing
  <1> QED
    BY <1>1, <1>2, <1>3, <1>4

(* The replay of the cookies fails and the rebuild goes on.                *)
LEMMA ReplayErrorKeeps ==
    ASSUME IInv, ReplayError
    PROVE IInv'
  <1> USE DEF IInv, ReplayError, world
  <1>1. StorageTypes'
    <2>1. rec' \in RecSet
      BY StorageAssumption DEF StorageTypes, JobSet, States, Engines, PersistSet, FileSet,
             RecSet, Resting, Fresh
    <2> QED
      BY <2>1, StorageAssumption DEF StorageTypes, States, Engines, PersistSet,
         FileSet, RecSet
  <1>2. PastInv'
    BY StorageAssumption DEF StorageTypes, JobSet, Stages, States, Engines, NoCall, Resting,
           Fresh, PastInv
  <1>3. WholeInv'
    BY StorageAssumption DEF StorageTypes, JobSet, NoCall, WholeInv
  <1>4. UnloadedInv'
    BY StorageAssumption DEF StorageTypes, JobSet, Stages, States, Engines, NoCall, Resting,
           Fresh, PastInv,
           UnloadedInv, RebuildInv, NewerInv, ReplayInv, BareInv, Writing
  <1> QED
    BY <1>1, <1>2, <1>3, <1>4

(* The pages are back and the gate reopens.                                *)
LEMMA FinishKeeps ==
    ASSUME IInv, Finish
    PROVE IInv'
  <1> USE DEF IInv, Finish, world
  <1>1. StorageTypes'
    <2>1. rec' \in RecSet
      BY StorageAssumption DEF StorageTypes, JobSet, States, Engines, PersistSet, FileSet,
             RecSet, Resting, Fresh
    <2> QED
      BY <2>1, StorageAssumption DEF StorageTypes, States, Engines, PersistSet,
         FileSet, RecSet
  <1>2. PastInv'
    BY StorageAssumption DEF StorageTypes, JobSet, Stages, States, Engines, NoCall, Resting,
           Fresh, PastInv
  <1>3. WholeInv'
    BY StorageAssumption DEF StorageTypes, JobSet, NoCall, WholeInv
  <1>4. UnloadedInv'
    BY StorageAssumption DEF StorageTypes, JobSet, Stages, States, Engines, NoCall, Resting,
           Fresh, PastInv,
           UnloadedInv, RebuildInv, NewerInv, ReplayInv, BareInv, Writing
  <1> QED
    BY <1>1, <1>2, <1>3, <1>4

(* The engine dies, between any two steps.                                 *)
LEMMA EngineDiesKeeps ==
    ASSUME IInv, EngineLost
    PROVE IInv'
  <1> USE DEF IInv, EngineLost, world
  <1>1. StorageTypes'
    <2> QED
      BY StorageAssumption DEF StorageTypes, States, Engines, PersistSet,
         FileSet, RecSet
  <1>2. PastInv'
    BY StorageAssumption DEF StorageTypes, JobSet, Stages, States, Engines, NoCall, Resting,
           Fresh, PastInv
  <1>3. WholeInv'
    BY StorageAssumption DEF StorageTypes, JobSet, NoCall, WholeInv
  <1>4. UnloadedInv'
    BY StorageAssumption DEF StorageTypes, JobSet, Stages, States, Engines, NoCall, Resting,
           Fresh, PastInv,
           UnloadedInv, RebuildInv, NewerInv, ReplayInv, BareInv, Writing
  <1> QED
    BY <1>1, <1>2, <1>3, <1>4

(* The process ends, between any two steps, and the next one starts.       *)
LEMMA RebootKeeps ==
    ASSUME IInv, Reboot
    PROVE IInv'
  <1> USE DEF IInv, Reboot, world
  <1>1. StorageTypes'
    <2>1. persist' \in PersistSet
      BY StorageAssumption DEF StorageTypes, JobSet, States, Engines, PersistSet, FileSet,
             RecSet, Resting, Fresh
    <2>2. file' \in FileSet
      BY StorageAssumption DEF StorageTypes, JobSet, States, Engines, PersistSet, FileSet,
             RecSet, Resting, Fresh
    <2>3. rec' \in RecSet
      BY StorageAssumption DEF StorageTypes, JobSet, States, Engines, PersistSet, FileSet,
             RecSet, Resting, Fresh
    <2>4. caller' \in [Callers -> JobSet]
      BY FreeTyped, Zenon
    <2>5. \A c \in Callers : caller'[c].at = "idle" /\ holder' = NoHolder
      BY DEF NoCall
    <2>6. /\ browsers' \in Engines /\ engine' = browsers' /\ context' = browsers'
          /\ boots' \in 1 .. MaxBoots
      BY StorageAssumption DEF StorageTypes, Engines
    <2> QED
      BY <2>1, <2>2, <2>3, <2>4, <2>5, <2>6, StorageAssumption DEF StorageTypes, PersistSet, FileSet, RecSet
  <1>2. PastInv'
    <2>1. \A c \in Callers : caller'[c].state = 0 /\ caller'[c].ctx = 0
      BY DEF NoCall
    <2>2. rec'.at = "idle" /\ rec'.ctx = 0 /\ rec'.state = 0 /\ persist'.state = 0
      BY DEF Resting, Fresh
    <2>3. file'.state = file.state
      BY DEF StorageTypes
    <2>4. browsers \in Nat /\ browsers' = browsers + 1 /\ clock \in Nat
      BY StorageAssumption DEF StorageTypes, Engines, States
    <2>5. \A e \in Engines : e > browsers + 1 => e > browsers
      BY <2>4 DEF Engines
    <2> QED
      BY <2>1, <2>2, <2>3, <2>4, <2>5 DEF PastInv
  <1>3. WholeInv'
    BY StorageAssumption DEF StorageTypes, JobSet, NoCall, WholeInv
  <1>4. UnloadedInv'
    BY StorageAssumption DEF StorageTypes, JobSet, Stages, States, Engines, NoCall, Resting,
           Fresh, PastInv,
           UnloadedInv, RebuildInv, NewerInv, ReplayInv, BareInv, Writing
  <1> QED
    BY <1>1, <1>2, <1>3, <1>4

(* Nothing moves.                                                          *)
LEMMA StutterKeeps ==
    ASSUME IInv, UNCHANGED storageVars
    PROVE IInv'
  BY DEF storageVars, IInv, StorageTypes, PastInv, WholeInv, UnloadedInv, RebuildInv, NewerInv,
         ReplayInv, BareInv, Writing

(* Every step of write_storage_if_changed, load_storage and recover keeps  *)
(* the invariant, and so do the deaths of the engine and of the process.   *)
LEMMA StepKeeps ==
    ASSUME IInv, [StorageNext]_storageVars
    PROVE IInv'
  <1>1. ASSUME NEW c \in Callers, Call(c) PROVE IInv'
    BY <1>1, Zenon, BeginKeeps, ChangeKeeps, NoChangeKeeps, TakeKeeps,
       UnreadableKeeps, SampleKeeps, StageKeeps, RenameKeeps,
       WriteFailsKeeps, LoadKeeps, RestoreKeeps, AdoptKeeps
       DEF Call
  <1>2. CASE Recovery
    BY <1>2, Zenon, RecoverBeginKeeps, ReadOutKeeps, SwapKeeps, ReplayKeeps,
       ReplayErrorKeeps, FinishKeeps
       DEF Recovery
  <1>3. CASE EngineLost
    BY <1>3, EngineDiesKeeps
  <1>4. CASE Reboot
    BY <1>4, RebootKeeps
  <1>5. CASE UNCHANGED storageVars
    BY <1>5, StutterKeeps
  <1> QED
    BY <1>1, <1>2, <1>3, <1>4, <1>5 DEF StorageNext

(* A new session remembers nothing and its file is whole (Session::new).   *)
LEMMA Starts == ASSUME StorageInit PROVE IInv
  <1>1. StorageTypes
    <2>1. caller \in [Callers -> JobSet] /\ \A c \in Callers : caller[c].at = "idle"
      BY FreeTyped DEF StorageInit, NoCall
    <2>2. rec \in RecSet /\ persist \in PersistSet /\ file \in FileSet
      BY StorageAssumption DEF StorageInit, RecSet, PersistSet, FileSet, States, Resting, Fresh
    <2>3. 1 \in Engines /\ 0 \in States /\ 1 \in 1 .. MaxBoots
      BY StorageAssumption DEF Engines, States
    <2>4. jar \in [Engines -> 0 .. clock] /\ bare \subseteq Engines
      BY DEF StorageInit
    <2> QED
      BY <2>1, <2>2, <2>3, <2>4, StorageAssumption DEF StorageInit, StorageTypes, RecSet, PersistSet, FileSet
  <1>2. PastInv
    BY StorageAssumption DEF StorageInit, PastInv, Engines, States, NoCall, Resting, Fresh
  <1>3. WholeInv
    BY DEF StorageInit, WholeInv, NoCall
  <1>4. UnloadedInv
    BY StorageAssumption DEF StorageInit, UnloadedInv, RebuildInv, NewerInv, ReplayInv, BareInv,
           Writing, NoCall, Resting, Fresh, Engines
  <1> QED
    BY <1>1, <1>2, <1>3, <1>4 DEF IInv

(* The invariant holds in every state of a session and of the processes    *)
(* after it.                                                               *)
THEOREM Inductive == StorageSpec => []IInv
  <1>1. StorageInit => IInv
    BY Starts
  <1>2. IInv /\ [StorageNext]_storageVars => IInv'
    BY StepKeeps
  <1> QED
    BY <1>1, <1>2, PTL DEF StorageSpec

(* The states are typed, and the guard over PersistState is held by the    *)
(* one call that captures or writes.                                       *)
THEOREM TypeCorrect == StorageSpec => []StorageTypes
  <1>1. IInv => StorageTypes
    BY DEF IInv
  <1> QED
    BY <1>1, Inductive, PTL

(* The file reads back whole through kills and power cuts between any two  *)
(* steps of StorageState::write.                                           *)
THEOREM Whole == StorageSpec => []ReadsWhole
  <1>1. IInv => ReadsWhole
    BY DEF IInv, WholeInv, ReadsWhole
  <1> QED
    BY <1>1, Inductive, PTL

(* PersistState's claim: between writes, a state marked persisted is what  *)
(* the file holds.                                                         *)
THEOREM Holds == StorageSpec => []HoldsState
  <1>1. IInv => HoldsState
    BY DEF IInv, UnloadedInv, NewerInv, HoldsState
  <1> QED
    BY <1>1, Inductive, PTL

(* Between any two steps the claim about the file is true and the file can *)
(* be read, through overlapping calls, rebuilds, kills and power cuts      *)
(* (session/mod.rs, PersistState; storage.rs, StorageState::write).        *)
THEOREM Sound == StorageSpec => []StorageSound
  BY TypeCorrect, Whole, Holds, PTL DEF StorageSound

(* The file changes only where the staged one is renamed over it, and      *)
(* where the power fails (publish in storage.rs).                          *)
LEMMA Files ==
    ASSUME [StorageNext]_storageVars PROVE UNCHANGED file \/ (\E c \in Callers : Rename(c)) \/ Reboot
  <1>1. ASSUME NEW c \in Callers, Call(c) PROVE UNCHANGED file \/ Rename(c)
    BY <1>1 DEF Call, Begin, Change, NoChange, Take, Unreadable, Sample, Stage, WriteFails, Load,
                Restore, Adopt
  <1>2. CASE Recovery
    BY <1>2 DEF Recovery, RecoverBegin, ReadOut, SwapContext, Replay, ReplayError, Finish
  <1> QED
    BY <1>1, <1>2 DEF StorageNext, EngineLost, storageVars

(* What is remembered changes only at the end of a write, unless a load    *)
(* adopts a file, or a new process starts (PersistState).                  *)
LEMMA Remembers ==
    ASSUME IInv, [StorageNext]_storageVars, ~loaded, persist' # persist, boots' = boots
    PROVE  \E c \in Callers : Rename(c) \/ WriteFails(c)
  <1>1. ASSUME NEW c \in Callers, Call(c) PROVE Rename(c) \/ WriteFails(c)
    BY <1>1 DEF Call, Begin, Change, NoChange, Take, Unreadable, Sample, Stage, Load, Restore,
                Adopt, CallAt, IInv, UnloadedInv
  <1>2. ~Recovery
    BY DEF Recovery, RecoverBegin, ReadOut, SwapContext, Replay, ReplayError, Finish
  <1>3. ~Reboot
    BY StorageAssumption DEF Reboot, IInv, StorageTypes
  <1> QED
    BY <1>1, <1>2, <1>3 DEF StorageNext, EngineLost, storageVars

(* Overlapping calls publish in the order of their captures: the file goes *)
(* back only to the empty jar of a context that was not given its cookies. *)
THEOREM NeverOlder == StorageSpec => FileNeverOlder
  <1>1. ASSUME IInv, [StorageNext]_storageVars, ~loaded
        PROVE  file'.state >= file.state \/ file'.state = 0
    <2>1. CASE UNCHANGED file
      BY <1>1, <2>1, StorageAssumption DEF IInv, StorageTypes, States
    <2>2. CASE \E c \in Callers : Rename(c)
      BY <1>1, <2>2, StorageAssumption DEF Rename, CallAt, Writing, IInv, UnloadedInv, NewerInv, StorageTypes, JobSet,
                        States
    <2>3. CASE Reboot
      <3>1. file'.state = file.state
        BY <1>1, <2>3 DEF Reboot, IInv, StorageTypes
      <3> QED
        BY <1>1, <3>1, StorageAssumption DEF IInv, StorageTypes, States
    <2> QED
      BY <1>1, <2>1, <2>2, <2>3, Files
  <1>2. IInv /\ [StorageNext]_storageVars => [~loaded => file'.state >= file.state \/ file'.state = 0]_storageVars
    BY <1>1
  <1> QED
    BY <1>2, Inductive, PTL DEF StorageSpec, FileNeverOlder

(* Recovery's login is forgotten only to the capture of a rebuilt context  *)
(* that was not given its cookies.                                         *)
THEOREM EmptiedBare == StorageSpec => EmptiedOnlyBare
  <1>1. ASSUME IInv, [StorageNext]_storageVars, ~loaded,
               persist.state # 0, persist'.state = 0, boots' = boots
        PROVE  \E c \in Callers : caller[c].at \in {"write", "rename"} /\ caller[c].bare
    <2>1. PICK c \in Callers : Rename(c) \/ WriteFails(c)
      BY <1>1, Remembers
    <2>2. c \in Writing /\ caller[c].state = 0
      BY <1>1, <2>1 DEF Rename, WriteFails, CallAt, Writing
    <2> QED
      BY <1>1, <2>2 DEF IInv, UnloadedInv, BareInv, Writing
  <1>2. IInv /\ [StorageNext]_storageVars
        => [~loaded /\ persist.state # 0 /\ persist'.state = 0 /\ boots' = boots
            => \E c \in Callers : caller[c].at \in {"write", "rename"} /\ caller[c].bare]_storageVars
    BY <1>1
  <1> QED
    BY <1>2, Inductive, PTL DEF StorageSpec, EmptiedOnlyBare
---------------------------------------------------------------------------------
(* dump_origins.  A page stands in the group of its URL, and a group keeps *)
(* the registry's order.                                                   *)
GroupSet == [url : Urls, pages : Seq(Nat), asked : Nat, taken : Nat]

DumpTypes ==
    /\ pairs \in Seq(Urls) /\ grouped \in 0 .. Len(pairs)
    /\ groups \in Seq(GroupSet)
    /\ collected \in 0 .. Len(groups)
    /\ dump \in Seq([url : Urls, page : Nat])

PagesOf(group, upto) ==
    /\ 1 \in DOMAIN group.pages
    /\ \A x \in DOMAIN group.pages :
          group.pages[x] \in 1 .. upto /\ pairs[group.pages[x]] = group.url
    /\ \A x, y \in DOMAIN group.pages : x < y => group.pages[x] < group.pages[y]
    /\ \A i \in 1 .. upto :
          pairs[i] = group.url => \E x \in DOMAIN group.pages : group.pages[x] = i

GroupedInv ==
    /\ \A k \in DOMAIN groups : PagesOf(groups[k], grouped)
    /\ \A i \in 1 .. grouped : \E k \in DOMAIN groups : groups[k].url = pairs[i]
    /\ \A j, k \in DOMAIN groups :
          j < k => groups[j].url # groups[k].url /\ groups[j].pages[1] < groups[k].pages[1]

(* The pages of a group were asked in turn, up to the one that answered.   *)
AskedOf(group) ==
    /\ group.asked \in 0 .. Len(group.pages)
    /\ \A x \in DOMAIN group.pages :
          group.pages[x] \in silent <=> x <= group.asked /\ group.pages[x] # group.taken
    /\ group.taken # 0 => group.asked # 0 /\ group.taken = group.pages[group.asked]

AskedInv ==
    /\ silent \subseteq 1 .. grouped
    /\ \A k \in DOMAIN groups : AskedOf(groups[k])
    /\ grouped # Len(pairs) => \A k \in DOMAIN groups : groups[k].asked = 0
    /\ collected # 0 => grouped = Len(pairs) /\ \A k \in DOMAIN groups : Ended(k)

(* The dump is what the first groups answered, in their order.             *)
CollectedInv ==
    /\ \A k \in 1 .. collected :
          groups[k].taken # 0 => \E d \in DOMAIN dump : dump[d].page = groups[k].taken
    /\ \A d \in DOMAIN dump : \E k \in 1 .. collected :
          /\ groups[k].taken # 0
          /\ dump[d].url = groups[k].url /\ dump[d].page = groups[k].taken
    /\ \A c, d \in DOMAIN dump : c < d =>
          \E j, k \in 1 .. collected :
             j < k /\ dump[c].url = groups[j].url /\ dump[d].url = groups[k].url

RestoredInv ==
    \A r \in restored :
        Dumped /\ (r.entry = 0 => \A d \in DOMAIN dump : dump[d].url # r.url)

DumpInv == DumpTypes /\ GroupedInv /\ AskedInv /\ CollectedInv /\ RestoredInv

LEMMA GroupDomains ==
    ASSUME DumpTypes
    PROVE  /\ Len(pairs) \in Nat /\ DOMAIN pairs = 1 .. Len(pairs)
           /\ Len(groups) \in Nat /\ DOMAIN groups = 1 .. Len(groups)
           /\ Len(dump) \in Nat /\ DOMAIN dump = 1 .. Len(dump)
           /\ \A k \in DOMAIN groups : groups[k] \in GroupSet
           /\ grouped \in Nat /\ collected \in Nat
  <1>1. Len(pairs) \in Nat /\ Len(groups) \in Nat
    BY LenProperties DEF DumpTypes
  <1> QED
    BY <1>1, LenProperties, ElementOfSeq DEF DumpTypes

LEMMA PageDomain ==
    ASSUME NEW group \in GroupSet
    PROVE  /\ Len(group.pages) \in Nat /\ DOMAIN group.pages = 1 .. Len(group.pages)
           /\ \A x \in DOMAIN group.pages : group.pages[x] \in Nat
           /\ group.asked \in Nat /\ group.taken \in Nat /\ group.url \in Urls
           /\ group.pages \in Seq(Nat)
  <1>1. group.pages \in Seq(Nat)
    BY DEF GroupSet
  <1> QED
    BY <1>1, LenProperties, ElementOfSeq DEF GroupSet

(* A list as long as another.                                              *)
LEMMA SameLength ==
    ASSUME NEW S, NEW T, NEW s \in Seq(S), NEW f \in [DOMAIN s -> T]
    PROVE  f \in Seq(T) /\ Len(f) = Len(s) /\ DOMAIN f = DOMAIN s
  <1>1. Len(s) \in Nat /\ DOMAIN s = 1 .. Len(s)
    BY LenProperties
  <1>2. f \in Seq(T)
    BY <1>1, SeqDef
  <1>3. DOMAIN f = 1 .. Len(f) /\ Len(f) \in Nat
    BY <1>2, LenProperties
  <1> QED
    BY <1>1, <1>2, <1>3

(* What grouping one page more does to a group of another URL, to the one  *)
(* of its URL, and to a new one.                                           *)
LEMMA GroupOther ==
    ASSUME DumpTypes, NEW group \in GroupSet, PagesOf(group, grouped),
           pairs[grouped + 1] # group.url
    PROVE  PagesOf(group, grouped + 1)
  <1>1. grouped \in Nat
    BY GroupDomains
  <1>2. \A i \in 1 .. grouped + 1 : i \in 1 .. grouped \/ i = grouped + 1
    BY <1>1
  <1>3. \A i \in 1 .. grouped : i \in 1 .. grouped + 1
    BY <1>1
  <1> QED
    BY <1>2, <1>3 DEF PagesOf

LEMMA GroupJoined ==
    ASSUME DumpTypes, NEW group \in GroupSet, PagesOf(group, grouped),
           pairs[grouped + 1] = group.url
    PROVE  /\ Join(group, grouped + 1) \in GroupSet
           /\ PagesOf(Join(group, grouped + 1), grouped + 1)
           /\ Join(group, grouped + 1).url = group.url
           /\ Join(group, grouped + 1).asked = group.asked
           /\ Join(group, grouped + 1).taken = group.taken
           /\ Join(group, grouped + 1).pages = Append(group.pages, grouped + 1)
           /\ Join(group, grouped + 1).pages[1] = group.pages[1]
  <1> DEFINE last == grouped + 1
             pages == group.pages
             longer == Append(pages, last)
             n == Len(pages)
  <1>1. grouped \in Nat /\ n \in Nat /\ DOMAIN pages = 1 .. n /\ pages \in Seq(Nat)
    BY GroupDomains, PageDomain
  <1>2. /\ longer \in Seq(Nat) /\ DOMAIN longer = 1 .. n + 1
        /\ \A x \in 1 .. n : longer[x] = pages[x]
        /\ longer[n + 1] = last
    <2>1. last \in Nat
      BY <1>1
    <2> QED
      BY <1>1, <2>1, AppendProperties, LenProperties
  <1>3. /\ Join(group, last) \in GroupSet
        /\ Join(group, last).url = group.url /\ Join(group, last).asked = group.asked
        /\ Join(group, last).taken = group.taken /\ Join(group, last).pages = longer
    <2> HIDE DEF last
    <2>1. Join(group, last) = [group EXCEPT !.pages = longer]
      BY DEF Join
    <2> HIDE DEF longer
    <2> QED
      BY <1>2, <2>1 DEF GroupSet
  <1> HIDE DEF longer
  <1>4. 1 \in 1 .. n /\ 1 \in 1 .. n + 1
    BY <1>1 DEF PagesOf
  <1>5. \A x \in 1 .. n + 1 : longer[x] \in 1 .. last /\ pairs[longer[x]] = group.url
    <2> SUFFICES ASSUME NEW x \in 1 .. n + 1
                 PROVE  longer[x] \in 1 .. last /\ pairs[longer[x]] = group.url
      OBVIOUS
    <2>1. CASE x = n + 1
      BY <1>1, <1>2, <2>1
    <2>2. CASE x # n + 1
      <3>1. x \in 1 .. n
        BY <1>1, <2>2
      <3>2. pages[x] \in 1 .. grouped /\ pairs[pages[x]] = group.url
        BY <1>1, <3>1 DEF PagesOf
      <3> QED
        BY <1>1, <1>2, <3>1, <3>2
    <2> QED
      BY <2>1, <2>2
  <1>6. \A x, y \in 1 .. n + 1 : x < y => longer[x] < longer[y]
    <2> SUFFICES ASSUME NEW x \in 1 .. n + 1, NEW y \in 1 .. n + 1, x < y
                 PROVE  longer[x] < longer[y]
      OBVIOUS
    <2>1. x \in 1 .. n /\ longer[x] = pages[x] /\ pages[x] \in 1 .. grouped
      <3>1. x \in 1 .. n
        BY <1>1
      <3> QED
        BY <1>1, <1>2, <3>1 DEF PagesOf
    <2>2. CASE y = n + 1
      BY <1>1, <1>2, <2>1, <2>2
    <2>3. CASE y # n + 1
      <3>1. y \in 1 .. n
        BY <1>1, <2>3
      <3> QED
        BY <1>1, <1>2, <2>1, <3>1 DEF PagesOf
    <2> QED
      BY <2>2, <2>3
  <1>7. \A i \in 1 .. last : pairs[i] = group.url => \E x \in 1 .. n + 1 : longer[x] = i
    <2> SUFFICES ASSUME NEW i \in 1 .. last, pairs[i] = group.url
                 PROVE  \E x \in 1 .. n + 1 : longer[x] = i
      OBVIOUS
    <2>1. CASE i = last
      <3>1. n + 1 \in 1 .. n + 1
        BY <1>1
      <3> QED
        BY <1>2, <2>1, <3>1
    <2>2. CASE i # last
      <3>1. i \in 1 .. grouped
        BY <1>1, <2>2
      <3>2. PICK x \in 1 .. n : pages[x] = i
        BY <1>1, <3>1 DEF PagesOf
      <3>3. x \in 1 .. n + 1
        BY <1>1
      <3> QED
        BY <1>2, <3>2, <3>3
    <2> QED
      BY <2>1, <2>2
  <1>8. longer[1] = pages[1]
    BY <1>2, <1>4
  <1>9. PagesOf(Join(group, last), last)
    BY <1>2, <1>3, <1>4, <1>5, <1>6, <1>7 DEF PagesOf
  <1> QED
    BY <1>3, <1>8, <1>9 DEF longer

LEMMA GroupNew ==
    ASSUME DumpTypes, grouped < Len(pairs), NEW group,
           group = [url |-> pairs[grouped + 1], pages |-> <<grouped + 1>>,
                    asked |-> 0, taken |-> 0],
           \A i \in 1 .. grouped : pairs[i] # pairs[grouped + 1]
    PROVE  group \in GroupSet /\ PagesOf(group, grouped + 1) /\ group.pages = <<grouped + 1>>
  <1>1. grouped \in Nat /\ grouped + 1 \in 1 .. Len(pairs)
    BY GroupDomains
  <1>2. pairs[grouped + 1] \in Urls
    BY <1>1, ElementOfSeq DEF DumpTypes
  <1>3. <<grouped + 1>> \in Seq(Nat) /\ DOMAIN <<grouped + 1>> = 1 .. 1
        /\ <<grouped + 1>>[1] = grouped + 1
    BY <1>1
  <1>4. group \in GroupSet
    BY <1>2, <1>3 DEF GroupSet
  <1>5. \A x \in 1 .. 1 : x = 1
    OBVIOUS
  <1>6. \A i \in 1 .. grouped + 1 : i \in 1 .. grouped \/ i = grouped + 1
    BY <1>1
  <1>7. 1 \in 1 .. 1 /\ grouped + 1 \in 1 .. grouped + 1 /\ ~(1 < 1)
    BY <1>1
  <1>8. PagesOf(group, grouped + 1)
    BY <1>3, <1>5, <1>6, <1>7 DEF PagesOf
  <1> QED
    BY <1>4, <1>8

(* Before the last page is grouped none was asked.                         *)
LEMMA NothingYet ==
    ASSUME DumpTypes, AskedInv, CollectedInv, RestoredInv,
           \/ grouped # Len(pairs)
           \/ \E k \in DOMAIN groups : Asking(k)
    PROVE  collected = 0 /\ DOMAIN dump = {} /\ restored = {}
  <1>1. collected = 0
    BY DEF AskedInv, Asking
  <1>2. \A d \in DOMAIN dump : FALSE
    BY <1>1 DEF CollectedInv
  <1>3. ~Dumped
    BY <1>1, GroupDomains DEF Dumped
  <1> QED
    BY <1>1, <1>2, <1>3 DEF RestoredInv

LEMMA NothingCollected ==
    ASSUME collected' = 0, DOMAIN dump' = {}, restored' = {}
    PROVE  CollectedInv' /\ RestoredInv'
  BY DEF CollectedInv, RestoredInv

LEMMA StillGrouped ==
    ASSUME pairs' = pairs,
           \A k \in DOMAIN groups' : PagesOf(groups'[k], grouped'),
           \A i \in 1 .. grouped' : \E k \in DOMAIN groups' : groups'[k].url = pairs[i],
           \A j, k \in DOMAIN groups' : j < k =>
              groups'[j].url # groups'[k].url /\ groups'[j].pages[1] < groups'[k].pages[1]
    PROVE  GroupedInv'
  <1>1. ASSUME NEW k \in DOMAIN groups' PROVE PagesOf(groups[k], grouped)'
    <2>1. PagesOf(groups'[k], grouped')
      OBVIOUS
    <2> QED
      BY <2>1 DEF PagesOf
  <1> QED
    BY <1>1 DEF GroupedInv

LEMMA StillUnasked ==
    ASSUME silent' = silent, collected' = 0, silent \subseteq 1 .. grouped',
           \A k \in DOMAIN groups' : groups'[k].asked = 0 /\ AskedOf(groups'[k])
    PROVE  AskedInv'
  <1>1. ASSUME NEW k \in DOMAIN groups' PROVE AskedOf(groups[k])'
    <2>1. AskedOf(groups'[k])
      OBVIOUS
    <2> QED
      BY <2>1 DEF AskedOf
  <1> QED
    BY <1>1 DEF AskedInv

LEMMA GroupKeeps ==
    ASSUME DumpInv, Group
    PROVE  DumpInv'
  <1> DEFINE n == Len(groups)
             url == pairs[grouped + 1]
             known == {k \in DOMAIN groups : groups[k].url = url}
             fresh == [url |-> url, pages |-> <<grouped + 1>>, asked |-> 0, taken |-> 0]
  <1>1. /\ DumpTypes /\ GroupedInv /\ AskedInv /\ CollectedInv /\ RestoredInv
        /\ grouped < Len(pairs) /\ grouped' = grouped + 1
        /\ UNCHANGED <<pairs, silent, collected, dump, restored>>
        /\ groups' = IF known = {} THEN Append(groups, fresh)
                     ELSE [k \in DOMAIN groups |->
                             IF k \in known THEN Join(groups[k], grouped + 1) ELSE groups[k]]
    BY DEF DumpInv, Group
  <1>2. /\ Len(pairs) \in Nat /\ n \in Nat /\ DOMAIN groups = 1 .. n
        /\ \A k \in DOMAIN groups : groups[k] \in GroupSet
        /\ grouped \in Nat
    BY <1>1, GroupDomains
  <1>3. collected = 0 /\ DOMAIN dump = {} /\ restored = {}
    <2>1. grouped # Len(pairs)
      BY <1>1, <1>2
    <2> QED
      BY <1>1, <2>1, NothingYet
  <1>4. CollectedInv' /\ RestoredInv'
    BY <1>1, <1>3, NothingCollected
  <1>5. \A k \in DOMAIN groups : groups[k].asked = 0 /\ groups[k].taken = 0
    BY <1>1, <1>2 DEF AskedInv, AskedOf
  <1>6. /\ \A k \in DOMAIN groups : k \notin known => PagesOf(groups[k], grouped + 1)
        /\ \A k \in known :
              /\ Join(groups[k], grouped + 1) \in GroupSet
              /\ PagesOf(Join(groups[k], grouped + 1), grouped + 1)
              /\ Join(groups[k], grouped + 1).url = groups[k].url
              /\ Join(groups[k], grouped + 1).asked = 0
              /\ Join(groups[k], grouped + 1).taken = 0
              /\ Join(groups[k], grouped + 1).pages[1] = groups[k].pages[1]
    <2>1. \A k \in DOMAIN groups : PagesOf(groups[k], grouped)
      BY <1>1 DEF GroupedInv
    <2> QED
      BY <1>1, <1>2, <1>5, <2>1, GroupOther, GroupJoined
  <1>7. grouped + 1 \in 1 .. Len(pairs) /\ grouped + 1 \in 0 .. Len(pairs)
    BY <1>1, <1>2
  <1>8. silent \subseteq 1 .. grouped /\ silent \subseteq 1 .. grouped + 1
    BY <1>1, <1>2 DEF AskedInv
  <1>9. \A i \in 1 .. grouped + 1 : i \in 1 .. grouped \/ i = grouped + 1
    BY <1>2
  \* nothing of a group that has only been grouped was asked
  <1>10. ASSUME NEW group \in GroupSet, group.asked = 0, group.taken = 0,
                PagesOf(group, grouped + 1),
                \A x \in DOMAIN group.pages : group.pages[x] \notin silent
         PROVE  AskedOf(group)
    <2>1. Len(group.pages) \in Nat /\ DOMAIN group.pages = 1 .. Len(group.pages)
      BY <1>10, PageDomain
    <2> QED
      BY <1>10, <2>1 DEF AskedOf
  <1>11. \A k \in DOMAIN groups : \A x \in DOMAIN groups[k].pages :
            groups[k].pages[x] \notin silent
    <2> SUFFICES ASSUME NEW k \in DOMAIN groups, NEW x \in DOMAIN groups[k].pages
                 PROVE  groups[k].pages[x] \notin silent
      OBVIOUS
    <2>1. x \in Nat /\ x >= 1
      BY <1>2, PageDomain
    <2> QED
      BY <1>1, <1>5, <2>1 DEF AskedInv, AskedOf
  <1>12. pairs' = pairs /\ grouped' = grouped + 1 /\ silent' = silent /\ collected' = collected
    BY <1>1
  <1>13. groups \in Seq(GroupSet)
    BY <1>1 DEF DumpTypes
  <1>14. CASE known = {}
    <2>1. \A i \in 1 .. grouped : pairs[i] # url
      BY <1>1, <1>14 DEF GroupedInv
    <2>2. fresh \in GroupSet /\ PagesOf(fresh, grouped + 1) /\ fresh.pages = <<grouped + 1>>
      BY <1>1, <2>1, GroupNew
    <2>3. fresh.url = url /\ fresh.asked = 0 /\ fresh.taken = 0
      OBVIOUS
    <2> HIDE DEF fresh
    <2>4. /\ groups' \in Seq(GroupSet) /\ Len(groups') = n + 1 /\ DOMAIN groups' = 1 .. n + 1
          /\ \A k \in 1 .. n : groups'[k] = groups[k]
          /\ groups'[n + 1] = fresh
      BY <1>1, <1>2, <1>14, <2>2, AppendProperties, LenProperties DEF DumpTypes
    <2>5. \A k \in 1 .. n + 1 : k \in 1 .. n \/ k = n + 1
      BY <1>2
    <2>6. \A k \in 1 .. n : groups[k].url # url /\ k \in 1 .. n + 1
      BY <1>2, <1>14
    <2>7. DumpTypes'
      <3>1. 0 \in 0 .. n + 1
        BY <1>2
      <3> QED
        BY <1>1, <1>3, <1>7, <2>4, <3>1 DEF DumpTypes
    <2>8. \A k \in DOMAIN groups' : groups'[k] \in GroupSet /\ PagesOf(groups'[k], grouped + 1)
      BY <1>2, <1>6, <2>2, <2>4, <2>5, <2>6
    <2>9. \A k \in DOMAIN groups' : groups'[k].asked = 0 /\ AskedOf(groups'[k])
      <3> SUFFICES ASSUME NEW k \in 1 .. n + 1
                   PROVE  groups'[k].asked = 0 /\ AskedOf(groups'[k])
        BY <2>4
      <3>1. groups'[k] \in GroupSet /\ PagesOf(groups'[k], grouped + 1)
        BY <2>4, <2>8
      <3>2. groups'[k].asked = 0 /\ groups'[k].taken = 0
        BY <1>2, <1>5, <2>3, <2>4, <2>5
      <3>3. \A x \in DOMAIN groups'[k].pages : groups'[k].pages[x] \notin silent
        <4>1. CASE k \in 1 .. n
          BY <1>2, <1>11, <2>4, <4>1
        <4>2. CASE k = n + 1
          <5>1. groups'[k].pages = <<grouped + 1>>
            BY <2>2, <2>4, <4>2
          <5>2. grouped + 1 \notin silent
            BY <1>2, <1>8
          <5> QED
            BY <5>1, <5>2
        <4> QED
          BY <2>5, <4>1, <4>2
      <3> QED
        BY <1>10, <3>1, <3>2, <3>3
    <2>10. \A j, k \in DOMAIN groups' : j < k =>
              groups'[j].url # groups'[k].url /\ groups'[j].pages[1] < groups'[k].pages[1]
      <3> SUFFICES ASSUME NEW j \in 1 .. n + 1, NEW k \in 1 .. n + 1, j < k
                   PROVE  /\ groups'[j].url # groups'[k].url
                          /\ groups'[j].pages[1] < groups'[k].pages[1]
        BY <2>4
      <3>1. j \in 1 .. n /\ groups'[j] = groups[j]
        <4>1. j \in 1 .. n
          BY <1>2
        <4> QED
          BY <2>4, <4>1
      <3>2. CASE k = n + 1
        <4>1. groups[j].pages[1] \in 1 .. grouped
          BY <1>1, <1>2, <3>1 DEF GroupedInv, PagesOf
        <4>2. groups'[k].pages[1] = grouped + 1 /\ groups'[k].url = url
          BY <2>2, <2>3, <2>4, <3>2
        <4> QED
          BY <1>2, <2>6, <3>1, <4>1, <4>2
      <3>3. CASE k \in 1 .. n
        BY <1>1, <1>2, <2>4, <3>1, <3>3 DEF GroupedInv
      <3> QED
        BY <2>5, <3>2, <3>3
    <2>11. \A i \in 1 .. grouped + 1 : \E k \in DOMAIN groups' : groups'[k].url = pairs[i]
      <3> SUFFICES ASSUME NEW i \in 1 .. grouped + 1
                   PROVE  \E k \in 1 .. n + 1 : groups'[k].url = pairs[i]
        BY <2>4
      <3>1. CASE i \in 1 .. grouped
        <4>1. PICK k \in 1 .. n : groups[k].url = pairs[i]
          BY <1>1, <1>2, <3>1 DEF GroupedInv
        <4> QED
          BY <2>4, <2>6, <4>1
      <3>2. CASE i = grouped + 1
        <4>1. n + 1 \in 1 .. n + 1
          BY <1>2
        <4> QED
          BY <2>3, <2>4, <3>2, <4>1
      <3> QED
        BY <1>9, <3>1, <3>2
    <2>12. GroupedInv'
      BY <1>12, <2>8, <2>10, <2>11, StillGrouped
    <2>13. AskedInv'
      BY <1>3, <1>8, <1>12, <2>9, StillUnasked
    <2> QED
      BY <1>4, <2>7, <2>12, <2>13 DEF DumpInv
  <1>15. CASE known # {}
    <2>1. groups' = [k \in DOMAIN groups |->
                       IF k \in known THEN Join(groups[k], grouped + 1) ELSE groups[k]]
      BY <1>1, <1>15
    <2>2. /\ \A k \in known : groups'[k] = Join(groups[k], grouped + 1)
          /\ \A k \in DOMAIN groups : k \notin known => groups'[k] = groups[k]
      BY <2>1
    <2>3. groups' \in [DOMAIN groups -> GroupSet]
      BY <1>2, <1>6, <2>1
    <2>4. groups' \in Seq(GroupSet) /\ Len(groups') = n /\ DOMAIN groups' = DOMAIN groups
      BY <1>13, <2>3, SameLength
    <2>5. DumpTypes'
      BY <1>1, <1>7, <2>4 DEF DumpTypes
    <2>6. \A k \in DOMAIN groups : /\ groups'[k] \in GroupSet
                                   /\ PagesOf(groups'[k], grouped + 1)
                                   /\ groups'[k].url = groups[k].url
                                   /\ groups'[k].asked = 0 /\ groups'[k].taken = 0
                                   /\ groups'[k].pages[1] = groups[k].pages[1]
      BY <1>2, <1>5, <1>6, <2>2
    <2>7. ASSUME NEW k \in DOMAIN groups, NEW x \in DOMAIN groups'[k].pages
          PROVE  groups'[k].pages[x] \notin silent
      <3>1. CASE k \notin known
        BY <1>11, <2>2, <2>7, <3>1
      <3>2. CASE k \in known
        <4> DEFINE pages == groups[k].pages
        <4>1. groups'[k].pages = Append(pages, grouped + 1)
          BY <1>1, <1>2, <2>2, <3>2, GroupJoined DEF GroupedInv
        <4>2. Len(pages) \in Nat /\ DOMAIN pages = 1 .. Len(pages) /\ pages \in Seq(Nat)
          BY <1>2, PageDomain
        <4>3. grouped + 1 \notin silent /\ grouped + 1 \in Nat
          BY <1>2, <1>8
        <4>4. /\ x \in 1 .. Len(pages) + 1
              /\ x \in 1 .. Len(pages) => groups'[k].pages[x] = pages[x]
              /\ x = Len(pages) + 1 => groups'[k].pages[x] = grouped + 1
          BY <2>7, <4>1, <4>2, <4>3, AppendProperties, LenProperties
        <4>5. x \in 1 .. Len(pages) \/ x = Len(pages) + 1
          BY <4>2, <4>4
        <4> QED
          BY <1>11, <4>2, <4>3, <4>4, <4>5
      <3> QED
        BY <3>1, <3>2
    <2>8. \A k \in DOMAIN groups : AskedOf(groups'[k])
      BY <1>10, <2>6, <2>7
    <2>9. \A i \in 1 .. grouped + 1 : \E k \in DOMAIN groups : groups'[k].url = pairs[i]
      BY <1>1, <1>9, <1>15, <2>6 DEF GroupedInv
    <2>10. GroupedInv'
      <3>1. \A j, k \in DOMAIN groups : j < k =>
               groups'[j].url # groups'[k].url /\ groups'[j].pages[1] < groups'[k].pages[1]
        <4>1. \A j, k \in DOMAIN groups : j < k =>
                 groups[j].url # groups[k].url /\ groups[j].pages[1] < groups[k].pages[1]
          BY <1>1 DEF GroupedInv
        <4> QED
          BY <2>6, <4>1
      <3> QED
        BY <1>12, <2>4, <2>6, <2>9, <3>1, StillGrouped
    <2>11. AskedInv'
      BY <1>3, <1>8, <1>12, <2>4, <2>6, <2>8, StillUnasked
    <2> QED
      BY <1>4, <2>5, <2>10, <2>11 DEF DumpInv
  <1> QED
    BY <1>14, <1>15

(* What a group was asked does not move its pages.                         *)
LEMMA AskingKeeps ==
    ASSUME DumpInv, NEW k \in DOMAIN groups, NEW group \in GroupSet, Asking(k),
           group.url = groups[k].url, group.pages = groups[k].pages,
           groups' = [groups EXCEPT ![k] = group],
           UNCHANGED <<pairs, grouped, collected, dump, restored>>,
           silent' \subseteq 1 .. grouped,
           \A j \in DOMAIN groups : AskedOf(groups[j])'
    PROVE  DumpInv'
  <1>1. /\ DumpTypes /\ GroupedInv /\ AskedInv /\ CollectedInv /\ RestoredInv
        /\ grouped = Len(pairs) /\ groups \in Seq(GroupSet)
    BY DEF DumpInv, Asking, DumpTypes
  <1>2. collected = 0 /\ DOMAIN dump = {} /\ restored = {}
    BY <1>1, NothingYet
  <1>3. /\ DOMAIN groups' = DOMAIN groups /\ groups'[k] = group
        /\ \A j \in DOMAIN groups : j # k => groups'[j] = groups[j]
    OBVIOUS
  <1>4. groups' \in [DOMAIN groups -> GroupSet]
    <2>1. groups \in [DOMAIN groups -> GroupSet]
      BY <1>1, GroupDomains
    <2> QED
      BY <2>1
  <1>5. groups' \in Seq(GroupSet) /\ Len(groups') = Len(groups)
    BY <1>1, <1>4, SameLength
  <1>6. DumpTypes'
    BY <1>1, <1>5 DEF DumpTypes
  <1>7. \A j \in DOMAIN groups :
            groups'[j].url = groups[j].url /\ groups'[j].pages = groups[j].pages
    BY <1>3
  <1>8. GroupedInv'
    <2>1. ASSUME NEW j \in DOMAIN groups PROVE PagesOf(groups'[j], grouped)
      <3>1. PagesOf(groups[j], grouped)
        BY <1>1 DEF GroupedInv
      <3> QED
        BY <1>7, <3>1 DEF PagesOf
    <2>2. \A i \in 1 .. grouped : \E j \in DOMAIN groups : groups'[j].url = pairs[i]
      BY <1>1, <1>7 DEF GroupedInv
    <2>3. \A i, j \in DOMAIN groups : i < j =>
             groups'[i].url # groups'[j].url /\ groups'[i].pages[1] < groups'[j].pages[1]
      BY <1>1, <1>7 DEF GroupedInv
    <2> QED
      BY <1>3, <2>1, <2>2, <2>3, StillGrouped
  <1>9. AskedInv'
    BY <1>1, <1>2, <1>3 DEF AskedInv
  <1> QED
    BY <1>2, <1>6, <1>8, <1>9, NothingCollected DEF DumpInv

(* What Answer and Refuse start from.                                      *)
LEMMA BeingAsked ==
    ASSUME DumpInv, NEW k \in DOMAIN groups, Asking(k)
    PROVE  /\ groups[k] \in GroupSet
           /\ groups[k].asked \in Nat /\ Len(groups[k].pages) \in Nat
           /\ groups[k].asked < Len(groups[k].pages)
           /\ DOMAIN groups[k].pages = 1 .. Len(groups[k].pages)
           /\ groups[k].taken = 0
           /\ Asked(k) = groups[k].pages[groups[k].asked + 1]
           /\ Asked(k) \in 1 .. grouped /\ Asked(k) # 0 /\ pairs[Asked(k)] = groups[k].url
           /\ \A x \in DOMAIN groups[k].pages :
                 groups[k].pages[x] = Asked(k) => x = groups[k].asked + 1
           /\ \A x \in DOMAIN groups[k].pages : groups[k].pages[x] # 0
           /\ \A j \in DOMAIN groups : j # k =>
                 \A x \in DOMAIN groups[j].pages : groups[j].pages[x] # Asked(k)
  <1> DEFINE pages == groups[k].pages
             asked == groups[k].asked
             n == Len(pages)
  <1>1. /\ groups[k] \in GroupSet /\ asked \in Nat /\ n \in Nat /\ DOMAIN pages = 1 .. n
        /\ \A x \in DOMAIN pages : pages[x] \in Nat
        /\ grouped \in Nat /\ DOMAIN groups = 1 .. Len(groups) /\ Len(groups) \in Nat
    BY GroupDomains, PageDomain DEF DumpInv
  <1>2. groups[k].taken = 0 /\ asked # n
    BY DEF Asking, Ended
  <1>3. asked \in 0 .. n
    BY DEF DumpInv, AskedInv, AskedOf
  <1>4. asked + 1 \in 1 .. n /\ Asked(k) = pages[asked + 1]
    BY <1>1, <1>2, <1>3 DEF Asked
  <1>5. PagesOf(groups[k], grouped)
    BY DEF DumpInv, GroupedInv
  <1>6. Asked(k) \in 1 .. grouped /\ Asked(k) # 0 /\ pairs[Asked(k)] = groups[k].url
    BY <1>1, <1>4, <1>5 DEF PagesOf
  <1>7. \A x \in 1 .. n : pages[x] = Asked(k) => x = asked + 1
    <2> SUFFICES ASSUME NEW x \in 1 .. n, pages[x] = Asked(k), x # asked + 1 PROVE FALSE
      OBVIOUS
    <2>1. x < asked + 1 \/ asked + 1 < x
      BY <1>1
    <2>2. pages[x] < pages[asked + 1] \/ pages[asked + 1] < pages[x]
      BY <1>1, <1>4, <1>5, <2>1 DEF PagesOf
    <2> QED
      BY <1>1, <1>4, <2>2
  <1>8. \A x \in 1 .. n : pages[x] # 0
    BY <1>1, <1>5 DEF PagesOf
  <1>9. ASSUME NEW j \in DOMAIN groups, j # k, NEW x \in DOMAIN groups[j].pages,
               groups[j].pages[x] = Asked(k)
        PROVE  FALSE
    <2>1. j < k \/ k < j
      BY <1>1, <1>9
    <2>2. groups[j].url # groups[k].url
      BY <2>1 DEF DumpInv, GroupedInv
    <2>3. pairs[groups[j].pages[x]] = groups[j].url
      BY DEF DumpInv, GroupedInv, PagesOf
    <2> QED
      BY <1>6, <1>9, <2>2, <2>3
  <1> QED
    BY <1>1, <1>2, <1>3, <1>4, <1>6, <1>7, <1>8, <1>9

LEMMA AnswerKeeps ==
    ASSUME DumpInv, NEW k \in DOMAIN groups, Answer(k)
    PROVE  DumpInv'
  <1> DEFINE group == [groups[k] EXCEPT !.asked = @ + 1, !.taken = Asked(k)]
  <1>1. /\ Asking(k) /\ silent' = silent
        /\ UNCHANGED <<pairs, grouped, collected, dump, restored>>
        /\ groups' = [groups EXCEPT ![k] = group]
    BY DEF Answer
  <1>2. /\ groups[k] \in GroupSet
        /\ groups[k].asked \in Nat /\ Len(groups[k].pages) \in Nat
        /\ groups[k].asked < Len(groups[k].pages)
        /\ DOMAIN groups[k].pages = 1 .. Len(groups[k].pages)
        /\ groups[k].taken = 0
        /\ Asked(k) = groups[k].pages[groups[k].asked + 1]
        /\ Asked(k) \in 1 .. grouped /\ Asked(k) # 0
        /\ \A x \in DOMAIN groups[k].pages :
              groups[k].pages[x] = Asked(k) => x = groups[k].asked + 1
        /\ \A x \in DOMAIN groups[k].pages : groups[k].pages[x] # 0
    BY <1>1, BeingAsked
  <1>3. /\ group \in GroupSet
        /\ group.url = groups[k].url /\ group.pages = groups[k].pages
        /\ group.asked = groups[k].asked + 1 /\ group.taken = Asked(k)
    <2>1. PICK page \in Nat : page = Asked(k)
      BY <1>2, GroupDomains DEF DumpInv
    <2>2. PICK asked \in Nat : asked = groups[k].asked + 1
      BY <1>2
    <2>3. group = [groups[k] EXCEPT !.asked = asked, !.taken = page]
      BY <2>1, <2>2
    <2>4. groups[k] \in GroupSet
      BY <1>2
    <2> HIDE DEF group
    <2> QED
      BY <2>1, <2>2, <2>3, <2>4 DEF GroupSet
  <1> HIDE DEF group
  <1>4. silent \subseteq 1 .. grouped /\ \A j \in DOMAIN groups : AskedOf(groups[j])
    BY DEF DumpInv, AskedInv
  <1>5. AskedOf(group)
    <2>1. AskedOf(groups[k])
      BY <1>4
    <2>2. group.asked \in 0 .. Len(group.pages)
      BY <1>2, <1>3
    <2>3. ASSUME NEW x \in DOMAIN groups[k].pages
          PROVE  groups[k].pages[x] \in silent <=>
                    x <= groups[k].asked + 1 /\ groups[k].pages[x] # Asked(k)
      <3>1. groups[k].pages[x] \in silent <=> x <= groups[k].asked
        BY <1>2, <2>1 DEF AskedOf
      <3>2. x \in Nat /\ (groups[k].pages[x] = Asked(k) <=> x = groups[k].asked + 1)
        BY <1>2
      <3> QED
        BY <1>2, <3>1, <3>2
    <2>4. groups[k].asked + 1 # 0
      BY <1>2
    <2> QED
      BY <1>2, <1>3, <2>2, <2>3, <2>4 DEF AskedOf
  <1>6. \A j \in DOMAIN groups : AskedOf(groups'[j])
    BY <1>1, <1>4, <1>5
  <1>7. ASSUME NEW j \in DOMAIN groups PROVE AskedOf(groups[j])'
    <2>1. AskedOf(groups'[j])
      BY <1>6
    <2> QED
      BY <1>1, <2>1 DEF AskedOf
  <1> QED
    BY <1>1, <1>3, <1>4, <1>7, AskingKeeps

LEMMA RefuseKeeps ==
    ASSUME DumpInv, NEW k \in DOMAIN groups, Refuse(k)
    PROVE  DumpInv'
  <1> DEFINE group == [groups[k] EXCEPT !.asked = @ + 1]
  <1>1. /\ Asking(k) /\ silent' = silent \cup {Asked(k)}
        /\ UNCHANGED <<pairs, grouped, collected, dump, restored>>
        /\ groups' = [groups EXCEPT ![k] = group]
    BY DEF Refuse, NextAsked
  <1>2. /\ groups[k] \in GroupSet
        /\ groups[k].asked \in Nat /\ Len(groups[k].pages) \in Nat
        /\ groups[k].asked < Len(groups[k].pages)
        /\ DOMAIN groups[k].pages = 1 .. Len(groups[k].pages)
        /\ groups[k].taken = 0
        /\ Asked(k) = groups[k].pages[groups[k].asked + 1]
        /\ Asked(k) \in 1 .. grouped
        /\ \A x \in DOMAIN groups[k].pages :
              groups[k].pages[x] = Asked(k) => x = groups[k].asked + 1
        /\ \A x \in DOMAIN groups[k].pages : groups[k].pages[x] # 0
        /\ \A j \in DOMAIN groups : j # k =>
              \A x \in DOMAIN groups[j].pages : groups[j].pages[x] # Asked(k)
    BY <1>1, BeingAsked
  <1>3. /\ group \in GroupSet
        /\ group.url = groups[k].url /\ group.pages = groups[k].pages
        /\ group.asked = groups[k].asked + 1 /\ group.taken = 0
    BY <1>2 DEF GroupSet
  <1> HIDE DEF group
  <1>4. silent \subseteq 1 .. grouped /\ \A j \in DOMAIN groups : AskedOf(groups[j])
    BY DEF DumpInv, AskedInv
  <1>5. AskedOf(groups[k])'
    <2>1. AskedOf(groups[k]) /\ groups'[k] = group
      BY <1>1, <1>4
    <2>2. group.asked \in 0 .. Len(group.pages)
      BY <1>2, <1>3
    <2>3. ASSUME NEW x \in DOMAIN groups[k].pages
          PROVE  groups[k].pages[x] \in silent' <=>
                    x <= groups[k].asked + 1 /\ groups[k].pages[x] # 0
      <3>1. groups[k].pages[x] \in silent <=> x <= groups[k].asked
        BY <1>2, <2>1 DEF AskedOf
      <3>2. /\ x \in Nat /\ (groups[k].pages[x] = Asked(k) <=> x = groups[k].asked + 1)
            /\ groups[k].pages[x] # 0
        BY <1>2
      <3> QED
        BY <1>1, <1>2, <3>1, <3>2
    <2> QED
      BY <1>2, <1>3, <2>1, <2>2, <2>3 DEF AskedOf
  <1>6. ASSUME NEW j \in DOMAIN groups, j # k PROVE AskedOf(groups[j])'
    <2>1. AskedOf(groups[j]) /\ groups'[j] = groups[j]
      BY <1>1, <1>4, <1>6
    <2>2. \A x \in DOMAIN groups[j].pages : groups[j].pages[x] # Asked(k)
      BY <1>2, <1>6
    <2> QED
      BY <1>1, <2>1, <2>2 DEF AskedOf
  <1>7. silent' \subseteq 1 .. grouped
    BY <1>1, <1>2, <1>4
  <1> QED
    BY <1>1, <1>3, <1>5, <1>6, <1>7, AskingKeeps

LEMMA CollectKeeps ==
    ASSUME DumpInv, Collect
    PROVE  DumpInv'
  <1> DEFINE last == collected + 1
             group == groups[last]
             entry == [url |-> group.url, page |-> group.taken]
  <1>1. /\ DumpTypes /\ GroupedInv /\ AskedInv /\ CollectedInv /\ RestoredInv
        /\ grouped = Len(pairs) /\ (\A k \in DOMAIN groups : Ended(k))
        /\ collected < Len(groups) /\ collected' = last
        /\ dump' = IF group.taken = 0 THEN dump ELSE Append(dump, entry)
        /\ pairs' = pairs /\ grouped' = grouped /\ groups' = groups /\ silent' = silent
        /\ restored' = restored
    BY DEF DumpInv, Collect
  <1>2. /\ Len(groups) \in Nat /\ DOMAIN groups = 1 .. Len(groups)
        /\ Len(dump) \in Nat /\ DOMAIN dump = 1 .. Len(dump)
        /\ collected \in Nat /\ \A k \in DOMAIN groups : groups[k] \in GroupSet
    BY <1>1, GroupDomains
  <1>3. /\ last \in DOMAIN groups /\ last \in 0 .. Len(groups) /\ last \in 1 .. last
        /\ \A k \in 1 .. last : k \in 1 .. collected \/ k = last
        /\ \A k \in 1 .. collected : k \in 1 .. last /\ k < last
    BY <1>1, <1>2
  <1>4. restored = {}
    <2>1. ~Dumped
      <3>1. collected < Len(groups)
        BY DEF Collect
      <3>2. collected \in Nat /\ Len(groups) \in Nat
        BY <1>2
      <3> QED
        BY <3>1, <3>2 DEF Dumped
    <2> QED
      BY <1>1, <2>1 DEF RestoredInv
  <1>5. group \in GroupSet /\ group.taken \in Nat /\ group.url \in Urls
    BY <1>2, <1>3, PageDomain
  <1>6. GroupedInv'
    BY <1>1 DEF GroupedInv, PagesOf
  <1>7. AskedInv'
    <2>1. \A k \in DOMAIN groups : Ended(k)'
      BY <1>1 DEF Ended
    <2>2. \A k \in DOMAIN groups : AskedOf(groups[k])'
      BY <1>1 DEF AskedInv, AskedOf
    <2>3. silent \subseteq 1 .. grouped
      BY <1>1 DEF AskedInv
    <2> QED
      BY <1>1, <2>1, <2>2, <2>3 DEF AskedInv
  <1>8. RestoredInv'
    BY <1>1, <1>4 DEF RestoredInv
  <1> HIDE DEF last, group
  <1>9. /\ \A k \in 1 .. collected :
              groups[k].taken # 0 => \E d \in DOMAIN dump : dump[d].page = groups[k].taken
        /\ \A d \in DOMAIN dump : \E k \in 1 .. collected :
              /\ groups[k].taken # 0
              /\ dump[d].url = groups[k].url /\ dump[d].page = groups[k].taken
        /\ \A c, d \in DOMAIN dump : c < d =>
              \E j, k \in 1 .. collected :
                 j < k /\ dump[c].url = groups[j].url /\ dump[d].url = groups[k].url
    BY <1>1 DEF CollectedInv
  <1>10. group = groups[last]
    BY DEF group
  <1>11. groups' = groups /\ collected' = last
    BY <1>1
  <1>12. CASE group.taken = 0
    <2>1. dump' = dump
      BY <1>1, <1>12
    <2>2. DumpTypes'
      BY <1>1, <1>3, <2>1 DEF DumpTypes
    <2>3. \A k \in 1 .. last :
             groups[k].taken # 0 => \E d \in DOMAIN dump : dump[d].page = groups[k].taken
      BY <1>3, <1>9, <1>10, <1>12
    <2>4. \A d \in DOMAIN dump : \E k \in 1 .. last :
             /\ groups[k].taken # 0
             /\ dump[d].url = groups[k].url /\ dump[d].page = groups[k].taken
      BY <1>3, <1>9
    <2>5. \A c, d \in DOMAIN dump : c < d =>
              \E j, k \in 1 .. last :
                 j < k /\ dump[c].url = groups[j].url /\ dump[d].url = groups[k].url
      BY <1>3, <1>9
    <2>6. CollectedInv'
      BY <1>11, <2>1, <2>3, <2>4, <2>5 DEF CollectedInv
    <2> QED
      BY <1>6, <1>7, <1>8, <2>2, <2>6 DEF DumpInv
  <1>13. CASE group.taken # 0
    <2> DEFINE n == Len(dump)
    <2>1. entry \in [url : Urls, page : Nat] /\ entry.url = group.url /\ entry.page = group.taken
      BY <1>5
    <2> HIDE DEF entry
    <2>2. dump \in Seq([url : Urls, page : Nat]) /\ dump' = Append(dump, entry)
      BY <1>1, <1>13 DEF DumpTypes
    <2>3. /\ dump' \in Seq([url : Urls, page : Nat]) /\ DOMAIN dump' = 1 .. n + 1
          /\ \A d \in 1 .. n : dump'[d] = dump[d]
          /\ dump'[n + 1] = entry
      BY <1>2, <2>1, <2>2, AppendProperties, LenProperties
    <2>4. /\ n + 1 \in 1 .. n + 1 /\ \A d \in 1 .. n : d \in 1 .. n + 1
          /\ \A d \in 1 .. n + 1 : d \in 1 .. n \/ d = n + 1
      BY <1>2
    <2>5. DumpTypes'
      BY <1>1, <1>3, <2>3 DEF DumpTypes
    <2>6. ASSUME NEW k \in 1 .. last, groups[k].taken # 0
          PROVE  \E d \in 1 .. n + 1 : dump'[d].page = groups[k].taken
      <3>1. CASE k \in 1 .. collected
        <4>1. PICK d \in 1 .. n : dump[d].page = groups[k].taken
          BY <1>2, <1>9, <2>6, <3>1
        <4> QED
          BY <2>3, <2>4, <4>1
      <3>2. CASE k = last
        BY <1>10, <2>1, <2>3, <2>4, <3>2
      <3> QED
        BY <1>3, <3>1, <3>2
    <2>7. ASSUME NEW d \in 1 .. n + 1
          PROVE  \E k \in 1 .. last :
                    /\ groups[k].taken # 0
                    /\ dump'[d].url = groups[k].url /\ dump'[d].page = groups[k].taken
      <3>1. CASE d \in 1 .. n
        <4>1. PICK k \in 1 .. collected :
                 /\ groups[k].taken # 0
                 /\ dump[d].url = groups[k].url /\ dump[d].page = groups[k].taken
          BY <1>2, <1>9, <3>1
        <4> QED
          BY <1>3, <2>3, <3>1, <4>1
      <3>2. CASE d = n + 1
        BY <1>3, <1>10, <1>13, <2>1, <2>3, <3>2
      <3> QED
        BY <2>4, <3>1, <3>2
    <2>8. ASSUME NEW c \in 1 .. n + 1, NEW d \in 1 .. n + 1, c < d
          PROVE  \E j, k \in 1 .. last :
                    j < k /\ dump'[c].url = groups[j].url /\ dump'[d].url = groups[k].url
      <3>1. c \in 1 .. n
        BY <1>2, <2>8
      <3>2. CASE d \in 1 .. n
        <4>1. PICK j \in 1 .. collected, k \in 1 .. collected :
                 j < k /\ dump[c].url = groups[j].url /\ dump[d].url = groups[k].url
          BY <1>2, <1>9, <2>8, <3>1, <3>2
        <4> QED
          BY <1>3, <2>3, <3>1, <3>2, <4>1
      <3>3. CASE d = n + 1
        <4>1. PICK j \in 1 .. collected : dump[c].url = groups[j].url
          BY <1>2, <1>9, <3>1
        <4> QED
          BY <1>3, <1>10, <2>1, <2>3, <3>1, <3>3, <4>1
      <3> QED
        BY <2>4, <3>2, <3>3
    <2>9. CollectedInv'
      <3>1. DOMAIN dump' = 1 .. n + 1
        BY <2>3
      <3>2. \A k \in 1 .. last :
               groups[k].taken # 0 => \E d \in DOMAIN dump' : dump'[d].page = groups[k].taken
        BY <2>6, <3>1
      <3>3. \A d \in DOMAIN dump' : \E k \in 1 .. last :
               /\ groups[k].taken # 0
               /\ dump'[d].url = groups[k].url /\ dump'[d].page = groups[k].taken
        BY <2>7, <3>1
      <3>4. \A c, d \in DOMAIN dump' : c < d =>
               \E j, k \in 1 .. last :
                  j < k /\ dump'[c].url = groups[j].url /\ dump'[d].url = groups[k].url
        <4>1. ASSUME NEW c \in DOMAIN dump', NEW d \in DOMAIN dump', c < d
              PROVE  \E j, k \in 1 .. last :
                        j < k /\ dump'[c].url = groups[j].url /\ dump'[d].url = groups[k].url
          <5>1. c \in 1 .. n + 1 /\ d \in 1 .. n + 1
            BY <3>1
          <5> QED
            BY <2>8, <4>1, <5>1
        <4> QED
          BY <4>1
      <3> QED
        BY <1>11, <3>2, <3>3, <3>4 DEF CollectedInv
    <2> QED
      BY <1>6, <1>7, <1>8, <2>5, <2>9 DEF DumpInv
  <1> QED
    BY <1>12, <1>13

LEMMA DumpUnchanged ==
    ASSUME DumpTypes, GroupedInv, AskedInv, CollectedInv,
           UNCHANGED <<pairs, grouped, groups, silent, collected, dump>>
    PROVE  DumpTypes' /\ GroupedInv' /\ AskedInv' /\ CollectedInv'
  <1>1. DumpTypes'
    BY DEF DumpTypes
  <1>2. GroupedInv'
    BY DEF GroupedInv, PagesOf
  <1>3. AskedInv'
    BY DEF AskedInv, AskedOf, Ended
  <1>4. CollectedInv'
    BY DEF CollectedInv
  <1> QED
    BY <1>1, <1>2, <1>3, <1>4

LEMMA RestoreOnKeeps ==
    ASSUME DumpInv, NEW url \in Urls, RestoreOn(url)
    PROVE  DumpInv'
  <1> DEFINE entries == {dump[d].page : d \in {d \in DOMAIN dump : dump[d].url = url}}
  <1>1. /\ DumpTypes /\ GroupedInv /\ AskedInv /\ CollectedInv /\ Dumped
        /\ \/ entries = {} /\ restored' = {[url |-> url, entry |-> 0]}
           \/ \E page \in entries : restored' = {[url |-> url, entry |-> page]}
        /\ UNCHANGED <<pairs, grouped, groups, silent, collected, dump>>
    BY DEF DumpInv, RestoreOn
  <1>2. DumpTypes' /\ GroupedInv' /\ AskedInv' /\ CollectedInv'
    BY <1>1, DumpUnchanged
  <1>3. Dumped' /\ dump' = dump
    BY <1>1 DEF Dumped
  <1>4. RestoredInv'
    <2>1. CASE entries = {} /\ restored' = {[url |-> url, entry |-> 0]}
      <3>1. \A d \in DOMAIN dump : dump[d].url # url
        BY <2>1
      <3> QED
        BY <1>3, <2>1, <3>1 DEF RestoredInv
    <2>2. ASSUME NEW page \in entries, restored' = {[url |-> url, entry |-> page]}
          PROVE  RestoredInv'
      <3>1. page # 0
        BY <1>1 DEF CollectedInv
      <3> QED
        BY <1>3, <2>2, <3>1 DEF RestoredInv
    <2> QED
      BY <1>1, <2>1, <2>2
  <1> QED
    BY <1>2, <1>4 DEF DumpInv

LEMMA DumpStarts == DumpInit => DumpInv
  <1> SUFFICES ASSUME DumpInit PROVE DumpInv
    OBVIOUS
  <1>1. /\ pairs \in Seq(Urls) /\ grouped = 0 /\ groups = <<>> /\ silent = {}
        /\ collected = 0 /\ dump = <<>> /\ restored = {}
    BY PairsAssumption DEF DumpInit
  <1>2. Len(pairs) \in Nat
    BY <1>1, LenProperties
  <1>3. DOMAIN groups = {} /\ DOMAIN dump = {} /\ Len(groups) = 0
        /\ groups \in Seq(GroupSet) /\ dump \in Seq([url : Urls, page : Nat])
    BY <1>1
  <1> QED
    BY <1>1, <1>2, <1>3
       DEF DumpInv, DumpTypes, GroupedInv, AskedInv, CollectedInv, RestoredInv

(* The invariant of dump_origins: the groups so far stand in the order the *)
(* registry names their URLs and hold all of their pages in its order, and *)
(* those before the cursor of a group are the ones that did not answer.    *)
THEOREM DumpInductive == DumpSpec => []DumpInv
  <1>1. DumpInit => DumpInv
    BY DumpStarts
  <1>2. DumpInv /\ [DumpNext]_dumpVars => DumpInv'
    <2> SUFFICES ASSUME DumpInv, [DumpNext]_dumpVars PROVE DumpInv'
      OBVIOUS
    <2>1. CASE Group
      BY <2>1, GroupKeeps
    <2>2. CASE Collect
      BY <2>2, CollectKeeps
    <2>3. ASSUME NEW k \in DOMAIN groups, Answer(k) \/ Refuse(k) PROVE DumpInv'
      BY <2>3, AnswerKeeps, RefuseKeeps
    <2>4. ASSUME NEW url \in Urls, RestoreOn(url) PROVE DumpInv'
      BY <2>4, RestoreOnKeeps
    <2>5. CASE UNCHANGED dumpVars
      <3>1. UNCHANGED <<pairs, grouped, groups, silent, collected, dump, restored>>
        BY <2>5 DEF dumpVars
      <3>2. DumpTypes' /\ GroupedInv' /\ AskedInv' /\ CollectedInv'
        BY <3>1, DumpUnchanged DEF DumpInv
      <3>3. RestoredInv'
        BY <3>1 DEF DumpInv, RestoredInv, Dumped
      <3> QED
        BY <3>2, <3>3 DEF DumpInv
    <2> QED
      BY <2>1, <2>2, <2>3, <2>4, <2>5 DEF DumpNext
  <1> QED
    BY <1>1, <1>2, PTL DEF DumpSpec

(* When every group is settled, the page a group's entry comes from is the *)
(* first of the URL's pages that answers.                                  *)
LEMMA FirstToAnswer ==
    ASSUME DumpInv, NEW k \in DOMAIN groups, Ended(k), grouped = Len(pairs),
           NEW i \in DOMAIN pairs, pairs[i] = groups[k].url
    PROVE  i = groups[k].taken <=>
              /\ i \notin silent
              /\ \A j \in 1 .. i - 1 : pairs[j] = pairs[i] => j \in silent
  <1> DEFINE pages == groups[k].pages
             asked == groups[k].asked
             taken == groups[k].taken
             n == Len(pages)
  <1>1. /\ DOMAIN pairs = 1 .. grouped /\ grouped \in Nat
        /\ DOMAIN pages = 1 .. n /\ n \in Nat /\ asked \in Nat /\ taken \in Nat
        /\ \A x \in 1 .. n : pages[x] \in Nat
    BY GroupDomains, PageDomain DEF DumpInv
  <1>2. /\ \A x \in 1 .. n : pages[x] \in 1 .. grouped /\ pairs[pages[x]] = pairs[i]
        /\ \A x, y \in 1 .. n : x < y => pages[x] < pages[y]
        /\ \A j \in 1 .. grouped : pairs[j] = pairs[i] => \E x \in 1 .. n : pages[x] = j
    <2>1. PagesOf(groups[k], grouped)
      BY DEF DumpInv, GroupedInv
    <2>2. DOMAIN groups[k].pages = 1 .. n /\ pairs[i] = groups[k].url
      BY <1>1
    <2> QED
      BY <2>1, <2>2 DEF PagesOf
  <1>3. /\ asked \in 0 .. n
        /\ \A x \in 1 .. n : pages[x] \in silent <=> x <= asked /\ pages[x] # taken
        /\ taken # 0 => asked # 0 /\ taken = pages[asked]
        /\ taken # 0 \/ asked = n
    BY <1>1 DEF DumpInv, AskedInv, AskedOf, Ended
  <1> HIDE DEF pages, asked, taken, n
  <1>4. PICK x \in 1 .. n : pages[x] = i
    BY <1>1, <1>2
  <1>5. \A y, z \in 1 .. n : pages[y] < pages[z] => y < z
    <2> SUFFICES ASSUME NEW y \in 1 .. n, NEW z \in 1 .. n, pages[y] < pages[z], ~(y < z)
                 PROVE  FALSE
      OBVIOUS
    <2>1. y = z \/ z < y
      BY <1>1
    <2> QED
      BY <1>1, <1>2, <2>1
  <1>6. ASSUME i = taken
        PROVE  i \notin silent /\ \A j \in 1 .. i - 1 : pairs[j] = pairs[i] => j \in silent
    <2>1. i # 0 /\ i \in 1 .. grouped
      BY <1>1
    <2>2. asked \in 1 .. n /\ pages[asked] = i
      BY <1>1, <1>3, <1>6, <2>1
    <2>3. i \notin silent
      BY <1>3, <1>6, <2>2
    <2>4. ASSUME NEW j \in 1 .. i - 1, pairs[j] = pairs[i] PROVE j \in silent
      <3>1. j \in 1 .. grouped /\ j < i
        BY <1>1, <2>1
      <3>2. PICK y \in 1 .. n : pages[y] = j
        BY <1>2, <2>4, <3>1
      <3>3. y < asked /\ pages[y] # taken
        BY <1>1, <1>5, <1>6, <2>2, <3>1, <3>2
      <3>4. y <= asked
        BY <1>1, <3>3
      <3> QED
        BY <1>3, <3>2, <3>3, <3>4
    <2> QED
      BY <2>3, <2>4
  <1>7. ASSUME i \notin silent, i # taken,
               \A j \in 1 .. i - 1 : pairs[j] = pairs[i] => j \in silent
        PROVE  FALSE
    <2>1. ~(x <= asked)
      BY <1>3, <1>4, <1>7
    <2>2. taken # 0
      BY <1>1, <1>3, <2>1
    <2>3. asked \in 1 .. n /\ taken = pages[asked] /\ asked < x
      BY <1>1, <1>3, <2>1, <2>2
    <2>4. taken \in 1 .. i - 1 /\ pairs[taken] = pairs[i]
      <3>1. pages[asked] < pages[x] /\ pages[asked] \in 1 .. grouped
        BY <1>2, <2>3
      <3> QED
        BY <1>1, <1>2, <1>4, <2>3, <3>1
    <2>5. taken \in silent
      BY <1>7, <2>4
    <2> QED
      BY <1>3, <2>3, <2>5
  <1> QED
    BY <1>6, <1>7 DEF taken

(* Whichever pages answer, and in whatever order: a capture holds each URL *)
(* once, as the first of its pages that answers has it, in the registry's  *)
(* order, and a page at that URL is given it (dump_origins,                *)
(* origins_in_order, restore_origins).                                     *)
THEOREM DumpSound == DumpSpec => []DumpsEachUrl
  <1>1. DumpInv => DumpsEachUrl
    <2> SUFFICES ASSUME DumpInv, Dumped PROVE DumpsEachUrl
      BY DEF DumpsEachUrl
    <2>1. /\ DumpTypes /\ GroupedInv /\ AskedInv /\ CollectedInv /\ RestoredInv
          /\ grouped = Len(pairs) /\ collected = Len(groups)
      BY DEF DumpInv, Dumped
    <2>2. /\ DOMAIN pairs = 1 .. grouped /\ grouped \in Nat
          /\ DOMAIN groups = 1 .. collected /\ collected \in Nat
          /\ \A k \in DOMAIN groups : groups[k] \in GroupSet
      BY <2>1, GroupDomains
    <2>3. \A k \in DOMAIN groups : Ended(k)
      <3>1. CASE collected = 0
        <4>1. \A k \in 1 .. 0 : FALSE
          OBVIOUS
        <4> QED
          BY <2>2, <3>1, <4>1
      <3>2. CASE collected # 0
        BY <2>1, <3>2 DEF AskedInv
      <3> QED
        BY <3>1, <3>2
    <2>4. \A k \in DOMAIN groups : groups[k].taken # 0 =>
             groups[k].taken \in DOMAIN pairs /\ pairs[groups[k].taken] = groups[k].url
      <3> SUFFICES ASSUME NEW k \in DOMAIN groups, groups[k].taken # 0
                   PROVE  /\ groups[k].taken \in DOMAIN pairs
                          /\ pairs[groups[k].taken] = groups[k].url
        OBVIOUS
      <3>1. /\ groups[k].asked \in 0 .. Len(groups[k].pages) /\ groups[k].asked # 0
            /\ groups[k].taken = groups[k].pages[groups[k].asked]
        BY <2>1 DEF AskedInv, AskedOf
      <3>2. Len(groups[k].pages) \in Nat /\ DOMAIN groups[k].pages = 1 .. Len(groups[k].pages)
        BY <2>2, PageDomain
      <3>3. groups[k].asked \in DOMAIN groups[k].pages
        BY <3>1, <3>2
      <3> QED
        BY <2>1, <2>2, <3>1, <3>3 DEF GroupedInv, PagesOf
    <2>5. ASSUME NEW d \in DOMAIN dump
          PROVE  /\ dump[d].page \in DOMAIN pairs /\ pairs[dump[d].page] = dump[d].url
                 /\ dump[d].page \notin silent
                 /\ \A j \in 1 .. dump[d].page - 1 :
                       pairs[j] = pairs[dump[d].page] => j \in silent
      <3>1. PICK k \in DOMAIN groups :
               /\ groups[k].taken # 0
               /\ dump[d].url = groups[k].url /\ dump[d].page = groups[k].taken
        BY <2>1, <2>2 DEF CollectedInv
      <3> QED
        BY <2>1, <2>3, <2>4, <3>1, FirstToAnswer
    <2>6. ASSUME NEW i \in DOMAIN pairs, i \notin silent,
                 \A j \in 1 .. i - 1 : pairs[j] = pairs[i] => j \in silent
          PROVE  \E d \in DOMAIN dump : dump[d].page = i
      <3>1. PICK k \in DOMAIN groups : groups[k].url = pairs[i]
        BY <2>1, <2>2 DEF GroupedInv
      <3>2. i = groups[k].taken /\ i # 0
        BY <2>1, <2>2, <2>3, <2>6, <3>1, FirstToAnswer
      <3> QED
        BY <2>1, <2>2, <3>2 DEF CollectedInv
    <2>7. ASSUME NEW c \in DOMAIN dump, NEW d \in DOMAIN dump, c < d
          PROVE  \E i \in DOMAIN pairs : /\ pairs[i] = dump[c].url
                                         /\ \A j \in 1 .. i : pairs[j] # dump[d].url
      <3>1. PICK j \in DOMAIN groups, k \in DOMAIN groups :
               j < k /\ dump[c].url = groups[j].url /\ dump[d].url = groups[k].url
        <4>1. \E j, k \in 1 .. collected :
                 j < k /\ dump[c].url = groups[j].url /\ dump[d].url = groups[k].url
          BY <2>1, <2>7 DEF CollectedInv
        <4> QED
          BY <2>2, <4>1
      <3>2. groups[j].pages[1] < groups[k].pages[1]
        BY <2>1, <3>1 DEF GroupedInv
      <3>3. PagesOf(groups[j], grouped) /\ PagesOf(groups[k], grouped)
        BY <2>1 DEF GroupedInv
      <3> DEFINE i == groups[j].pages[1]
      <3>4. i \in DOMAIN pairs /\ pairs[i] = dump[c].url
        BY <2>2, <3>1, <3>3 DEF PagesOf
      <3>5. ASSUME NEW m \in 1 .. i, pairs[m] = dump[d].url PROVE FALSE
        <4>1. m \in 1 .. grouped
          BY <2>2, <3>4
        <4>2. PICK x \in DOMAIN groups[k].pages : groups[k].pages[x] = m
          BY <3>1, <3>3, <3>5, <4>1 DEF PagesOf
        <4>3. /\ DOMAIN groups[k].pages = 1 .. Len(groups[k].pages)
              /\ Len(groups[k].pages) \in Nat /\ 1 \in DOMAIN groups[k].pages
              /\ groups[k].pages[1] \in Nat
          BY <2>2, <3>3, PageDomain DEF PagesOf
        <4>4. x = 1 \/ 1 < x
          BY <4>2, <4>3
        <4>5. x = 1 \/ groups[k].pages[1] < groups[k].pages[x]
          BY <3>3, <4>2, <4>3, <4>4 DEF PagesOf
        <4>6. i \in Nat /\ m \in Nat /\ m <= i
          BY <2>2, <3>4
        <4> QED
          BY <3>2, <4>2, <4>3, <4>5, <4>6
      <3> QED
        BY <3>4, <3>5
    <2>8. \A r \in restored : r.entry = 0 => \A d \in DOMAIN dump : dump[d].url # r.url
      BY <2>1 DEF RestoredInv
    <2>9. {dump[d].page : d \in DOMAIN dump} =
             {i \in DOMAIN pairs : /\ i \notin silent
                                   /\ \A j \in 1 .. i - 1 : pairs[j] = pairs[i] => j \in silent}
      BY <2>5, <2>6
    <2> QED
      BY <2>5, <2>7, <2>8, <2>9 DEF DumpsEachUrl
  <1> QED
    BY <1>1, DumpInductive, PTL
=================================================================================
