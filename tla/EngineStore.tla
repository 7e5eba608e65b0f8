------------------------------ MODULE EngineStore ------------------------------
(***************************************************************************)
(* The engine binary cache (crates/engine/src/download).  Callers in       *)
(* several rutter processes run ensure() on one cache directory: look for  *)
(* an installed version, fetch the manifest, look again, download the      *)
(* archive, extract it entry by entry into a staging directory of their    *)
(* own and rename that into place.  A process may die at any step and its  *)
(* pid may come back; the vendor publishes new versions meanwhile.         *)
(***************************************************************************)
EXTENDS Integers, FiniteSets

CONSTANTS
    Callers,      \* concurrent ensure() calls
    Processes,    \* process ids
    Files,        \* the entries of a complete archive
    Binary,       \* the one that is launched
    Versions,     \* what the manifest may name; 0 does not parse
    MaxAttempts,  \* MAX_ATTEMPTS, 3 in the program
    MaxStagings,  \* bound: staging directories a process ever makes
    MaxDeaths     \* bound: processes that die

ASSUME StoreAssumption ==
    /\ IsFiniteSet(Callers) /\ Binary \in Files
    /\ Versions \subseteq Nat /\ 0 \in Versions /\ MaxAttempts \in Nat \ {0}
    /\ MaxStagings \in Nat /\ MaxDeaths \in Nat
    \* so that the bound on staging directories is never met
    /\ Cardinality(Callers) <= MaxStagings

VARIABLES
    home,      \* home[c]: the process caller c runs in
    stable,    \* the Stable version of the manifest just now
    dirs,      \* dirs[v]: the directory of version v
    staging,   \* staging[v, p, n]: the directory .tmp-v-p-n
    attempt,   \* STAGING_ATTEMPT of each process
    caller,    \* the callers
    deaths

vars == <<home, stable, dirs, staging, attempt, caller, deaths>>

(* A directory is Absent, or tells of each file whether it is missing,     *)
(* created but not all written, or whole.                                  *)
Absent    == [f \in Files |-> "gone"]
Empty     == [f \in Files |-> "none"]
Contents  == [Files -> {"none", "torn", "whole"}] \cup {Absent}
IsFile(d) == d[Binary] \in {"torn", "whole"}

Names == Versions \X Processes \X (0 .. MaxStagings - 1)
Idle  == [at |-> "idle", tries |-> 0, version |-> 0, name |-> <<0, 0, 0>>,
          left |-> {}, file |-> Binary, found |-> FALSE]

Init ==
    /\ home \in [Callers -> Processes]
    /\ stable \in Versions
    /\ dirs = [v \in Versions |-> Absent]
    /\ staging = [n \in Names |-> Absent]
    /\ attempt = [p \in Processes |-> 0]
    /\ caller = [c \in Callers |-> Idle]
    /\ deaths = 0

\* caller c goes on to step at
Go(c, at) == caller' = [caller EXCEPT ![c].at = at]
\* its ensure() returns
End(c, at) == caller' = [caller EXCEPT ![c] = [Idle EXCEPT !.at = at,
                  !.version = IF at = "ready" THEN caller[c].version ELSE 0]]
Quiet     == UNCHANGED <<home, stable, dirs, staging, attempt, deaths>>

(* The download's source: a newer version becomes the stable one.          *)
Publish ==
    /\ \E v \in Versions : v > stable /\ stable' = v
    /\ UNCHANGED <<home, dirs, staging, attempt, caller, deaths>>
-------------------------------------------------------------------------------
(* ensure *)

\* EngineStore::installed: versions that do not parse and staging
\* directories are passed over
Launchable == {v \in Versions : v > 0 /\ IsFile(dirs[v])}
Newest(v)  == v \in Launchable /\ \A u \in Launchable : u <= v

\* an explicit executable is taken or refused, the cache stays aside
Explicit(c) ==
    /\ caller[c].at = "idle"
    /\ \/ End(c, "external")
       \/ End(c, "failed")
    /\ Quiet

Lookup(c) ==
    /\ caller[c].at = "idle"
    /\ \/ Launchable = {} /\ Go(c, "manifest")
       \/ \E v \in Versions :
             /\ Newest(v)
             /\ caller' = [caller EXCEPT ![c].at = "ready", ![c].version = v]
    /\ Quiet

\* fetch_with_budget: a transport or server error uses up an attempt
FetchAgain(c) ==
    /\ caller[c].at \in {"manifest", "zip"}
    /\ IF caller[c].tries + 1 < MaxAttempts
       THEN caller' = [caller EXCEPT ![c].tries = @ + 1]
       ELSE End(c, "failed")
    /\ Quiet

\* a client error or an answer over the cap is final, and so is a
\* manifest that does not parse (fetch_json, parse_stable_artifact)
FetchFinal(c) ==
    /\ caller[c].at \in {"manifest", "zip"}
    /\ End(c, "failed")
    /\ Quiet

\* the manifest, and the second look at the cache behind it
Manifest(c) ==
    /\ caller[c].at = "manifest"
    /\ caller' = [caller EXCEPT ![c].at = IF Newest(stable) THEN "ready" ELSE "zip",
                                ![c].version = stable, ![c].tries = 0]
    /\ Quiet

\* fetch_bytes: whatever the server holds under that name
Download(c) ==
    /\ caller[c].at = "zip"
    /\ \E archive \in {Files, Files \ {Binary}} :
          caller' = [caller EXCEPT ![c].at = "install", ![c].left = archive]
    /\ Quiet
-------------------------------------------------------------------------------
(* EngineStore::install *)

\* the process id alone names the staging directory (a mutant of NameOf)
SharedName(v, p) == <<v, p, 0>>

NameOf(v, p) == <<v, p, attempt[p]>>

\* a version that is no number is refused, one already there is taken
Reuse(c) ==
    /\ caller[c].at = "install"
    /\ caller[c].version = 0 \/ IsFile(dirs[caller[c].version])
    /\ End(c, IF caller[c].version = 0 THEN "failed" ELSE "ready")
    /\ Quiet

\* create_dir_all keeps what a dead process of this pid left there
Stage(c) ==
    LET p == home[c]
        v == caller[c].version
        n == NameOf(v, p)
    IN /\ caller[c].at = "install" /\ v > 0 /\ ~IsFile(dirs[v])
       /\ attempt[p] < MaxStagings
       /\ attempt' = [attempt EXCEPT ![p] = @ + 1]
       /\ staging' = [staging EXCEPT ![n] = IF @ = Absent THEN Empty ELSE @]
       /\ caller' = [caller EXCEPT ![c].at = "extract", ![c].name = n]
       /\ UNCHANGED <<home, stable, dirs, deaths>>

\* extraction straight into the final directory (a mutant of Put)
PutInPlace(c, f, state) ==
    /\ dirs' = [dirs EXCEPT ![caller[c].version] = [(IF @ = Absent THEN Empty ELSE @)
                                                       EXCEPT ![f] = state]]
    /\ UNCHANGED staging

\* a write to a staging directory that is gone makes no file
Put(c, f, state) ==
    /\ staging' = [staging EXCEPT ![caller[c].name] =
                      IF @ = Absent THEN @ ELSE [@ EXCEPT ![f] = state]]
    /\ UNCHANGED dirs

\* fs::write of the next entry, begun
Open(c) ==
    /\ caller[c].at = "extract"
    /\ \E f \in caller[c].left :
          /\ Put(c, f, "torn")
          /\ caller' = [caller EXCEPT ![c].at = "write", ![c].left = @ \ {f},
                                      ![c].file = f]
    /\ UNCHANGED <<home, stable, attempt, deaths>>

\* and done.  A write without its directory is an error
Wrote(c) ==
    /\ caller[c].at = "write"
    /\ Put(c, caller[c].file, "whole")
    /\ caller' = [caller EXCEPT
          ![c].at = IF staging[caller[c].name] = Absent THEN "cleanup" ELSE "extract",
          ![c].found = @ \/ caller[c].file = Binary]
    /\ UNCHANGED <<home, stable, attempt, deaths>>

\* the archive is unreadable, its next entry hostile or over a cap, or
\* the disk refuses
Refuse(c) ==
    /\ caller[c].at \in {"extract", "write"}
    /\ Go(c, "cleanup")
    /\ Quiet

\* all entries are written: the binary was among them, or the install fails
Extracted(c) ==
    /\ caller[c].at = "extract" /\ caller[c].left = {}
    /\ Go(c, IF caller[c].found THEN "rename" ELSE "cleanup")
    /\ Quiet

\* the error path without its remove_dir_all (a mutant of Cleanup)
CleanupNothing(c) ==
    /\ caller[c].at = "cleanup"
    /\ End(c, "failed")
    /\ Quiet

\* The code drops an error of this remove_dir_all; one that itself fails leaves
\* the directory as the death of its process does, which Die has, and is left out.
Cleanup(c) ==
    /\ caller[c].at = "cleanup"
    /\ staging' = [staging EXCEPT ![caller[c].name] = Absent]
    /\ End(c, "failed")
    /\ UNCHANGED <<home, stable, dirs, attempt, deaths>>

\* fs::rename onto a name nobody has taken
Rename(c) ==
    LET v == caller[c].version
        n == caller[c].name
    IN /\ caller[c].at = "rename"
       /\ dirs[v] = Absent /\ staging[n] # Absent
       /\ dirs' = [dirs EXCEPT ![v] = staging[n]]
       /\ staging' = [staging EXCEPT ![n] = Absent]
       /\ End(c, "ready")
       /\ UNCHANGED <<home, stable, attempt, deaths>>

\* a failed rename taken for a lost race (a mutant of Beaten)
BeatenReady(c) ==
    /\ caller[c].at = "rename"
    /\ staging' = [staging EXCEPT ![caller[c].name] = Absent]
    /\ End(c, "ready")
    /\ UNCHANGED <<home, stable, dirs, attempt, deaths>>

\* the rename fails, mostly because another install won; its copy will do
Beaten(c) ==
    /\ caller[c].at = "rename"
    /\ staging' = [staging EXCEPT ![caller[c].name] = Absent]
    /\ End(c, IF IsFile(dirs[caller[c].version]) THEN "ready" ELSE "failed")
    /\ UNCHANGED <<home, stable, dirs, attempt, deaths>>
-------------------------------------------------------------------------------
(* A process dies with all its callers; a later one may get its pid.       *)
Die(p) ==
    /\ deaths < MaxDeaths
    /\ \E c \in Callers : home[c] = p /\ caller[c].at # "idle"
    /\ deaths' = deaths + 1
    /\ attempt' = [attempt EXCEPT ![p] = 0]
    /\ caller' = [c \in Callers |-> IF home[c] = p THEN Idle ELSE caller[c]]
    /\ UNCHANGED <<home, stable, dirs, staging>>

Ensure(c) ==
    \/ Explicit(c) \/ Lookup(c) \/ FetchAgain(c) \/ FetchFinal(c) \/ Manifest(c)
    \/ Download(c) \/ Reuse(c) \/ Stage(c) \/ Open(c) \/ Wrote(c) \/ Refuse(c)
    \/ Extracted(c) \/ Cleanup(c) \/ Rename(c) \/ Beaten(c)

Next ==
    \/ Publish
    \/ \E c \in Callers : Ensure(c)
    \/ \E p \in Processes : Die(p)

Spec == Init /\ [][Next]_vars
-------------------------------------------------------------------------------
Settled == {"ready", "external", "failed"}

(* Every part of the state has its type (download/store.rs).               *)
TypeOK ==
    /\ home \in [Callers -> Processes] /\ stable \in Versions /\ deaths \in 0 .. MaxDeaths
    /\ dirs \in [Versions -> Contents] /\ staging \in [Names -> Contents]
    /\ attempt \in [Processes -> 0 .. MaxStagings]
    /\ \A c \in Callers :
          /\ caller[c].at \in Settled \cup {"idle", "manifest", "zip", "install",
                                            "extract", "write", "cleanup", "rename"}
          /\ caller[c].tries \in 0 .. MaxAttempts - 1 /\ caller[c].version \in Versions
          /\ caller[c].left \subseteq Files /\ caller[c].file \in Files

(* store.rs: "renamed into place on success so a crash never leaves a      *)
(* half-extracted version visible": whichever installs race and whoever    *)
(* dies, a version another process can find holds every file whole, and a  *)
(* caller that was told of an engine finds one.                            *)
VisibleWhole ==
    /\ \A v \in Versions : dirs[v] = Absent \/ \A f \in Files : dirs[v][f] = "whole"
    /\ \A c \in Callers : caller[c].at = "ready" => IsFile(dirs[caller[c].version])

(* No install leaves a staging directory behind: each one that exists is   *)
(* some caller's in flight, of that caller alone, unless a process died    *)
(* (the remove_dir_all of every error path of install, when it succeeds).  *)
Working(n) == {c \in Callers : caller[c].at \in {"extract", "write", "rename", "cleanup"}
                               /\ caller[c].name = n}
StagingOwned ==
    \A n \in Names : Cardinality(Working(n)) <= 1
                     /\ (staging[n] # Absent /\ deaths = 0 => Working(n) # {})

(* Whatever races and whoever dies, what a version holds is whole, who is  *)
(* told of an engine finds one, and staging directories do not pile up     *)
(* (store.rs, install).                                                    *)
InstallsWhole == TypeOK /\ VisibleWhole /\ StagingOwned
===============================================================================
