---------------------------- MODULE PolicyInputs ----------------------------
(***************************************************************************)
(* What a policy file means (crates/policy/src/config.rs, pattern.rs): its  *)
(* entries decide a class and a URL, and a pattern the loop of wildcard_    *)
(* match runs decides a text.  A file is read once and does not change.     *)
(***************************************************************************)
EXTENDS WildcardLoop, PolicyConfig

CONSTANT Files

ConfigAssumption ==
    /\ DefaultTimeout \in 1 .. MAX_APPROVAL_TIMEOUT_MS
    /\ Omitted \notin ClassNames \cup VerdictNames
    /\ \A file \in Files : DOMAIN file.rules \subseteq Nat

VARIABLE toml

policyVars == <<matchVars, toml>>

PolicyInit == MatchInit /\ toml \in Files
PolicyNext == MatchNext /\ UNCHANGED toml
PolicySpec == PolicyInit /\ [][PolicyNext]_policyVars
---------------------------------------------------------------------------
\* entry i, as the file has it written, is about this class and this URL; a
\* key the reader does not know says nothing
Speaks(i, class, url) ==
    LET entry == toml.rules[i] IN
    /\ "class" \in entry.misspelled \/ entry.class \in {Omitted, class}
    /\ \/ "pattern" \in entry.misspelled \/ entry.pattern = Omitted
       \/ entry.pattern # <<>> /\ WildcardMatch(entry.pattern, url)

(* A file that is accepted decides a class and a URL by the first entry     *)
(* that writes them: no broken class, pattern or verdict ever widens an     *)
(* entry, and each says one of class and pattern (a misspelled key does     *)
(* widen it); the window it opens is one that can be answered in            *)
(* (config.rs, parse_policy).                                               *)
FileSpeaks ==
    Accepted(Read(toml)) =>
        LET ruleset == RuleSetOf(Read(toml))
            entries == DOMAIN Read(toml).rules
        IN
        /\ ruleset.timeout \in 1 .. MAX_APPROVAL_TIMEOUT_MS
        /\ \A class \in ClassNames, url \in Texts :
              LET speaking == {i \in entries : Speaks(i, class, url)}
                  decided  == Evaluate(ruleset, class, url)
              IN  IF speaking = {} THEN decided = ruleset.default
                  ELSE \E i \in speaking : /\ decided = toml.rules[i].verdict
                                           /\ \A j \in speaking : i <= j
        /\ \A i \in entries :
              Read(toml).rules[i].class = Omitted => Read(toml).rules[i].pattern # Omitted

(* What is written under a known key is what is decided: the entries of a   *)
(* file, the bytes of a pattern, and the slash that keeps a star inside the *)
(* authority.                                                               *)
PolicyMeans == FileSpeaks /\ LoopMeans /\ Anchored
=============================================================================
