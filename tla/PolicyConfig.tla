---------------------------- MODULE PolicyConfig ----------------------------
(***************************************************************************)
(* crates/policy/src/config.rs: a policy file becomes a rule set, or is     *)
(* refused as a whole.  An entry that leaves its class or its pattern out   *)
(* speaks of every class or every URL, so a broken one must never read as   *)
(* one that was left out.  A key the reader does not know is ignored: what  *)
(* is written under it does read as left out.                               *)
(***************************************************************************)
EXTENDS UrlPattern

CONSTANTS Omitted,                   \* a key the file does not have
          MAX_APPROVAL_TIMEOUT_MS, DefaultTimeout

ClassNames == {"navigation", "pointer", "keyboard", "selection", "file_upload", "scroll",
               "cookies"}
VerdictNames == {"allow", "deny", "require_approval"}

\* PolicyConfig and ConfigRule as serde fills them (no deny_unknown_fields):
\* misspelled names the keys a table has under a name of nobody's
Key(table, name) == IF name \in table.misspelled THEN Omitted ELSE table[name]

Read(file) ==
    [default |-> Key(file, "default"), timeout |-> Key(file, "timeout"),
     rules |-> IF "rules" \in file.misspelled THEN <<>>
               ELSE [i \in DOMAIN file.rules |->
                       [class |-> Key(file.rules[i], "class"),
                        pattern |-> Key(file.rules[i], "pattern"),
                        verdict |-> Key(file.rules[i], "verdict")]]]

\* the None of a PolicyRule: every class, every URL
Every == Omitted

RulePattern(entry) == IF entry.pattern = Omitted THEN Every ELSE entry.pattern

\* Mutant: only the names of an entry are checked.
NamesParse(entry) ==
    entry.verdict \in VerdictNames /\ entry.class \in ClassNames \cup {Omitted}

EntryParses(entry) ==
    /\ entry.verdict \in VerdictNames
    /\ entry.class \in ClassNames \cup {Omitted}
    /\ entry.class # Omitted \/ entry.pattern # Omitted
    /\ entry.pattern # Omitted => Parses(entry.pattern)

\* a zero window answers nothing, a window past a day overflows the clock
TimeoutParses(ms) == ms = Omitted \/ ms \in 1 .. MAX_APPROVAL_TIMEOUT_MS

Accepted(config) ==
    /\ config.default \in VerdictNames \cup {Omitted}
    /\ \A i \in DOMAIN config.rules : EntryParses(config.rules[i])
    /\ TimeoutParses(config.timeout)

\* parse_policy of a file that is accepted
RuleSetOf(config) ==
    [rules |-> [i \in DOMAIN config.rules |->
                   [class |-> config.rules[i].class, pattern |-> RulePattern(config.rules[i]),
                    verdict |-> config.rules[i].verdict]],
     default |-> IF config.default = Omitted THEN "allow" ELSE config.default,
     timeout |-> IF config.timeout = Omitted THEN DefaultTimeout ELSE config.timeout]

\* RuleSet::evaluate: the first rule in document order that matches
Evaluate(ruleset, class, url) ==
    LET matching == {i \in DOMAIN ruleset.rules :
                        LET rule == ruleset.rules[i] IN
                        /\ rule.class \in {class, Every}
                        /\ rule.pattern = Every \/ WildcardMatch(rule.pattern, url)}
    IN  IF matching = {} THEN ruleset.default ELSE ruleset.rules[Min(matching)].verdict
=============================================================================
