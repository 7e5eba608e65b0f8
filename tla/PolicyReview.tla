----------------------------- MODULE PolicyReview -----------------------------
(***************************************************************************)
(* The rule set (crates/policy/src/rules.rs): the first rule that matches  *)
(* an operation's class and its canonical URL speaks, then the default.    *)
(* A pattern stands as the set of canonical URLs it matches; NoUrl is in   *)
(* that set when it matches the empty text, as the catch-all * does.       *)
(***************************************************************************)
EXTENDS Integers, Sequences

CONSTANTS
    Raw,      \* URLs as an agent or a page spells them
    NoUrl,    \* no usable URL
    Canon,    \* canonical_url, of each spelling and of NoUrl
    Rules,    \* RuleSet::rules
    Default   \* RuleSet::default_verdict

Urls     == {Canon[r] : r \in Raw} \ {NoUrl}
Classes  == {"navigation", "pointer", "cookies"}
Verdicts == {"allow", "deny", "require_approval"}

ASSUME RuleAssumption ==
    /\ NoUrl \notin Raw
    /\ DOMAIN Canon = Raw \cup {NoUrl} /\ Canon[NoUrl] = NoUrl
    /\ Rules \in Seq([class : Classes \cup {"any"}, urls : SUBSET (Urls \cup {NoUrl}),
                      verdict : Verdicts])
    /\ Default \in Verdicts

\* an approval effect: a navigation carries its target, the others none
Effects == [kind : {"navigation"}, target : Raw]
           \cup [kind : {"pointer", "cookies"}, target : {NoUrl}]
-------------------------------------------------------------------------------
Matching(class, url) ==
    {i \in DOMAIN Rules : Rules[i].class \in {class, "any"} /\ url \in Rules[i].urls}

Judge(class, url) ==
    IF Matching(class, url) = {} THEN Default
    ELSE LET first == CHOOSE i \in Matching(class, url) :
                        \A j \in Matching(class, url) : i <= j
         IN  Rules[first].verdict

\* the target inside the effect wins over the URL the caller pairs with it
JudgedUrl(effect, raw) ==
    Canon[IF effect.kind = "navigation" THEN effect.target ELSE raw]

\* mutant: a missing URL is judged like any other
ReviewOpen(effect, raw) == Judge(effect.kind, JudgedUrl(effect, raw))

\* an allow on no usable URL is upgraded: it fails closed
Review(effect, raw) ==
    LET url     == JudgedUrl(effect, raw)
        verdict == Judge(effect.kind, url)
    IN  IF url = NoUrl /\ verdict = "allow" THEN "require_approval" ELSE verdict
===============================================================================
