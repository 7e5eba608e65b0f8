---------------------------- MODULE WildcardLoop ----------------------------
(***************************************************************************)
(* crates/policy/src/pattern.rs, wildcard_match: the loop that decides      *)
(* whether a pattern matches a URL, one turn a step, for a pattern and a    *)
(* text that do not change.  It keeps only the last star to come back to.   *)
(***************************************************************************)
EXTENDS UrlPattern

CONSTANTS Bytes, Patterns, Texts

InputsAreBytes == Patterns \subseteq Seq(Bytes) /\ Texts \subseteq Seq(Bytes)

VARIABLES
    pattern, text,
    loop,     \* p, t, star and star_t, and whether it gave up (see Advance)
    answer    \* "none" until it returns

matchVars == <<pattern, text, loop, answer>>

MatchInit ==
    /\ pattern \in Patterns /\ text \in Texts
    /\ loop = Start /\ answer = "none"

AtStar == loop.p <= Len(pattern) /\ pattern[loop.p] = "*"

\* while text is left
Turn ==
    /\ answer = "none" /\ loop.t <= Len(text)
    /\ loop' = Advance(pattern, text, loop)
    /\ answer' = IF loop'.failed THEN "no" ELSE "none"

\* the stars after the text's end take nothing
SkipStar ==
    /\ answer = "none" /\ loop.t > Len(text) /\ AtStar
    /\ loop' = [loop EXCEPT !.p = @ + 1]
    /\ UNCHANGED answer

Return ==
    /\ answer = "none" /\ loop.t > Len(text) /\ ~AtStar
    /\ answer' = IF loop.p > Len(pattern) THEN "yes" ELSE "no"
    /\ UNCHANGED loop

MatchNext == (Turn \/ SkipStar \/ Return) /\ UNCHANGED <<pattern, text>>

MatchSpec == MatchInit /\ [][MatchNext]_matchVars
---------------------------------------------------------------------------
(* What the loop answers is what the wildcard means: a pattern matches when *)
(* the text can be cut into one run for every star and one equal byte for   *)
(* every other byte.  Coming back only to the last star loses no match      *)
(* (wildcard_match).                                                        *)
LoopMeans ==
    /\ answer = "yes" => WildcardMatch(pattern, text)
    /\ answer = "no" => ~WildcardMatch(pattern, text)

(* A pattern that parses and has a star in its authority matches no URL     *)
(* that ends inside the authority (Pattern::parse).                         *)
Anchored ==
    answer = "yes" /\ Parses(pattern) /\ AuthorityStar(pattern) # 0 =>
        LET scheme == Find(text, SchemeEnd)
        IN  scheme # 0 /\ \E i \in scheme + 1 .. Len(text) : text[i] = "/"

(* Every turn moves the last star, or else what it takes, or else the       *)
(* pattern's cursor, and never back: no input keeps the loop turning.       *)
LoopAdvances ==
    [][\/ answer' # "none"
       \/ loop'.star > loop.star
       \/ /\ loop'.star = loop.star
          /\ \/ loop'.starText > loop.starText
             \/ loop'.starText = loop.starText /\ loop'.p > loop.p]_<<loop, answer>>
=============================================================================
