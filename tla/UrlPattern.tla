----------------------------- MODULE UrlPattern -----------------------------
(***************************************************************************)
(* crates/policy/src/pattern.rs: URL patterns.  A pattern and a URL are     *)
(* sequences of bytes; "*" is the wildcard, "/" the slash that anchors an   *)
(* authority and ":" stands for the whole "://" after a scheme.             *)
(***************************************************************************)
EXTENDS Integers, Sequences, FiniteSetsExt

SchemeEnd == ":"

\* The first position of byte b in s, 0 when there is none (str::find).
Find(s, b) ==
    LET at == {i \in DOMAIN s : s[i] = b} IN IF at = {} THEN 0 ELSE Min(at)

\* The first star of the authority, 0 when there is none or no scheme.
AuthorityStar(pattern) ==
    LET scheme == Find(pattern, SchemeEnd)
        stars  == {i \in DOMAIN pattern : /\ i > scheme /\ pattern[i] = "*"
                                         /\ \A j \in scheme + 1 .. i : pattern[j] # "/"}
    IN IF scheme = 0 \/ stars = {} THEN 0 ELSE Min(stars)

UnanchoredAuthorityWildcard(pattern) ==
    LET star == AuthorityStar(pattern)
    IN  star # 0 /\ \A i \in DOMAIN pattern : i > star => pattern[i] # "/"

\* Mutant: only blank patterns are refused.
ParsesUnlessBlank(pattern) == pattern # <<>>

\* Pattern::parse accepts it (no spaces among these bytes: blank is empty).
Parses(pattern) == pattern # <<>> /\ ~UnanchoredAuthorityWildcard(pattern)

\* Mutant: a mismatch goes on from where the text is, not from the star's run.
AdvanceOnward(pattern, text, m) ==
    IF m.p =< Len(pattern) /\ pattern[m.p] = "*"
    THEN [m EXCEPT !.star = m.p, !.p = @ + 1]
    ELSE IF m.p =< Len(pattern) /\ pattern[m.p] = text[m.t]
    THEN [m EXCEPT !.p = @ + 1, !.t = @ + 1]
    ELSE IF m.star # 0 THEN [m EXCEPT !.p = m.star + 1, !.t = @ + 1]
    ELSE [m EXCEPT !.failed = TRUE]

\* byte takes the text from position a up to before b
Takes(byte, text, a, b) ==
    IF byte = "*" THEN a <= b
    ELSE a <= Len(text) /\ text[a] = byte /\ b = a + 1

\* Pattern::matches: the pattern cuts the whole text into what each of its
\* bytes takes (WildcardLoop is the loop that decides it)
WildcardMatch(pattern, text) ==
    \E cut \in [1 .. Len(pattern) + 1 -> 1 .. Len(text) + 1] :
        /\ cut[1] = 1 /\ cut[Len(pattern) + 1] = Len(text) + 1
        /\ \A i \in DOMAIN pattern : Takes(pattern[i], text, cut[i], cut[i + 1])

\* wildcard_match: two cursors, and the last star to come back to; positions
\* start at 1, star 0 is none
Start == [p |-> 1, t |-> 1, star |-> 0, starText |-> 1, failed |-> FALSE]

\* one turn of its loop
Advance(pattern, text, m) ==
    IF m.p =< Len(pattern) /\ pattern[m.p] = "*"
    THEN [m EXCEPT !.star = m.p, !.starText = m.t, !.p = @ + 1]
    ELSE IF m.p =< Len(pattern) /\ pattern[m.p] = text[m.t]
    THEN [m EXCEPT !.p = @ + 1, !.t = @ + 1]
    ELSE IF m.star # 0
    THEN [m EXCEPT !.p = m.star + 1, !.starText = @ + 1, !.t = m.starText + 1]
    ELSE [m EXCEPT !.failed = TRUE]
=============================================================================
