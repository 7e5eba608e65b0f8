---------------------------- MODULE SnapshotTree ----------------------------
(***************************************************************************)
(* crates/observe: from the tree the page's serializer reports to the      *)
(* snapshot an agent reads.  The builder accepts any JSON, cuts it to a    *)
(* depth, folds runs of nameless siblings and then spends a budget of      *)
(* rendered characters in document order, carrying the size of each        *)
(* subtree along so that nothing is measured twice.                        *)
(*                                                                         *)
(* An input node is a record: shape ("object", "scalar" for a value that   *)
(* is no object, "odd" for children that are no list), role, name (a       *)
(* sequence of characters, "q" a double quote, empty: none), ref (0: none),*)
(* y, height, children, and two sets of fields: wrong, those whose value   *)
(* is no string, and long, the role and the reference beyond their clamps. *)
(* The marks [checked] and [disabled] and the value, which no rule looks   *)
(* at, are left out; all roles render RoleChars characters.                *)
(***************************************************************************)
EXTENDS Integers, Sequences, SequencesExt, FiniteSetsExt

CONSTANTS MAX_DEPTH, MAX_NODES,      \* hard limits on what is read at all
          BUDGET_DEPTH, FOLD_RUN_MIN, FOLD_SIZE_MIN_CHARS,
          DEFAULT_BUDGET_CHARS, MAX_TEXT_CHARS, VIEWPORT_MARGIN_PX,
          RoleChars, RefChars        \* rendered width of a role, of a reference

NoViewport == -1000                  \* the serializer reported no viewport height

LeafRaw(role) == [role |-> role, name |-> <<>>, ref |-> 0, folded |-> 0,
                  y |-> 0, height |-> 0, size |-> 0, children |-> <<>>]

InViewport(viewport, node) ==
    \/ viewport = NoViewport
    \/ /\ node.y =< viewport + VIEWPORT_MARGIN_PX
       /\ node.y + node.height >= -VIEWPORT_MARGIN_PX

Digits(n) == CHOOSE d \in 1..9 : n < 10^d /\ (d = 1 \/ n >= 10^(d - 1))

\* Characters of a node's line: indent, "- ", role, name, reference, fold mark.
LineLen(node, depth) ==
    LET quotes == Len(SelectSeq(node.name, LAMBDA c : c = "q"))
    IN  2 * depth + 2 + RoleChars + 1
        + (IF node.name = <<>> THEN 0 ELSE 3 + Len(node.name) + quotes)
        + (IF node.ref = 0 THEN 0 ELSE 7 + RefChars)
        + (IF node.folded = 0 THEN 0 ELSE 3 + Digits(node.folded))

RECURSIVE CountNodes(_)
CountNodes(node) == 1 + FoldLeft(LAMBDA n, c : n + CountNodes(c), 0, node.children)

---------------------------------------------------------------------------
(* Each pass answers [node, lost]; Convert also threads how many nodes it   *)
(* has read.                                                                *)

Clamp(name) == SubSeq(name, 1, Min({Len(name), MAX_TEXT_CHARS}))

\* string_field: a value that is no string reads as if the field were not there
RoleOf(value) == IF "role" \in value.wrong THEN "generic" ELSE value.role
NameOf(value) == IF "name" \in value.wrong THEN <<>> ELSE value.name
RefOf(value)  == IF "ref" \in value.wrong THEN 0 ELSE value.ref

\* a clamped reference: none that the page knows
CutRef == -1

\* mutant: only an overlong text is flagged
OverlongText(value) == Len(NameOf(value)) > MAX_TEXT_CHARS

\* clamp_string, which flags what it cuts
Overlong(value) == Len(NameOf(value)) > MAX_TEXT_CHARS \/ value.long # {}

RECURSIVE Convert(_, _, _)
Convert(value, depth, read) ==
    LET own == [LeafRaw(RoleOf(value)) EXCEPT
                  !.name = Clamp(NameOf(value)),
                  !.ref = IF "ref" \in value.long THEN CutRef ELSE RefOf(value),
                  !.y = value.y, !.height = value.height]
        Child(acc, item) ==
            IF acc.read >= MAX_NODES THEN [acc EXCEPT !.lost = TRUE]
            ELSE LET c == Convert(item, depth + 1, acc.read)
                 IN  [node |-> [acc.node EXCEPT !.children = Append(@, c.node)],
                      lost |-> acc.lost \/ c.lost, read |-> c.read]
        start == [node |-> own, read |-> read + 1,
                  lost |-> Overlong(value) \/ value.shape = "odd"]
    IN  IF value.shape = "scalar"
        THEN [node |-> LeafRaw("generic"), lost |-> TRUE, read |-> read + 1]
        ELSE IF depth >= MAX_DEPTH
        THEN [node |-> LeafRaw(RoleOf(value)), lost |-> TRUE, read |-> read + 1]
        ELSE IF value.shape = "odd" THEN start
        ELSE FoldLeft(Child, start, value.children)

RECURSIVE CutDepth(_, _)
CutDepth(node, max) ==
    IF max = 0
    THEN [node |-> [node EXCEPT !.children = <<>>], lost |-> node.children # <<>>]
    ELSE LET cut == [i \in DOMAIN node.children |-> CutDepth(node.children[i], max - 1)]
         IN  [node |-> [node EXCEPT !.children = [i \in DOMAIN cut |-> cut[i].node]],
              lost |-> \E i \in DOMAIN cut : cut[i].lost]

Foldable(node) == node.name = <<>> /\ node.ref = 0

\* Mutants: the fold of a run is not told; a run is put before what precedes it.
FlushRunSilent(acc) ==
    IF Len(acc.run) >= FOLD_RUN_MIN
    THEN [acc EXCEPT !.run = <<>>,
            !.out = Append(@, [LeafRaw(acc.run[1].role) EXCEPT !.folded = Len(acc.run)])]
    ELSE [acc EXCEPT !.out = @ \o acc.run, !.run = <<>>]
FlushRunInFront(acc) ==
    [acc EXCEPT !.out = acc.run \o acc.out, !.run = <<>>]

\* acc.run holds the siblings that may still become one summary line.
FlushRun(acc) ==
    IF Len(acc.run) >= FOLD_RUN_MIN
    THEN LET head == acc.run[1]
             summary == [LeafRaw(head.role) EXCEPT
                           !.y = head.y, !.folded = Len(acc.run),
                           !.height = Max({acc.run[i].height : i \in DOMAIN acc.run} \cup {0})]
         IN  [out |-> Append(acc.out, summary), run |-> <<>>, lost |-> TRUE]
    ELSE [acc EXCEPT !.out = @ \o acc.run, !.run = <<>>]

RECURSIVE FoldSiblingRuns(_)
FoldSiblingRuns(node) ==
    LET Take(acc, child) ==
            LET c == FoldSiblingRuns(child)
                joins == /\ Foldable(c.node) /\ acc.run # <<>>
                         /\ Last(acc.run).role = c.node.role
                a == [(IF joins THEN acc ELSE FlushRun(acc)) EXCEPT !.lost = @ \/ c.lost]
            IN  IF Foldable(c.node) THEN [a EXCEPT !.run = Append(@, c.node)]
                                    ELSE [a EXCEPT !.out = Append(@, c.node)]
        Folded(done) == [node |-> [node EXCEPT !.children = done.out], lost |-> done.lost]
    IN  Folded(FlushRun(FoldLeft(Take, [out |-> <<>>, run |-> <<>>, lost |-> FALSE],
                                 node.children)))

RECURSIVE Measure(_, _)
Measure(node, depth) ==
    LET children == [i \in DOMAIN node.children |-> Measure(node.children[i], depth + 1)]
    IN  [node EXCEPT !.children = children,
           !.size = FoldLeft(LAMBDA n, c : n + c.size, LineLen(node, depth), children)]

\* Mutant: the line is measured before the fold mark is on it.
FoldSubtreeStale(node, depth) ==
    [node EXCEPT !.children = <<>>, !.folded = CountNodes(node) - 1,
                 !.size = LineLen(node, depth)]

FoldSubtree(node, depth) ==
    LET folded == [node EXCEPT !.children = <<>>, !.folded = CountNodes(node) - 1]
    IN  [folded EXCEPT !.size = LineLen(folded, depth)]

\* Rule 3: out of the viewport and large enough to matter.
FoldsAway(viewport, node) ==
    /\ node.children # <<>>
    /\ ~InViewport(viewport, node)
    /\ node.size > FOLD_SIZE_MIN_CHARS

RECURSIVE Fit(_, _, _, _)
Fit(node, depth, budget, viewport) ==
    LET own == LineLen(node, depth)
        Keep(acc, child, used) ==
            [acc EXCEPT !.kept = Append(@, child), !.remaining = @ - used, !.size = @ + used]
        Drop(acc) == [acc EXCEPT !.lost = TRUE]
        Spend(acc, child) ==
            IF FoldsAway(viewport, child)
            THEN LET f == FoldSubtree(child, depth + 1)
                 IN  Drop(IF f.size =< acc.remaining THEN Keep(acc, f, f.size) ELSE acc)
            ELSE IF child.size =< acc.remaining THEN Keep(acc, child, child.size)
            ELSE IF child.children = <<>> \/ LineLen(child, depth + 1) >= acc.remaining
            THEN Drop(acc)
            ELSE LET f == Fit(child, depth + 1, acc.remaining, viewport)
                     a == [acc EXCEPT !.lost = @ \/ f.lost]
                 IN  IF f.node.size > acc.remaining THEN Drop(a) ELSE Keep(a, f.node, f.node.size)
        spent == FoldLeft(Spend, [kept |-> <<>>, remaining |-> budget - own, size |-> 0,
                                  lost |-> FALSE], node.children)
    IN  IF own >= budget
        THEN [node |-> [node EXCEPT !.children = <<>>, !.size = own], lost |-> node.children # <<>>]
        ELSE IF FoldsAway(viewport, node)
        THEN [node |-> FoldSubtree(node, depth), lost |-> TRUE]
        ELSE [node |-> [node EXCEPT !.children = spent.kept, !.size = own + spent.size],
              lost |-> spent.lost]

---------------------------------------------------------------------------
\* The passes one after the other: each takes what the one before answered.
Build(tree, viewport) ==
    LET Fitted(runs) == [Fit(Measure(runs.node, 0), 0, DEFAULT_BUDGET_CHARS, viewport)
                            EXCEPT !.lost = @ \/ runs.lost]
        Folded(cut) == [FoldSiblingRuns(cut.node) EXCEPT !.lost = @ \/ cut.lost]
        Cut(raw) == [CutDepth(raw.node, BUDGET_DEPTH) EXCEPT !.lost = @ \/ raw.lost]
        Snapshot(fitted) == [root |-> fitted.node, truncated |-> fitted.lost]
    IN  Snapshot(Fitted(Folded(Cut(Convert(tree, 0, 0)))))

\* The envelope the serializer answers: its version, its own truncation flag,
\* whether a root is in it, the viewport height and the tree.
SnapshotFromResponse(response) ==
    LET empty == LeafRaw("generic") @@ [shape |-> "object", wrong |-> {}, long |-> {}]
        viewport == IF response.viewport = NoViewport THEN NoViewport
                                                     ELSE Max({response.viewport, 0})
        snapshot == Build(IF response.rooted THEN response.tree ELSE empty, viewport)
    IN  [snapshot EXCEPT !.truncated = \/ @
                                       \/ response.flagged
                                       \/ ~response.known
                                       \/ ~response.rooted]

\* core: what the agent reads, one line a node; only its length matters here.
RECURSIVE RenderNode(_, _)
RenderNode(node, depth) ==
    LET escaped == FoldLeft(LAMBDA s, c : s \o (IF c = "q" THEN <<"\\", "q">> ELSE <<c>>),
                            <<>>, node.name)
        line == depth * 2 + Len("- ") + RoleChars
                + (IF node.name # <<>> THEN Len(escaped) + 3 ELSE 0)
                + (IF node.ref # 0 THEN Len(" [ref=]") + RefChars ELSE 0)
                + (IF node.folded # 0 THEN 3 + Digits(node.folded) ELSE 0) + 1
    IN  FoldLeft(LAMBDA n, c : n + RenderNode(c, depth + 1), line, node.children)
=============================================================================
