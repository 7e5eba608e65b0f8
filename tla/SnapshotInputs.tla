--------------------------- MODULE SnapshotInputs ---------------------------
(***************************************************************************)
(* The snapshot of a page over bounded inputs: a tree grows node by node,   *)
(* so that every tree up to the bound is a reachable state.                 *)
(***************************************************************************)
EXTENDS SnapshotTree

CONSTANT MaxTree                     \* bound: nodes of an input tree

VARIABLES tree, viewport, flagged

inputVars == <<tree, viewport, flagged>>

\* A text longer than its clamp, a link named by a quote, nameless rows in and
\* out of view, a link out of view, fields of a wrong type, a role and a
\* reference beyond their clamps, garbage.
Kind(role, name, ref, y) ==
    [shape |-> "object", role |-> role, name |-> name, ref |-> ref,
     y |-> y, height |-> 5, children |-> <<>>, wrong |-> {}, long |-> {}]
Kinds(n) ==
    {Kind("text", <<"a", "a", "a", "a">>, 0, 0), Kind("link", <<"q">>, n, 0),
     Kind("row", <<>>, 0, 0), Kind("row", <<>>, 0, 50), Kind("link", <<>>, n, 50),
     [Kind("link", <<"q">>, n, 0) EXCEPT !.wrong = {"role", "name", "ref"}],
     [Kind("link", <<>>, n, 0) EXCEPT !.long = {"role", "ref"}],
     [Kind("row", <<>>, 0, 0) EXCEPT !.shape = "scalar"],
     [Kind("row", <<>>, 0, 0) EXCEPT !.shape = "odd"]}
Plain == Kind("root", <<>>, 0, 0)
Roots == {Plain, Kind("root", <<"a", "a">>, 0, 50)}

Init ==
    /\ tree \in Roots
    /\ viewport \in {NoViewport, 10}
    /\ flagged \in BOOLEAN /\ (flagged => tree = Plain /\ viewport = NoViewport)

RECURSIVE Graft(_, _, _)
Graft(t, d, n) ==
    IF d = 0 THEN [t EXCEPT !.children = Append(@, n)]
    ELSE [t EXCEPT !.children[Len(t.children)] = Graft(Last(t.children), d - 1, n)]

\* The last node of each depth: where the next node may go.
RECURSIVE Spine(_)
Spine(t) == IF t.children = <<>> THEN <<t>> ELSE <<t>> \o Spine(Last(t.children))

Grow ==
    /\ CountNodes(tree) < MaxTree
    /\ \E d \in DOMAIN Spine(tree), n \in Kinds(CountNodes(tree)) :
          Spine(tree)[d].shape = "object" /\ tree' = Graft(tree, d - 1, n)
    /\ UNCHANGED <<viewport, flagged>>

Next == Grow

---------------------------------------------------------------------------
Answer ==
    SnapshotFromResponse([tree |-> tree, viewport |-> viewport, flagged |-> flagged,
                          known |-> TRUE, rooted |-> TRUE])

RECURSIVE Refs(_)
Refs(t) == FoldLeft(LAMBDA s, c : s \o Refs(c), IF t.ref = 0 THEN <<>> ELSE <<t.ref>>, t.children)

\* all that was reported is in the snapshot, fields of a wrong type aside
RECURSIVE SameContent(_, _)
SameContent(node, t) ==
    /\ t.shape = "object" /\ t.long = {} /\ node.folded = 0
    /\ node.role = RoleOf(t) /\ node.name = NameOf(t) /\ node.ref = RefOf(t)
    /\ Len(node.children) = Len(t.children)
    /\ \A i \in DOMAIN t.children : SameContent(node.children[i], t.children[i])

(* A snapshot renders within its budget of characters, unless its root line *)
(* alone is over it, and the size carried along by fit and fold_subtree is  *)
(* the size the core crate's Display writes; a snapshot that is not all the *)
(* serializer reported says so, but for a role, name or reference that is   *)
(* no string and reads as absent (docs/snapshot-format.md 3); and the       *)
(* references in it are references of the page, each once and in document   *)
(* order, but for one cut at its clamp.                                     *)
SnapshotHonest ==
    \A answer \in {Answer} :
    \A seen \in {SelectSeq(Refs(answer.root), LAMBDA ref : ref # CutRef)} :
        /\ answer.root.size = RenderNode(answer.root, 0)
        /\ answer.root.size =< Max({DEFAULT_BUDGET_CHARS, LineLen(answer.root, 0)})
        /\ (SameContent(answer.root, tree) /\ ~flagged) \/ answer.truncated
        /\ ToSet(seen) \subseteq ToSet(Refs(tree))
        /\ \A i, j \in DOMAIN seen : i < j => seen[i] < seen[j]
=============================================================================
