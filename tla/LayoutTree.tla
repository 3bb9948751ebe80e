----------------------------- MODULE LayoutTree -----------------------------
(***************************************************************************)
(* The layout of a workspace under the operations of the user interface    *)
(* (frontend/src/lib/workspace-action-utils.js), and the bounds within     *)
(* which the server saves one (src/lib/layout-utils.js).                   *)
(***************************************************************************)
EXTENDS Layouts

CONSTANTS
    MaxPanesShown,     \* bound: panes of a workspace
    MaxLayoutPanes, MaxLayoutDepth, MaxLayoutChildren   \* limits of the server

\* An operation may need one level more than there are panes before it arranges
\* them.  In the code the limits are 16 children, 32 levels and 64 panes.
ASSUME LayoutTreeAssumption ==
    /\ EmptyPane \notin Content
    /\ MaxPanesShown \in Nat \ {0} /\ MaxLevels \in Nat /\ MaxPanesShown < MaxLevels
    /\ {MaxLayoutChildren, MaxLayoutDepth, MaxLayoutPanes} \subseteq Nat
    /\ MaxLayoutChildren <= MaxLayoutDepth /\ MaxLayoutChildren <= MaxLayoutPanes

VARIABLES
    tree,      \* the layout
    shown      \* its panes as they appear on the screen, in reading order

layoutVars == <<tree, shown>>

-----------------------------------------------------------------------------
(* The operations of the user interface.                                    *)

LayoutInit == tree = Leaf(EmptyPane) /\ shown = <<EmptyPane>>

Becomes(node) == tree' = node /\ shown' = Leaves(tree')

\* splitPaneLayout.
SplitPane(path, direction) ==
    /\ Len(shown) < MaxPanesShown
    /\ Becomes(AutoArrange(SplitPaneAt(tree, path, direction, EmptyPane)))

\* closePaneLayout.
ClosePane(path) ==
    /\ Len(shown) > 1
    /\ Becomes(AutoArrange(RemovePane(tree, path)))

\* movePaneLayout, asked for by a drop in a zone of another pane.
DropPane(source, target, position) ==
    Becomes(MovePane(tree, source, target, position))

\* updatePaneSession.
AssignSession(path, s) == Becomes(WithNode(tree, path, Leaf(s)))

LayoutNext ==
    \/ \E path \in ToSet(Paths(tree)) :
          \/ \E d \in {"h", "v"} : SplitPane(path, d)
          \/ ClosePane(path)
          \/ \E s \in Content : AssignSession(path, s)
    \/ \E s, t \in Content, position \in {"left", "right", "top", "bottom", "swap"} :
          DropPane(s, t, position)

LayoutSpec == LayoutInit /\ [][LayoutNext]_layoutVars

-----------------------------------------------------------------------------
(* The server.                                                              *)

Nodes(root) ==
    LET nodes[node \in Layout] ==
            {node} \cup IF IsLeaf(node) THEN {}
                        ELSE UNION {nodes[c] : c \in ToSet(node.children)}
    IN  nodes[root]

\* assertLayoutBounds: a layout within them is saved, any other is refused.
WithinBounds(node) ==
    /\ node \in OfLevels[MaxLayoutDepth]
    /\ Len(Leaves(node)) <= MaxLayoutPanes
    /\ \A n \in Nodes(node) : ~IsLeaf(n) => Len(n.children) <= MaxLayoutChildren

\* stripLayoutSessions: in a template every pane becomes an empty one, and
\* `direction`, which no layout has, is copied from the splits.
Strip(root) ==
    LET strip[node \in Layout] ==
            IF IsLeaf(node) THEN Leaf(EmptyPane)
            ELSE [children |-> [i \in DOMAIN node.children |-> strip[node.children[i]]]]
    IN  strip[root]

-----------------------------------------------------------------------------
(* Properties.                                                              *)

PanesInOrder == INSTANCE PaneSequence WITH panes <- shown

\* The layout operations do to the panes, in reading order, what they promise,
\* whatever they do to the tree: no pane is lost, doubled or moved unasked.
ImplementsPaneSequence == PanesInOrder!Spec

\* Every split has at least two children, or the screen would have a strip that
\* no operation reaches; and a layout whose panes would fit in one split is
\* within the bounds of the server, which would refuse to save any other.
LayoutIsSavable ==
    /\ \A node \in Nodes(tree) : ~IsLeaf(node) => Len(node.children) >= 2
    /\ Len(shown) <= MaxLayoutChildren => WithinBounds(tree)

\* "Templates store layout structure (splits, sizes) without session
\* assignments" (src/routes/templates.js): a template is the layout with all
\* of its panes empty.
TemplateKeepsSplits ==
    Strip(tree) = FoldLeft(LAMBDA root, path : WithNode(root, path, Leaf(EmptyPane)), tree, Paths(tree))
=============================================================================
