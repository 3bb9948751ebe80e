------------------------------ MODULE Layouts ------------------------------
(***************************************************************************)
(* The layout of a workspace, a tree of splits with panes as its leaves,   *)
(* and what can be done to it (frontend/src/lib/stores/layout.js).         *)
(*                                                                         *)
(* A session stands for the pair of host and session that names a pane.    *)
(* Sizes and titles of panes are left out.  Paths are those of the code,   *)
(* counted from one.                                                       *)
(***************************************************************************)
EXTENDS SequencesExt, Integers

CONSTANTS
    Content,           \* sessions with their hosts
    EmptyPane,         \* an empty pane; and no node
    MaxLevels          \* bound: levels of a layout

Leaf(s) == [session |-> s]
SplitOf(d, cs) == [split |-> d, children |-> cs]
IsLeaf(node) == "session" \in DOMAIN node
Nothing == <<>>     \* null

Panes == {Leaf(s) : s \in Content \cup {EmptyPane}}
Above(nodes) == [split : {"h", "v"}, children : Seq(nodes)]

\* The layouts of at most so many levels, with the panes on the last one.
OfLevels[levels \in Nat] ==
    IF levels = 0 THEN {} ELSE Panes \cup Above(OfLevels[levels - 1])

Layout == OfLevels[MaxLevels]
Path == Seq(Nat)

-----------------------------------------------------------------------------
(* Reading and writing a layout.                                            *)

\* collectLeaves, getSessionPanesWithPaths: the panes in order,
Leaves(root) ==
    LET leaves[node \in Layout] ==
            IF IsLeaf(node) THEN <<node.session>>
            ELSE FlattenSeq([i \in DOMAIN node.children |-> leaves[node.children[i]]])
    IN  leaves[root]

\* and where they are.
Paths(root) ==
    LET paths[node \in Layout] ==
            IF IsLeaf(node) THEN <<<<>>>>
            ELSE FlattenSeq([i \in DOMAIN node.children |->
                     LET below == paths[node.children[i]] IN [k \in DOMAIN below |-> <<i>> \o below[k]]])
    IN  paths[root]

Leads(node, path) == ~IsLeaf(node) /\ Head(path) \in DOMAIN node.children

\* getNodeAtPath, getLeafAtPath.
NodeAt(root, path) ==
    LET at[rest \in Path] ==
            [node \in Layout |->
                IF rest = <<>> THEN node
                ELSE IF Leads(node, rest) THEN at[Tail(rest)][node.children[Head(rest)]]
                ELSE Nothing]
    IN  at[path][root]

\* The assignments to a node of the tree; there are none where a path leads nowhere.
WithNode(root, path, new) ==
    LET with[rest \in Path] ==
            [node \in Layout |->
                IF rest = <<>> THEN new
                ELSE IF Leads(node, rest)
                THEN [node EXCEPT !.children[Head(rest)] = with[Tail(rest)][@]]
                ELSE node]
    IN  with[path][root]

\* findPathByPane.
PathOf(root, s) == LET i == SelectInSeq(Leaves(root), LAMBDA p : p = s)
                   IN  IF i = 0 THEN Nothing ELSE Paths(root)[i]

\* Faulty variant: the rows after the first take the panes from the first again.
AutoArrangeRepeats(node) ==
    LET panes == Leaves(node)
        row(i, n) == SplitOf("h", [k \in 1 .. n |-> Leaf(panes[k])])
    IN  IF Len(panes) < 5 THEN node ELSE SplitOf("v", <<row(0, 3), row(3, Len(panes) - 3)>>)

\* autoArrangeLayout.
AutoArrange(node) ==
    LET panes == Leaves(node)
        n == Len(panes)
        columns == CHOOSE c \in 1 .. n : c * c >= n /\ (c - 1) * (c - 1) < n
        row(i, k) == IF k = 1 THEN Leaf(panes[i + 1])
                     ELSE SplitOf("h", [j \in 1 .. k |-> Leaf(panes[i + j])])
        rows == (n + columns - 1) \div columns
    IN  CASE n = 0 -> Leaf(EmptyPane)
          [] n = 1 -> Leaf(panes[1])
          [] n = 2 -> row(0, 2)
          [] n = 3 -> SplitOf("h", <<Leaf(panes[1]), SplitOf("v", <<Leaf(panes[2]), Leaf(panes[3])>>)>>)
          [] n = 4 -> SplitOf("v", <<row(0, 2), row(2, 2)>>)
          [] OTHER -> SplitOf("v", [r \in 1 .. rows |->
                          row((r - 1) * columns, IF r < rows THEN columns ELSE n - (rows - 1) * columns)])

\* Faulty variant: a split that has one child left stays.
RemovePaneKeepsSplit(root, path) ==
    LET parent == NodeAt(root, Front(path))
    IN  IF path = <<>> THEN Nothing
        ELSE WithNode(root, Front(path), [parent EXCEPT !.children = RemoveAt(@, Last(path))])

\* removePane: a split that would have one child is replaced by it.
RemovePane(root, path) ==
    LET parent == NodeAt(root, Front(path))
        rest == RemoveAt(parent.children, Last(path))
    IN  IF path = <<>> THEN Nothing
        ELSE IF parent = Nothing \/ IsLeaf(parent) THEN root
        ELSE IF Last(path) \notin DOMAIN parent.children THEN root
        ELSE WithNode(root, Front(path),
                       IF Len(rest) = 1 THEN rest[1] ELSE [parent EXCEPT !.children = rest])

\* splitPaneAt.
SplitPaneAt(root, path, direction, s) ==
    LET target == NodeAt(root, path)
    IN  IF target = Nothing \/ ~IsLeaf(target) THEN root
        ELSE WithNode(root, path, SplitOf(direction, <<target, Leaf(s)>>))

Direction(position) == IF position \in {"left", "right"} THEN "h" ELSE "v"
Before(position) == position \in {"left", "top"}

\* The new pane goes next to the child at index i.
Beside(children, i, position, node) ==
    InsertAt(children, IF Before(position) THEN i ELSE i + 1, node)

\* movePane, of a pane to the side of another: as a sibling of it if their
\* split has the direction, and else in a new split with it.
MoveBeside(root, source, target, position) ==
    LET d == Direction(position)
        from == PathOf(root, source)
        to == PathOf(root, target)
        siblings == Len(from) > 0 /\ Len(from) = Len(to) /\ Front(from) = Front(to)
        parent == NodeAt(root, Front(from))
        i == Last(from)
        j == Last(to)
        without == RemovePane(root, from)
        at == PathOf(without, target)
        above == NodeAt(without, Front(at))
        pair == IF Before(position) THEN <<Leaf(source), Leaf(target)>>
                                    ELSE <<Leaf(target), Leaf(source)>>
    IN  IF siblings /\ parent.split = d
        THEN WithNode(root, Front(from),
                 [parent EXCEPT !.children =
                     Beside(RemoveAt(@, i), IF i < j THEN j - 1 ELSE j, position, @[i])])
        ELSE IF at # <<>> /\ above.split = d
        THEN WithNode(without, Front(at),
                       [above EXCEPT !.children = Beside(@, Last(at), position, Leaf(source))])
        ELSE WithNode(without, at, SplitOf(d, pair))

\* movePane.
MovePane(root, source, target, position) ==
    LET from == PathOf(root, source)
        to == PathOf(root, target)
    IN  IF source = target \/ ~({source, target} \subseteq ToSet(Leaves(root))) THEN root
        ELSE IF position = "swap"
        THEN WithNode(WithNode(root, from, Leaf(target)), to, Leaf(source))
        ELSE MoveBeside(root, source, target, position)
=============================================================================
