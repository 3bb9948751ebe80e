----------------------------- MODULE LayoutProofs -----------------------------
(***************************************************************************)
(* The layout of a workspace, what the operations do to it, and what the   *)
(* page holds of a pane meanwhile.                                         *)
(***************************************************************************)
EXTENDS LayoutTree, PaneTargets, ListLemmas

-----------------------------------------------------------------------------
(* Layouts by their levels.                                                 *)

\* The equation of OfLevels.
LEMMA LevelsFacts ==
    /\ OfLevels[0] = {}
    /\ \A n \in Nat : OfLevels[n + 1] = Panes \cup Above(OfLevels[n])
<1> DEFINE Step(f, n) == IF n = 0 THEN {} ELSE Panes \cup Above(f[n - 1])
           Upto(n, f) == \A k \in Nat : k < n => f[k] = Step(f, k)
           G == {n \in Nat : \E f : Upto(n, f)}
<1>1. 0 \in G
    <2>1. Upto(0, <<>>)
        OBVIOUS
    <2> QED
        BY <2>1
<1>2. ASSUME NEW n \in Nat, n \in G
      PROVE  n + 1 \in G
    <2>1. PICK f : Upto(n, f)
        BY <1>2
    <2> DEFINE g == [k \in Nat |-> Step(f, k)]
    <2>2. ASSUME NEW k \in Nat, k < n + 1
          PROVE  g[k] = Step(g, k)
        <3>1. CASE k # 0
            <4>1. k - 1 \in Nat /\ k - 1 < n
                BY <2>2, <3>1
            <4>2. f[k - 1] = Step(f, k - 1) /\ g[k - 1] = Step(f, k - 1)
                <5> HIDE DEF Step
                <5> QED
                    BY <2>1, <4>1
            <4> HIDE DEF g
            <4>3. g[k] = Step(f, k)
                BY DEF g
            <4> QED
                BY <3>1, <4>2, <4>3
        <3> QED
            BY <3>1
    <2> HIDE DEF g, Step
    <2>3. Upto(n + 1, g)
        BY <2>2
    <2> QED
        BY <2>3
<1>3. \A n \in Nat : \E f : Upto(n, f)
    <2>1. \A n \in Nat : n \in G
        <3> HIDE DEF G
        <3> QED
            BY <1>1, <1>2, InductionOnNumbers
    <2> QED
        BY <2>1
<1>4. ASSUME NEW m \in Nat, NEW n \in Nat, NEW f, NEW g, Upto(m, f), Upto(n, g)
      PROVE  \A k \in Nat : k < m /\ k < n => f[k] = g[k]
    <2> DEFINE H == {k \in Nat : k < m /\ k < n => f[k] = g[k]}
    <2>1. 0 \in H
        BY <1>4
    <2>2. ASSUME NEW k \in Nat, k \in H
          PROVE  k + 1 \in H
        <3>1. SUFFICES ASSUME k + 1 < m, k + 1 < n
                       PROVE  f[k + 1] = g[k + 1]
            OBVIOUS
        <3>2. f[k] = g[k]
            BY <2>2, <3>1
        <3>3. PICK l \in Nat : l = k + 1
            OBVIOUS
        <3>4. l # 0 /\ l - 1 = k /\ l < m /\ l < n
            BY <3>1, <3>3
        <3>5. f[l] = Step(f, l) /\ g[l] = Step(g, l)
            <4> HIDE DEF Step
            <4> QED
                BY <1>4, <3>4
        <3> QED
            BY <3>2, <3>3, <3>4, <3>5
    <2>3. \A k \in Nat : k \in H
        <3> HIDE DEF H
        <3> QED
            BY <2>1, <2>2, InductionOnNumbers
    <2> QED
        BY <2>3
<1> DEFINE at == [k \in Nat |-> CHOOSE f : Upto(k + 1, f)]
           F == [k \in Nat |-> at[k][k]]
<1>5. ASSUME NEW k \in Nat
      PROVE  Upto(k + 1, at[k])
    <2>1. k + 1 \in Nat
        OBVIOUS
    <2> HIDE DEF Upto
    <2> QED
        BY <1>3, <2>1
<1> HIDE DEF at
<1>6. ASSUME NEW k \in Nat
      PROVE  F[k] = Step(F, k)
    <2>1. at[k][k] = Step(at[k], k)
        <3>1. k < k + 1
            OBVIOUS
        <3> HIDE DEF Step
        <3> QED
            BY <1>5, <3>1
    <2>2. CASE k # 0
        <3>1. PICK j \in Nat : j = k - 1
            BY <2>2
        <3>2. j < k + 1 /\ j < j + 1 /\ j + 1 \in Nat /\ k + 1 \in Nat
            BY <3>1
        <3>3. at[k][j] = at[j][j]
            <4> HIDE DEF Upto
            <4>1. Upto(k + 1, at[k]) /\ Upto(j + 1, at[j])
                BY <1>5
            <4> QED
                BY <1>4, <3>2, <4>1
        <3>4. F[j] = at[j][j] /\ F[k] = at[k][k]
            OBVIOUS
        <3> HIDE DEF F
        <3> QED
            BY <2>1, <2>2, <3>1, <3>3, <3>4
    <2> QED
        BY <2>1, <2>2
<1>7. F = [k \in Nat |-> IF k = 0 THEN {} ELSE Panes \cup Above(F[k - 1])]
    <2> DEFINE Fixed == [k \in Nat |-> Step(F, k)]
    <2>1. Fixed = [k \in Nat |-> IF k = 0 THEN {} ELSE Panes \cup Above(F[k - 1])]
        BY DEF Fixed
    <2> HIDE DEF Step
    <2>2. F = Fixed
        BY <1>6
    <2> QED
        BY <2>1, <2>2
<1>8. OfLevels = [k \in Nat |-> IF k = 0 THEN {} ELSE Panes \cup Above(OfLevels[k - 1])]
    <2> HIDE DEF F
    <2> QED
        BY <1>7 DEF OfLevels
<1>9. ASSUME NEW n \in Nat
      PROVE  OfLevels[n + 1] = Panes \cup Above(OfLevels[n])
    <2>1. PICK k \in Nat : k = n + 1
        OBVIOUS
    <2>2. k # 0 /\ k - 1 = n
        BY <2>1
    <2>3. OfLevels[k] = Panes \cup Above(OfLevels[k - 1])
        BY <1>8, <2>2
    <2> QED
        BY <2>1, <2>2, <2>3
<1> QED
    BY <1>8, <1>9

\* What has so many levels has more.
LEMMA LevelsGrow ==
    ASSUME NEW m \in Nat, NEW n \in Nat, m <= n
    PROVE  OfLevels[m] \subseteq OfLevels[n]
<1> DEFINE G == {k \in Nat : OfLevels[k] \subseteq OfLevels[k + 1]}
           H == {k \in Nat : OfLevels[m] \subseteq OfLevels[m + k]}
<1>1. \A k \in Nat : k \in G
    <2>1. 0 \in G
        BY LevelsFacts
    <2>2. ASSUME NEW k \in Nat, k \in G
          PROVE  k + 1 \in G
        <3>1. Above(OfLevels[k]) \subseteq Above(OfLevels[k + 1])
            <4>1. Seq(OfLevels[k]) \subseteq Seq(OfLevels[k + 1])
                BY <2>2
            <4> HIDE DEF G
            <4> QED
                BY <4>1 DEF Above
        <3>2. PICK l \in Nat : l = k + 1
            OBVIOUS
        <3>3. OfLevels[l] = Panes \cup Above(OfLevels[k]) /\ OfLevels[l + 1] = Panes \cup Above(OfLevels[l])
            BY <3>2, LevelsFacts
        <3>4. OfLevels[l] \subseteq OfLevels[l + 1]
            BY <3>1, <3>2, <3>3
        <3> QED
            BY <3>2, <3>4
    <2> HIDE DEF G
    <2> QED
        BY <2>1, <2>2, InductionOnNumbers
<1>2. \A k \in Nat : k \in H
    <2>1. 0 \in H
        OBVIOUS
    <2>2. ASSUME NEW k \in Nat, k \in H
          PROVE  k + 1 \in H
        <3>1. PICK l \in Nat : l = m + k
            OBVIOUS
        <3>2. l \in G /\ m + (k + 1) = l + 1
            BY <1>1, <3>1
        <3> QED
            BY <2>2, <3>1, <3>2
    <2> HIDE DEF H
    <2> QED
        BY <2>1, <2>2, InductionOnNumbers
<1>3. PICK k \in Nat : n = m + k
    <2>1. n - m \in Nat /\ n = m + (n - m)
        OBVIOUS
    <2> QED
        BY <2>1
<1> QED
    BY <1>2, <1>3

\* The two kinds of nodes.
LEMMA NodeFacts ==
    ASSUME NEW n \in Nat, NEW x \in OfLevels[n]
    PROVE  \/ /\ IsLeaf(x) /\ x.session \in Content \cup {EmptyPane}
              /\ x = Leaf(x.session)
           \/ /\ ~IsLeaf(x) /\ x = SplitOf(x.split, x.children) /\ x.split \in {"h", "v"}
              /\ n # 0 /\ n - 1 \in Nat
              /\ x.children \in Seq(OfLevels[n - 1])
<1>1. n # 0
    BY LevelsFacts
<1>2. n - 1 \in Nat /\ (n - 1) + 1 = n
    BY <1>1
<1>3. PICK k \in Nat : k = n - 1
    BY <1>2
<1>4. OfLevels[n] = Panes \cup Above(OfLevels[k])
    BY <1>2, <1>3, LevelsFacts
<1>5. CASE x \in Panes
    BY <1>5 DEF Panes, Leaf, IsLeaf
<1>6. CASE x \in Above(OfLevels[k])
    BY <1>1, <1>3, <1>6 DEF Above, IsLeaf, SplitOf
<1> QED
    BY <1>4, <1>5, <1>6

\* The node of a pane.
LEMMA LeafFacts ==
    ASSUME NEW s \in Content \cup {EmptyPane}
    PROVE  /\ IsLeaf(Leaf(s)) /\ Leaf(s).session = s
           /\ \A n \in Nat \ {0} : Leaf(s) \in OfLevels[n]
<1>1. IsLeaf(Leaf(s)) /\ Leaf(s).session = s /\ Leaf(s) \in Panes
    BY DEF Leaf, IsLeaf, Panes
<1>2. ASSUME NEW n \in Nat \ {0}
      PROVE  Leaf(s) \in OfLevels[n]
    <2>1. PICK k \in Nat : k + 1 = n
        <3>1. n - 1 \in Nat /\ (n - 1) + 1 = n
            OBVIOUS
        <3> QED
            BY <3>1
    <2> QED
        BY <1>1, <2>1, LevelsFacts
<1> QED
    BY <1>1, <1>2

\* The node of a split.
LEMMA SplitFacts ==
    ASSUME NEW n \in Nat, NEW d \in {"h", "v"}, NEW cs \in Seq(OfLevels[n])
    PROVE  /\ SplitOf(d, cs) \in OfLevels[n + 1]
           /\ ~IsLeaf(SplitOf(d, cs))
           /\ SplitOf(d, cs).split = d /\ SplitOf(d, cs).children = cs
BY LevelsFacts DEF SplitOf, IsLeaf, Above

\* Layouts have less than so many levels.
LEMMA LayoutFacts ==
    ASSUME NEW x \in Layout
    PROVE  \/ /\ IsLeaf(x) /\ x.session \in Content \cup {EmptyPane}
              /\ x = Leaf(x.session)
           \/ /\ ~IsLeaf(x) /\ x = SplitOf(x.split, x.children) /\ x.split \in {"h", "v"}
              /\ x.children \in Seq(Layout)
<1>1. MaxLevels \in Nat
    BY LayoutTreeAssumption
<1>2. CASE ~IsLeaf(x)
    <2>1. /\ x = SplitOf(x.split, x.children) /\ x.split \in {"h", "v"}
          /\ MaxLevels - 1 \in Nat
          /\ x.children \in Seq(OfLevels[MaxLevels - 1])
        BY <1>1, <1>2, NodeFacts DEF Layout
    <2>2. OfLevels[MaxLevels - 1] \subseteq Layout
        <3>1. PICK k \in Nat : k = MaxLevels - 1
            BY <2>1
        <3>2. k <= MaxLevels
            BY <1>1, <3>1
        <3> QED
            BY <1>1, <3>1, <3>2, LevelsGrow DEF Layout
    <2> HIDE DEF SplitOf
    <2>3. Seq(OfLevels[MaxLevels - 1]) \subseteq Seq(Layout)
        BY <2>2
    <2> QED
        BY <1>2, <2>1, <2>3
<1>3. CASE IsLeaf(x)
    BY <1>1, <1>3, NodeFacts DEF Layout
<1> QED
    BY <1>2, <1>3

\* The levels of a layout.
Height == [x \in Layout |-> Min({n \in Nat : x \in OfLevels[n]})]

\* Children are less high than their split.
LEMMA HeightFacts ==
    /\ Height \in [Layout -> Nat]
    /\ \A x \in Layout : ~IsLeaf(x) =>
          \A i \in 1 .. Len(x.children) : x.children[i] \in Layout /\ Height[x.children[i]] < Height[x]
<1>1. ASSUME NEW x \in Layout
      PROVE  /\ Height[x] \in Nat /\ x \in OfLevels[Height[x]]
             /\ \A n \in Nat : x \in OfLevels[n] => Height[x] <= n
    <2> DEFINE levels == {n \in Nat : x \in OfLevels[n]}
    <2>1. levels \in SUBSET Nat /\ levels # {}
        BY LayoutTreeAssumption DEF Layout
    <2>2. Min(levels) \in levels /\ \A n \in levels : Min(levels) <= n
        <3> HIDE DEF levels
        <3> QED
            BY <2>1, MinFacts
    <2>3. Height[x] = Min(levels)
        BY DEF Height
    <2> QED
        BY <2>2, <2>3
<1>2. ASSUME NEW x \in Layout, ~IsLeaf(x), NEW i \in 1 .. Len(x.children)
      PROVE  x.children[i] \in Layout /\ Height[x.children[i]] < Height[x]
    <2>1. PICK n \in Nat : n = Height[x]
        BY <1>1
    <2>2. n # 0 /\ n - 1 \in Nat /\ x.children \in Seq(OfLevels[n - 1])
        BY <1>1, <1>2, <2>1, NodeFacts
    <2>3. PICK k \in Nat : k = n - 1
        BY <2>2
    <2>4. x.children[i] \in OfLevels[k] /\ x.children[i] \in Layout
        BY <1>2, <2>2, <2>3, LayoutFacts, ElementOfSeq
    <2>5. Height[x.children[i]] <= k /\ Height[x.children[i]] \in Nat
        BY <1>1, <2>4
    <2> QED
        BY <2>1, <2>2, <2>3, <2>4, <2>5
<1> QED
    BY <1>1, <1>2 DEF Height

\* A set with the panes, and with every split whose children it has, has
\* all layouts.
LEMMA LayoutInduction ==
    ASSUME NEW G,
           \A x \in Layout : IsLeaf(x) => x \in G,
           \A x \in Layout : ~IsLeaf(x) /\ (\A i \in 1 .. Len(x.children) : x.children[i] \in G) => x \in G
    PROVE  \A x \in Layout : x \in G
<1>1. ASSUME NEW x \in Layout, \A y \in Layout : Height[y] < Height[x] => y \in G
      PROVE  x \in G
    <2>1. CASE ~IsLeaf(x)
        <3>1. \A i \in 1 .. Len(x.children) : x.children[i] \in G
            BY <1>1, <2>1, HeightFacts
        <3> QED
            BY <2>1, <3>1
    <2> QED
        BY <2>1
<1>2. InductiveBySize(Layout, Height, G)
    BY <1>1, HeightFacts DEF InductiveBySize
<1> QED
    BY <1>2, InductionOnSize

-----------------------------------------------------------------------------
(* What is defined by recursion on layouts.                                 *)

Shown == Content \cup {EmptyPane}

\* A function on layouts that is defined by its values at panes and by what it
\* makes of its values at the children of a split.
Defines(f, V, leaf, join) ==
    /\ f = [x \in Layout |-> f[x]]
    /\ \A x \in Layout : IsLeaf(x) => f[x] = leaf[x]
    /\ \A x \in Layout : ~IsLeaf(x) => \A vs \in Seq(V) : vs = Along(x.children, f) => f[x] = join[<<x, vs>>]

\* A definition by recursion on the children has exactly one solution.
LEMMA LayoutRecursion ==
    ASSUME NEW V, V # {}, NEW leaf \in [Layout -> V], NEW join \in [Layout \X Seq(V) -> V]
    PROVE  /\ \E f \in [Layout -> V] : Defines(f, V, leaf, join)
           /\ \A f : Defines(f, V, leaf, join) => f \in [Layout -> V]
<1> DEFINE Value(x, f) == IF IsLeaf(x) THEN leaf[x] ELSE join[<<x, Along(x.children, f)>>]
           step == [arg \in Layout \X [Layout -> V] |-> Value(arg[1], arg[2])]
<1>1. ASSUME NEW x \in Layout, NEW f \in [Layout -> V]
      PROVE  Value(x, f) \in V
    <2>1. CASE ~IsLeaf(x)
        <3>1. x.children \in Seq(Layout)
            BY <2>1, LayoutFacts
        <3>2. Along(x.children, f) \in Seq(V)
            BY <3>1, AlongFacts DEF Maps
        <3> QED
            BY <2>1, <3>2
    <2> QED
        BY <2>1
<1>2. ASSUME NEW x \in Layout, NEW f \in [Layout -> V], NEW g \in [Layout -> V],
             \A y \in Layout : Height[y] < Height[x] => f[y] = g[y]
      PROVE  Value(x, f) = Value(x, g)
    <2>1. CASE ~IsLeaf(x)
        <3>1. x.children \in Seq(Layout) /\ DOMAIN x.children = 1 .. Len(x.children)
            BY <2>1, LayoutFacts, LenProperties
        <3>2. \A i \in DOMAIN x.children : f[x.children[i]] = g[x.children[i]]
            BY <1>2, <2>1, <3>1, HeightFacts
        <3>3. Along(x.children, f) = Along(x.children, g)
            BY <3>2 DEF Along
        <3> QED
            BY <3>3
    <2> QED
        BY <2>1
<1>3. Recursive(Layout, Height, V, step)
    <2> HIDE DEF Value
    <2>1. step \in [Layout \X [Layout -> V] -> V]
        BY <1>1
    <2>2. \A x \in Layout, f \in [Layout -> V] : step[<<x, f>>] = Value(x, f)
        OBVIOUS
    <2> HIDE DEF step
    <2>3. ASSUME NEW x \in Layout, NEW f \in [Layout -> V], NEW g \in [Layout -> V],
                 \A y \in Layout : Height[y] < Height[x] => f[y] = g[y]
          PROVE  step[<<x, f>>] = step[<<x, g>>]
        BY <1>2, <2>2, <2>3
    <2> QED
        BY <2>1, <2>3, HeightFacts DEF Recursive
<1>4. PICK f : Solves(f, Layout, V, step)
    <2> HIDE DEF step
    <2> QED
        BY <1>3, RecursionExists
<1>5. f \in [Layout -> V] /\ \A x \in Layout : f[x] = Value(x, f)
    <2> HIDE DEF Value
    <2> QED
        BY <1>4 DEF Solves
<1>6. Defines(f, V, leaf, join)
    <2>1. f = [x \in Layout |-> f[x]]
        BY <1>5
    <2> QED
        BY <1>5, <2>1 DEF Defines
<1>7. ASSUME NEW g, Defines(g, V, leaf, join)
      PROVE  g \in [Layout -> V]
    <2> DEFINE G == {y \in Layout : g[y] \in V}
    <2>1. \A x \in Layout : IsLeaf(x) => x \in G
        BY <1>7 DEF Defines
    <2>2. ASSUME NEW x \in Layout, ~IsLeaf(x), \A i \in 1 .. Len(x.children) : x.children[i] \in G
          PROVE  x \in G
        <3>1. x.children \in Seq(Layout) /\ \A i \in 1 .. Len(x.children) : x.children[i] \in G
            BY <2>2, LayoutFacts
        <3>2. x.children \in Seq(G)
            <4> HIDE DEF G
            <4> QED
                BY <3>1
        <3>3. \A y \in G : g[y] \in V
            OBVIOUS
        <3>4. Along(x.children, g) \in Seq(V)
            <4> HIDE DEF G
            <4> QED
                BY <3>2, <3>3, AlongFacts DEF Maps
        <3>5. PICK vs \in Seq(V) : vs = Along(x.children, g)
            BY <3>4
        <3>6. g[x] = join[<<x, vs>>]
            BY <1>7, <2>2, <3>5 DEF Defines
        <3>7. join[<<x, vs>>] \in V
            OBVIOUS
        <3> QED
            BY <3>6, <3>7
    <2> HIDE DEF G
    <2>3. \A x \in Layout : x \in G
        BY <2>1, <2>2, LayoutInduction
    <2>4. g = [x \in Layout |-> g[x]]
        BY <1>7 DEF Defines
    <2> QED
        BY <2>3, <2>4 DEF G
<1> QED
    BY <1>5, <1>6, <1>7

\* Leaves is such a definition.
LEMMA LeavesEquation ==
    \E f : /\ f \in [Layout -> Seq(Shown)]
           /\ \A x \in Layout : Leaves(x) = f[x]
           /\ \A x \in Layout : f[x] = IF IsLeaf(x) THEN <<x.session>>
                                       ELSE FlattenSeq(Along(x.children, f))
<1> DEFINE V == Seq(Shown)
           leaf == [x \in Layout |-> IF IsLeaf(x) THEN <<x.session>> ELSE <<>>]
           join == [arg \in Layout \X Seq(V) |-> FlattenSeq(arg[2])]
           leaves == CHOOSE g : g = [node \in Layout |->
                IF IsLeaf(node) THEN <<node.session>>
                ELSE FlattenSeq([i \in DOMAIN node.children |-> g[node.children[i]]])]
<1>1. V # {} /\ leaf \in [Layout -> V] /\ join \in [Layout \X Seq(V) -> V]
    <2>1. <<>> \in V
        BY EmptySeq
    <2>2. ASSUME NEW x \in Layout, IsLeaf(x)
          PROVE  <<x.session>> \in V
        <3>1. x.session \in Shown
            BY <2>2, LayoutFacts DEF Shown
        <3>2. PICK s \in Shown : s = x.session
            BY <3>1
        <3> QED
            BY <3>2
    <2>3. \A ss \in Seq(V) : FlattenSeq(ss) \in V
        BY FlattenIsSeq
    <2> HIDE DEF V
    <2> QED
        BY <2>1, <2>2, <2>3
<1>2. \A ss \in Seq(V), x \in Layout : join[<<x, ss>>] = FlattenSeq(ss)
    <2> HIDE DEF V
    <2> QED
        OBVIOUS
<1> HIDE DEF join, V
<1>3. PICK f \in [Layout -> V] : Defines(f, V, leaf, join)
    <2> HIDE DEF leaf
    <2> QED
        BY <1>1, LayoutRecursion
<1>4. ASSUME NEW g, g \in [Layout -> V]
      PROVE  \A x \in Layout : ~IsLeaf(x) => Along(x.children, g) \in Seq(V)
    BY <1>4, LayoutFacts, AlongFacts DEF Maps
<1>5. \A x \in Layout : f[x] = IF IsLeaf(x) THEN <<x.session>> ELSE FlattenSeq(Along(x.children, f))
    BY <1>2, <1>3, <1>4 DEF Defines
<1>6. leaves = [node \in Layout |-> IF IsLeaf(node) THEN <<node.session>>
                                    ELSE FlattenSeq(Along(node.children, leaves))]
    <2>1. f = [node \in Layout |-> IF IsLeaf(node) THEN <<node.session>>
                ELSE FlattenSeq([i \in DOMAIN node.children |-> f[node.children[i]]])]
        BY <1>5 DEF Along
    <2> QED
        BY <2>1 DEF Along
<1> HIDE DEF leaves
<1>7. Defines(leaves, V, leaf, join)
    <2>1. \A x \in Layout : leaves[x] = IF IsLeaf(x) THEN <<x.session>> ELSE FlattenSeq(Along(x.children, leaves))
        BY <1>6
    <2>2. leaves = [x \in Layout |-> leaves[x]]
        BY <1>6
    <2> QED
        BY <1>2, <2>1, <2>2 DEF Defines
<1>8. leaves \in [Layout -> V]
    <2> HIDE DEF leaf
    <2> QED
        BY <1>1, <1>7, LayoutRecursion
<1>9. \A x : Leaves(x) = leaves[x]
    BY DEF Leaves, leaves
<1>10. \A x \in Layout : leaves[x] = IF IsLeaf(x) THEN <<x.session>>
                                     ELSE FlattenSeq(Along(x.children, leaves))
    BY <1>6
<1> QED
    BY <1>8, <1>9, <1>10 DEF V

\* The paths of each child, from the parent.
Labelled(ss) == [i \in DOMAIN ss |-> [k \in DOMAIN ss[i] |-> <<i>> \o ss[i][k]]]

\* As many paths as before, with one step more.
LEMMA LabelledFacts ==
    ASSUME NEW ss \in Seq(Seq(Path))
    PROVE  /\ Labelled(ss) \in Seq(Seq(Path)) /\ Len(Labelled(ss)) = Len(ss)
           /\ \A i \in 1 .. Len(ss) :
                 /\ ss[i] \in Seq(Path) /\ Labelled(ss)[i] \in Seq(Path)
                 /\ Len(Labelled(ss)[i]) = Len(ss[i])
                 /\ \A k \in 1 .. Len(ss[i]) : /\ Labelled(ss)[i][k] = <<i>> \o ss[i][k]
                                               /\ ss[i][k] \in Path
<1>1. Len(ss) \in Nat /\ DOMAIN ss = 1 .. Len(ss) /\ \A i \in 1 .. Len(ss) : ss[i] \in Seq(Path)
    BY LenProperties, ElementOfSeq
<1> DEFINE under(i) == [k \in DOMAIN ss[i] |-> <<i>> \o ss[i][k]]
<1>2. ASSUME NEW i \in 1 .. Len(ss)
      PROVE  /\ under(i) \in Seq(Path) /\ Len(under(i)) = Len(ss[i])
             /\ \A k \in 1 .. Len(ss[i]) : under(i)[k] = <<i>> \o ss[i][k] /\ ss[i][k] \in Path
    <2>1. PICK s \in Seq(Path) : s = ss[i]
        BY <1>1
    <2>2. Len(s) \in Nat /\ DOMAIN s = 1 .. Len(s) /\ \A k \in 1 .. Len(s) : s[k] \in Path
        BY LenProperties, ElementOfSeq
    <2> DEFINE at(k) == <<i>> \o s[k]
    <2>3. ASSUME NEW k \in 1 .. Len(s)
          PROVE  at(k) \in Path
        <3>1. s[k] \in Path /\ <<i>> \in Path
            BY <1>1, <2>2 DEF Path
        <3> QED
            BY <3>1, ConcatProperties DEF Path
    <2>4. under(i) = [k \in 1 .. Len(s) |-> at(k)]
        BY <2>1, <2>2
    <2>5. PICK u : u = under(i)
        OBVIOUS
    <2>6. u \in Seq(Path) /\ Len(u) = Len(s) /\ \A k \in 1 .. Len(s) : u[k] = at(k)
        <3> HIDE DEF at, under
        <3>1. u = [k \in 1 .. Len(s) |-> at(k)]
            BY <2>4, <2>5
        <3>2. \A k \in 1 .. Len(s) : at(k) \in Path
            BY <2>3
        <3> QED
            BY <2>2, <3>1, <3>2
    <2>7. \A k \in 1 .. Len(s) : at(k) = <<i>> \o ss[i][k] /\ ss[i][k] \in Path
        BY <2>1, <2>2
    <2> HIDE DEF under, at
    <2> QED
        BY <2>1, <2>5, <2>6, <2>7
<1>3. Labelled(ss) = [i \in 1 .. Len(ss) |-> under(i)]
    BY <1>1 DEF Labelled
<1> HIDE DEF under
<1>4. Labelled(ss) \in Seq(Seq(Path)) /\ Len(Labelled(ss)) = Len(ss)
    <2>1. \A i \in 1 .. Len(ss) : under(i) \in Seq(Path)
        BY <1>2
    <2> QED
        BY <1>1, <1>3, <2>1
<1>5. \A i \in 1 .. Len(ss) : Labelled(ss)[i] = under(i)
    BY <1>3
<1> QED
    BY <1>1, <1>2, <1>4, <1>5

\* So is Paths.
LEMMA PathsEquation ==
    \E f : /\ f \in [Layout -> Seq(Path)]
           /\ \A x \in Layout : Paths(x) = f[x]
           /\ \A x \in Layout : f[x] = IF IsLeaf(x) THEN <<<<>>>>
                                       ELSE FlattenSeq(Labelled(Along(x.children, f)))
<1> DEFINE V == Seq(Path)
           leaf == [x \in Layout |-> <<<<>>>>]
           join == [arg \in Layout \X Seq(V) |-> FlattenSeq(Labelled(arg[2]))]
           paths == CHOOSE g : g = [node \in Layout |->
                IF IsLeaf(node) THEN <<<<>>>>
                ELSE FlattenSeq([i \in DOMAIN node.children |->
                         LET below == g[node.children[i]] IN [k \in DOMAIN below |-> <<i>> \o below[k]]])]
<1>1. V # {} /\ leaf \in [Layout -> V] /\ join \in [Layout \X Seq(V) -> V]
    <2>1. <<>> \in V /\ <<<<>>>> \in V
        BY EmptySeq DEF Path
    <2>2. \A ss \in Seq(V) : FlattenSeq(Labelled(ss)) \in V
        BY FlattenIsSeq, LabelledFacts
    <2> HIDE DEF V
    <2> QED
        BY <2>1, <2>2
<1>2. \A ss \in Seq(V), x \in Layout : join[<<x, ss>>] = FlattenSeq(Labelled(ss))
    <2> HIDE DEF V
    <2> QED
        OBVIOUS
<1>3. \A g, x : x \in Layout /\ ~IsLeaf(x) =>
          Labelled(Along(x.children, g)) =
              [i \in DOMAIN x.children |-> LET below == g[x.children[i]] IN [k \in DOMAIN below |-> <<i>> \o below[k]]]
    BY DEF Labelled, Along
<1> HIDE DEF join, V
<1>4. PICK f \in [Layout -> V] : Defines(f, V, leaf, join)
    <2> HIDE DEF leaf
    <2> QED
        BY <1>1, LayoutRecursion
<1>5. ASSUME NEW g, g \in [Layout -> V]
      PROVE  \A x \in Layout : ~IsLeaf(x) => Along(x.children, g) \in Seq(V)
    BY <1>5, LayoutFacts, AlongFacts DEF Maps
<1>6. \A x \in Layout : f[x] = IF IsLeaf(x) THEN <<<<>>>> ELSE FlattenSeq(Labelled(Along(x.children, f)))
    BY <1>2, <1>4, <1>5 DEF Defines
<1>7. paths = [node \in Layout |-> IF IsLeaf(node) THEN <<<<>>>>
                                   ELSE FlattenSeq(Labelled(Along(node.children, paths)))]
    <2>1. f = [node \in Layout |-> IF IsLeaf(node) THEN <<<<>>>>
                ELSE FlattenSeq([i \in DOMAIN node.children |->
                         LET below == f[node.children[i]] IN [k \in DOMAIN below |-> <<i>> \o below[k]]])]
        BY <1>3, <1>6
    <2>2. paths = [node \in Layout |-> IF IsLeaf(node) THEN <<<<>>>>
                ELSE FlattenSeq([i \in DOMAIN node.children |->
                         LET below == paths[node.children[i]] IN [k \in DOMAIN below |-> <<i>> \o below[k]]])]
        BY <2>1
    <2> HIDE DEF paths
    <2>3. ASSUME NEW x \in Layout
          PROVE  paths[x] = IF IsLeaf(x) THEN <<<<>>>> ELSE FlattenSeq(Labelled(Along(x.children, paths)))
        <3>1. paths[x] = IF IsLeaf(x) THEN <<<<>>>>
                ELSE FlattenSeq([i \in DOMAIN x.children |->
                         LET below == paths[x.children[i]] IN [k \in DOMAIN below |-> <<i>> \o below[k]]])
            BY <2>2
        <3> QED
            BY <1>3, <3>1
    <2>4. paths = [x \in Layout |-> paths[x]]
        BY <2>2
    <2> QED
        BY <2>3, <2>4
<1> HIDE DEF paths
<1>8. Defines(paths, V, leaf, join)
    <2>1. \A x \in Layout : paths[x] = IF IsLeaf(x) THEN <<<<>>>> ELSE FlattenSeq(Labelled(Along(x.children, paths)))
        BY <1>7
    <2>2. paths = [x \in Layout |-> paths[x]]
        BY <1>7
    <2> QED
        BY <1>2, <2>1, <2>2 DEF Defines
<1>9. paths \in [Layout -> V]
    <2> HIDE DEF leaf
    <2> QED
        BY <1>1, <1>8, LayoutRecursion
<1>10. \A x : Paths(x) = paths[x]
    BY DEF Paths, paths
<1>11. \A x \in Layout : paths[x] = IF IsLeaf(x) THEN <<<<>>>>
                                    ELSE FlattenSeq(Labelled(Along(x.children, paths)))
    BY <1>7
<1> QED
    BY <1>9, <1>10, <1>11 DEF V

\* So is Nodes.
LEMMA NodesEquation ==
    \A x \in Layout : Nodes(x) = {x} \cup IF IsLeaf(x) THEN {} ELSE UNION {Nodes(c) : c \in ToSet(x.children)}
<1> DEFINE V == SUBSET Layout
           leaf == [x \in Layout |-> {x}]
           join == [arg \in Layout \X Seq(V) |-> {arg[1]} \cup UNION ToSet(arg[2])]
           nodes == CHOOSE g : g = [node \in Layout |->
                {node} \cup IF IsLeaf(node) THEN {}
                            ELSE UNION {g[c] : c \in ToSet(node.children)}]
<1>1. V # {} /\ leaf \in [Layout -> V] /\ join \in [Layout \X Seq(V) -> V]
    <2>1. ASSUME NEW vs \in Seq(V)
          PROVE  UNION ToSet(vs) \in V
        <3>1. \A i \in DOMAIN vs : vs[i] \in V
            BY LenProperties, ElementOfSeq
        <3> QED
            BY <3>1 DEF ToSet
    <2>2. \A x \in Layout, vs \in Seq(V) : {x} \cup UNION ToSet(vs) \in V
        BY <2>1
    <2> QED
        BY <2>2
<1>2. \A vs \in Seq(V), x \in Layout : join[<<x, vs>>] = {x} \cup UNION ToSet(vs)
    <2> HIDE DEF V
    <2> QED
        OBVIOUS
<1>3. \A g, x : x \in Layout /\ ~IsLeaf(x) =>
          UNION ToSet(Along(x.children, g)) = UNION {g[c] : c \in ToSet(x.children)}
    BY DEF ToSet, Along
<1> HIDE DEF join, V
<1>4. PICK f \in [Layout -> V] : Defines(f, V, leaf, join)
    <2> HIDE DEF leaf
    <2> QED
        BY <1>1, LayoutRecursion
<1>5. \A x \in Layout : ~IsLeaf(x) => Along(x.children, f) \in Seq(V)
    BY <1>4, LayoutFacts, AlongFacts DEF Maps
<1>6. \A x \in Layout : f[x] = {x} \cup IF IsLeaf(x) THEN {} ELSE UNION ToSet(Along(x.children, f))
    BY <1>2, <1>4, <1>5 DEF Defines
<1>7. \A x \in Layout : f[x] = {x} \cup IF IsLeaf(x) THEN {} ELSE UNION {f[c] : c \in ToSet(x.children)}
    BY <1>3, <1>6
<1>8. nodes = [node \in Layout |->
                {node} \cup IF IsLeaf(node) THEN {}
                            ELSE UNION {nodes[c] : c \in ToSet(node.children)}]
    <2>1. f = [node \in Layout |-> {node} \cup IF IsLeaf(node) THEN {}
                                               ELSE UNION {f[c] : c \in ToSet(node.children)}]
        BY <1>7
    <2> QED
        BY <2>1
<1>9. \A x : Nodes(x) = nodes[x]
    BY DEF Nodes, nodes
<1> HIDE DEF nodes
<1>10. \A x \in Layout : nodes[x] = {x} \cup IF IsLeaf(x) THEN {} ELSE UNION {nodes[c] : c \in ToSet(x.children)}
    BY <1>8
<1> QED
    BY <1>9, <1>10

-----------------------------------------------------------------------------
(* What is defined by recursion on paths.                                   *)

ChildOn(x, p) == x.children[Head(p)]

\* Where a path leads on from a node, and where it does not.
LEMMA LeadsFacts ==
    ASSUME NEW x \in Layout, NEW p \in Path, p # <<>>
    PROVE  /\ Tail(p) \in Path /\ Len(Tail(p)) = Len(p) - 1 /\ Len(p) \in Nat \ {0} /\ Head(p) \in Nat
           /\ p = <<Head(p)>> \o Tail(p)
           /\ Leads(x, p) => /\ ~IsLeaf(x) /\ x.children \in Seq(Layout)
                             /\ Head(p) \in 1 .. Len(x.children)
                             /\ ChildOn(x, p) \in Layout
<1>1. /\ Tail(p) \in Path /\ Len(Tail(p)) = Len(p) - 1 /\ Len(p) \in Nat \ {0} /\ Head(p) \in Nat
      /\ p = <<Head(p)>> \o Tail(p)
    BY HeadTailProperties, LenProperties, EmptySeq DEF Path
<1>2. ASSUME Leads(x, p)
      PROVE  /\ ~IsLeaf(x) /\ x.children \in Seq(Layout)
             /\ Head(p) \in 1 .. Len(x.children)
             /\ ChildOn(x, p) \in Layout
    <2>1. ~IsLeaf(x) /\ x.children \in Seq(Layout) /\ Head(p) \in DOMAIN x.children
        BY <1>2, LayoutFacts DEF Leads
    <2> QED
        BY <2>1, LenProperties, ElementOfSeq DEF ChildOn
<1> QED
    BY <1>1, <1>2

FollowsPath(f, V, base, down, miss) ==
    /\ f \in [Path -> [Layout -> V]]
    /\ \A x \in Layout : f[<<>>][x] = base[x]
    /\ \A p \in Path, x \in Layout : p # <<>> =>
          f[p][x] = IF Leads(x, p) THEN down[<<p, x, f[Tail(p)][ChildOn(x, p)]>>] ELSE miss[x]

\* A definition by recursion on a path has a solution.
LEMMA PathRecursion ==
    ASSUME NEW V, V # {}, NEW base \in [Layout -> V], NEW miss \in [Layout -> V],
           NEW down \in [Path \X Layout \X V -> V]
    PROVE  \E f : FollowsPath(f, V, base, down, miss)
<1> DEFINE W == [Layout -> V]
           size == [p \in Path |-> Len(p)]
           At(p, x, f) == IF p = <<>> THEN base[x]
                          ELSE IF Leads(x, p) THEN down[<<p, x, f[Tail(p)][ChildOn(x, p)]>>] ELSE miss[x]
           Value(p, f) == [x \in Layout |-> At(p, x, f)]
           step == [arg \in Path \X [Path -> W] |-> Value(arg[1], arg[2])]
<1>1. size \in [Path -> Nat] /\ W # {}
    BY LenProperties DEF Path
<1>2. ASSUME NEW p \in Path, NEW f \in [Path -> W]
      PROVE  Value(p, f) \in W
    <2>1. ASSUME NEW x \in Layout
          PROVE  At(p, x, f) \in V
        <3>1. CASE p # <<>> /\ Leads(x, p)
            <4>1. Tail(p) \in Path /\ ChildOn(x, p) \in Layout
                BY <3>1, LeadsFacts
            <4>2. f[Tail(p)] \in W
                BY <4>1
            <4>3. PICK g \in [Layout -> V] : g = f[Tail(p)]
                BY <4>2
            <4>4. g[ChildOn(x, p)] \in V
                BY <4>1
            <4> QED
                BY <3>1, <4>3, <4>4
        <3> QED
            BY <3>1
    <2> HIDE DEF At
    <2> QED
        BY <2>1
<1>3. ASSUME NEW p \in Path, NEW f \in [Path -> W], NEW g \in [Path -> W],
             \A q \in Path : size[q] < size[p] => f[q] = g[q]
      PROVE  Value(p, f) = Value(p, g)
    <2>1. ASSUME NEW x \in Layout
          PROVE  At(p, x, f) = At(p, x, g)
        <3>1. CASE p # <<>> /\ Leads(x, p)
            <4>1. Tail(p) \in Path /\ Len(Tail(p)) = Len(p) - 1 /\ Len(p) \in Nat
                BY <3>1, LeadsFacts
            <4>2. size[Tail(p)] < size[p]
                <5>1. PICK n \in Nat : n = Len(p)
                    BY <4>1
                <5>2. size[p] = n /\ size[Tail(p)] = n - 1
                    BY <4>1, <5>1
                <5>3. n - 1 < n
                    OBVIOUS
                <5> QED
                    BY <5>2, <5>3
            <4>3. f[Tail(p)] = g[Tail(p)]
                BY <1>3, <4>1, <4>2
            <4> QED
                BY <4>3
        <3> QED
            BY <3>1
    <2> HIDE DEF At
    <2> QED
        BY <2>1
<1>4. Recursive(Path, size, W, step)
    <2> HIDE DEF Value, W
    <2>1. step \in [Path \X [Path -> W] -> W]
        BY <1>2
    <2>2. \A p \in Path, f \in [Path -> W] : step[<<p, f>>] = Value(p, f)
        OBVIOUS
    <2> HIDE DEF step, size
    <2>3. ASSUME NEW p \in Path, NEW f \in [Path -> W], NEW g \in [Path -> W],
                 \A q \in Path : size[q] < size[p] => f[q] = g[q]
          PROVE  step[<<p, f>>] = step[<<p, g>>]
        BY <1>3, <2>2, <2>3
    <2> QED
        BY <1>1, <2>1, <2>3 DEF Recursive
<1>5. PICK f : Solves(f, Path, W, step)
    <2> HIDE DEF step, size, W
    <2> QED
        BY <1>4, RecursionExists
<1>6. f \in [Path -> W] /\ \A p \in Path : f[p] = Value(p, f)
    <2> HIDE DEF Value, W
    <2> QED
        BY <1>5 DEF Solves
<1>7. \A p \in Path, x \in Layout : f[p][x] = At(p, x, f)
    <2> HIDE DEF At
    <2> QED
        BY <1>6
<1>8. <<>> \in Path
    BY EmptySeq DEF Path
<1>9. FollowsPath(f, V, base, down, miss)
    <2>1. \A x \in Layout : f[<<>>][x] = base[x]
        BY <1>7, <1>8
    <2>2. \A p \in Path, x \in Layout : p # <<>> =>
             f[p][x] = IF Leads(x, p) THEN down[<<p, x, f[Tail(p)][ChildOn(x, p)]>>] ELSE miss[x]
        BY <1>7
    <2> QED
        BY <1>6, <2>1, <2>2 DEF FollowsPath
<1> QED
    BY <1>9

\* The equation of NodeAt.
LEMMA NodeAtEquation ==
    /\ \A x \in Layout : NodeAt(x, <<>>) = x
    /\ \A x \in Layout, p \in Path : p # <<>> =>
          NodeAt(x, p) = IF Leads(x, p) THEN NodeAt(ChildOn(x, p), Tail(p)) ELSE Nothing
<1> DEFINE V == Layout \cup {Nothing}
           base == [x \in Layout |-> x]
           miss == [x \in Layout |-> Nothing]
           down == [arg \in Path \X Layout \X V |-> arg[3]]
           at == CHOOSE g : g = [rest \in Path |->
                     [node \in Layout |->
                         IF rest = <<>> THEN node
                         ELSE IF Leads(node, rest) THEN g[Tail(rest)][node.children[Head(rest)]]
                         ELSE Nothing]]
<1>1. V # {} /\ base \in [Layout -> V] /\ miss \in [Layout -> V] /\ down \in [Path \X Layout \X V -> V]
    OBVIOUS
<1>2. \A p \in Path, x \in Layout, v \in V : down[<<p, x, v>>] = v
    <2> HIDE DEF V
    <2> QED
        OBVIOUS
<1>3. PICK f : FollowsPath(f, V, base, down, miss)
    <2> HIDE DEF V, base, miss, down
    <2> QED
        BY <1>1, PathRecursion
<1>4. \A p \in Path, x \in Layout :
         f[p][x] = IF p = <<>> THEN x ELSE IF Leads(x, p) THEN f[Tail(p)][ChildOn(x, p)] ELSE Nothing
    <2>1. ASSUME NEW p \in Path, NEW x \in Layout, p # <<>>, Leads(x, p)
          PROVE  f[p][x] = f[Tail(p)][ChildOn(x, p)]
        <3>1. Tail(p) \in Path /\ ChildOn(x, p) \in Layout
            BY <2>1, LeadsFacts
        <3> HIDE DEF V, down
        <3>2. f[Tail(p)][ChildOn(x, p)] \in V
            BY <1>3, <3>1 DEF FollowsPath
        <3>3. PICK v \in V : v = f[Tail(p)][ChildOn(x, p)]
            BY <3>2
        <3>4. f[p][x] = down[<<p, x, v>>]
            BY <1>3, <2>1, <3>3 DEF FollowsPath
        <3>5. down[<<p, x, v>>] = v
            BY <1>2
        <3> QED
            BY <3>3, <3>4, <3>5
    <2> HIDE DEF V, down
    <2> QED
        BY <1>3, <2>1 DEF FollowsPath
<1>5. f = [rest \in Path |->
                     [node \in Layout |->
                         IF rest = <<>> THEN node
                         ELSE IF Leads(node, rest) THEN f[Tail(rest)][node.children[Head(rest)]]
                         ELSE Nothing]]
    <2> HIDE DEF V, down
    <2>1. f = [rest \in Path |-> [node \in Layout |-> f[rest][node]]]
        BY <1>3 DEF FollowsPath
    <2> QED
        BY <1>4, <2>1 DEF ChildOn
<1>6. at = [rest \in Path |->
                     [node \in Layout |->
                         IF rest = <<>> THEN node
                         ELSE IF Leads(node, rest) THEN at[Tail(rest)][node.children[Head(rest)]]
                         ELSE Nothing]]
    <2> HIDE DEF V, down
    <2> QED
        BY <1>5
<1>7. \A x, p : NodeAt(x, p) = at[p][x]
    BY DEF NodeAt, at
<1> HIDE DEF at, V, down
<1>8. \A p \in Path, x \in Layout :
         at[p][x] = IF p = <<>> THEN x ELSE IF Leads(x, p) THEN at[Tail(p)][ChildOn(x, p)] ELSE Nothing
    <2> SUFFICES ASSUME NEW p \in Path, NEW x \in Layout
                 PROVE  at[p][x] = IF p = <<>> THEN x
                                   ELSE IF Leads(x, p) THEN at[Tail(p)][ChildOn(x, p)] ELSE Nothing
        OBVIOUS
    <2>1. at[p] = [node \in Layout |->
                      IF p = <<>> THEN node
                      ELSE IF Leads(node, p) THEN at[Tail(p)][node.children[Head(p)]]
                      ELSE Nothing]
        BY <1>6
    <2> QED
        BY <2>1 DEF ChildOn
<1>9. <<>> \in Path
    BY EmptySeq DEF Path
<1> QED
    BY <1>7, <1>8, <1>9

\* Nodes of any height.
AnyNode == UNION {OfLevels[n] : n \in Nat}

\* A child is replaced.
WithChild(x, i, c) == [x EXCEPT !.children[i] = c]

\* A split with another node in the place of one child.
LEMMA WithChildFacts ==
    ASSUME NEW x \in Layout, ~IsLeaf(x), NEW i \in 1 .. Len(x.children), NEW c
    PROVE  /\ WithChild(x, i, c) = SplitOf(x.split, [x.children EXCEPT ![i] = c])
           /\ c \in AnyNode => WithChild(x, i, c) \in AnyNode
<1>1. /\ x = SplitOf(x.split, x.children) /\ x.split \in {"h", "v"}
      /\ x.children \in Seq(Layout)
    BY LayoutFacts
<1>2. PICK d \in {"h", "v"}, cs \in Seq(Layout) : x = SplitOf(d, cs) /\ x.split = d /\ x.children = cs
    BY <1>1
<1>3. WithChild(x, i, c) = SplitOf(d, [cs EXCEPT ![i] = c])
    <2>1. x = [split |-> d, children |-> cs]
        BY <1>2 DEF SplitOf
    <2>2. [x EXCEPT !.children[i] = c] = [split |-> d, children |-> [cs EXCEPT ![i] = c]]
        BY <2>1, SMTT(60)
    <2> QED
        BY <2>2 DEF WithChild, SplitOf
<1>4. ASSUME c \in AnyNode
      PROVE  SplitOf(d, [cs EXCEPT ![i] = c]) \in AnyNode
    <2>1. PICK n \in Nat : c \in OfLevels[n]
        BY <1>4 DEF AnyNode
    <2>2. MaxLevels \in Nat
        BY LayoutTreeAssumption
    <2>3. PICK m \in Nat : n <= m /\ MaxLevels <= m
        <3>1. n <= n + MaxLevels /\ MaxLevels <= n + MaxLevels /\ n + MaxLevels \in Nat
            BY <2>2
        <3> QED
            BY <3>1
    <2>4. c \in OfLevels[m] /\ Layout \subseteq OfLevels[m]
        BY <2>1, <2>2, <2>3, LevelsGrow DEF Layout
    <2>5. cs \in Seq(OfLevels[m])
        BY <2>4
    <2>6. [cs EXCEPT ![i] = c] \in Seq(OfLevels[m])
        BY <1>2, <2>4, <2>5, ExceptSeq
    <2>7. SplitOf(d, [cs EXCEPT ![i] = c]) \in OfLevels[m + 1]
        BY <2>6, SplitFacts
    <2> QED
        BY <2>7 DEF AnyNode
<1> QED
    BY <1>2, <1>3, <1>4

\* The equation of WithNode.
LEMMA WithNodeEquation ==
    ASSUME NEW new \in AnyNode
    PROVE  /\ \A x \in Layout : WithNode(x, <<>>, new) = new
           /\ \A x \in Layout, p \in Path : p # <<>> =>
                WithNode(x, p, new) = IF Leads(x, p)
                                      THEN WithChild(x, Head(p), WithNode(ChildOn(x, p), Tail(p), new))
                                      ELSE x
<1> DEFINE V == AnyNode
           base == [x \in Layout |-> new]
           miss == [x \in Layout |-> x]
           down == [arg \in Path \X Layout \X V |->
                       IF arg[1] # <<>> /\ Leads(arg[2], arg[1]) THEN WithChild(arg[2], Head(arg[1]), arg[3]) ELSE new]
           with == CHOOSE g : g = [rest \in Path |->
                      [node \in Layout |->
                         IF rest = <<>> THEN new
                         ELSE IF Leads(node, rest)
                         THEN [node EXCEPT !.children[Head(rest)] = g[Tail(rest)][@]]
                         ELSE node]]
<1>1. V # {} /\ base \in [Layout -> V] /\ miss \in [Layout -> V]
    <2>1. Layout \subseteq V /\ new \in V
        BY LayoutTreeAssumption DEF Layout, AnyNode
    <2> HIDE DEF V
    <2> QED
        BY <2>1
<1>2. down \in [Path \X Layout \X V -> V]
    <2>1. ASSUME NEW p \in Path, NEW x \in Layout, NEW v \in V, p # <<>>, Leads(x, p)
          PROVE  WithChild(x, Head(p), v) \in V
        <3>1. ~IsLeaf(x) /\ Head(p) \in 1 .. Len(x.children)
            BY <2>1, LeadsFacts
        <3>2. PICK i \in 1 .. Len(x.children) : i = Head(p)
            BY <3>1
        <3> QED
            BY <3>1, <3>2, WithChildFacts
    <2>2. new \in V
        OBVIOUS
    <2> HIDE DEF V
    <2> QED
        BY <2>1, <2>2
<1>3. \A p \in Path, x \in Layout, v \in V : p # <<>> /\ Leads(x, p) => down[<<p, x, v>>] = WithChild(x, Head(p), v)
    <2> HIDE DEF V
    <2> QED
        OBVIOUS
<1>4. PICK f : FollowsPath(f, V, base, down, miss)
    <2> HIDE DEF V, base, miss, down
    <2> QED
        BY <1>1, <1>2, PathRecursion
<1>5. \A p \in Path, x \in Layout :
         f[p][x] = IF p = <<>> THEN new
                   ELSE IF Leads(x, p) THEN WithChild(x, Head(p), f[Tail(p)][ChildOn(x, p)]) ELSE x
    <2>1. ASSUME NEW p \in Path, NEW x \in Layout, p # <<>>, Leads(x, p)
          PROVE  f[p][x] = WithChild(x, Head(p), f[Tail(p)][ChildOn(x, p)])
        <3>1. Tail(p) \in Path /\ ChildOn(x, p) \in Layout
            BY <2>1, LeadsFacts
        <3> HIDE DEF V, down
        <3>2. f[Tail(p)][ChildOn(x, p)] \in V
            BY <1>4, <3>1 DEF FollowsPath
        <3>3. PICK v \in V : v = f[Tail(p)][ChildOn(x, p)]
            BY <3>2
        <3>4. f[p][x] = down[<<p, x, v>>]
            BY <1>4, <2>1, <3>3 DEF FollowsPath
        <3>5. down[<<p, x, v>>] = WithChild(x, Head(p), v)
            BY <1>3, <2>1
        <3> QED
            BY <3>3, <3>4, <3>5
    <2> HIDE DEF V, down
    <2> QED
        BY <1>4, <2>1 DEF FollowsPath
<1>6. f = [rest \in Path |->
                      [node \in Layout |->
                         IF rest = <<>> THEN new
                         ELSE IF Leads(node, rest)
                         THEN [node EXCEPT !.children[Head(rest)] = f[Tail(rest)][@]]
                         ELSE node]]
    <2> HIDE DEF V, down
    <2>1. f = [rest \in Path |-> [node \in Layout |-> f[rest][node]]]
        BY <1>4 DEF FollowsPath
    <2>2. ASSUME NEW p \in Path, NEW x \in Layout
          PROVE  f[p][x] = IF p = <<>> THEN new
                           ELSE IF Leads(x, p)
                           THEN [x EXCEPT !.children[Head(p)] = f[Tail(p)][@]]
                           ELSE x
        BY <1>5 DEF ChildOn, WithChild
    <2> QED
        BY <2>1, <2>2
<1>7. with = [rest \in Path |->
                      [node \in Layout |->
                         IF rest = <<>> THEN new
                         ELSE IF Leads(node, rest)
                         THEN [node EXCEPT !.children[Head(rest)] = with[Tail(rest)][@]]
                         ELSE node]]
    <2> HIDE DEF V, down
    <2> QED
        BY <1>6
<1>8. \A x, p : WithNode(x, p, new) = with[p][x]
    BY DEF WithNode, with
<1> HIDE DEF with, V, down
<1>9. ASSUME NEW p \in Path, NEW x \in Layout
      PROVE  with[p][x] = IF p = <<>> THEN new
                          ELSE IF Leads(x, p) THEN WithChild(x, Head(p), with[Tail(p)][ChildOn(x, p)]) ELSE x
    <2>1. with[p] = [node \in Layout |->
                         IF p = <<>> THEN new
                         ELSE IF Leads(node, p)
                         THEN [node EXCEPT !.children[Head(p)] = with[Tail(p)][@]]
                         ELSE node]
        BY <1>7
    <2> QED
        BY <2>1 DEF ChildOn, WithChild
<1>10. <<>> \in Path
    BY EmptySeq DEF Path
<1> QED
    BY <1>8, <1>9, <1>10

-----------------------------------------------------------------------------
(* The panes of a layout, and of the children of a split.                   *)

AllLeaves(cs) == FlattenSeq([i \in DOMAIN cs |-> Leaves(cs[i])])

\* The panes of several layouts.
LEMMA AllLeavesFacts ==
    /\ AllLeaves(<<>>) = <<>>
    /\ \A c \in Layout : AllLeaves(<<c>>) = Leaves(c)
    /\ \A cs \in Seq(Layout) : AllLeaves(cs) \in Seq(Shown)
    /\ \A aa, bb \in Seq(Layout) : AllLeaves(aa \o bb) = AllLeaves(aa) \o AllLeaves(bb)
<1>1. PICK f : /\ f \in [Layout -> Seq(Shown)]
               /\ \A x \in Layout : Leaves(x) = f[x]
    BY LeavesEquation
<1>2. \A x \in Layout : f[x] \in Seq(Shown)
    BY <1>1
<1>7. ASSUME NEW cs \in Seq(Layout)
      PROVE  AllLeaves(cs) = FlattenSeq(Along(cs, f)) /\ Along(cs, f) \in Seq(Seq(Shown))
    <2>1. \A i \in DOMAIN cs : Leaves(cs[i]) = f[cs[i]]
        BY <1>1, LenProperties, ElementOfSeq
    <2>2. [i \in DOMAIN cs |-> Leaves(cs[i])] = Along(cs, f)
        BY <2>1 DEF Along
    <2>3. Along(cs, f) \in Seq(Seq(Shown))
        BY <1>2, AlongFacts DEF Maps
    <2> QED
        BY <2>2, <2>3 DEF AllLeaves
<1>3. AllLeaves(<<>>) = <<>>
    <2>1. [i \in DOMAIN <<>> |-> Leaves(<<>>[i])] = <<>>
        OBVIOUS
    <2> QED
        BY <2>1, FlattenNone DEF AllLeaves
<1>4. ASSUME NEW c \in Layout
      PROVE  AllLeaves(<<c>>) = Leaves(c)
    <2>1. [i \in DOMAIN <<c>> |-> Leaves(<<c>>[i])] = <<Leaves(c)>>
        OBVIOUS
    <2>2. Leaves(c) \in Seq(Shown)
        BY <1>1
    <2> QED
        BY <2>1, <2>2, FlattenOne DEF AllLeaves
<1>5. ASSUME NEW aa \in Seq(Layout), NEW bb \in Seq(Layout)
      PROVE  AllLeaves(aa \o bb) = AllLeaves(aa) \o AllLeaves(bb)
    <2>1. aa \o bb \in Seq(Layout)
        BY ConcatProperties
    <2>2. Along(aa \o bb, f) = Along(aa, f) \o Along(bb, f)
        <3> DEFINE V == Seq(Shown)
        <3>1. Maps(f, Layout, V)
            BY <1>2 DEF Maps
        <3> HIDE DEF V
        <3> QED
            BY <3>1, AlongConcat
    <2>3. FlattenSeq(Along(aa, f) \o Along(bb, f)) = FlattenSeq(Along(aa, f)) \o FlattenSeq(Along(bb, f))
        BY <1>7, FlattenConcat
    <2> QED
        BY <1>7, <2>1, <2>2, <2>3
<1>6. \A cs \in Seq(Layout) : AllLeaves(cs) \in Seq(Shown)
    BY <1>7, FlattenIsSeq
<1> QED
    BY <1>3, <1>4, <1>5, <1>6

\* The panes of a pane and of a split.
LEMMA LeavesFacts ==
    ASSUME NEW x \in Layout
    PROVE  /\ Leaves(x) \in Seq(Shown) /\ Len(Leaves(x)) \in Nat
           /\ IsLeaf(x) => Leaves(x) = <<x.session>>
           /\ ~IsLeaf(x) => Leaves(x) = AllLeaves(x.children)
<1>1. PICK f : /\ f \in [Layout -> Seq(Shown)]
               /\ \A y \in Layout : Leaves(y) = f[y]
               /\ \A y \in Layout : f[y] = IF IsLeaf(y) THEN <<y.session>>
                                           ELSE FlattenSeq(Along(y.children, f))
    BY LeavesEquation
<1>2. Leaves(x) \in Seq(Shown) /\ Len(Leaves(x)) \in Nat
    BY <1>1, LenProperties
<1>3. ASSUME ~IsLeaf(x)
      PROVE  Leaves(x) = AllLeaves(x.children)
    <2>1. \A i \in DOMAIN x.children : Leaves(x.children[i]) = f[x.children[i]]
        BY <1>1, <1>3, LayoutFacts, LenProperties, ElementOfSeq
    <2>2. [i \in DOMAIN x.children |-> Leaves(x.children[i])] = Along(x.children, f)
        BY <2>1 DEF Along
    <2> QED
        BY <1>1, <1>3, <2>2 DEF AllLeaves
<1> QED
    BY <1>1, <1>2, <1>3

\* The panes before the node that a path leads to, and those after it.
NoPanes == [x \in Layout |-> <<>>]
DownAhead == [arg \in Path \X Layout \X Seq(Shown) |->
                 IF arg[1] # <<>> /\ Leads(arg[2], arg[1])
                 THEN AllLeaves(Left(arg[2].children, Head(arg[1]))) \o arg[3] ELSE <<>>]
DownBehind == [arg \in Path \X Layout \X Seq(Shown) |->
                 IF arg[1] # <<>> /\ Leads(arg[2], arg[1])
                 THEN arg[3] \o AllLeaves(Right(arg[2].children, Head(arg[1]))) ELSE <<>>]
Ahead(x, p) == (CHOOSE f : FollowsPath(f, Seq(Shown), NoPanes, DownAhead, NoPanes))[p][x]
Behind(x, p) == (CHOOSE f : FollowsPath(f, Seq(Shown), NoPanes, DownBehind, NoPanes))[p][x]

\* The panes ahead of a node: those of the children to the left, then those ahead in the child.
LEMMA AheadEquation ==
    /\ \A x \in Layout : Ahead(x, <<>>) = <<>>
    /\ \A x \in Layout, p \in Path : Ahead(x, p) \in Seq(Shown)
    /\ \A x \in Layout, p \in Path : p # <<>> /\ Leads(x, p) =>
          Ahead(x, p) = Cat(AllLeaves(Left(x.children, Head(p))), Ahead(ChildOn(x, p), Tail(p)))
<1> DEFINE f == CHOOSE g : FollowsPath(g, Seq(Shown), NoPanes, DownAhead, NoPanes)
<1>1. ASSUME NEW x \in Layout, NEW p \in Path, p # <<>>, Leads(x, p)
      PROVE  AllLeaves(Left(x.children, Head(p))) \in Seq(Shown)
    <2>1. x.children \in Seq(Layout) /\ Head(p) \in 1 .. Len(x.children)
        BY <1>1, LeadsFacts
    <2> QED
        BY <2>1, AroundFacts, AllLeavesFacts
<1>2. DownAhead \in [Path \X Layout \X Seq(Shown) -> Seq(Shown)]
    <2>1. ASSUME NEW p \in Path, NEW x \in Layout, NEW s \in Seq(Shown), p # <<>>, Leads(x, p)
          PROVE  AllLeaves(Left(x.children, Head(p))) \o s \in Seq(Shown)
        BY <1>1, <2>1, ConcatProperties
    <2>2. <<>> \in Seq(Shown)
        BY EmptySeq
    <2> QED
        BY <2>1, <2>2 DEF DownAhead
<1>3. NoPanes \in [Layout -> Seq(Shown)] /\ Seq(Shown) # {}
    BY EmptySeq DEF NoPanes
<1>4. FollowsPath(f, Seq(Shown), NoPanes, DownAhead, NoPanes)
    <2>1. \E g : FollowsPath(g, Seq(Shown), NoPanes, DownAhead, NoPanes)
        BY <1>2, <1>3, PathRecursion
    <2> QED
        BY <2>1
<1>5. \A x, p : Ahead(x, p) = f[p][x]
    BY DEF Ahead
<1> HIDE DEF f
<1>6. \A x \in Layout, p \in Path : f[p][x] \in Seq(Shown)
    BY <1>4 DEF FollowsPath
<1>7. \A x \in Layout : f[<<>>][x] = <<>>
    BY <1>4 DEF FollowsPath, NoPanes
<1>8. ASSUME NEW x \in Layout, NEW p \in Path, p # <<>>, Leads(x, p)
      PROVE  f[p][x] = AllLeaves(Left(x.children, Head(p))) \o f[Tail(p)][ChildOn(x, p)]
    <2>1. Tail(p) \in Path /\ ChildOn(x, p) \in Layout
        BY <1>8, LeadsFacts
    <2>2. PICK s \in Seq(Shown) : s = f[Tail(p)][ChildOn(x, p)]
        BY <1>6, <2>1
    <2>3. f[p][x] = DownAhead[<<p, x, s>>]
        BY <1>4, <1>8, <2>2 DEF FollowsPath
    <2>4. DownAhead[<<p, x, s>>] = AllLeaves(Left(x.children, Head(p))) \o s
        BY <1>8 DEF DownAhead
    <2> QED
        BY <2>2, <2>3, <2>4
<1> QED
    BY <1>5, <1>6, <1>7, <1>8 DEF Cat

\* The panes behind a node: those behind in the child, then those of the children to the right.
LEMMA BehindEquation ==
    /\ \A x \in Layout : Behind(x, <<>>) = <<>>
    /\ \A x \in Layout, p \in Path : Behind(x, p) \in Seq(Shown)
    /\ \A x \in Layout, p \in Path : p # <<>> /\ Leads(x, p) =>
          Behind(x, p) = Cat(Behind(ChildOn(x, p), Tail(p)), AllLeaves(Right(x.children, Head(p))))
<1> DEFINE f == CHOOSE g : FollowsPath(g, Seq(Shown), NoPanes, DownBehind, NoPanes)
<1>1. ASSUME NEW x \in Layout, NEW p \in Path, p # <<>>, Leads(x, p)
      PROVE  AllLeaves(Right(x.children, Head(p))) \in Seq(Shown)
    <2>1. x.children \in Seq(Layout) /\ Head(p) \in 1 .. Len(x.children)
        BY <1>1, LeadsFacts
    <2> QED
        BY <2>1, AroundFacts, AllLeavesFacts
<1>2. DownBehind \in [Path \X Layout \X Seq(Shown) -> Seq(Shown)]
    <2>1. ASSUME NEW p \in Path, NEW x \in Layout, NEW s \in Seq(Shown), p # <<>>, Leads(x, p)
          PROVE  s \o AllLeaves(Right(x.children, Head(p))) \in Seq(Shown)
        BY <1>1, <2>1, ConcatProperties
    <2>2. <<>> \in Seq(Shown)
        BY EmptySeq
    <2> QED
        BY <2>1, <2>2 DEF DownBehind
<1>3. NoPanes \in [Layout -> Seq(Shown)] /\ Seq(Shown) # {}
    BY EmptySeq DEF NoPanes
<1>4. FollowsPath(f, Seq(Shown), NoPanes, DownBehind, NoPanes)
    <2>1. \E g : FollowsPath(g, Seq(Shown), NoPanes, DownBehind, NoPanes)
        BY <1>2, <1>3, PathRecursion
    <2> QED
        BY <2>1
<1>5. \A x, p : Behind(x, p) = f[p][x]
    BY DEF Behind
<1> HIDE DEF f
<1>6. \A x \in Layout, p \in Path : f[p][x] \in Seq(Shown)
    BY <1>4 DEF FollowsPath
<1>7. \A x \in Layout : f[<<>>][x] = <<>>
    BY <1>4 DEF FollowsPath, NoPanes
<1>8. ASSUME NEW x \in Layout, NEW p \in Path, p # <<>>, Leads(x, p)
      PROVE  f[p][x] = f[Tail(p)][ChildOn(x, p)] \o AllLeaves(Right(x.children, Head(p)))
    <2>1. Tail(p) \in Path /\ ChildOn(x, p) \in Layout
        BY <1>8, LeadsFacts
    <2>2. PICK s \in Seq(Shown) : s = f[Tail(p)][ChildOn(x, p)]
        BY <1>6, <2>1
    <2>3. f[p][x] = DownBehind[<<p, x, s>>]
        BY <1>4, <1>8, <2>2 DEF FollowsPath
    <2>4. DownBehind[<<p, x, s>>] = s \o AllLeaves(Right(x.children, Head(p)))
        BY <1>8 DEF DownBehind
    <2> QED
        BY <2>2, <2>3, <2>4
<1> QED
    BY <1>5, <1>6, <1>7, <1>8 DEF Cat

\* A path to a node of the layout leads on, step by step.
LEMMA NodeAtFacts ==
    ASSUME NEW x \in Layout, NEW p \in Path, NodeAt(x, p) \in Layout, p # <<>>
    PROVE  Leads(x, p) /\ NodeAt(x, p) = NodeAt(ChildOn(x, p), Tail(p))
<1>1. Nothing \notin Layout
    <2>1. \A s : Leaf(s) # Nothing
        BY DEF Leaf, Nothing
    <2>2. \A d, cs : SplitOf(d, cs) # Nothing
        BY DEF SplitOf, Nothing
    <2> QED
        BY <2>1, <2>2, LayoutFacts
<1> QED
    BY <1>1, NodeAtEquation

\* Every split of a layout has two children or more.
Full(x) == \A n \in Nodes(x) : ~IsLeaf(n) => Len(n.children) >= 2

\* A full layout: each split has two children or more, and they are full.
LEMMA FullFacts ==
    ASSUME NEW x \in Layout
    PROVE  /\ IsLeaf(x) => Full(x)
           /\ ~IsLeaf(x) => (Full(x) <=> /\ Len(x.children) >= 2
                                         /\ \A i \in 1 .. Len(x.children) : Full(x.children[i]))
<1>1. CASE IsLeaf(x)
    BY <1>1, NodesEquation DEF Full
<1>2. CASE ~IsLeaf(x)
    <2>1. Nodes(x) = {x} \cup UNION {Nodes(c) : c \in ToSet(x.children)}
        BY <1>2, NodesEquation
    <2>2. ToSet(x.children) = {x.children[i] : i \in 1 .. Len(x.children)}
        BY <1>2, LayoutFacts, LenProperties DEF ToSet
    <2>3. \A n : n \in Nodes(x) <=> n = x \/ \E i \in 1 .. Len(x.children) : n \in Nodes(x.children[i])
        BY <2>1, <2>2
    <2> QED
        BY <1>2, <2>3 DEF Full
<1> QED
    BY <1>1, <1>2

-----------------------------------------------------------------------------
(* A layout around the node that a path leads to.                           *)

\* The panes of several layouts, around one of them.
LEMMA AllLeavesAround ==
    ASSUME NEW l \in Seq(Layout), NEW c \in Layout, NEW r \in Seq(Layout)
    PROVE  /\ AllLeaves(l) \in Seq(Shown) /\ AllLeaves(r) \in Seq(Shown) /\ Leaves(c) \in Seq(Shown)
           /\ Cat(Cat(l, <<c>>), r) \in Seq(Layout)
           /\ AllLeaves(Cat(Cat(l, <<c>>), r)) = Cat(Cat(AllLeaves(l), Leaves(c)), AllLeaves(r))
<1>1. <<c>> \in Seq(Layout)
    OBVIOUS
<1>2. PICK one \in Seq(Layout) : one = <<c>>
    BY <1>1
<1>3. \A u, v \in Seq(Layout) : AllLeaves(Cat(u, v)) = Cat(AllLeaves(u), AllLeaves(v))
    BY AllLeavesFacts DEF Cat
<1>4. Cat(l, one) \in Seq(Layout) /\ Cat(Cat(l, one), r) \in Seq(Layout)
    BY CatFacts
<1>5. AllLeaves(one) = Leaves(c)
    BY <1>2, AllLeavesFacts
<1>6. AllLeaves(Cat(Cat(l, one), r)) = Cat(Cat(AllLeaves(l), Leaves(c)), AllLeaves(r))
    BY <1>3, <1>4, <1>5
<1> QED
    BY <1>2, <1>4, <1>6, AllLeavesFacts, LeavesFacts

\* The panes of a split, around one of its children.
LEMMA ChildFacts ==
    ASSUME NEW x \in Layout, ~IsLeaf(x), NEW i \in 1 .. Len(x.children)
    PROVE  /\ x.children[i] \in Layout
           /\ Left(x.children, i) \in Seq(Layout) /\ Right(x.children, i) \in Seq(Layout)
           /\ x.children = Cat(Cat(Left(x.children, i), <<x.children[i]>>), Right(x.children, i))
           /\ Leaves(x) = Cat(Cat(AllLeaves(Left(x.children, i)), Leaves(x.children[i])),
                              AllLeaves(Right(x.children, i)))
<1>1. PICK cs \in Seq(Layout) : cs = x.children
    BY LayoutFacts
<1>2. PICK c \in Layout : c = cs[i]
    BY <1>1, ElementOfSeq
<1>3. /\ Left(cs, i) \in Seq(Layout) /\ Right(cs, i) \in Seq(Layout)
      /\ cs = Cat(Cat(Left(cs, i), <<cs[i]>>), Right(cs, i))
    <2>1. i \in 1 .. Len(cs)
        BY <1>1
    <2> QED
        BY <2>1, AroundFacts DEF Cat
<1>4. PICK l \in Seq(Layout), r \in Seq(Layout) : l = Left(cs, i) /\ r = Right(cs, i)
    BY <1>3
<1>5. cs = Cat(Cat(l, <<c>>), r)
    BY <1>2, <1>3, <1>4
<1>6. AllLeaves(Cat(Cat(l, <<c>>), r)) = Cat(Cat(AllLeaves(l), Leaves(c)), AllLeaves(r))
    BY AllLeavesAround
<1>7. Leaves(x) = AllLeaves(cs)
    BY <1>1, LeavesFacts
<1>8. Leaves(x) = Cat(Cat(AllLeaves(l), Leaves(c)), AllLeaves(r))
    BY <1>5, <1>6, <1>7
<1> QED
    BY <1>1, <1>2, <1>3, <1>4, <1>8

\* The panes of a layout, around those of one of its nodes.
LEMMA InContext ==
    \A p \in Path, x \in Layout : NodeAt(x, p) \in Layout =>
        Leaves(x) = Cat(Cat(Ahead(x, p), Leaves(NodeAt(x, p))), Behind(x, p))
<1> DEFINE G == {p \in Path : \A x \in Layout : NodeAt(x, p) \in Layout =>
                    Leaves(x) = Cat(Cat(Ahead(x, p), Leaves(NodeAt(x, p))), Behind(x, p))}
<1>1. <<>> \in G
    <2>1. <<>> \in Path
        BY EmptySeq DEF Path
    <2>2. ASSUME NEW x \in Layout
          PROVE  Leaves(x) = Cat(Cat(Ahead(x, <<>>), Leaves(NodeAt(x, <<>>))), Behind(x, <<>>))
        <3>1. NodeAt(x, <<>>) = x /\ Ahead(x, <<>>) = <<>> /\ Behind(x, <<>>) = <<>>
            BY NodeAtEquation, AheadEquation, BehindEquation
        <3>2. PICK s \in Seq(Shown) : s = Leaves(x)
            BY LeavesFacts
        <3>3. <<>> \o s = s /\ s \o <<>> = s
            BY ConcatEmptySeq
        <3> QED
            BY <3>1, <3>2, <3>3 DEF Cat
    <2> QED
        BY <2>1, <2>2
<1>2. ASSUME NEW p \in Path, p # <<>>, Tail(p) \in G
      PROVE  p \in G
    <2> SUFFICES ASSUME NEW x \in Layout, NodeAt(x, p) \in Layout
                 PROVE  Leaves(x) = Cat(Cat(Ahead(x, p), Leaves(NodeAt(x, p))), Behind(x, p))
        OBVIOUS
    <2>1. Leads(x, p) /\ NodeAt(x, p) = NodeAt(ChildOn(x, p), Tail(p))
        BY <1>2, NodeAtFacts
    <2>2. PICK i \in 1 .. Len(x.children), c \in Layout, q \in Path :
              i = Head(p) /\ c = ChildOn(x, p) /\ q = Tail(p) /\ c = x.children[i] /\ ~IsLeaf(x)
        BY <1>2, <2>1, LeadsFacts DEF ChildOn
    <2>3. PICK l \in Seq(Shown), a \in Seq(Shown), n \in Seq(Shown), b \in Seq(Shown), r \in Seq(Shown) :
              /\ l = AllLeaves(Left(x.children, i)) /\ r = AllLeaves(Right(x.children, i))
              /\ a = Ahead(c, q) /\ b = Behind(c, q) /\ n = Leaves(NodeAt(x, p))
        BY <2>2, ChildFacts, AllLeavesFacts, AheadEquation, BehindEquation, LeavesFacts
    <2>4. Leaves(c) = Cat(Cat(a, n), b)
        BY <1>2, <2>1, <2>2, <2>3
    <2>5. Leaves(x) = Cat(Cat(l, Leaves(c)), r)
        BY <2>2, <2>3, ChildFacts
    <2>6. Ahead(x, p) = Cat(l, a) /\ Behind(x, p) = Cat(b, r)
        BY <1>2, <2>1, <2>2, <2>3, AheadEquation, BehindEquation
    <2> HIDE DEF G
    <2>7. Cat(Cat(l, Cat(Cat(a, n), b)), r) = Cat(Cat(Cat(l, a), n), Cat(b, r))
        BY CatFacts
    <2> QED
        BY <2>3, <2>4, <2>5, <2>6, <2>7
<1>3. \A p \in Path : p \in G
    <2> HIDE DEF G
    <2> QED
        BY <1>1, <1>2, InductionOnTail DEF Path
<1> QED
    BY <1>3

\* A layout of few levels is a layout.
LEMMA LevelsInLayout ==
    ASSUME NEW m \in Nat, m <= MaxLevels
    PROVE  OfLevels[m] \subseteq Layout
BY LayoutTreeAssumption, LevelsGrow DEF Layout

\* What is left of a layout with another node in the place of one of its own.
Replaced(y, m, x, p, new) ==
    /\ y \in OfLevels[m]
    /\ Leaves(y) = Cat(Cat(Ahead(x, p), Leaves(new)), Behind(x, p))
    /\ Full(x) /\ Full(new) => Full(y)

\* A split one of whose children is replaced.
LEMMA ReplaceChild ==
    ASSUME NEW n \in Nat, n + 1 <= MaxLevels, NEW x \in Layout, ~IsLeaf(x), x.children \in Seq(OfLevels[n]),
           NEW i \in 1 .. Len(x.children), NEW c \in OfLevels[n]
    PROVE  /\ WithChild(x, i, c) \in OfLevels[n + 1]
           /\ Leaves(WithChild(x, i, c)) = Cat(Cat(AllLeaves(Left(x.children, i)), Leaves(c)),
                                               AllLeaves(Right(x.children, i)))
           /\ Full(x) /\ Full(c) => Full(WithChild(x, i, c))
<1>1. PICK cs \in Seq(OfLevels[n]), d \in {"h", "v"} : cs = x.children /\ d = x.split
    BY LayoutFacts
<1>2. PICK ds \in Seq(OfLevels[n]) : ds = [cs EXCEPT ![i] = c] /\ Len(ds) = Len(cs)
                                     /\ \A k \in 1 .. Len(cs) : ds[k] = IF k = i THEN c ELSE cs[k]
    <2> DEFINE N == OfLevels[n]
    <2>1. cs \in Seq(N) /\ c \in N /\ i \in 1 .. Len(cs)
        BY <1>1
    <2> HIDE DEF N
    <2>2. /\ [cs EXCEPT ![i] = c] \in Seq(N) /\ Len([cs EXCEPT ![i] = c]) = Len(cs)
          /\ \A k \in 1 .. Len(cs) : [cs EXCEPT ![i] = c][k] = IF k = i THEN c ELSE cs[k]
        BY <2>1, ExceptSeq
    <2> QED
        BY <2>2 DEF N
<1>3. PICK y : y = WithChild(x, i, c)
    OBVIOUS
<1>4. y = SplitOf(d, ds)
    BY <1>1, <1>2, <1>3, WithChildFacts
<1>5. y \in OfLevels[n + 1] /\ ~IsLeaf(y) /\ y.children = ds
    BY <1>4, SplitFacts
<1>6. n <= MaxLevels /\ n + 1 \in Nat
    BY LayoutTreeAssumption
<1>7. y \in Layout /\ OfLevels[n] \subseteq Layout
    BY <1>5, <1>6, LevelsInLayout
<1>8. cs \in Seq(Layout) /\ c \in Layout /\ i \in 1 .. Len(cs)
    BY <1>1, <1>7
<1>9. PICK l \in Seq(Layout), r \in Seq(Layout) : l = Left(cs, i) /\ r = Right(cs, i)
    BY <1>8, AroundFacts
<1>10. ds = Cat(Cat(l, <<c>>), r)
    <2>1. [cs EXCEPT ![i] = c] = Cat(Cat(Left(cs, i), <<c>>), Right(cs, i))
        BY <1>8, ExceptAround
    <2> QED
        BY <1>2, <1>9, <2>1
<1>11. Leaves(y) = Cat(Cat(AllLeaves(l), Leaves(c)), AllLeaves(r))
    <2>1. AllLeaves(Cat(Cat(l, <<c>>), r)) = Cat(Cat(AllLeaves(l), Leaves(c)), AllLeaves(r))
        BY <1>8, AllLeavesAround
    <2>2. Leaves(y) = AllLeaves(ds)
        BY <1>5, <1>7, LeavesFacts
    <2> QED
        BY <1>10, <2>1, <2>2
<1>12. ASSUME Full(x), Full(c)
       PROVE  Full(y)
    <2>1. Len(cs) >= 2 /\ \A k \in 1 .. Len(cs) : Full(cs[k])
        BY <1>1, <1>12, FullFacts
    <2>2. Len(ds) >= 2 /\ \A k \in 1 .. Len(ds) : Full(ds[k])
        BY <1>2, <1>12, <2>1
    <2> QED
        BY <1>5, <1>7, <2>2, FullFacts
<1> QED
    BY <1>1, <1>3, <1>5, <1>9, <1>11, <1>12

\* A node replaced by one of no more levels than there is room for.
LEMMA PutFacts ==
    \A p \in Path, m, j \in Nat : \A x \in OfLevels[m], new \in OfLevels[j] :
        m <= MaxLevels /\ Len(p) + j <= m /\ NodeAt(x, p) \in Layout =>
            Replaced(WithNode(x, p, new), m, x, p, new)
<1> DEFINE G == {p \in Path : \A m, j \in Nat : \A x \in OfLevels[m], new \in OfLevels[j] :
                    m <= MaxLevels /\ Len(p) + j <= m /\ NodeAt(x, p) \in Layout =>
                       Replaced(WithNode(x, p, new), m, x, p, new)}
<1>1. <<>> \in G
    <2>1. <<>> \in Path
        BY EmptySeq DEF Path
    <2>2. ASSUME NEW m \in Nat, NEW x \in OfLevels[m], NEW j \in Nat, NEW new \in OfLevels[j],
                 m <= MaxLevels, Len(<<>>) + j <= m
          PROVE  Replaced(WithNode(x, <<>>, new), m, x, <<>>, new)
        <3>1. j <= m
            BY <2>2, EmptySeq
        <3>2. new \in OfLevels[m] /\ x \in Layout /\ new \in Layout
            BY <2>2, <3>1, LevelsGrow, LevelsInLayout
        <3>3. new \in AnyNode
            BY DEF AnyNode
        <3>4. WithNode(x, <<>>, new) = new /\ Ahead(x, <<>>) = <<>> /\ Behind(x, <<>>) = <<>>
            BY <3>2, <3>3, WithNodeEquation, AheadEquation, BehindEquation
        <3>5. PICK s \in Seq(Shown) : s = Leaves(new)
            BY <3>2, LeavesFacts
        <3>6. Cat(Cat(<<>>, s), <<>>) = s
            <4>1. <<>> \o s = s /\ s \o <<>> = s
                BY ConcatEmptySeq
            <4> QED
                BY <4>1 DEF Cat
        <3> QED
            BY <3>2, <3>4, <3>5, <3>6 DEF Replaced
    <2> QED
        BY <2>1, <2>2
<1>2. ASSUME NEW p \in Path, p # <<>>, Tail(p) \in G
      PROVE  p \in G
    <2> SUFFICES ASSUME NEW m \in Nat, NEW x \in OfLevels[m], NEW j \in Nat, NEW new \in OfLevels[j],
                        m <= MaxLevels, Len(p) + j <= m, NodeAt(x, p) \in Layout
                 PROVE  Replaced(WithNode(x, p, new), m, x, p, new)
        OBVIOUS
    <2>1. x \in Layout
        BY LevelsInLayout
    <2>2. Leads(x, p) /\ NodeAt(x, p) = NodeAt(ChildOn(x, p), Tail(p))
        BY <1>2, <2>1, NodeAtFacts
    <2>3. PICK i \in 1 .. Len(x.children), c \in Layout, q \in Path :
              i = Head(p) /\ c = ChildOn(x, p) /\ q = Tail(p) /\ c = x.children[i] /\ ~IsLeaf(x)
        BY <1>2, <2>1, <2>2, LeadsFacts DEF ChildOn
    <2>4. m # 0 /\ m - 1 \in Nat /\ x.children \in Seq(OfLevels[m - 1])
        BY <2>3, NodeFacts
    <2>5. PICK n \in Nat : n = m - 1
        BY <2>4
    <2>6. n + 1 = m /\ n <= MaxLevels /\ n + 1 <= MaxLevels /\ Len(q) + j <= n
        <3>1. Len(q) = Len(p) - 1 /\ Len(p) \in Nat
            BY <1>2, <2>1, <2>3, LeadsFacts
        <3>2. PICK k \in Nat : k = Len(p) /\ Len(q) = k - 1
            BY <3>1
        <3>3. k + j <= m /\ m <= MaxLevels /\ m \in Nat /\ j \in Nat /\ MaxLevels \in Nat
            BY <1>2, <3>2, LayoutTreeAssumption
        <3>4. m = n + 1
            BY <2>5, <3>3
        <3>5. n <= MaxLevels /\ n + 1 <= MaxLevels
            BY <3>3, <3>4
        <3> QED
            BY <3>2, <3>3, <3>4, <3>5
    <2>7. x.children \in Seq(OfLevels[n]) /\ c \in OfLevels[n]
        BY <2>3, <2>4, <2>5, ElementOfSeq
    <2>8. PICK d : d = WithNode(c, q, new)
        OBVIOUS
    <2>9. Replaced(d, n, c, q, new)
        BY <1>2, <2>2, <2>3, <2>6, <2>7, <2>8
    <2>10. WithNode(x, p, new) = WithChild(x, i, d)
        <3>1. new \in AnyNode
            BY DEF AnyNode
        <3> QED
            <4>1. WithNode(x, p, new) = WithChild(x, Head(p), WithNode(ChildOn(x, p), Tail(p), new))
                BY <1>2, <2>1, <2>2, <3>1, WithNodeEquation
            <4> QED
                BY <2>3, <2>8, <4>1
    <2>11. PICK l \in Seq(Shown), a \in Seq(Shown), s \in Seq(Shown), b \in Seq(Shown), r \in Seq(Shown) :
              /\ l = AllLeaves(Left(x.children, i)) /\ r = AllLeaves(Right(x.children, i))
              /\ a = Ahead(c, q) /\ b = Behind(c, q) /\ s = Leaves(new)
        <3>1. new \in Layout
            <4>1. j <= MaxLevels
                BY <2>6, LayoutTreeAssumption, LenProperties DEF Path
            <4> QED
                BY <4>1, LevelsInLayout
        <3> QED
            BY <2>1, <2>3, <3>1, ChildFacts, AllLeavesFacts, AheadEquation, BehindEquation, LeavesFacts
    <2>12. /\ WithChild(x, i, d) \in OfLevels[m]
           /\ Leaves(WithChild(x, i, d)) = Cat(Cat(l, Leaves(d)), r)
           /\ Full(x) /\ Full(d) => Full(WithChild(x, i, d))
        <3>1. d \in OfLevels[n]
            BY <2>9 DEF Replaced
        <3> QED
            BY <2>1, <2>3, <2>6, <2>7, <2>11, <3>1, ReplaceChild
    <2>13. Full(x) => Full(c)
        <3>1. Full(x) => \A k \in 1 .. Len(x.children) : Full(x.children[k])
            BY <2>1, <2>3, FullFacts
        <3> QED
            BY <2>3, <3>1
    <2>14. Ahead(x, p) = Cat(l, a) /\ Behind(x, p) = Cat(b, r)
        BY <1>2, <2>1, <2>2, <2>3, <2>11, AheadEquation, BehindEquation
    <2>15. Leaves(d) = Cat(Cat(a, s), b) /\ (Full(c) /\ Full(new) => Full(d))
        BY <2>9, <2>11 DEF Replaced
    <2>16. Cat(Cat(l, Cat(Cat(a, s), b)), r) = Cat(Cat(Cat(l, a), s), Cat(b, r))
        <3> HIDE DEF G
        <3> QED
            BY CatFacts
    <2> HIDE DEF G
    <2> QED
        BY <2>10, <2>11, <2>12, <2>13, <2>14, <2>15, <2>16 DEF Replaced
<1>3. \A p \in Path : p \in G
    <2> HIDE DEF G
    <2> QED
        BY <1>1, <1>2, InductionOnTail DEF Path
<1> QED
    BY <1>3

\* The elements of a concatenation.
LEMMA CatElements ==
    ASSUME NEW S, NEW u \in Seq(S), NEW v \in Seq(S)
    PROVE  /\ Cat(u, v) \in Seq(S) /\ Len(Cat(u, v)) = Len(u) + Len(v)
           /\ Len(u) \in Nat /\ Len(v) \in Nat
           /\ \A i \in 1 .. Len(u) : Cat(u, v)[i] = u[i]
           /\ \A i \in 1 .. Len(v) : Cat(u, v)[Len(u) + i] = v[i]
           /\ \A k \in 1 .. Len(u) + Len(v) : k \in 1 .. Len(u) \/ \E i \in 1 .. Len(v) : k = Len(u) + i
<1>1. PICK m \in Nat, n \in Nat : m = Len(u) /\ n = Len(v)
    BY LenProperties
<1>2. PICK s \in Seq(S) : s = Cat(u, v)
    BY ConcatProperties DEF Cat
<1>3. Len(s) = m + n /\ \A k \in 1 .. m + n : s[k] = IF k <= m THEN u[k] ELSE v[k - m]
    BY <1>1, <1>2, ConcatProperties DEF Cat
<1>4. \A i \in 1 .. m : i \in 1 .. m + n /\ i <= m
    BY <1>1
<1>5. ASSUME NEW i \in 1 .. n
      PROVE  s[m + i] = v[i]
    <2>1. PICK k \in 1 .. m + n : k = m + i
        BY <1>1
    <2>2. ~(k <= m) /\ k - m = i
        BY <1>1, <2>1
    <2> QED
        BY <1>3, <2>1, <2>2
<1>6. ASSUME NEW k \in 1 .. m + n, k \notin 1 .. m
      PROVE  \E i \in 1 .. n : k = m + i
    <2>1. k - m \in 1 .. n /\ k = m + (k - m)
        BY <1>1, <1>6
    <2> QED
        BY <2>1
<1>7. \A i \in 1 .. m : s[i] = u[i]
    BY <1>3, <1>4
<1> QED
    BY <1>1, <1>2, <1>3, <1>5, <1>6, <1>7

\* The elements of the second of three.
LEMMA CatMiddle ==
    ASSUME NEW S, NEW l \in Seq(S), NEW n \in Seq(S), NEW r \in Seq(S), NEW m \in 1 .. Len(n)
    PROVE  /\ Len(Cat(Cat(l, n), r)) = Len(l) + Len(n) + Len(r)
           /\ Len(l) + m \in 1 .. Len(Cat(Cat(l, n), r))
           /\ Cat(Cat(l, n), r)[Len(l) + m] = n[m]
<1>1. PICK u \in Seq(S) : u = Cat(l, n)
    BY CatElements
<1>2. Len(u) = Len(l) + Len(n) /\ u[Len(l) + m] = n[m]
    <2>1. Len(Cat(l, n)) = Len(l) + Len(n)
        BY CatElements
    <2>2. \A i \in 1 .. Len(n) : Cat(l, n)[Len(l) + i] = n[i]
        BY CatElements
    <2> QED
        BY <1>1, <2>1, <2>2
<1>6. Len(l) \in Nat /\ Len(n) \in Nat
    BY LenProperties
<1>3. PICK k \in 1 .. Len(u) : k = Len(l) + m
    BY <1>2, <1>6
<1>4. Len(Cat(u, r)) = Len(u) + Len(r) /\ Cat(u, r)[k] = u[k] /\ Len(r) \in Nat
    BY CatElements
<1>5. k \in 1 .. Len(u) + Len(r)
    BY <1>2, <1>4, <1>6
<1> QED
    BY <1>1, <1>2, <1>3, <1>4, <1>5

\* The same of panes.
LEMMA ShownMiddle ==
    \A l, n, r \in Seq(Shown) : \A m \in 1 .. Len(n) : Cat(Cat(l, n), r)[Len(l) + m] = n[m]
BY CatMiddle

-----------------------------------------------------------------------------
(* Where the panes are.                                                     *)

Under(i, ps) == [k \in DOMAIN ps |-> <<i>> \o ps[k]]
AllPaths(cs) == FlattenSeq(Labelled([i \in DOMAIN cs |-> Paths(cs[i])]))

\* Paths with one step more in front.
LEMMA UnderFacts ==
    ASSUME NEW i \in Nat, NEW ps \in Seq(Path)
    PROVE  /\ Under(i, ps) \in Seq(Path) /\ Len(Under(i, ps)) = Len(ps)
           /\ \A k \in 1 .. Len(ps) : Under(i, ps)[k] = <<i>> \o ps[k]
<1>1. Len(ps) \in Nat /\ DOMAIN ps = 1 .. Len(ps) /\ \A k \in 1 .. Len(ps) : ps[k] \in Path
    BY LenProperties, ElementOfSeq
<1> DEFINE at(k) == <<i>> \o ps[k]
<1>2. \A k \in 1 .. Len(ps) : at(k) \in Path
    <2>1. <<i>> \in Seq(Nat)
        OBVIOUS
    <2> QED
        BY <1>1, <2>1, ConcatProperties DEF Path
<1>3. Under(i, ps) = [k \in 1 .. Len(ps) |-> at(k)]
    BY <1>1 DEF Under
<1>4. \A k \in 1 .. Len(ps) : at(k) = <<i>> \o ps[k]
    OBVIOUS
<1> HIDE DEF at
<1> QED
    BY <1>1, <1>2, <1>3, <1>4

\* The paths of a pane and of a split.
LEMMA PathsFacts ==
    ASSUME NEW x \in Layout
    PROVE  /\ Paths(x) \in Seq(Path)
           /\ IsLeaf(x) => Paths(x) = <<<<>>>>
           /\ ~IsLeaf(x) => Paths(x) = AllPaths(x.children)
<1>1. PICK f : /\ f \in [Layout -> Seq(Path)]
               /\ \A y \in Layout : Paths(y) = f[y]
               /\ \A y \in Layout : f[y] = IF IsLeaf(y) THEN <<<<>>>>
                                           ELSE FlattenSeq(Labelled(Along(y.children, f)))
    BY PathsEquation
<1>2. Paths(x) \in Seq(Path)
    BY <1>1
<1>3. ASSUME ~IsLeaf(x)
      PROVE  Paths(x) = AllPaths(x.children)
    <2>1. \A i \in DOMAIN x.children : Paths(x.children[i]) = f[x.children[i]]
        BY <1>1, <1>3, LayoutFacts, LenProperties, ElementOfSeq
    <2>2. [i \in DOMAIN x.children |-> Paths(x.children[i])] = Along(x.children, f)
        BY <2>1 DEF Along
    <2> QED
        BY <1>1, <1>3, <2>2 DEF AllPaths
<1> QED
    BY <1>1, <1>2, <1>3

\* The paths of several children.
LEMMA AllPathsFacts ==
    /\ AllPaths(<<>>) = <<>>
    /\ \A cs \in Seq(Layout) : AllPaths(cs) \in Seq(Path)
    /\ \A cs \in Seq(Layout), c \in Layout :
          AllPaths(Append(cs, c)) = Cat(AllPaths(cs), Under(Len(cs) + 1, Paths(c)))
<1> DEFINE each(cs) == [i \in DOMAIN cs |-> Paths(cs[i])]
<1>1. AllPaths(<<>>) = <<>>
    <2>1. Labelled([i \in DOMAIN <<>> |-> Paths(<<>>[i])]) = <<>>
        BY DEF Labelled
    <2> QED
        BY <2>1, FlattenNone DEF AllPaths
<1>2. ASSUME NEW cs \in Seq(Layout)
      PROVE  /\ each(cs) \in Seq(Seq(Path)) /\ Len(each(cs)) = Len(cs)
             /\ \A i \in 1 .. Len(cs) : each(cs)[i] = Paths(cs[i])
    <2>1. Len(cs) \in Nat /\ DOMAIN cs = 1 .. Len(cs) /\ \A i \in 1 .. Len(cs) : cs[i] \in Layout
        BY LenProperties, ElementOfSeq
    <2>2. \A i \in 1 .. Len(cs) : Paths(cs[i]) \in Seq(Path)
        BY <2>1, PathsFacts
    <2> QED
        BY <2>1, <2>2
<1> HIDE DEF each
<1>6. ASSUME NEW ss \in Seq(Seq(Path))
      PROVE  Len(Labelled(ss)) = Len(ss) /\ \A i \in 1 .. Len(ss) : Labelled(ss)[i] = Under(i, ss[i])
    <2>1. Labelled(ss) = [i \in DOMAIN ss |-> Under(i, ss[i])] /\ DOMAIN ss = 1 .. Len(ss)
        BY LenProperties DEF Labelled, Under
    <2> QED
        BY <2>1, LabelledFacts
<1>3. \A cs : AllPaths(cs) = FlattenSeq(Labelled(each(cs)))
    BY DEF AllPaths, each
<1>4. \A cs \in Seq(Layout) : AllPaths(cs) \in Seq(Path)
    BY <1>2, <1>3, LabelledFacts, FlattenIsSeq
<1>5. ASSUME NEW cs \in Seq(Layout), NEW c \in Layout
      PROVE  AllPaths(Append(cs, c)) = Cat(AllPaths(cs), Under(Len(cs) + 1, Paths(c)))
    <2>1. PICK more \in Seq(Layout) : /\ more = Append(cs, c) /\ Len(more) = Len(cs) + 1
                                      /\ \A i \in 1 .. Len(cs) : more[i] = cs[i]
                                      /\ more[Len(cs) + 1] = c
        BY AppendProperties
    <2>2. PICK n \in Nat : n = Len(cs)
        BY LenProperties
    <2>3. PICK a \in Seq(Seq(Path)), b \in Seq(Seq(Path)) : a = Labelled(each(cs)) /\ b = Labelled(each(more))
        BY <1>2, LabelledFacts
    <2>4. Len(a) = n /\ \A i \in 1 .. n : a[i] = Under(i, Paths(cs[i]))
        BY <1>2, <1>6, <2>2, <2>3
    <2>5. Len(b) = n + 1 /\ \A i \in 1 .. n + 1 : b[i] = Under(i, Paths(more[i]))
        <3>1. Len(more) = n + 1 /\ each(more) \in Seq(Seq(Path)) /\ Len(each(more)) = Len(more)
            BY <1>2, <2>1, <2>2
        <3>2. \A i \in 1 .. n + 1 : each(more)[i] = Paths(more[i])
            BY <1>2, <2>1, <3>1
        <3>3. Len(b) = Len(each(more)) /\ \A i \in 1 .. Len(each(more)) : b[i] = Under(i, each(more)[i])
            BY <1>6, <2>3, <3>1
        <3> QED
            BY <3>1, <3>2, <3>3
    <2>6. PICK e \in Seq(Path) : e = Under(n + 1, Paths(c))
        <3>1. n + 1 \in Nat
            OBVIOUS
        <3> QED
            BY <3>1, UnderFacts, PathsFacts
    <2>7. b = Append(a, e)
        <3>1. PICK d \in Seq(Seq(Path)) : /\ d = Append(a, e) /\ Len(d) = n + 1
                                          /\ \A i \in 1 .. n : d[i] = a[i]
                                          /\ d[n + 1] = e
            <4>1. /\ Append(a, e) \in Seq(Seq(Path)) /\ Len(Append(a, e)) = Len(a) + 1
                  /\ \A i \in 1 .. Len(a) : Append(a, e)[i] = a[i]
                  /\ Append(a, e)[Len(a) + 1] = e
                BY AppendProperties
            <4>2. PICK d \in Seq(Seq(Path)) : d = Append(a, e)
                BY <4>1
            <4>3. Len(a) = n
                BY <2>4
            <4> QED
                BY <4>1, <4>2, <4>3
        <3>2. ASSUME NEW i \in 1 .. n + 1
              PROVE  b[i] = d[i]
            <4>1. CASE i = n + 1
                BY <2>1, <2>2, <2>5, <2>6, <3>1, <4>1
            <4>2. CASE i \in 1 .. n
                <5>1. more[i] = cs[i]
                    BY <2>1, <2>2, <4>2
                <5> QED
                    BY <2>4, <2>5, <3>1, <4>2, <5>1
            <4>3. i = n + 1 \/ i \in 1 .. n
                OBVIOUS
            <4> QED
                BY <4>1, <4>2, <4>3
        <3>3. b = d
            BY <2>5, <3>1, <3>2, SeqEqual
        <3> QED
            BY <3>1, <3>3
    <2>8. FlattenSeq(Append(a, e)) = FlattenSeq(a) \o e
        BY FlattenAppend
    <2> QED
        BY <1>3, <2>1, <2>2, <2>3, <2>6, <2>7, <2>8 DEF Cat
<1> QED
    BY <1>1, <1>4, <1>5

\* The path at a place is one of a child, after the panes of the children before it.
Placed(cs, k, i, m) ==
    /\ m \in 1 .. Len(Leaves(cs[i]))
    /\ AllPaths(cs)[k] = <<i>> \o Paths(cs[i])[m]
    /\ k = Len(AllLeaves(Left(cs, i))) + m

OnePathEach == {c \in Layout : Len(Paths(c)) = Len(Leaves(c))}

PathsAreOfChildren(cs) ==
    /\ Len(AllPaths(cs)) = Len(AllLeaves(cs))
    /\ \A k \in 1 .. Len(AllLeaves(cs)) : \E i \in 1 .. Len(cs) : \E m \in Nat : Placed(cs, k, i, m)

\* What is left of an element when one is appended.
LEMMA LeftOfAppend ==
    ASSUME NEW S, NEW cs \in Seq(S), NEW c \in S
    PROVE  /\ \A i \in 1 .. Len(cs) : Left(Append(cs, c), i) = Left(cs, i)
           /\ Left(Append(cs, c), Len(cs) + 1) = cs
<1>1. PICK n \in Nat : n = Len(cs)
    BY LenProperties
<1>2. PICK more \in Seq(S) : /\ more = Append(cs, c) /\ Len(more) = n + 1
                             /\ \A i \in 1 .. n : more[i] = cs[i]
    <2>1. /\ Append(cs, c) \in Seq(S) /\ Len(Append(cs, c)) = Len(cs) + 1
          /\ \A i \in 1 .. Len(cs) : Append(cs, c)[i] = cs[i]
        BY AppendProperties
    <2> QED
        BY <1>1, <2>1
<1>3. ASSUME NEW i \in 1 .. n
      PROVE  Left(more, i) = Left(cs, i)
    <2>1. i \in 1 .. Len(more) /\ i \in 1 .. Len(cs)
        BY <1>1, <1>2
    <2>2. Left(more, i) \in Seq(S) /\ Len(Left(more, i)) = i - 1 /\ \A j \in 1 .. i - 1 : Left(more, i)[j] = more[j]
        BY <2>1, AroundFacts
    <2>3. Left(cs, i) \in Seq(S) /\ Len(Left(cs, i)) = i - 1 /\ \A j \in 1 .. i - 1 : Left(cs, i)[j] = cs[j]
        BY <2>1, AroundFacts
    <2>4. \A j \in 1 .. i - 1 : more[j] = cs[j]
        BY <1>1, <1>2
    <2> QED
        BY <2>2, <2>3, <2>4, SeqEqual
<1>4. Left(more, n + 1) = cs
    <2>1. PICK i \in 1 .. Len(more) : i = n + 1
        BY <1>2
    <2>2. Left(more, i) \in Seq(S) /\ Len(Left(more, i)) = i - 1 /\ \A j \in 1 .. i - 1 : Left(more, i)[j] = more[j]
        BY AroundFacts
    <2>3. i - 1 = n
        BY <2>1
    <2>4. Left(more, i) = cs
        BY <1>1, <1>2, <2>2, <2>3, SeqEqual
    <2> QED
        BY <2>1, <2>4
<1> QED
    BY <1>1, <1>2, <1>3, <1>4

\* Each path of a split is one of a child, and at the same place as the pane.
LEMMA PathsOfChildren ==
    \A cs \in Seq(OnePathEach) : PathsAreOfChildren(cs)
<1> DEFINE G == {cs \in Seq(OnePathEach) : PathsAreOfChildren(cs)}
<1>1. <<>> \in G
    <2>1. <<>> \in Seq(OnePathEach)
        BY EmptySeq
    <2>2. AllPaths(<<>>) = <<>> /\ AllLeaves(<<>>) = <<>>
        BY AllPathsFacts, AllLeavesFacts
    <2>3. PathsAreOfChildren(<<>>)
        BY <2>2 DEF PathsAreOfChildren
    <2> QED
        BY <2>1, <2>3
<1>2. ASSUME NEW cs \in Seq(OnePathEach), NEW c \in OnePathEach, PathsAreOfChildren(cs)
      PROVE  PathsAreOfChildren(Append(cs, c))
    <2>1. cs \in Seq(Layout) /\ c \in Layout
        BY DEF OnePathEach
    <2>2. PICK n \in Nat : n = Len(cs)
        BY LenProperties
    <2>3. PICK more \in Seq(Layout) : /\ more = Append(cs, c) /\ Len(more) = n + 1
                                      /\ \A i \in 1 .. n : more[i] = cs[i] /\ Left(more, i) = Left(cs, i)
                                      /\ more[n + 1] = c /\ Left(more, n + 1) = cs
        <3>1. PICK more \in Seq(Layout) : more = Append(cs, c)
            BY <2>1, AppendProperties
        <3>2. Len(more) = n + 1 /\ more[n + 1] = c /\ \A i \in 1 .. n : more[i] = cs[i]
            BY <2>1, <2>2, <3>1, AppendProperties
        <3>3. Left(more, n + 1) = cs /\ \A i \in 1 .. n : Left(more, i) = Left(cs, i)
            BY <2>1, <2>2, <3>1, LeftOfAppend
        <3> QED
            BY <3>1, <3>2, <3>3
    <2>4. PICK u \in Seq(Path), v \in Seq(Path) :
              /\ u = AllPaths(cs) /\ v = Under(n + 1, Paths(c))
              /\ AllPaths(more) = Cat(u, v) /\ Len(v) = Len(Paths(c))
              /\ \A m \in 1 .. Len(Paths(c)) : v[m] = <<n + 1>> \o Paths(c)[m]
        <3>1. n + 1 \in Nat
            OBVIOUS
        <3> QED
            BY <2>1, <2>2, <2>3, <3>1, AllPathsFacts, PathsFacts, UnderFacts
    <2>5. PICK a \in Seq(Shown), b \in Seq(Shown) :
              a = AllLeaves(cs) /\ b = Leaves(c) /\ AllLeaves(more) = Cat(a, b)
        <3>1. <<c>> \in Seq(Layout) /\ AllLeaves(<<c>>) = Leaves(c)
            BY <2>1, AllLeavesFacts
        <3>2. more = cs \o <<c>>
            BY <2>1, <2>3, AppendIsConcat
        <3>3. AllLeaves(cs \o <<c>>) = AllLeaves(cs) \o AllLeaves(<<c>>)
            BY <2>1, <3>1, AllLeavesFacts
        <3> QED
            BY <2>1, <3>1, <3>2, <3>3, AllLeavesFacts, LeavesFacts DEF Cat
    <2>6. Len(u) = Len(a) /\ Len(v) = Len(b)
        BY <1>2, <2>4, <2>5 DEF PathsAreOfChildren, OnePathEach
    <2>7. PICK r : r = AllPaths(more)
        OBVIOUS
    <2>8. /\ Len(r) = Len(u) + Len(v)
          /\ \A k \in 1 .. Len(u) : r[k] = u[k]
          /\ \A m \in 1 .. Len(v) : r[Len(u) + m] = v[m]
        <3>1. Len(Cat(u, v)) = Len(u) + Len(v) /\ \A k \in 1 .. Len(u) : Cat(u, v)[k] = u[k]
            BY CatElements
        <3>2. \A m \in 1 .. Len(v) : Cat(u, v)[Len(u) + m] = v[m]
            BY CatElements
        <3> QED
            BY <2>4, <2>7, <3>1, <3>2
    <2>9. /\ Len(AllLeaves(more)) = Len(a) + Len(b) /\ Len(a) \in Nat /\ Len(b) \in Nat
          /\ \A k \in 1 .. Len(a) + Len(b) : k \in 1 .. Len(a) \/ \E m \in 1 .. Len(b) : k = Len(a) + m
        <3>1. Len(Cat(a, b)) = Len(a) + Len(b) /\ Len(a) \in Nat /\ Len(b) \in Nat
            BY CatElements
        <3>2. \A k \in 1 .. Len(a) + Len(b) : k \in 1 .. Len(a) \/ \E m \in 1 .. Len(b) : k = Len(a) + m
            BY CatElements, SMTT(60)
        <3> QED
            BY <2>5, <3>1, <3>2
    <2>10. ASSUME NEW k \in 1 .. Len(a)
           PROVE  \E i \in 1 .. n + 1 : \E m \in Nat : Placed(more, k, i, m)
        <3>1. PICK i \in 1 .. n, m \in Nat : Placed(cs, k, i, m)
            BY <1>2, <2>2, <2>5 DEF PathsAreOfChildren
        <3>2. more[i] = cs[i] /\ Left(more, i) = Left(cs, i)
            BY <2>3
        <3>3. AllPaths(more)[k] = AllPaths(cs)[k]
            BY <2>4, <2>6, <2>7, <2>8
        <3>4. Placed(more, k, i, m)
            BY <3>1, <3>2, <3>3 DEF Placed
        <3>5. i \in 1 .. n + 1
            OBVIOUS
        <3> QED
            BY <3>4, <3>5
    <2>11. ASSUME NEW m \in 1 .. Len(b)
           PROVE  \E i \in 1 .. n + 1 : \E j \in Nat : Placed(more, Len(a) + m, i, j)
        <3>1. PICK i \in 1 .. n + 1 : i = n + 1
            OBVIOUS
        <3>2. more[i] = c /\ Left(more, i) = cs
            BY <2>3, <3>1
        <3>3. AllPaths(more)[Len(a) + m] = <<i>> \o Paths(c)[m]
            BY <2>4, <2>6, <2>7, <2>8, <3>1
        <3>4. Placed(more, Len(a) + m, i, m)
            BY <2>5, <3>2, <3>3 DEF Placed
        <3> QED
            BY <3>4
    <2>12. PathsAreOfChildren(more)
        <3>1. Len(AllPaths(more)) = Len(AllLeaves(more))
            BY <2>6, <2>7, <2>8, <2>9
        <3>2. \A k \in 1 .. Len(AllLeaves(more)) : \E i \in 1 .. n + 1 : \E m \in Nat : Placed(more, k, i, m)
            <4> SUFFICES ASSUME NEW k \in 1 .. Len(a) + Len(b)
                         PROVE  \E i \in 1 .. n + 1 : \E m \in Nat : Placed(more, k, i, m)
                BY <2>9
            <4> QED
                BY <2>9, <2>10, <2>11
        <3> QED
            BY <2>3, <3>1, <3>2 DEF PathsAreOfChildren
    <2> QED
        BY <2>3, <2>12
<1>3. ASSUME NEW cs \in Seq(OnePathEach), NEW c \in OnePathEach, cs \in G
      PROVE  Append(cs, c) \in G
    BY <1>2, <1>3, AppendProperties
<1>4. \A cs \in Seq(OnePathEach) : cs \in G
    <2> HIDE DEF G
    <2> QED
        BY <1>1, <1>3, InductionOnAppend
<1> QED
    BY <1>4

\* A path through a child.
LEMMA StepDown ==
    ASSUME NEW x \in Layout, ~IsLeaf(x), NEW i \in 1 .. Len(x.children), NEW q \in Path
    PROVE  /\ <<i>> \o q \in Path /\ <<i>> \o q # <<>>
           /\ Head(<<i>> \o q) = i /\ Tail(<<i>> \o q) = q
           /\ Leads(x, <<i>> \o q) /\ ChildOn(x, <<i>> \o q) = x.children[i]
<1>1. x.children \in Seq(Layout) /\ DOMAIN x.children = 1 .. Len(x.children) /\ i \in Nat
    BY LayoutFacts, LenProperties
<1>2. <<i>> \in Seq(Nat) /\ q \in Seq(Nat)
    BY <1>1 DEF Path
<1>3. <<i>> \o q \in Path /\ <<i>> \o q # <<>> /\ Head(<<i>> \o q) = i /\ Tail(<<i>> \o q) = q
    <2>1. Len(q) \in Nat
        BY <1>2, LenProperties
    <2>2. PICK p : p = <<i>> \o q
        OBVIOUS
    <2>3. p \in Seq(Nat) /\ Len(p) = Len(q) + 1 /\ p[1] = i
        BY <1>2, <2>1, <2>2, ConcatProperties
    <2>4. p # <<>>
        BY <2>1, <2>3
    <2>5. p = <<Head(p)>> \o Tail(p) /\ Head(p) = i
        BY <2>3, <2>4, LeadsFacts DEF Path
    <2>6. Tail(p) = q
        <3>1. Tail(p) \in Seq(Nat)
            BY <2>3, <2>4, HeadTailProperties
        <3>2. PICK one \in Seq(Nat) : one = <<i>>
            BY <1>2
        <3>3. one \o Tail(p) = one \o q
            BY <2>2, <2>5, <3>2
        <3>4. \A t, u \in Seq(Nat) : one \o t = one \o u => t = u
            BY ConcatSimplifications
        <3> QED
            BY <1>2, <3>1, <3>3, <3>4
    <2> QED
        BY <2>2, <2>3, <2>4, <2>5, <2>6 DEF Path
<1> QED
    BY <1>1, <1>3 DEF Leads, ChildOn

\* Each pane is where its path leads, and has as many panes ahead as its place says.
PanesFound(x) ==
    /\ Len(Paths(x)) = Len(Leaves(x))
    /\ \A k \in 1 .. Len(Leaves(x)) : \A p \in Path : p = Paths(x)[k] =>
          NodeAt(x, p) = Leaf(Leaves(x)[k]) /\ Len(Ahead(x, p)) = k - 1

\* The k-th path leads to the k-th pane.
LEMMA PanesAreFound ==
    \A x \in Layout : PanesFound(x)
<1> DEFINE G == {x \in Layout : PanesFound(x)}
<1>1. ASSUME NEW x \in Layout, IsLeaf(x)
      PROVE  x \in G
    <2>1. Paths(x) = <<<<>>>> /\ Leaves(x) = <<x.session>> /\ x = Leaf(x.session)
        BY <1>1, PathsFacts, LeavesFacts, LayoutFacts
    <2>2. NodeAt(x, <<>>) = x /\ Ahead(x, <<>>) = <<>>
        BY NodeAtEquation, AheadEquation
    <2>3. PICK s : s = x.session
        OBVIOUS
    <2>4. Len(<<s>>) = 1 /\ <<s>>[1] = s /\ <<<<>>>>[1] = <<>> /\ Len(<<<<>>>>) = 1 /\ Len(<<>>) = 0
        OBVIOUS
    <2>5. \A k \in 1 .. 1 : k = 1
        OBVIOUS
    <2> QED
        <3>1. Leaves(x) = <<s>> /\ x = Leaf(s)
            BY <2>1, <2>3
        <3>2. ASSUME NEW k \in 1 .. 1, NEW p \in Path, p = <<<<>>>>[k]
              PROVE  NodeAt(x, p) = Leaf(<<s>>[k]) /\ Len(Ahead(x, p)) = k - 1
            <4>1. k = 1 /\ p = <<>>
                BY <2>5, <3>2
            <4> QED
                BY <2>2, <2>4, <3>1, <4>1
        <3> QED
            <4>1. Len(Leaves(x)) = 1 /\ Len(Paths(x)) = 1
                BY <2>1, <2>4, <3>1
            <4>2. PanesFound(x)
                BY <2>1, <3>1, <3>2, <4>1 DEF PanesFound
            <4> QED
                BY <4>2
<1>2. ASSUME NEW x \in Layout, ~IsLeaf(x), \A i \in 1 .. Len(x.children) : x.children[i] \in G
      PROVE  x \in G
    <2>1. PICK cs \in Seq(Layout) : cs = x.children /\ Leaves(x) = AllLeaves(cs) /\ Paths(x) = AllPaths(cs)
        BY <1>2, LayoutFacts, LeavesFacts, PathsFacts
    <2>2. cs \in Seq(OnePathEach)
        <3>1. \A i \in 1 .. Len(cs) : cs[i] \in OnePathEach
            BY <1>2, <2>1 DEF PanesFound, OnePathEach
        <3>2. Len(cs) \in Nat /\ cs \in [1 .. Len(cs) -> Layout]
            BY LenProperties
        <3> QED
            BY <3>1, <3>2
    <2>3. PathsAreOfChildren(cs)
        BY <2>2, PathsOfChildren
    <2>4. ASSUME NEW k \in 1 .. Len(Leaves(x)), NEW p \in Path, p = Paths(x)[k]
          PROVE  NodeAt(x, p) = Leaf(Leaves(x)[k]) /\ Len(Ahead(x, p)) = k - 1
        <3>1. PICK i \in 1 .. Len(cs), m \in Nat : Placed(cs, k, i, m)
            BY <2>1, <2>3 DEF PathsAreOfChildren
        <3>2. PICK c \in Layout : c = cs[i] /\ c \in G
            BY <1>2, <2>1
        <3>3. /\ m \in 1 .. Len(Leaves(c)) /\ p = <<i>> \o Paths(c)[m]
              /\ k = Len(AllLeaves(Left(cs, i))) + m
            BY <2>1, <2>4, <3>1, <3>2 DEF Placed
        <3>4. Len(Paths(c)) = Len(Leaves(c))
            BY <3>2 DEF PanesFound
        <3>5. PICK q \in Path : q = Paths(c)[m]
            BY <3>3, <3>4, PathsFacts, ElementOfSeq
        <3>6. NodeAt(c, q) = Leaf(Leaves(c)[m]) /\ Len(Ahead(c, q)) = m - 1
            BY <3>2, <3>3, <3>5 DEF PanesFound
        <3>7. p # <<>> /\ Leads(x, p) /\ Head(p) = i /\ Tail(p) = q /\ ChildOn(x, p) = c
            <4>1. i \in 1 .. Len(x.children)
                BY <2>1
            <4>2. /\ <<i>> \o q # <<>> /\ Head(<<i>> \o q) = i /\ Tail(<<i>> \o q) = q
                  /\ Leads(x, <<i>> \o q) /\ ChildOn(x, <<i>> \o q) = x.children[i]
                BY <1>2, <4>1, StepDown
            <4> QED
                BY <2>1, <3>2, <3>3, <3>5, <4>2
        <3>8. NodeAt(x, p) = NodeAt(c, q)
            BY <3>7, NodeAtEquation
        <3>9. PICK l \in Seq(Shown), n \in Seq(Shown), r \in Seq(Shown), a \in Seq(Shown) :
                 /\ l = AllLeaves(Left(cs, i)) /\ n = Leaves(c) /\ r = AllLeaves(Right(cs, i)) /\ a = Ahead(c, q)
            BY <1>2, <2>1, <3>2, ChildFacts, AllLeavesFacts, LeavesFacts, AheadEquation
        <3>10. Leaves(x) = Cat(Cat(l, n), r)
            BY <1>2, <2>1, <3>2, <3>9, ChildFacts
        <3>11. Leaves(x)[k] = n[m]
            <4>1. Cat(Cat(l, n), r)[Len(l) + m] = n[m]
                <5>1. m \in 1 .. Len(n)
                    BY <3>3, <3>9
                <5>2. \A j \in 1 .. Len(n) : Cat(Cat(l, n), r)[Len(l) + j] = n[j]
                    BY ShownMiddle
                <5> QED
                    BY <5>1, <5>2
            <4> QED
                BY <3>3, <3>9, <3>10, <4>1
        <3>12. Ahead(x, p) = Cat(l, a)
            BY <2>1, <3>7, <3>9, AheadEquation
        <3>13. Len(Ahead(x, p)) = Len(l) + Len(a) /\ Len(l) \in Nat
            BY <3>12, CatElements
        <3>14. Len(l) + (m - 1) = k - 1
            BY <3>3, <3>9, <3>13
        <3> QED
            BY <3>6, <3>8, <3>9, <3>11, <3>13, <3>14
    <2> QED
        BY <2>1, <2>3, <2>4 DEF PanesFound, PathsAreOfChildren
<1>3. \A x \in Layout : x \in G
    <2> HIDE DEF G
    <2> QED
        BY <1>1, <1>2, LayoutInduction
<1> QED
    BY <1>3

\* A pane of a layout, where it is shown and what is shown before and after it.
PaneAt(x, p, s) ==
    /\ p \in Path /\ s \in Shown /\ NodeAt(x, p) = Leaf(s)
    /\ Leaves(x) = Cat(Cat(Ahead(x, p), <<s>>), Behind(x, p))

\* The same, of one layout.
LEMMA PlaceOfPath ==
    ASSUME NEW x \in Layout, NEW k \in 1 .. Len(Leaves(x))
    PROVE  /\ k \in 1 .. Len(Paths(x))
           /\ PaneAt(x, Paths(x)[k], Leaves(x)[k])
           /\ Len(Ahead(x, Paths(x)[k])) = k - 1
<1>1. PICK p, s : p = Paths(x)[k] /\ s = Leaves(x)[k]
    OBVIOUS
<1>2. k \in 1 .. Len(Paths(x))
    BY PanesAreFound DEF PanesFound
<1>3. p \in Path /\ s \in Shown
    BY <1>1, <1>2, PathsFacts, LeavesFacts, ElementOfSeq
<1>4. NodeAt(x, p) = Leaf(s) /\ Len(Ahead(x, p)) = k - 1
    BY <1>1, <1>3, PanesAreFound DEF PanesFound
<1>5. Leaf(s) \in Layout /\ Leaves(Leaf(s)) = <<s>>
    <2>1. MaxLevels \in Nat \ {0}
        BY LayoutTreeAssumption
    <2>2. Leaf(s) \in Layout /\ IsLeaf(Leaf(s)) /\ Leaf(s).session = s
        BY <1>3, <2>1, LeafFacts DEF Layout, Shown
    <2> QED
        BY <2>2, LeavesFacts
<1>6. Leaves(x) = Cat(Cat(Ahead(x, p), <<s>>), Behind(x, p))
    BY <1>3, <1>4, <1>5, InContext
<1> QED
    BY <1>1, <1>2, <1>3, <1>4, <1>6 DEF PaneAt

\* Every path of Paths leads to a pane.
LEMMA PathsLeadToPanes ==
    ASSUME NEW x \in Layout, NEW p \in ToSet(Paths(x))
    PROVE  \E s : PaneAt(x, p, s)
<1>1. PICK k \in 1 .. Len(Paths(x)) : p = Paths(x)[k]
    BY PathsFacts, LenProperties DEF ToSet
<1>2. k \in 1 .. Len(Leaves(x))
    BY PanesAreFound DEF PanesFound
<1> QED
    BY <1>1, <1>2, PlaceOfPath

\* The path of a session leads to the first pane that shows it.
LEMMA PathOfFacts ==
    ASSUME NEW x \in Layout, NEW s \in ToSet(Leaves(x))
    PROVE  /\ PaneAt(x, PathOf(x, s), s)
           /\ s \notin ToSet(Ahead(x, PathOf(x, s)))
           /\ \E k \in 1 .. Len(Leaves(x)) : /\ PathOf(x, s) = Paths(x)[k] /\ Leaves(x)[k] = s
                                             /\ Len(Ahead(x, PathOf(x, s))) = k - 1
<1>1. PICK ps \in Seq(Shown) : ps = Leaves(x)
    BY LeavesFacts
<1> DEFINE I == {i \in 1 .. Len(ps) : ps[i] = s}
<1>2. I \in SUBSET Nat /\ I # {}
    <2>1. DOMAIN ps = 1 .. Len(ps)
        BY LenProperties
    <2> QED
        BY <1>1, <2>1 DEF ToSet
<1>3. PICK k \in I : k = Min(I) /\ \A i \in I : k <= i
    BY <1>2, MinFacts
<1>4. SelectInSeq(Leaves(x), LAMBDA p : p = s) = k
    BY <1>1, <1>2, <1>3 DEF SelectInSeq
<1>5. k # 0 /\ k \in 1 .. Len(ps) /\ ps[k] = s
    OBVIOUS
<1>6. PICK p : p = PathOf(x, s)
    OBVIOUS
<1>7. p = Paths(x)[k]
    BY <1>4, <1>5, <1>6 DEF PathOf
<1>8. PaneAt(x, p, s) /\ Len(Ahead(x, p)) = k - 1
    BY <1>1, <1>5, <1>7, PlaceOfPath
<1>9. s \notin ToSet(Ahead(x, p))
    <2>1. PICK a \in Seq(Shown), b \in Seq(Shown) : a = Ahead(x, p) /\ b = Behind(x, p)
        BY <1>8, AheadEquation, BehindEquation DEF PaneAt
    <2>2. s \in Shown
        BY <1>8 DEF PaneAt
    <2>3. ps = Cat(a, Cat(<<s>>, b)) /\ Cat(<<s>>, b) \in Seq(Shown)
        <3>1. <<s>> \in Seq(Shown)
            BY <2>2
        <3>2. PICK one \in Seq(Shown) : one = <<s>>
            BY <3>1
        <3>3. Cat(Cat(a, one), b) = Cat(a, Cat(one, b)) /\ Cat(one, b) \in Seq(Shown)
            BY CatFacts
        <3> QED
            BY <1>1, <1>8, <2>1, <3>2, <3>3 DEF PaneAt
    <2>4. \A i \in 1 .. Len(a) : ps[i] = a[i]
        BY <2>3, CatElements, ZenonT(60)
    <2>5. \A i \in 1 .. Len(a) : i \in 1 .. Len(ps) /\ i < k
        BY <1>5, <1>8, <2>1
    <2>6. \A i \in 1 .. Len(a) : a[i] # s
        BY <1>3, <2>4, <2>5
    <2>7. DOMAIN a = 1 .. Len(a)
        BY LenProperties
    <2> QED
        BY <2>1, <2>6, <2>7 DEF ToSet
<1> QED
    BY <1>1, <1>5, <1>6, <1>7, <1>8, <1>9

-----------------------------------------------------------------------------
(* The node that a path leads to, and the one above it.                     *)

\* A node has as many levels less as its path has steps.
LEMMA DeepFacts ==
    \A p \in Path, n \in Nat : \A x \in OfLevels[n] :
        n <= MaxLevels /\ NodeAt(x, p) \in Layout =>
            /\ Len(p) < n /\ NodeAt(x, p) \in OfLevels[n - Len(p)]
            /\ Full(x) => Full(NodeAt(x, p))
<1> DEFINE Deep(x, p, n) == /\ Len(p) < n /\ NodeAt(x, p) \in OfLevels[n - Len(p)]
                            /\ Full(x) => Full(NodeAt(x, p))
           G == {p \in Path : \A n \in Nat : \A x \in OfLevels[n] :
                    n <= MaxLevels /\ NodeAt(x, p) \in Layout => Deep(x, p, n)}
<1>1. <<>> \in G
    <2>1. <<>> \in Path /\ Len(<<>>) = 0
        BY EmptySeq DEF Path
    <2>2. ASSUME NEW n \in Nat, NEW x \in OfLevels[n], n <= MaxLevels
          PROVE  Deep(x, <<>>, n)
        <3>1. x \in Layout /\ n # 0
            BY <2>2, LevelsInLayout, LevelsFacts
        <3>2. NodeAt(x, <<>>) = x
            BY <3>1, NodeAtEquation
        <3> QED
            BY <2>1, <3>1, <3>2
    <2> QED
        BY <2>1, <2>2
<1>2. ASSUME NEW p \in Path, p # <<>>, Tail(p) \in G
      PROVE  p \in G
    <2> SUFFICES ASSUME NEW n \in Nat, NEW x \in OfLevels[n], n <= MaxLevels, NodeAt(x, p) \in Layout
                 PROVE  Deep(x, p, n)
        OBVIOUS
    <2>1. x \in Layout
        BY LevelsInLayout
    <2>2. Leads(x, p) /\ NodeAt(x, p) = NodeAt(ChildOn(x, p), Tail(p))
        BY <1>2, <2>1, NodeAtFacts
    <2>3. PICK i \in 1 .. Len(x.children), c \in Layout, q \in Path :
              i = Head(p) /\ c = ChildOn(x, p) /\ q = Tail(p) /\ c = x.children[i] /\ ~IsLeaf(x)
        BY <1>2, <2>1, <2>2, LeadsFacts DEF ChildOn
    <2>4. n # 0 /\ n - 1 \in Nat /\ x.children \in Seq(OfLevels[n - 1])
        BY <2>3, NodeFacts
    <2>5. PICK m \in Nat : m = n - 1
        BY <2>4
    <2>6. c \in OfLevels[m] /\ m <= MaxLevels
        BY <2>3, <2>4, <2>5, ElementOfSeq, LayoutTreeAssumption
    <2>7. Deep(c, q, m)
        BY <1>2, <2>2, <2>3, <2>6
    <2>8. Len(p) = Len(q) + 1 /\ Len(q) \in Nat
        BY <1>2, <2>1, <2>3, LeadsFacts, LenProperties DEF Path
    <2>9. Full(x) => Full(c)
        BY <2>1, <2>3, FullFacts
    <2>10. n - Len(p) = m - Len(q) /\ (Len(q) < m => Len(p) < n)
        BY <2>5, <2>8
    <2> QED
        BY <2>2, <2>3, <2>7, <2>9, <2>10
<1>3. \A p \in Path : p \in G
    <2> HIDE DEF G
    <2> QED
        BY <1>1, <1>2, InductionOnTail DEF Path
<1> QED
    BY <1>3

\* A child of the node at a path.
IsChild(x, f, i, n, cs) ==
    /\ n = NodeAt(x, f) /\ n \in Layout /\ ~IsLeaf(n) /\ cs = n.children
    /\ i \in 1 .. Len(cs) /\ NodeAt(x, Append(f, i)) = cs[i]
    /\ Ahead(x, Append(f, i)) = Cat(Ahead(x, f), AllLeaves(Left(cs, i)))
    /\ Behind(x, Append(f, i)) = Cat(AllLeaves(Right(cs, i)), Behind(x, f))

\* A path with one step more at its end.
LEMMA PathsOneByOne ==
    ASSUME NEW f \in Path, NEW i \in Nat
    PROVE  /\ Append(f, i) \in Path /\ Append(f, i) # <<>> /\ Len(Append(f, i)) = Len(f) + 1
           /\ Front(Append(f, i)) = f /\ Last(Append(f, i)) = i
           /\ f = <<>> => Head(Append(f, i)) = i /\ Tail(Append(f, i)) = <<>>
           /\ f # <<>> => Head(Append(f, i)) = Head(f) /\ Tail(Append(f, i)) = Append(Tail(f), i)
<1>1. f \in Seq(Nat)
    BY DEF Path
<1>2. PICK p : p = Append(f, i)
    OBVIOUS
<1>3. /\ p \in Seq(Nat) /\ p # <<>> /\ Len(p) = Len(f) + 1 /\ Len(f) \in Nat
      /\ \A k \in 1 .. Len(f) : p[k] = f[k]
      /\ p[Len(f) + 1] = i
    BY <1>1, <1>2, AppendProperties, LenProperties
<1>4. Last(p) = i
    BY <1>3 DEF Last
<1>5. Front(p) = f
    <2>1. Len(p) - 1 = Len(f)
        BY <1>3
    <2>2. SubSeq(p, 1, Len(f)) = f
        <3>1. PICK n \in Nat : n = Len(f)
            BY <1>3
        <3>2. \A k \in 1 .. n : p[k] \in Nat
            BY <1>3, <3>1, ElementOfSeq
        <3>3. /\ SubSeq(p, 1, n) \in Seq(Nat) /\ Len(SubSeq(p, 1, n)) = n
              /\ \A k \in 1 .. n : SubSeq(p, 1, n)[k] = p[k]
            BY <3>1, <3>2, SubSeqProperties
        <3> QED
            BY <1>1, <1>3, <3>1, <3>3, SeqEqual
    <2> QED
        BY <2>1, <2>2 DEF Front
<1>6. /\ f = <<>> => Head(p) = i /\ Tail(p) = <<>>
      /\ f # <<>> => Head(p) = Head(f) /\ Tail(p) = Append(Tail(f), i)
    BY <1>1, <1>2, HeadTailAppend
<1> QED
    BY <1>2, <1>3, <1>4, <1>5, <1>6 DEF Path

\* The node at such a path is a child of the node at the path without it.
LEMMA ChildrenByPath ==
    \A f \in Path : \A x \in Layout, i \in Nat : NodeAt(x, Append(f, i)) \in Layout =>
        \E n, cs : IsChild(x, f, i, n, cs)
<1> DEFINE G == {f \in Path : \A x \in Layout, i \in Nat : NodeAt(x, Append(f, i)) \in Layout =>
                    \E n, cs : IsChild(x, f, i, n, cs)}
<1>1. <<>> \in G
    <2>1. <<>> \in Path
        BY EmptySeq DEF Path
    <2>2. ASSUME NEW x \in Layout, NEW i \in Nat, NodeAt(x, Append(<<>>, i)) \in Layout
          PROVE  \E n, cs : IsChild(x, <<>>, i, n, cs)
        <3>1. PICK p \in Path : p = Append(<<>>, i) /\ p # <<>> /\ Head(p) = i /\ Tail(p) = <<>>
            BY <2>1, PathsOneByOne
        <3>2. Leads(x, p) /\ NodeAt(x, p) = NodeAt(ChildOn(x, p), <<>>)
            BY <2>2, <3>1, NodeAtFacts
        <3>3. PICK cs \in Seq(Layout), c \in Layout :
                 ~IsLeaf(x) /\ cs = x.children /\ i \in 1 .. Len(cs) /\ c = cs[i] /\ c = ChildOn(x, p)
            BY <3>1, <3>2, LeadsFacts DEF ChildOn
        <3>4. NodeAt(x, <<>>) = x /\ NodeAt(x, p) = c /\ Ahead(x, <<>>) = <<>> /\ Behind(x, <<>>) = <<>>
              /\ Ahead(c, <<>>) = <<>> /\ Behind(c, <<>>) = <<>>
            BY <3>2, <3>3, NodeAtEquation, AheadEquation, BehindEquation
        <3>5. PICK l \in Seq(Shown), r \in Seq(Shown) :
                 l = AllLeaves(Left(cs, i)) /\ r = AllLeaves(Right(cs, i))
            BY <3>3, ChildFacts, AllLeavesFacts
        <3>6. Ahead(x, p) = Cat(l, <<>>) /\ Behind(x, p) = Cat(<<>>, r)
            <4>1. Ahead(x, p) = Cat(AllLeaves(Left(x.children, Head(p))), Ahead(ChildOn(x, p), Tail(p)))
                BY <3>1, <3>2, AheadEquation
            <4>2. Behind(x, p) = Cat(Behind(ChildOn(x, p), Tail(p)), AllLeaves(Right(x.children, Head(p))))
                BY <3>1, <3>2, BehindEquation
            <4>3. x.children = cs /\ Head(p) = i /\ Tail(p) = <<>> /\ ChildOn(x, p) = c
                BY <3>1, <3>3
            <4> QED
                BY <3>4, <3>5, <4>1, <4>2, <4>3
        <3>7. Cat(l, <<>>) = Cat(<<>>, l) /\ Cat(<<>>, r) = Cat(r, <<>>)
            BY ConcatEmptySeq DEF Cat
        <3>8. IsChild(x, <<>>, i, x, cs)
            BY <3>1, <3>3, <3>4, <3>5, <3>6, <3>7 DEF IsChild
        <3> QED
            BY <3>8
    <2> QED
        BY <2>1, <2>2
<1>2. ASSUME NEW f \in Path, f # <<>>, Tail(f) \in G
      PROVE  f \in G
    <2> SUFFICES ASSUME NEW x \in Layout, NEW i \in Nat, NodeAt(x, Append(f, i)) \in Layout
                 PROVE  \E n, cs : IsChild(x, f, i, n, cs)
        OBVIOUS
    <2>1. PICK g \in Path : g = Tail(f)
        BY <1>2
    <2>2. PICK p \in Path, q \in Path : p = Append(f, i) /\ q = Append(g, i) /\ p # <<>>
                                        /\ Head(p) = Head(f) /\ Tail(p) = q
        <3>1. Append(f, i) \in Path /\ Append(f, i) # <<>>
            BY PathsOneByOne
        <3>2. Head(Append(f, i)) = Head(f) /\ Tail(Append(f, i)) = Append(g, i)
            BY <1>2, <2>1, PathsOneByOne
        <3>3. Append(g, i) \in Path
            BY PathsOneByOne
        <3> QED
            BY <3>1, <3>2, <3>3
    <2>3. Leads(x, p) /\ NodeAt(x, p) = NodeAt(ChildOn(x, p), q)
        BY <2>2, NodeAtFacts
    <2>4. PICK ds \in Seq(Layout), k \in Nat, c \in Layout :
             ~IsLeaf(x) /\ ds = x.children /\ k \in 1 .. Len(ds) /\ k = Head(p) /\ c = ds[k] /\ c = ChildOn(x, p)
        BY <2>2, <2>3, LeadsFacts DEF ChildOn
    <2>5. PICK n, cs : IsChild(c, g, i, n, cs)
        BY <1>2, <2>1, <2>2, <2>3, <2>4
    <2>6. Leads(x, f) /\ ChildOn(x, f) = c
        BY <2>2, <2>3, <2>4 DEF Leads, ChildOn
    <2>7. NodeAt(x, f) = NodeAt(c, g)
        BY <1>2, <2>1, <2>6, NodeAtEquation
    <2>8. n \in Layout /\ ~IsLeaf(n) /\ cs = n.children /\ i \in 1 .. Len(cs)
        BY <2>5 DEF IsChild
    <2>9. PICK l \in Seq(Shown), r \in Seq(Shown), a \in Seq(Shown), b \in Seq(Shown),
               u \in Seq(Shown), v \in Seq(Shown) :
             /\ l = AllLeaves(Left(ds, k)) /\ r = AllLeaves(Right(ds, k))
             /\ a = Ahead(c, g) /\ b = Behind(c, g)
             /\ u = AllLeaves(Left(cs, i)) /\ v = AllLeaves(Right(cs, i))
        BY <2>1, <2>4, <2>8, ChildFacts, AllLeavesFacts, AheadEquation, BehindEquation
    <2>10. Ahead(c, q) = Cat(a, u) /\ Behind(c, q) = Cat(v, b)
        BY <2>2, <2>5, <2>9 DEF IsChild
    <2>11. Ahead(x, p) = Cat(l, Cat(a, u)) /\ Behind(x, p) = Cat(Cat(v, b), r)
        <3>1. Ahead(x, p) = Cat(AllLeaves(Left(x.children, Head(p))), Ahead(ChildOn(x, p), Tail(p)))
            BY <2>2, <2>3, AheadEquation
        <3>2. Behind(x, p) = Cat(Behind(ChildOn(x, p), Tail(p)), AllLeaves(Right(x.children, Head(p))))
            BY <2>2, <2>3, BehindEquation
        <3> QED
            BY <2>2, <2>4, <2>9, <2>10, <3>1, <3>2
    <2>12. Ahead(x, f) = Cat(l, a) /\ Behind(x, f) = Cat(b, r)
        BY <1>2, <2>1, <2>2, <2>4, <2>6, <2>9, AheadEquation, BehindEquation, ZenonT(60)
    <2>13. Cat(l, Cat(a, u)) = Cat(Cat(l, a), u) /\ Cat(Cat(v, b), r) = Cat(v, Cat(b, r))
        <3> HIDE DEF G
        <3> QED
            BY CatFacts
    <2>14. IsChild(x, f, i, n, cs)
        BY <2>2, <2>3, <2>4, <2>5, <2>7, <2>9, <2>11, <2>12, <2>13 DEF IsChild
    <2> QED
        BY <2>14
<1>3. \A f \in Path : f \in G
    <2> HIDE DEF G
    <2> QED
        BY <1>1, <1>2, InductionOnTail DEF Path
<1> QED
    BY <1>3

\* A path with a step has a last one.
LEMMA LastStep ==
    ASSUME NEW x \in Layout, NEW p \in Path, p # <<>>, NodeAt(x, p) \in Layout
    PROVE  \E f, i, n, cs :
              /\ f \in Path /\ i \in Nat
              /\ p = Append(f, i) /\ Front(p) = f /\ Last(p) = i /\ IsChild(x, f, i, n, cs)
<1>1. PICK f \in Path, i \in Nat : p = Append(f, i)
    BY SequenceEmptyOrAppend DEF Path
<1> QED
    BY <1>1, PathsOneByOne, ChildrenByPath

-----------------------------------------------------------------------------
(* Levels and children of a layout in which every split has two children.   *)

Inhabited == {c \in Layout : Len(Leaves(c)) >= 1}

\* Several layouts show as many panes at least.
LEMMA LeavesOfMany ==
    \A cs \in Seq(Inhabited) : Len(AllLeaves(cs)) >= Len(cs)
<1> DEFINE G == {cs \in Seq(Inhabited) : Len(AllLeaves(cs)) >= Len(cs)}
<1>1. <<>> \in G
    <2>1. <<>> \in Seq(Inhabited) /\ AllLeaves(<<>>) = <<>> /\ Len(<<>>) = 0
        BY EmptySeq, AllLeavesFacts
    <2> QED
        BY <2>1
<1>2. ASSUME NEW cs \in Seq(Inhabited), NEW c \in Inhabited, cs \in G
      PROVE  Append(cs, c) \in G
    <2>1. cs \in Seq(Layout) /\ c \in Layout
        BY DEF Inhabited
    <2>2. <<c>> \in Seq(Layout) /\ AllLeaves(<<c>>) = Leaves(c)
        BY <2>1, AllLeavesFacts
    <2>3. AllLeaves(cs \o <<c>>) = AllLeaves(cs) \o AllLeaves(<<c>>)
        BY <2>1, <2>2, AllLeavesFacts
    <2>4. Append(cs, c) = cs \o <<c>>
        BY <2>1, AppendIsConcat
    <2>5. PICK a \in Seq(Shown), b \in Seq(Shown) : a = AllLeaves(cs) /\ b = Leaves(c)
        BY <2>1, AllLeavesFacts, LeavesFacts
    <2>6. Len(a \o b) = Len(a) + Len(b) /\ Len(a) \in Nat /\ Len(b) \in Nat
        BY ConcatProperties, LenProperties
    <2>7. Append(cs, c) \in Seq(Inhabited) /\ Len(Append(cs, c)) = Len(cs) + 1 /\ Len(cs) \in Nat
        BY AppendProperties, LenProperties
    <2>8. Len(a) >= Len(cs) /\ Len(b) >= 1
        BY <1>2, <2>5 DEF Inhabited
    <2>9. AllLeaves(Append(cs, c)) = a \o b
        BY <2>2, <2>3, <2>4, <2>5
    <2>10. Len(AllLeaves(Append(cs, c))) >= Len(Append(cs, c))
        BY <2>6, <2>7, <2>8, <2>9
    <2> QED
        BY <2>7, <2>10
<1>3. \A cs \in Seq(Inhabited) : cs \in G
    <2> HIDE DEF G
    <2> QED
        BY <1>1, <1>2, InductionOnAppend
<1> QED
    BY <1>3

\* The nodes of a layout are layouts.
LEMMA NodesInLayout ==
    \A x \in Layout : Nodes(x) \subseteq Layout
<1> DEFINE G == {x \in Layout : Nodes(x) \subseteq Layout}
<1>1. ASSUME NEW x \in Layout, IsLeaf(x)
      PROVE  x \in G
    BY <1>1, NodesEquation
<1>2. ASSUME NEW x \in Layout, ~IsLeaf(x), \A i \in 1 .. Len(x.children) : x.children[i] \in G
      PROVE  x \in G
    <2>1. Nodes(x) = {x} \cup UNION {Nodes(c) : c \in ToSet(x.children)}
        BY <1>2, NodesEquation
    <2>2. ToSet(x.children) = {x.children[i] : i \in 1 .. Len(x.children)}
        BY <1>2, LayoutFacts, LenProperties DEF ToSet
    <2> QED
        BY <1>2, <2>1, <2>2
<1>3. \A x \in Layout : x \in G
    <2> HIDE DEF G
    <2> QED
        BY <1>1, <1>2, LayoutInduction
<1> QED
    BY <1>3

\* As many panes as there are levels, and as many as any split has children.
Measured(x) ==
    /\ Len(Leaves(x)) >= 1
    /\ x \in OfLevels[Len(Leaves(x))]
    /\ \A n \in Nodes(x) : ~IsLeaf(n) => Len(n.children) <= Len(Leaves(x))

\* A full layout has no more splits and levels than panes.
LEMMA FullIsMeasured ==
    \A x \in Layout : Full(x) => Measured(x)
<1> DEFINE G == {x \in Layout : Full(x) => Measured(x)}
<1>1. ASSUME NEW x \in Layout, IsLeaf(x)
      PROVE  x \in G
    <2>1. Leaves(x) = <<x.session>> /\ x = Leaf(x.session) /\ x.session \in Shown
        BY <1>1, LeavesFacts, LayoutFacts DEF Shown
    <2>2. PICK s \in Shown : s = x.session
        BY <2>1
    <2>3. Len(Leaves(x)) = 1
        BY <2>1, <2>2
    <2>4. x \in OfLevels[1]
        BY <2>1, <2>2, LeafFacts DEF Shown
    <2>5. Nodes(x) = {x}
        BY <1>1, NodesEquation
    <2> QED
        BY <1>1, <2>3, <2>4, <2>5 DEF Measured
<1>2. ASSUME NEW x \in Layout, ~IsLeaf(x), \A i \in 1 .. Len(x.children) : x.children[i] \in G
      PROVE  x \in G
    <2> SUFFICES ASSUME Full(x)
                 PROVE  Measured(x)
        OBVIOUS
    <2>1. PICK cs \in Seq(Layout), d \in {"h", "v"} :
             cs = x.children /\ d = x.split /\ x = SplitOf(d, cs) /\ Leaves(x) = AllLeaves(cs)
        BY <1>2, LayoutFacts, LeavesFacts
    <2>2. Len(cs) >= 2 /\ \A i \in 1 .. Len(cs) : Measured(cs[i]) /\ cs[i] \in Layout
        BY <1>2, <2>1, FullFacts
    <2>3. Len(cs) \in Nat /\ cs \in [1 .. Len(cs) -> Layout]
        BY LenProperties
    <2>4. cs \in Seq(Inhabited)
        <3>1. \A i \in 1 .. Len(cs) : cs[i] \in Inhabited
            BY <2>2 DEF Inhabited, Measured
        <3> QED
            BY <2>3, <3>1
    <2>5. PICK k \in Nat : k = Len(Leaves(x))
        BY LeavesFacts
    <2>6. k >= Len(cs) /\ k - 1 \in Nat /\ k >= 1
        <3>1. Len(AllLeaves(cs)) >= Len(cs)
            BY <2>4, LeavesOfMany
        <3>2. k >= Len(cs)
            BY <2>1, <2>5, <3>1
        <3>3. PICK m \in Nat : m = Len(cs) /\ m >= 2
            BY <2>2, <2>3
        <3> QED
            BY <3>2, <3>3
    <2>7. ASSUME NEW i \in 1 .. Len(cs)
          PROVE  Len(Leaves(cs[i])) \in Nat /\ Len(Leaves(cs[i])) <= k - 1
        <3>1. PICK l \in Seq(Inhabited), r \in Seq(Inhabited) :
                 l = Left(cs, i) /\ r = Right(cs, i) /\ Len(l) = i - 1 /\ Len(r) = Len(cs) - i
            <4>1. /\ Left(cs, i) \in Seq(Inhabited) /\ Right(cs, i) \in Seq(Inhabited)
                  /\ Len(Left(cs, i)) = i - 1 /\ Len(Right(cs, i)) = Len(cs) - i
                BY <2>4, AroundFacts, ZenonT(40)
            <4> QED
                BY <4>1
        <3>2. l \in Seq(Layout) /\ r \in Seq(Layout)
            BY DEF Inhabited
        <3>3. PICK a \in Seq(Shown), b \in Seq(Shown), n \in Seq(Shown) :
                 a = AllLeaves(l) /\ b = AllLeaves(r) /\ n = Leaves(cs[i])
            BY <2>2, <3>2, AllLeavesFacts, LeavesFacts
        <3>4. Leaves(x) = Cat(Cat(a, n), b)
            <4>1. i \in 1 .. Len(x.children)
                BY <2>1
            <4> QED
                BY <1>2, <2>1, <3>1, <3>3, <4>1, ChildFacts
        <3>5. Len(Cat(a, n)) = Len(a) + Len(n) /\ Cat(a, n) \in Seq(Shown)
            BY CatElements
        <3>6. Len(Cat(Cat(a, n), b)) = Len(Cat(a, n)) + Len(b)
            BY <3>5, CatElements
        <3>7. Len(a) \in Nat /\ Len(b) \in Nat /\ Len(n) \in Nat
            BY LenProperties
        <3>8. Len(a) >= Len(l) /\ Len(b) >= Len(r)
            BY <3>3, LeavesOfMany
        <3>9. Len(l) + Len(r) >= 1
            BY <2>2, <2>3, <3>1
        <3> QED
            BY <2>5, <3>1, <3>3, <3>4, <3>5, <3>6, <3>7, <3>8, <3>9, <2>3
    <2>8. PICK j \in Nat : j = k - 1
        BY <2>6
    <2>9. ASSUME NEW i \in 1 .. Len(cs)
          PROVE  cs[i] \in OfLevels[j]
        <3>1. PICK c \in Layout, m \in Nat : c = cs[i] /\ m = Len(Leaves(c)) /\ m <= j
            BY <2>2, <2>7, <2>8
        <3>2. c \in OfLevels[m]
            BY <2>2, <3>1 DEF Measured
        <3> QED
            BY <3>1, <3>2, LevelsGrow
    <2>10. cs \in Seq(OfLevels[j])
        <3> DEFINE N == OfLevels[j]
        <3>1. \A i \in 1 .. Len(cs) : cs[i] \in N
            BY <2>9
        <3> HIDE DEF N
        <3>2. cs \in Seq(N)
            BY <2>3, <3>1
        <3> QED
            BY <3>2 DEF N
    <2>11. x \in OfLevels[k]
        <3>1. x \in OfLevels[j + 1]
            BY <2>1, <2>10, SplitFacts
        <3> QED
            BY <2>8, <3>1
    <2>12. ASSUME NEW n \in Nodes(x), ~IsLeaf(n)
           PROVE  Len(n.children) <= k
        <3>1. CASE n = x
            BY <2>1, <2>6, <3>1
        <3>2. ASSUME NEW i \in 1 .. Len(cs), n \in Nodes(cs[i])
              PROVE  Len(n.children) <= k
            <4>1. Len(n.children) <= Len(Leaves(cs[i]))
                BY <2>2, <2>12, <3>2 DEF Measured
            <4>2. Len(Leaves(cs[i])) \in Nat /\ Len(Leaves(cs[i])) <= k - 1
                BY <2>7
            <4>3. n \in Layout
                BY <2>2, <3>2, NodesInLayout
            <4>4. Len(n.children) \in Nat
                BY <2>12, <4>3, LayoutFacts, LenProperties
            <4> QED
                BY <4>1, <4>2, <4>4
        <3>3. n = x \/ \E i \in 1 .. Len(cs) : n \in Nodes(cs[i])
            <4>1. Nodes(x) = {x} \cup UNION {Nodes(c) : c \in ToSet(cs)}
                BY <1>2, <2>1, NodesEquation
            <4>2. ToSet(cs) = {cs[i] : i \in 1 .. Len(cs)}
                BY LenProperties DEF ToSet
            <4> QED
                BY <2>12, <4>1, <4>2
        <3> QED
            BY <3>1, <3>2, <3>3
    <2> QED
        BY <2>5, <2>6, <2>11, <2>12 DEF Measured
<1>3. \A x \in Layout : x \in G
    <2> HIDE DEF G
    <2> QED
        BY <1>1, <1>2, LayoutInduction
<1> QED
    BY <1>3

-----------------------------------------------------------------------------
(* A pane in the place of a pane.                                           *)

\* The layout of one pane.
LEMMA PaneFacts ==
    ASSUME NEW s \in Shown
    PROVE  /\ IsLeaf(Leaf(s)) /\ Leaf(s).session = s
           /\ Leaf(s) \in Layout /\ Leaf(s) \in OfLevels[1]
           /\ Leaves(Leaf(s)) = <<s>> /\ <<s>> \in Seq(Shown) /\ Full(Leaf(s))
<1>1. MaxLevels \in Nat \ {0}
    BY LayoutTreeAssumption
<1>2. Leaf(s) \in Layout /\ IsLeaf(Leaf(s)) /\ Leaf(s).session = s /\ Leaf(s) \in OfLevels[1]
    BY <1>1, LeafFacts DEF Layout, Shown
<1> QED
    BY <1>2, LeavesFacts, FullFacts

\* One pane shown in the place of another.
LEMMA PanePut ==
    ASSUME NEW x \in Layout, NEW p \in Path, NEW s \in Shown, NodeAt(x, p) = Leaf(s), NEW e \in Shown
    PROVE  /\ WithNode(x, p, Leaf(e)) \in Layout
           /\ Leaves(WithNode(x, p, Leaf(e))) = Cat(Cat(Ahead(x, p), <<e>>), Behind(x, p))
           /\ Full(x) => Full(WithNode(x, p, Leaf(e)))
<1>1. MaxLevels \in Nat /\ x \in OfLevels[MaxLevels]
    BY LayoutTreeAssumption DEF Layout
<1>2. NodeAt(x, p) \in Layout
    BY PaneFacts
<1>3. Len(p) < MaxLevels /\ Len(p) \in Nat
    BY <1>1, <1>2, DeepFacts, LenProperties DEF Path
<1>4. PICK j \in Nat : j = 1
    OBVIOUS
<1>5. Leaf(e) \in OfLevels[j] /\ Len(p) + j <= MaxLevels /\ MaxLevels <= MaxLevels
    BY <1>1, <1>3, <1>4, PaneFacts
<1>6. Replaced(WithNode(x, p, Leaf(e)), MaxLevels, x, p, Leaf(e))
    BY <1>1, <1>2, <1>5, PutFacts
<1> QED
    BY <1>6, PaneFacts DEF Replaced, Layout

\* The paths are the same after that.
LEMMA PathsKept ==
    \A p \in Path : \A x \in Layout, s, e \in Shown : NodeAt(x, p) = Leaf(s) =>
        Paths(WithNode(x, p, Leaf(e))) = Paths(x)
<1> DEFINE G == {p \in Path : \A x \in Layout, s, e \in Shown : NodeAt(x, p) = Leaf(s) =>
                    Paths(WithNode(x, p, Leaf(e))) = Paths(x)}
<1>1. <<>> \in G
    <2>1. <<>> \in Path
        BY EmptySeq DEF Path
    <2>2. ASSUME NEW x \in Layout, NEW s \in Shown, NEW e \in Shown, NodeAt(x, <<>>) = Leaf(s)
          PROVE  Paths(WithNode(x, <<>>, Leaf(e))) = Paths(x)
        <3>1. IsLeaf(x)
            BY <2>2, NodeAtEquation, PaneFacts
        <3>2. WithNode(x, <<>>, Leaf(e)) = Leaf(e)
            BY PaneFacts, WithNodeEquation DEF AnyNode
        <3> QED
            BY <3>1, <3>2, PaneFacts, PathsFacts
    <2> QED
        BY <2>1, <2>2
<1>2. ASSUME NEW p \in Path, p # <<>>, Tail(p) \in G
      PROVE  p \in G
    <2> SUFFICES ASSUME NEW x \in Layout, NEW s \in Shown, NEW e \in Shown, NodeAt(x, p) = Leaf(s)
                 PROVE  Paths(WithNode(x, p, Leaf(e))) = Paths(x)
        OBVIOUS
    <2>1. NodeAt(x, p) \in Layout
        BY PaneFacts
    <2>2. Leads(x, p) /\ NodeAt(x, p) = NodeAt(ChildOn(x, p), Tail(p))
        BY <1>2, <2>1, NodeAtFacts
    <2>3. PICK i \in 1 .. Len(x.children), c \in Layout, q \in Path :
              i = Head(p) /\ c = ChildOn(x, p) /\ q = Tail(p) /\ c = x.children[i] /\ ~IsLeaf(x)
        BY <1>2, <2>2, LeadsFacts DEF ChildOn
    <2>4. PICK d \in Layout : d = WithNode(c, q, Leaf(e)) /\ Paths(d) = Paths(c)
        <3>1. NodeAt(c, q) = Leaf(s) /\ q \in G
            BY <1>2, <2>2, <2>3
        <3>2. WithNode(c, q, Leaf(e)) \in Layout
            BY <3>1, PanePut
        <3> QED
            BY <3>1, <3>2
    <2>5. PICK y \in Layout : y = WithNode(x, p, Leaf(e))
        BY PanePut
    <2>6. y = WithChild(x, i, d)
        <3>1. Leaf(e) \in AnyNode
            BY PaneFacts DEF AnyNode
        <3>2. WithNode(x, p, Leaf(e)) = WithChild(x, Head(p), WithNode(ChildOn(x, p), Tail(p), Leaf(e)))
            BY <1>2, <2>2, <3>1, WithNodeEquation
        <3> QED
            BY <2>3, <2>4, <2>5, <3>2
    <2>7. PICK cs \in Seq(Layout), ds \in Seq(Layout) :
             cs = x.children /\ ds = [cs EXCEPT ![i] = d] /\ DOMAIN ds = DOMAIN cs
             /\ \A k \in DOMAIN cs : ds[k] = IF k = i THEN d ELSE cs[k]
        <3>1. PICK cs \in Seq(Layout) : cs = x.children
            BY <2>3, LayoutFacts
        <3>2. i \in 1 .. Len(cs) /\ DOMAIN cs = 1 .. Len(cs)
            BY <3>1, LenProperties
        <3>3. [cs EXCEPT ![i] = d] \in Seq(Layout)
            BY <3>2, ExceptSeq
        <3> QED
            BY <3>1, <3>2, <3>3
    <2>8. ~IsLeaf(y) /\ y.children = ds
        <3>1. y = SplitOf(x.split, ds)
            BY <2>3, <2>6, <2>7, WithChildFacts
        <3> QED
            BY <3>1 DEF SplitOf, IsLeaf
    <2>9. \A k \in DOMAIN cs : Paths(ds[k]) = Paths(cs[k])
        BY <2>3, <2>4, <2>7
    <2>10. AllPaths(ds) = AllPaths(cs)
        <3>1. [k \in DOMAIN ds |-> Paths(ds[k])] = [k \in DOMAIN cs |-> Paths(cs[k])]
            BY <2>7, <2>9
        <3> QED
            BY <3>1 DEF AllPaths
    <2> QED
        BY <2>3, <2>5, <2>7, <2>8, <2>10, PathsFacts
<1>3. \A p \in Path : p \in G
    <2> HIDE DEF G
    <2> QED
        BY <1>1, <1>2, InductionOnTail DEF Path
<1> QED
    BY <1>3

-----------------------------------------------------------------------------
(* The arrangement of panes in rows.                                        *)

\* Layouts that show the parts of a sequence one after the other show it all.
Parts(cut, m, n) ==
    /\ cut \in [0 .. m -> 0 .. n]
    /\ cut[0] = 0
    /\ \A r \in 1 .. m : cut[r - 1] <= cut[r]

\* Layouts of consecutive parts of the panes show them all in order.
LEMMA PartsTogether ==
    ASSUME NEW panes \in Seq(Shown), NEW m \in Nat, NEW rs \in Seq(Layout), Len(rs) = m,
           NEW cut, Parts(cut, m, Len(panes)),
           \A r \in 1 .. m : Leaves(rs[r]) = SubSeq(panes, cut[r - 1] + 1, cut[r])
    PROVE  AllLeaves(rs) = SubSeq(panes, 1, cut[m])
<1>1. PICK n \in Nat : n = Len(panes)
    BY LenProperties
<1>2. cut \in [0 .. m -> 0 .. n] /\ cut[0] = 0 /\ \A r \in 1 .. m : cut[r - 1] <= cut[r]
    BY <1>1 DEF Parts
<1> DEFINE G == {r \in Nat : r <= m => AllLeaves(SubSeq(rs, 1, r)) = SubSeq(panes, 1, cut[r])}
<1>3. 0 \in G
    <2>1. SubSeq(rs, 1, 0) = <<>> /\ SubSeq(panes, 1, 0) = <<>>
        BY SubSeqEmpty
    <2> QED
        BY <1>2, <2>1, AllLeavesFacts
<1>4. ASSUME NEW q \in Nat, q \in G
      PROVE  q + 1 \in G
    <2> SUFFICES ASSUME NEW r \in 1 .. m, r = q + 1
                 PROVE  AllLeaves(SubSeq(rs, 1, r)) = SubSeq(panes, 1, cut[r])
        OBVIOUS
    <2>1. r - 1 = q /\ q <= m /\ 1 \in 1 .. Len(rs) /\ r \in 1 .. Len(rs)
        OBVIOUS
    <2>2. PICK j \in Nat, k \in Nat : j = cut[q] /\ k = cut[r] /\ j <= k /\ k <= n
        <3>1. q \in 0 .. m /\ r \in 0 .. m
            BY <2>1
        <3>2. cut[q] \in 0 .. n /\ cut[r] \in 0 .. n
            BY <1>2, <3>1
        <3>3. cut[r - 1] <= cut[r]
            BY <1>2
        <3>4. cut[q] <= cut[r]
            BY <2>1, <3>3
        <3> QED
            BY <3>2, <3>4
    <2>3. SubSeq(rs, 1, r) = SubSeq(rs, 1, q) \o <<rs[r]>>
        BY <2>1, SubSeqRecursiveSecond
    <2>4. PICK front \in Seq(Layout), row \in Layout : front = SubSeq(rs, 1, q) /\ row = rs[r]
        <3>1. \A i \in 1 .. q : rs[i] \in Layout
            BY <2>1, ElementOfSeq
        <3>2. SubSeq(rs, 1, q) \in Seq(Layout)
            BY <3>1, SubSeqProperties
        <3>3. rs[r] \in Layout
            BY <2>1, ElementOfSeq
        <3> QED
            BY <3>2, <3>3
    <2>5. <<row>> \in Seq(Layout) /\ AllLeaves(<<row>>) = Leaves(row)
        BY AllLeavesFacts
    <2>6. AllLeaves(front \o <<row>>) = AllLeaves(front) \o AllLeaves(<<row>>)
        BY <2>5, AllLeavesFacts
    <2>7. AllLeaves(front) = SubSeq(panes, 1, j)
        BY <1>4, <2>1, <2>2, <2>4
    <2>8. Leaves(row) = SubSeq(panes, j + 1, k)
        BY <2>1, <2>2, <2>4
    <2>9. SubSeq(panes, 1, j) \o SubSeq(panes, j + 1, k) = SubSeq(panes, 1, k)
        <3>1. 1 \in 1 .. Len(panes) + 1 /\ j \in 1 - 1 .. Len(panes) /\ k \in j .. Len(panes)
            BY <1>1, <2>2, SMTT(60)
        <3> QED
            BY <3>1, ConcatAdjacentSubSeq
    <2> QED
        BY <2>2, <2>3, <2>4, <2>5, <2>6, <2>7, <2>8, <2>9
<1>5. \A r \in Nat : r \in G
    <2> HIDE DEF G
    <2> QED
        BY <1>3, <1>4, InductionOnNumbers
<1>6. m \in G /\ SubSeq(rs, 1, m) = rs
    BY <1>5, SubSeqFull
<1>7. AllLeaves(SubSeq(rs, 1, m)) = SubSeq(panes, 1, cut[m])
    <2>1. m <= m
        OBVIOUS
    <2> QED
        BY <1>6, <2>1
<1> QED
    BY <1>6, <1>7

\* A split of so many children, or one child in its place.
LEMMA SplitIsFull ==
    ASSUME NEW j \in Nat, j + 1 <= MaxLevels, NEW d \in {"h", "v"}, NEW cs \in Seq(OfLevels[j]), Len(cs) >= 2,
           \A i \in 1 .. Len(cs) : Full(cs[i])
    PROVE  /\ SplitOf(d, cs) \in OfLevels[j + 1] /\ SplitOf(d, cs) \in Layout
           /\ Full(SplitOf(d, cs)) /\ Leaves(SplitOf(d, cs)) = AllLeaves(cs)
<1>1. PICK x : x = SplitOf(d, cs)
    OBVIOUS
<1>2. x \in OfLevels[j + 1] /\ ~IsLeaf(x) /\ x.children = cs
    BY <1>1, SplitFacts
<1>3. x \in Layout
    BY <1>2, LevelsInLayout
<1> QED
    BY <1>1, <1>2, <1>3, FullFacts, LeavesFacts

PanesOf(s) == [i \in DOMAIN s |-> Leaf(s[i])]

\* A list of sessions as the panes that show them.
LEMMA PanesOfFacts ==
    ASSUME NEW s \in Seq(Shown)
    PROVE  /\ PanesOf(s) \in Seq(OfLevels[1]) /\ PanesOf(s) \in Seq(Layout) /\ Len(PanesOf(s)) = Len(s)
           /\ \A i \in 1 .. Len(s) : PanesOf(s)[i] = Leaf(s[i]) /\ Full(PanesOf(s)[i])
           /\ AllLeaves(PanesOf(s)) = s
<1>1. PICK n \in Nat : n = Len(s)
    BY LenProperties
<1>2. DOMAIN s = 1 .. n /\ \A i \in 1 .. n : s[i] \in Shown
    BY <1>1, LenProperties, ElementOfSeq
<1> DEFINE N == OfLevels[1] \cap Layout
           L(i) == Leaf(s[i])
<1>3. \A i \in 1 .. n : L(i) \in N /\ Full(L(i)) /\ Leaves(L(i)) = <<s[i]>>
    BY <1>2, PaneFacts
<1>4. PanesOf(s) = [i \in 1 .. n |-> L(i)]
    BY <1>2 DEF PanesOf
<1>5. PICK rs \in Seq(N) : rs = PanesOf(s) /\ Len(rs) = n /\ \A i \in 1 .. n : rs[i] = L(i)
    <2> HIDE DEF N, L
    <2> QED
        BY <1>3, <1>4
<1>6. rs \in Seq(OfLevels[1]) /\ rs \in Seq(Layout)
    OBVIOUS
<1> DEFINE cut == [r \in 0 .. n |-> r]
<1>7. Parts(cut, n, Len(s))
    BY <1>1 DEF Parts
<1>8. ASSUME NEW r \in 1 .. n
      PROVE  Leaves(rs[r]) = SubSeq(s, cut[r - 1] + 1, cut[r])
    <2>1. cut[r - 1] + 1 = r /\ cut[r] = r
        OBVIOUS
    <2>2. SubSeq(s, r, r) = <<s[r]>>
        <3>1. SubSeq(s, r, r) = <<s[r]>> \o SubSeq(s, r + 1, r)
            BY <1>1, SubSeqRecursiveFirst
        <3>2. SubSeq(s, r + 1, r) = <<>>
            BY SubSeqEmpty
        <3>3. <<s[r]>> \in Seq(Shown)
            BY <1>2
        <3> QED
            BY <3>1, <3>2, <3>3, ConcatEmptySeq
    <2> QED
        BY <1>3, <1>5, <2>1, <2>2
<1>9. AllLeaves(rs) = s
    <2>1. cut[n] = n
        OBVIOUS
    <2> HIDE DEF cut
    <2>2. AllLeaves(rs) = SubSeq(s, 1, cut[n])
        BY <1>1, <1>5, <1>6, <1>7, <1>8, PartsTogether, SMTT(60)
    <2> QED
        BY <1>1, <2>1, <2>2, SubSeqFull
<1> QED
    BY <1>1, <1>3, <1>5, <1>6, <1>9

\* What a division by c leaves.
LEMMA Division ==
    ASSUME NEW a \in Nat, NEW c \in Nat \ {0}
    PROVE  \E q \in Nat, rem \in 0 .. c - 1 : a \div c = q /\ a = q * c + rem
<1>1. a \div c \in Nat /\ a % c \in 0 .. c - 1 /\ a = (a \div c) * c + (a % c)
    OBVIOUS
<1> QED
    BY <1>1

\* So many columns that there are not more rows than columns.
Columns(n) == CHOOSE c \in 1 .. n : c * c >= n /\ (c - 1) * (c - 1) < n
Rows(n) == (n + Columns(n) - 1) \div Columns(n)

\* autoArrange has at least two rows, and only the last may be short.
LEMMA ColumnsFacts ==
    ASSUME NEW n \in Nat, n >= 5
    PROVE  /\ Columns(n) \in Nat /\ Columns(n) >= 3 /\ Rows(n) \in Nat /\ Rows(n) >= 2
           /\ (Rows(n) - 1) * Columns(n) < n /\ n <= (Rows(n) - 1) * Columns(n) + Columns(n)
<1>1. \E c \in 1 .. n : c * c >= n /\ (c - 1) * (c - 1) < n
    <2> DEFINE T == {c \in 1 .. n : c * c >= n}
    <2>1. T \in SUBSET Nat /\ T # {}
        <3>1. n \in 1 .. n /\ n * n >= n
            OBVIOUS
        <3> QED
            BY <3>1
    <2>2. PICK c \in T : \A y \in T : c <= y
        <3> HIDE DEF T
        <3> QED
            BY <2>1, SmallestExists
    <2>3. c \in 1 .. n /\ c * c >= n
        BY <2>2
    <2>4. (c - 1) * (c - 1) < n
        <3>1. CASE c = 1
            BY <3>1
        <3>2. CASE c # 1
            <4>1. c - 1 \in 1 .. n /\ ~(c <= c - 1)
                BY <2>3, <3>2
            <4>2. c - 1 \notin T
                BY <2>2, <4>1
            <4>3. (c - 1) * (c - 1) \in Int
                BY <4>1
            <4> QED
                BY <4>1, <4>2, <4>3
        <3> QED
            BY <3>1, <3>2
    <2> QED
        BY <2>3, <2>4
<1>2. PICK c \in 1 .. n : c = Columns(n) /\ c * c >= n /\ (c - 1) * (c - 1) < n
    BY <1>1 DEF Columns
<1>3. c >= 3
    <2>1. CASE c = 1
        BY <1>2, <2>1
    <2>2. CASE c = 2
        BY <1>2, <2>2
    <2>3. c = 1 \/ c = 2 \/ c >= 3
        OBVIOUS
    <2> QED
        BY <2>1, <2>2, <2>3
<1>4. c < n
    <2> SUFFICES ASSUME c = n
                 PROVE  FALSE
        OBVIOUS
    <2>1. (n - 1) * (n - 1) < n
        BY <1>2
    <2>2. PICK k \in Nat : k = n - 1 /\ k >= 4
        OBVIOUS
    <2>3. k * k >= 4 * k
        BY <2>2
    <2>4. k * k < n
        BY <2>1, <2>2
    <2>5. k * k \in Int
        OBVIOUS
    <2> QED
        BY <2>2, <2>3, <2>4, <2>5
<1>5. n + c - 1 \in Nat /\ c \in Nat \ {0}
    BY <1>3
<1>6. PICK q \in Nat, rem \in 0 .. c - 1 : (n + c - 1) \div c = q /\ n + c - 1 = q * c + rem
    BY <1>5, Division
<1>7. q >= 2
    <2>1. CASE q = 0
        BY <1>4, <1>6, <2>1
    <2>2. CASE q = 1
        BY <1>4, <1>6, <2>2
    <2> QED
        BY <2>1, <2>2
<1>8. PICK p \in Int : p = q * c
    OBVIOUS
<1>9. (q - 1) * c = p - c
    BY <1>8
<1>10. p - c < n /\ n <= p - c + c
    BY <1>6, <1>8
<1>11. q = Rows(n)
    BY <1>2, <1>6 DEF Rows
<1> QED
    BY <1>2, <1>3, <1>7, <1>9, <1>10, <1>11

\* A split of panes that show a stretch of the sessions.
LEMMA ManyFacts ==
    ASSUME NEW panes \in Seq(Shown), NEW i \in Nat, NEW k \in Nat, k >= 2, i + k <= Len(panes), 2 <= MaxLevels,
           NEW d \in {"h", "v"}, NEW x, x = SplitOf(d, [j \in 1 .. k |-> Leaf(panes[i + j])])
    PROVE  x \in OfLevels[2] /\ x \in Layout /\ Full(x) /\ Leaves(x) = SubSeq(panes, i + 1, i + k)
<1>1. PICK s \in Seq(Shown) : /\ s = SubSeq(panes, i + 1, i + k) /\ Len(s) = k
                              /\ \A j \in 1 .. k : s[j] = panes[i + j]
    <2>1. Len(panes) \in Nat
        BY LenProperties
    <2>2. \A j \in i + 1 .. i + k : panes[j] \in Shown
        BY <2>1, ElementOfSeq
    <2>3. /\ SubSeq(panes, i + 1, i + k) \in Seq(Shown)
          /\ Len(SubSeq(panes, i + 1, i + k)) = IF i + 1 <= i + k THEN i + k - (i + 1) + 1 ELSE 0
          /\ \A j \in 1 .. i + k - (i + 1) + 1 : SubSeq(panes, i + 1, i + k)[j] = panes[i + 1 + j - 1]
        <3>1. i + 1 \in Int /\ i + k \in Int
            OBVIOUS
        <3> QED
            BY <2>2, <3>1, SubSeqProperties
    <2>4. i + k - (i + 1) + 1 = k /\ i + 1 <= i + k /\ \A j \in 1 .. k : i + 1 + j - 1 = i + j
        OBVIOUS
    <2>5. \A j \in 1 .. k : SubSeq(panes, i + 1, i + k)[j] = panes[i + j]
        BY <2>3, <2>4
    <2> QED
        BY <2>3, <2>4, <2>5
<1>2. [j \in 1 .. k |-> Leaf(panes[i + j])] = PanesOf(s)
    <2>1. DOMAIN s = 1 .. k
        BY <1>1, LenProperties
    <2> QED
        BY <1>1, <2>1 DEF PanesOf
<1>3. /\ PanesOf(s) \in Seq(OfLevels[1]) /\ Len(PanesOf(s)) = k
      /\ \A j \in 1 .. k : Full(PanesOf(s)[j])
      /\ AllLeaves(PanesOf(s)) = s
    BY <1>1, PanesOfFacts
<1>4. PICK j \in Nat : j = 1 /\ j + 1 <= MaxLevels
    BY LayoutTreeAssumption
<1>5. PICK cs \in Seq(OfLevels[j]) : cs = PanesOf(s)
    BY <1>3, <1>4
<1>6. /\ SplitOf(d, cs) \in OfLevels[j + 1] /\ SplitOf(d, cs) \in Layout
      /\ Full(SplitOf(d, cs)) /\ Leaves(SplitOf(d, cs)) = AllLeaves(cs)
    BY <1>3, <1>4, <1>5, SplitIsFull
<1>7. x = SplitOf(d, cs) /\ j + 1 = 2
    BY <1>2, <1>4, <1>5
<1> QED
    BY <1>1, <1>3, <1>5, <1>6, <1>7

\* A layout shows these panes.
Shows(x, panes) == x \in Layout /\ Full(x) /\ Leaves(x) = panes

\* A split of rows that show the sessions, stretch after stretch.
LEMMA StackFacts ==
    ASSUME NEW panes \in Seq(Shown), NEW m \in Nat, m >= 2, NEW rs \in Seq(OfLevels[2]), Len(rs) = m,
           3 <= MaxLevels, NEW d \in {"h", "v"}, NEW cut, Parts(cut, m, Len(panes)), cut[m] = Len(panes),
           \A r \in 1 .. m : Full(rs[r]) /\ Leaves(rs[r]) = SubSeq(panes, cut[r - 1] + 1, cut[r])
    PROVE  Shows(SplitOf(d, rs), panes)
<1>1. PICK j \in Nat : j = 2 /\ j + 1 <= MaxLevels
    BY LayoutTreeAssumption
<1>2. j <= MaxLevels
    BY <1>1, LayoutTreeAssumption
<1>3. rs \in Seq(OfLevels[j]) /\ rs \in Seq(Layout)
    <2>1. OfLevels[j] \subseteq Layout
        BY <1>2, LevelsInLayout
    <2> QED
        BY <1>1, <2>1
<1>4. /\ SplitOf(d, rs) \in Layout
      /\ Full(SplitOf(d, rs)) /\ Leaves(SplitOf(d, rs)) = AllLeaves(rs)
    BY <1>1, <1>3, SplitIsFull
<1>5. AllLeaves(rs) = SubSeq(panes, 1, cut[m])
    BY <1>3, PartsTogether
<1>6. AllLeaves(rs) = panes
    BY <1>5, SubSeqFull
<1> QED
    BY <1>4, <1>6 DEF Shows

RowOf(panes, i, k) == IF k = 1 THEN Leaf(panes[i + 1]) ELSE SplitOf("h", [j \in 1 .. k |-> Leaf(panes[i + j])])

\* One pane is a stretch of one session.
LEMMA OnePane ==
    ASSUME NEW panes \in Seq(Shown), NEW i \in Nat, i + 1 <= Len(panes)
    PROVE  /\ Leaf(panes[i + 1]) \in OfLevels[1] /\ Leaf(panes[i + 1]) \in Layout /\ Full(Leaf(panes[i + 1]))
           /\ Leaves(Leaf(panes[i + 1])) = SubSeq(panes, i + 1, i + 1)
<1>1. PICK k \in 1 .. Len(panes) : k = i + 1
    BY LenProperties
<1>2. PICK s \in Shown : s = panes[k]
    BY ElementOfSeq
<1>3. SubSeq(panes, k, k) = <<s>>
    <2>1. SubSeq(panes, k, k) = <<panes[k]>> \o SubSeq(panes, k + 1, k)
        BY SubSeqRecursiveFirst
    <2>2. SubSeq(panes, k + 1, k) = <<>>
        BY SubSeqEmpty
    <2>3. <<s>> \in Seq(Shown)
        OBVIOUS
    <2> QED
        BY <1>2, <2>1, <2>2, <2>3, ConcatEmptySeq
<1> QED
    BY <1>1, <1>2, <1>3, PaneFacts

\* A row of autoArrange shows its stretch, be it one pane or a split.
LEMMA RowOfFacts ==
    ASSUME NEW panes \in Seq(Shown), NEW i \in Nat, NEW k \in Nat, k >= 1, i + k <= Len(panes), 2 <= MaxLevels
    PROVE  /\ RowOf(panes, i, k) \in OfLevels[2] /\ Full(RowOf(panes, i, k))
           /\ Leaves(RowOf(panes, i, k)) = SubSeq(panes, i + 1, i + k)
<1>1. CASE k = 1
    <2>1. OfLevels[1] \subseteq OfLevels[2]
        BY LevelsGrow
    <2> QED
        BY <1>1, <2>1, OnePane DEF RowOf
<1>2. CASE k # 1
    <2>1. k >= 2 /\ "h" \in {"h", "v"}
        BY <1>2
    <2>2. RowOf(panes, i, k) = SplitOf("h", [j \in 1 .. k |-> Leaf(panes[i + j])])
        BY <1>2 DEF RowOf
    <2> QED
        BY <2>1, <2>2, ManyFacts
<1> QED
    BY <1>1, <1>2

\* From five panes on there are rows of as many columns, and the last has what is left.
InRows(panes, n) ==
    [r \in 1 .. Rows(n) |-> RowOf(panes, (r - 1) * Columns(n),
        IF r < Rows(n) THEN Columns(n) ELSE n - (Rows(n) - 1) * Columns(n))]

\* From five panes on, the rows show them all in order.
LEMMA InRowsFacts ==
    ASSUME NEW panes \in Seq(Shown), NEW n \in Nat, n = Len(panes), n >= 5, 3 <= MaxLevels
    PROVE  Shows(SplitOf("v", InRows(panes, n)), panes)
<1>1. PICK c \in Nat, q \in Nat : c = Columns(n) /\ q = Rows(n) /\ c >= 3 /\ q >= 2
                                  /\ (q - 1) * c < n /\ n <= (q - 1) * c + c
    BY ColumnsFacts
<1>2. PICK m \in Nat : m = (q - 1) * c /\ m < n /\ n <= m + c
    BY <1>1
<1>7. c >= 1 /\ m < n
    BY <1>1, <1>2
<1> DEFINE i(r) == (r - 1) * c
           k(r) == IF r < q THEN c ELSE n - m
           cut == [r \in 0 .. q |-> IF r < q THEN r * c ELSE n]
           R(r) == RowOf(panes, i(r), k(r))
<1>3. ASSUME NEW r \in 1 .. q
      PROVE  i(r) \in Nat /\ k(r) \in Nat /\ k(r) >= 1 /\ i(r) + k(r) <= n
             /\ cut[r - 1] = i(r) /\ cut[r] = i(r) + k(r)
    <2>1. r - 1 \in 0 .. q /\ r \in 0 .. q /\ r - 1 < q /\ r - 1 \in Nat
        OBVIOUS
    <2>2. cut[r - 1] = i(r)
        BY <2>1
    <2>3. i(r) \in Nat
        BY <2>1
    <2>7. PICK a \in Nat : a = (r - 1) * c /\ i(r) = a
        BY <2>3
    <2>4. CASE r < q
        <3>1. PICK b \in Nat : b = r * c /\ b = a + c
            <4>1. r * c = (r - 1) * c + c
                OBVIOUS
            <4> QED
                BY <2>7, <4>1
        <3>2. cut[r] = b /\ k(r) = c
            BY <2>1, <2>4, <3>1
        <3>3. b <= m
            <4>1. PICK t \in Nat : q - 1 = r + t
                <5>1. q - 1 - r \in Nat /\ q - 1 = r + (q - 1 - r)
                    BY <2>4
                <5> QED
                    BY <5>1
            <4>2. m = r * c + t * c
                BY <1>2, <4>1
            <4>3. t * c \in Nat /\ r * c \in Nat
                OBVIOUS
            <4> QED
                BY <3>1, <4>2, <4>3
        <3> HIDE DEF i, k, cut
        <3> QED
            <4>1. c >= 1 /\ b <= n /\ b = a + c
                BY <1>7, <3>1, <3>3
            <4>2. i(r) + k(r) = b
                BY <2>7, <3>2, <4>1
            <4> QED
                BY <2>2, <2>7, <3>2, <4>1, <4>2
    <2>5. CASE r = q
        <3>1. k(r) = n - m /\ cut[r] = n
            BY <2>1, <2>5
        <3>2. a = m
            <4> HIDE DEF i, k, cut
            <4> QED
                BY <1>2, <2>5, <2>7
        <3> HIDE DEF i, k, cut
        <3> QED
            BY <1>2, <2>2, <2>7, <3>1, <3>2, SMTT(60)
    <2>6. r < q \/ r = q
        OBVIOUS
    <2> QED
        BY <2>4, <2>5, <2>6
<1>4. Parts(cut, q, Len(panes)) /\ cut[q] = Len(panes)
    <2>1. \A r \in 1 .. q : cut[r] \in 0 .. n /\ cut[r - 1] <= cut[r]
        <3> HIDE DEF i, k, cut
        <3> QED
            BY <1>3
    <2>2. cut[0] = 0 /\ cut[q] = n
        BY <1>1
    <2>3. \A r \in 0 .. q : r = 0 \/ r \in 1 .. q
        OBVIOUS
    <2>4. \A r \in 0 .. q : cut[r] \in 0 .. n
        <3> HIDE DEF cut
        <3> QED
            BY <2>1, <2>2, <2>3
    <2>5. cut \in [0 .. q -> 0 .. n]
        BY <2>4
    <2> QED
        BY <2>1, <2>2, <2>5 DEF Parts
<1>5. PICK rs \in Seq(OfLevels[2]) :
         /\ rs = InRows(panes, n) /\ Len(rs) = q
         /\ \A r \in 1 .. q : Full(rs[r]) /\ Leaves(rs[r]) = SubSeq(panes, cut[r - 1] + 1, cut[r])
    <2>1. \A r \in 1 .. q : /\ R(r) \in OfLevels[2] /\ Full(R(r))
                            /\ Leaves(R(r)) = SubSeq(panes, i(r) + 1, i(r) + k(r))
        <3> HIDE DEF i, k, cut
        <3>1. 2 <= MaxLevels
            BY LayoutTreeAssumption
        <3> QED
            BY <1>3, <3>1, RowOfFacts
    <2>2. InRows(panes, n) = [r \in 1 .. q |-> R(r)]
        BY <1>1, <1>2 DEF InRows
    <2> DEFINE N == OfLevels[2]
    <2> HIDE DEF i, k, cut, R, N
    <2>3. PICK rs : rs = [r \in 1 .. q |-> R(r)]
        OBVIOUS
    <2>4. rs \in Seq(N) /\ Len(rs) = q /\ \A r \in 1 .. q : rs[r] = R(r)
        <3>1. \A r \in 1 .. q : R(r) \in N
            BY <2>1 DEF N
        <3> QED
            BY <2>3, <3>1
    <2> QED
        BY <1>3, <2>1, <2>2, <2>3, <2>4 DEF N
<1>6. "v" \in {"h", "v"}
    OBVIOUS
<1> HIDE DEF cut
<1> QED
    BY <1>1, <1>4, <1>5, <1>6, StackFacts

\* Fewer panes are put into two parts.
LEMMA TwoParts ==
    ASSUME NEW panes \in Seq(Shown), NEW k \in Nat, k <= Len(panes), 3 <= MaxLevels, NEW d \in {"h", "v"},
           NEW a \in OfLevels[2], NEW b \in OfLevels[2], Full(a), Full(b),
           Leaves(a) = SubSeq(panes, 1, k), Leaves(b) = SubSeq(panes, k + 1, Len(panes))
    PROVE  Shows(SplitOf(d, <<a, b>>), panes)
<1>1. PICK n \in Nat : n = Len(panes)
    BY LenProperties
<1> DEFINE cut == [r \in 0 .. 2 |-> IF r = 0 THEN 0 ELSE IF r = 1 THEN k ELSE n]
           N == OfLevels[2]
<1>2. cut[0] = 0 /\ cut[1] = k /\ cut[2] = n
    OBVIOUS
<1>3. Parts(cut, 2, Len(panes))
    <2>1. \A r \in 1 .. 2 : r - 1 \in 0 .. 2 /\ r \in 0 .. 2 /\ (r = 1 \/ r = 2)
        OBVIOUS
    <2>2. \A r \in 1 .. 2 : cut[r - 1] <= cut[r]
        BY <1>1, <2>1
    <2>3. cut \in [0 .. 2 -> 0 .. n]
        BY <1>1
    <2> QED
        BY <1>1, <1>2, <2>2, <2>3 DEF Parts
<1> HIDE DEF cut, N
<1>4. PICK rs \in Seq(N) : rs = <<a, b>> /\ Len(rs) = 2 /\ rs[1] = a /\ rs[2] = b
    <2>1. a \in N /\ b \in N
        BY DEF N
    <2>2. <<a, b>> \in Seq(N)
        BY <2>1
    <2>3. Len(<<a, b>>) = 2 /\ <<a, b>>[1] = a /\ <<a, b>>[2] = b
        OBVIOUS
    <2> QED
        BY <2>2, <2>3
<1>5. ASSUME NEW r \in 1 .. 2
      PROVE  Full(rs[r]) /\ Leaves(rs[r]) = SubSeq(panes, cut[r - 1] + 1, cut[r])
    <2>1. CASE r = 1
        <3>1. r - 1 = 0 /\ cut[r - 1] + 1 = 1
            BY <1>2, <2>1
        <3> QED
            BY <1>2, <1>4, <2>1, <3>1
    <2>2. CASE r = 2
        <3>1. r - 1 = 1 /\ cut[r - 1] + 1 = k + 1
            BY <1>2, <2>2
        <3> QED
            BY <1>1, <1>2, <1>4, <2>2, <3>1
    <2> QED
        BY <2>1, <2>2, SMTT(60)
<1>6. PICK m \in Nat : m = 2 /\ m >= 2
    OBVIOUS
<1>7. Len(rs) = m /\ Parts(cut, m, Len(panes)) /\ cut[m] = Len(panes)
    BY <1>1, <1>2, <1>3, <1>4, <1>6
<1>8. \A r \in 1 .. m : Full(rs[r]) /\ Leaves(rs[r]) = SubSeq(panes, cut[r - 1] + 1, cut[r])
    BY <1>5, <1>6
<1>9. rs \in Seq(OfLevels[2])
    BY DEF N
<1>10. Shows(SplitOf(d, rs), panes)
    BY <1>6, <1>7, <1>8, <1>9, StackFacts
<1> QED
    BY <1>4, <1>10

\* autoArrange shows the panes that there were, in their order.
LEMMA AutoArrangeFacts ==
    ASSUME NEW x \in Layout, Len(Leaves(x)) >= 1, Len(Leaves(x)) <= MaxLevels
    PROVE  Shows(AutoArrange(x), Leaves(x))
<1>1. PICK panes \in Seq(Shown), n \in Nat : panes = Leaves(x) /\ n = Len(panes)
    BY LeavesFacts
<1>2. n >= 1 /\ n <= MaxLevels /\ MaxLevels \in Nat
    BY <1>1, LayoutTreeAssumption
<1>3. SubSeq(panes, 1, n) = panes
    BY <1>1, SubSeqFull
<1>4. "h" \in {"h", "v"} /\ "v" \in {"h", "v"}
    OBVIOUS
<1>5. CASE n = 1
    <2>1. AutoArrange(x) = Leaf(panes[1])
        BY <1>1, <1>5 DEF AutoArrange
    <2>2. PICK i \in Nat : i = 0 /\ i + 1 = 1 /\ i + 1 <= Len(panes)
        BY <1>1, <1>5
    <2>3. Leaf(panes[i + 1]) \in Layout /\ Full(Leaf(panes[i + 1]))
          /\ Leaves(Leaf(panes[i + 1])) = SubSeq(panes, i + 1, i + 1)
        BY <2>2, OnePane
    <2> QED
        BY <1>1, <1>3, <1>5, <2>1, <2>2, <2>3 DEF Shows
<1>6. CASE n = 2
    <2>1. AutoArrange(x) = SplitOf("h", [j \in 1 .. 2 |-> Leaf(panes[0 + j])])
        BY <1>1, <1>6 DEF AutoArrange
    <2>2. PICK i \in Nat, k \in Nat : i = 0 /\ k = 2 /\ k >= 2 /\ i + k <= Len(panes) /\ 2 <= MaxLevels
                                      /\ i + 1 = 1 /\ i + k = n
        BY <1>1, <1>2, <1>6
    <2>3. PICK d \in {"h", "v"} : d = "h"
        OBVIOUS
    <2>6. PICK y : y = AutoArrange(x)
        OBVIOUS
    <2>7. k >= 2 /\ i + k <= Len(panes) /\ 2 <= MaxLevels
        BY <2>2
    <2>5. y = SplitOf(d, [j \in 1 .. k |-> Leaf(panes[i + j])])
        BY <2>1, <2>2, <2>3, <2>6
    <2>4. y \in Layout /\ Full(y) /\ Leaves(y) = SubSeq(panes, i + 1, i + k)
        BY <2>5, <2>7, ZenonT(40), ManyFacts
    <2> QED
        BY <1>1, <1>3, <2>2, <2>4, <2>6 DEF Shows
<1>7. CASE n = 3
    <2>1. AutoArrange(x) = SplitOf("h", <<Leaf(panes[1]), SplitOf("v", <<Leaf(panes[2]), Leaf(panes[3])>>)>>)
        BY <1>1, <1>7 DEF AutoArrange
    <2>2. PICK a, b : a = Leaf(panes[1]) /\ b = SplitOf("v", <<Leaf(panes[2]), Leaf(panes[3])>>)
        OBVIOUS
    <2>3. a \in OfLevels[2] /\ Full(a) /\ Leaves(a) = SubSeq(panes, 1, 1)
        <3>1. PICK i \in Nat : i = 0 /\ i + 1 = 1 /\ i + 1 <= Len(panes)
            BY <1>1, <1>7
        <3>2. OfLevels[1] \subseteq OfLevels[2]
            BY LevelsGrow
        <3>3. /\ Leaf(panes[i + 1]) \in OfLevels[1] /\ Full(Leaf(panes[i + 1]))
              /\ Leaves(Leaf(panes[i + 1])) = SubSeq(panes, i + 1, i + 1)
            BY <3>1, OnePane
        <3> QED
            BY <2>2, <3>1, <3>2, <3>3
    <2>4. b \in OfLevels[2] /\ Full(b) /\ Leaves(b) = SubSeq(panes, 2, 3)
        <3>1. PICK i \in Nat, k \in Nat : i = 1 /\ k = 2 /\ k >= 2 /\ i + k <= Len(panes) /\ 2 <= MaxLevels
                                          /\ i + 1 = 2 /\ i + k = 3
            BY <1>1, <1>2, <1>7
        <3>2. <<Leaf(panes[2]), Leaf(panes[3])>> = [j \in 1 .. 2 |-> Leaf(panes[1 + j])]
            OBVIOUS
        <3>3. PICK d \in {"h", "v"} : d = "v"
            OBVIOUS
        <3>4. b = SplitOf(d, [j \in 1 .. k |-> Leaf(panes[i + j])])
            BY <2>2, <3>1, <3>2, <3>3
        <3>5. b \in OfLevels[2] /\ Full(b) /\ Leaves(b) = SubSeq(panes, i + 1, i + k)
            <4>1. k >= 2 /\ i + k <= Len(panes) /\ 2 <= MaxLevels
                BY <3>1
            <4> QED
                BY <3>4, <4>1, ZenonT(40), ManyFacts
        <3> QED
            BY <3>1, <3>5
    <2>5. PICK k \in Nat : k = 1 /\ k <= Len(panes) /\ k + 1 = 2 /\ Len(panes) = 3 /\ 3 <= MaxLevels
        BY <1>1, <1>2, <1>7
    <2>6. Shows(SplitOf("h", <<a, b>>), panes)
        BY <1>4, <2>3, <2>4, <2>5, TwoParts
    <2> QED
        BY <1>1, <2>1, <2>2, <2>6
<1>8. CASE n = 4
    <2>1. AutoArrange(x) = SplitOf("v", <<RowOf(panes, 0, 2), RowOf(panes, 2, 2)>>)
        BY <1>1, <1>8 DEF AutoArrange, RowOf
    <2>2. PICK i \in Nat, k \in Nat : i = 0 /\ k = 2 /\ k >= 1 /\ i + k <= Len(panes) /\ k + k <= Len(panes)
                                      /\ i + k = 2 /\ k + k = 4 /\ i + 1 = 1
        BY <1>1, <1>8
    <2>3. 2 <= MaxLevels /\ 3 <= MaxLevels
        BY <1>2, <1>8
    <2>4. PICK a, b : a = RowOf(panes, i, k) /\ b = RowOf(panes, k, k)
        OBVIOUS
    <2>5. a \in OfLevels[2] /\ Full(a) /\ Leaves(a) = SubSeq(panes, i + 1, i + k)
        BY <2>2, <2>3, <2>4, RowOfFacts
    <2>6. b \in OfLevels[2] /\ Full(b) /\ Leaves(b) = SubSeq(panes, k + 1, k + k)
        BY <2>2, <2>3, <2>4, RowOfFacts
    <2>7. Leaves(a) = SubSeq(panes, 1, k) /\ Leaves(b) = SubSeq(panes, k + 1, Len(panes)) /\ k <= Len(panes)
        BY <1>1, <1>8, <2>2, <2>5, <2>6
    <2>8. Shows(SplitOf("v", <<a, b>>), panes)
        BY <1>4, <2>3, <2>5, <2>6, <2>7, TwoParts
    <2> QED
        BY <1>1, <2>1, <2>2, <2>4, <2>8
<1>9. CASE n >= 5
    <2>1. AutoArrange(x) = SplitOf("v", InRows(panes, n))
        <3>1. n # 0 /\ n # 1 /\ n # 2 /\ n # 3 /\ n # 4
            BY <1>9
        <3>2. AutoArrange(x) = SplitOf("v", [r \in 1 .. Rows(n) |->
                 IF (IF r < Rows(n) THEN Columns(n) ELSE n - (Rows(n) - 1) * Columns(n)) = 1
                 THEN Leaf(panes[(r - 1) * Columns(n) + 1])
                 ELSE SplitOf("h", [j \in 1 .. (IF r < Rows(n) THEN Columns(n) ELSE n - (Rows(n) - 1) * Columns(n))
                                       |-> Leaf(panes[(r - 1) * Columns(n) + j])])])
            BY <1>1, <3>1 DEF AutoArrange, Rows, Columns
        <3> QED
            BY <3>2 DEF InRows, RowOf
    <2>2. 3 <= MaxLevels
        BY <1>2, <1>9
    <2> QED
        BY <1>1, <1>9, <2>1, <2>2, InRowsFacts
<1>10. n = 1 \/ n = 2 \/ n = 3 \/ n = 4 \/ n >= 5
    BY <1>2
<1> QED
    BY <1>5, <1>6, <1>7, <1>8, <1>9, <1>10

-----------------------------------------------------------------------------
(* What the operations do to the panes.                                     *)

\* A node put where another was.
LEMMA PutShows ==
    ASSUME NEW x \in Layout, Full(x), NEW n \in Nat, n = Len(Leaves(x)), n < MaxLevels,
           NEW p \in Path, NodeAt(x, p) \in Layout,
           NEW j \in Nat, NEW new \in OfLevels[j], Full(new), Len(p) + j <= n + 1
    PROVE  Shows(WithNode(x, p, new), Cat(Cat(Ahead(x, p), Leaves(new)), Behind(x, p)))
<1>1. PICK m \in Nat : m = n + 1 /\ m <= MaxLevels /\ Len(p) + j <= m
    BY LayoutTreeAssumption
<1>2. x \in OfLevels[m]
    <2>1. x \in OfLevels[n]
        BY FullIsMeasured DEF Measured
    <2> QED
        BY <1>1, <2>1, LevelsGrow
<1>3. Replaced(WithNode(x, p, new), m, x, p, new)
    BY <1>1, <1>2, PutFacts
<1> QED
    BY <1>1, <1>3, LevelsInLayout DEF Replaced, Shows

\* Levels of what a path leads to.
LEMMA BelowFull ==
    ASSUME NEW x \in Layout, Full(x), NEW n \in Nat, n = Len(Leaves(x)), n < MaxLevels,
           NEW p \in Path, NodeAt(x, p) \in Layout
    PROVE  /\ Full(NodeAt(x, p)) /\ Len(p) \in Nat /\ Len(p) < n
           /\ \E k \in Nat : k = n - Len(p) /\ NodeAt(x, p) \in OfLevels[k]
<1>1. x \in OfLevels[n] /\ n <= MaxLevels
    BY FullIsMeasured, LayoutTreeAssumption DEF Measured
<1>2. Len(p) < n /\ NodeAt(x, p) \in OfLevels[n - Len(p)] /\ Full(NodeAt(x, p))
    BY <1>1, DeepFacts
<1>3. Len(p) \in Nat
    BY LenProperties DEF Path
<1>4. n - Len(p) \in Nat
    BY <1>2, <1>3
<1> QED
    BY <1>2, <1>3, <1>4

\* The split of a pane and a new one.
LEMMA PairFacts ==
    ASSUME NEW d \in {"h", "v"}, NEW s \in Shown, NEW e \in Shown, 2 <= MaxLevels
    PROVE  /\ SplitOf(d, <<Leaf(s), Leaf(e)>>) \in OfLevels[2] /\ Full(SplitOf(d, <<Leaf(s), Leaf(e)>>))
           /\ Leaves(SplitOf(d, <<Leaf(s), Leaf(e)>>)) = Cat(<<s>>, <<e>>)
<1>1. PICK panes \in Seq(Shown) : panes = <<s, e>> /\ Len(panes) = 2 /\ panes[1] = s /\ panes[2] = e
    <2>1. <<s, e>> \in Seq(Shown)
        OBVIOUS
    <2>2. Len(<<s, e>>) = 2 /\ <<s, e>>[1] = s /\ <<s, e>>[2] = e
        OBVIOUS
    <2> QED
        BY <2>1, <2>2
<1>2. PICK x : x = SplitOf(d, <<Leaf(s), Leaf(e)>>)
    OBVIOUS
<1>3. PICK i \in Nat, k \in Nat : i = 0 /\ k = 2
    OBVIOUS
<1>4. <<Leaf(s), Leaf(e)>> = [j \in 1 .. k |-> Leaf(panes[i + j])]
    BY <1>1, <1>3
<1>5. k >= 2 /\ i + k <= Len(panes)
    BY <1>1, <1>3
<1>6. x = SplitOf(d, [j \in 1 .. k |-> Leaf(panes[i + j])])
    BY <1>2, <1>4
<1>7. x \in OfLevels[2] /\ Full(x) /\ Leaves(x) = SubSeq(panes, i + 1, i + k)
    BY <1>5, <1>6, ManyFacts
<1>8. SubSeq(panes, 1, 2) = panes
    BY <1>1, SubSeqFull
<1>9. i + 1 = 1 /\ i + k = 2
    BY <1>3
<1>10. <<s>> \o <<e>> = panes
    <2>1. PICK u \in Seq(Shown), v \in Seq(Shown) :
             u = <<s>> /\ v = <<e>> /\ Len(u) = 1 /\ Len(v) = 1 /\ u[1] = s /\ v[1] = e
        <3>1. <<s>> \in Seq(Shown) /\ Len(<<s>>) = 1 /\ <<s>>[1] = s
            OBVIOUS
        <3>2. <<e>> \in Seq(Shown) /\ Len(<<e>>) = 1 /\ <<e>>[1] = e
            OBVIOUS
        <3> QED
            BY <3>1, <3>2
    <2>2. \A j \in 1 .. Len(u) : panes[j] = u[j]
        BY <1>1, <2>1
    <2>3. \A j \in 1 .. Len(v) : panes[Len(u) + j] = v[j]
        BY <1>1, <2>1
    <2>4. Len(panes) = Len(u) + Len(v)
        BY <1>1, <2>1
    <2>5. panes = u \o v
        BY <2>2, <2>3, <2>4, ConcatElements
    <2> QED
        BY <2>1, <2>5
<1> QED
    BY <1>1, <1>2, <1>7, <1>8, <1>9, <1>10 DEF Cat

\* splitPane puts a pane behind the one that it splits.
LEMMA SplitPaneAtShows ==
    ASSUME NEW x \in Layout, Full(x), NEW n \in Nat, n = Len(Leaves(x)), n < MaxLevels,
           NEW p, NEW s, PaneAt(x, p, s), NEW d \in {"h", "v"}, NEW e \in Shown
    PROVE  Shows(SplitPaneAt(x, p, d, e), Cat(Cat(Ahead(x, p), Cat(<<s>>, <<e>>)), Behind(x, p)))
<1>1. p \in Path /\ s \in Shown /\ NodeAt(x, p) = Leaf(s) /\ NodeAt(x, p) \in Layout
    BY PaneFacts DEF PaneAt
<1>2. Len(p) \in Nat /\ Len(p) < n
    BY <1>1, BelowFull
<1>3. IsLeaf(Leaf(s)) /\ Leaf(s) # Nothing
    BY <1>1, PaneFacts DEF Leaf, Nothing
<1>4. SplitPaneAt(x, p, d, e) = WithNode(x, p, SplitOf(d, <<Leaf(s), Leaf(e)>>))
    BY <1>1, <1>3 DEF SplitPaneAt
<1>3a. PICK j \in Nat : j = 2
    OBVIOUS
<1>5. PICK new \in OfLevels[j] :
         /\ new = SplitOf(d, <<Leaf(s), Leaf(e)>>) /\ Full(new)
         /\ Leaves(new) = Cat(<<s>>, <<e>>)
    <2>1. 2 <= MaxLevels
        BY <1>2, LayoutTreeAssumption
    <2> QED
        BY <1>1, <1>3a, <2>1, PairFacts
<1>6. Len(p) + j <= n + 1
    BY <1>2, <1>3a
<1>7. Shows(WithNode(x, p, new), Cat(Cat(Ahead(x, p), Leaves(new)), Behind(x, p)))
    BY <1>1, <1>5, <1>6, PutShows
<1> QED
    BY <1>4, <1>5, <1>7

\* A layout is not null.
LEMMA NotNothing ==
    ASSUME NEW x \in Layout
    PROVE  x # Nothing
<1>1. CASE IsLeaf(x)
    <2>1. DOMAIN Nothing = {}
        BY DEF Nothing
    <2> QED
        BY <1>1, <2>1 DEF IsLeaf
<1>2. CASE ~IsLeaf(x)
    <2>1. x = SplitOf(x.split, x.children)
        BY <1>2, LayoutFacts
    <2>2. "split" \in DOMAIN x
        BY <2>1 DEF SplitOf
    <2>3. DOMAIN Nothing = {}
        BY DEF Nothing
    <2> QED
        BY <2>2, <2>3
<1> QED
    BY <1>1, <1>2

\* The split that holds what a path leads to, and how deep its children are.
Parent(x, p, n, m, k) ==
    /\ Front(p) \in Path /\ m = NodeAt(x, Front(p)) /\ m \in Layout /\ ~IsLeaf(m) /\ m # Nothing
    /\ k \in Nat /\ Len(Front(p)) \in Nat /\ Len(Front(p)) + k + 1 <= n
    /\ m.split \in {"h", "v"} /\ m.children \in Seq(OfLevels[k]) /\ Len(m.children) >= 2
    /\ \A i \in 1 .. Len(m.children) : Full(m.children[i])
    /\ Last(p) \in 1 .. Len(m.children) /\ NodeAt(x, p) = m.children[Last(p)]
    /\ Ahead(x, p) = Cat(Ahead(x, Front(p)), AllLeaves(Left(m.children, Last(p))))
    /\ Behind(x, p) = Cat(AllLeaves(Right(m.children, Last(p))), Behind(x, Front(p)))

\* What stands around the node that has the pane.
LEMMA ParentFacts ==
    ASSUME NEW x \in Layout, Full(x), NEW n \in Nat, n = Len(Leaves(x)), n < MaxLevels,
           NEW p \in Path, p # <<>>, NodeAt(x, p) \in Layout
    PROVE  \E m, k : Parent(x, p, n, m, k)
<1>1. PICK f, i, m, cs :
         /\ f \in Path /\ i \in Nat
         /\ p = Append(f, i) /\ Front(p) = f /\ Last(p) = i /\ IsChild(x, f, i, m, cs)
    BY LastStep
<1>2. /\ f \in Path /\ i \in Nat
      /\ m = NodeAt(x, f) /\ m \in Layout /\ ~IsLeaf(m) /\ cs = m.children
      /\ i \in 1 .. Len(cs) /\ NodeAt(x, p) = cs[i]
      /\ Ahead(x, p) = Cat(Ahead(x, f), AllLeaves(Left(cs, i)))
      /\ Behind(x, p) = Cat(AllLeaves(Right(cs, i)), Behind(x, f))
    BY <1>1 DEF IsChild
<1>3. /\ Full(m) /\ Len(f) \in Nat /\ Len(f) < n
      /\ \E k \in Nat : k = n - Len(f) /\ m \in OfLevels[k]
    BY <1>2, BelowFull
<1>4. PICK k \in Nat : k = n - Len(f) /\ m \in OfLevels[k]
    BY <1>3
<1>5. /\ m = SplitOf(m.split, m.children) /\ m.split \in {"h", "v"}
      /\ k # 0 /\ k - 1 \in Nat
      /\ m.children \in Seq(OfLevels[k - 1])
    BY <1>2, <1>4, NodeFacts
<1>6. Len(cs) >= 2 /\ \A j \in 1 .. Len(cs) : Full(cs[j])
    BY <1>2, <1>3, FullFacts
<1>7. m # Nothing
    BY <1>2, NotNothing
<1>8. Len(f) + (k - 1) + 1 <= n
    BY <1>3, <1>4
<1>9. Parent(x, p, n, m, k - 1)
    BY <1>1, <1>2, <1>3, <1>5, <1>6, <1>7, <1>8 DEF Parent
<1> QED
    BY <1>9

\* Other children for a split.
LEMMA ChildrenPut ==
    ASSUME NEW x \in Layout, Full(x), NEW n \in Nat, n = Len(Leaves(x)), n < MaxLevels,
           NEW f \in Path, NEW m \in Layout, m = NodeAt(x, f), ~IsLeaf(m),
           NEW k \in Nat, Len(f) + k + 1 <= n + 1, Len(f) \in Nat,
           NEW ds \in Seq(OfLevels[k]), Len(ds) >= 2, \A i \in 1 .. Len(ds) : Full(ds[i])
    PROVE  Shows(WithNode(x, f, [m EXCEPT !.children = ds]), Cat(Cat(Ahead(x, f), AllLeaves(ds)), Behind(x, f)))
<1>1. m = SplitOf(m.split, m.children) /\ m.split \in {"h", "v"}
    BY LayoutFacts
<1>2. [m EXCEPT !.children = ds] = SplitOf(m.split, ds)
    BY <1>1 DEF SplitOf
<1>3. PICK j \in Nat : j = k + 1 /\ j <= MaxLevels /\ Len(f) + j <= n + 1
    BY LayoutTreeAssumption
<1>4. PICK d \in {"h", "v"} : d = m.split
    BY <1>1
<1>5. PICK new \in OfLevels[j] : new = SplitOf(d, ds) /\ Full(new) /\ Leaves(new) = AllLeaves(ds)
    <2>1. k + 1 <= MaxLevels
        BY <1>3
    <2>2. SplitOf(d, ds) \in OfLevels[k + 1] /\ Full(SplitOf(d, ds)) /\ Leaves(SplitOf(d, ds)) = AllLeaves(ds)
        BY <2>1, SplitIsFull
    <2> QED
        BY <1>3, <2>2
<1>6. Shows(WithNode(x, f, new), Cat(Cat(Ahead(x, f), Leaves(new)), Behind(x, f)))
    BY <1>3, <1>5, PutShows
<1> QED
    BY <1>2, <1>4, <1>5, <1>6

\* What is left and right of a child, together.
LEMMA OthersFacts ==
    ASSUME NEW S, NEW cs \in Seq(S), NEW i \in 1 .. Len(cs)
    PROVE  /\ RemoveAt(cs, i) \in Seq(S) /\ Len(RemoveAt(cs, i)) = Len(cs) - 1
           /\ \A j \in 1 .. Len(cs) - 1 : RemoveAt(cs, i)[j] = IF j < i THEN cs[j] ELSE cs[j + 1]
<1>1. PICK a \in Seq(S), b \in Seq(S) : /\ a = Left(cs, i) /\ b = Right(cs, i) /\ Len(a) = i - 1 /\ Len(b) = Len(cs) - i
         /\ (\A j \in 1 .. i - 1 : a[j] = cs[j]) /\ \A j \in 1 .. Len(cs) - i : b[j] = cs[i + j]
    <2>1. Left(cs, i) \in Seq(S) /\ Len(Left(cs, i)) = i - 1 /\ \A j \in 1 .. i - 1 : Left(cs, i)[j] = cs[j]
        BY AroundFacts
    <2>2. /\ Right(cs, i) \in Seq(S) /\ Len(Right(cs, i)) = Len(cs) - i
          /\ \A j \in 1 .. Len(cs) - i : Right(cs, i)[j] = cs[i + j]
        BY AroundFacts
    <2> QED
        BY <2>1, <2>2
<1>2. RemoveAt(cs, i) = Cat(a, b)
    BY <1>1, RemoveAround
<1>3. /\ Cat(a, b) \in Seq(S) /\ Len(Cat(a, b)) = Len(a) + Len(b)
      /\ \A j \in 1 .. Len(a) : Cat(a, b)[j] = a[j]
      /\ \A j \in 1 .. Len(b) : Cat(a, b)[Len(a) + j] = b[j]
    <2>1. Cat(a, b) \in Seq(S) /\ Len(Cat(a, b)) = Len(a) + Len(b)
        BY CatElements
    <2>2. \A j \in 1 .. Len(a) : Cat(a, b)[j] = a[j]
        BY CatElements
    <2>3. \A j \in 1 .. Len(b) : Cat(a, b)[Len(a) + j] = b[j]
        BY CatElements
    <2> QED
        BY <2>1, <2>2, <2>3
<1>4. Len(cs) \in Nat
    BY LenProperties
<1>5. ASSUME NEW j \in 1 .. Len(cs) - 1
      PROVE  Cat(a, b)[j] = IF j < i THEN cs[j] ELSE cs[j + 1]
    <2>1. CASE j < i
        BY <1>1, <1>3, <1>4, <2>1
    <2>2. CASE ~(j < i)
        <3>1. PICK t \in 1 .. Len(b) : t = j - (i - 1) /\ j = Len(a) + t /\ i + t = j + 1
            BY <1>1, <1>4, <2>2
        <3>2. Cat(a, b)[Len(a) + t] = b[t] /\ b[t] = cs[i + t]
            BY <1>1, <1>3, <3>1
        <3> QED
            BY <2>2, <3>1, <3>2
    <2> QED
        BY <2>1, <2>2
<1>6. Len(a) + Len(b) = Len(cs) - 1
    BY <1>1, <1>4
<1> QED
    BY <1>2, <1>3, <1>5, <1>6

\* removePane leaves the panes before and after what it removes, in a layout
\* without splits of one.
LEMMA RemoveNodeShows ==
    ASSUME NEW x \in Layout, Full(x), NEW n \in Nat, n = Len(Leaves(x)), n < MaxLevels,
           NEW p \in Path, NodeAt(x, p) \in Layout, p # <<>>
    PROVE  Shows(RemovePane(x, p), Cat(Ahead(x, p), Behind(x, p)))
<1>1. p \in Path /\ NodeAt(x, p) \in Layout
    OBVIOUS
<1>2. PICK m, k : Parent(x, p, n, m, k)
    BY <1>1, ParentFacts
<1>3. PICK f, cs, i : f \in Path /\ f = Front(p) /\ cs = m.children /\ i = Last(p)
    BY <1>2 DEF Parent
<1>4. /\ f \in Path /\ m = NodeAt(x, f) /\ m \in Layout /\ ~IsLeaf(m) /\ m # Nothing
      /\ k \in Nat /\ Len(f) \in Nat /\ Len(f) + k + 1 <= n
      /\ cs \in Seq(OfLevels[k]) /\ Len(cs) >= 2
      /\ \A q \in 1 .. Len(cs) : Full(cs[q])
      /\ i \in 1 .. Len(cs)
      /\ Ahead(x, p) = Cat(Ahead(x, f), AllLeaves(Left(cs, i)))
      /\ Behind(x, p) = Cat(AllLeaves(Right(cs, i)), Behind(x, f))
    BY <1>2, <1>3 DEF Parent
<1>5. PICK rest \in Seq(OfLevels[k]) : /\ rest = RemoveAt(cs, i) /\ Len(rest) = Len(cs) - 1
                                       /\ \A q \in 1 .. Len(rest) : Full(rest[q])
    <2>1. RemoveAt(cs, i) \in Seq(OfLevels[k]) /\ Len(RemoveAt(cs, i)) = Len(cs) - 1
        BY <1>4, OthersFacts
    <2>2. \A j \in 1 .. Len(cs) - 1 : RemoveAt(cs, i)[j] = IF j < i THEN cs[j] ELSE cs[j + 1]
        BY <1>4, OthersFacts
    <2>3. Len(cs) \in Nat
        BY <1>4, LenProperties
    <2>4. \A j \in 1 .. Len(cs) - 1 : j \in 1 .. Len(cs) /\ j + 1 \in 1 .. Len(cs)
        BY <2>3
    <2>5. \A j \in 1 .. Len(cs) - 1 : Full(RemoveAt(cs, i)[j])
        BY <1>4, <2>2, <2>4
    <2> QED
        BY <2>1, <2>5
<1>6. k <= MaxLevels /\ Len(cs) \in Nat
    BY <1>4, LayoutTreeAssumption, LenProperties
<1>7. PICK l \in Seq(Shown), r \in Seq(Shown) :
         l = AllLeaves(Left(cs, i)) /\ r = AllLeaves(Right(cs, i)) /\ AllLeaves(rest) = Cat(l, r)
    <2>1. cs \in Seq(Layout)
        <3>1. OfLevels[k] \subseteq Layout
            BY <1>4, <1>6, LevelsInLayout
        <3> QED
            BY <1>4, <3>1
    <2>2. Left(cs, i) \in Seq(Layout)
        BY <1>4, <2>1, AroundFacts
    <2>3. Right(cs, i) \in Seq(Layout)
        BY <1>4, <2>1, AroundFacts
    <2>4. rest = Left(cs, i) \o Right(cs, i)
        BY <1>5, RemoveAround DEF Cat
    <2> QED
        BY <2>2, <2>3, <2>4, AllLeavesFacts DEF Cat
<1>8. Ahead(x, f) \in Seq(Shown) /\ Behind(x, f) \in Seq(Shown)
    BY <1>4, AheadEquation, BehindEquation
<1>9. Cat(Cat(Ahead(x, f), Cat(l, r)), Behind(x, f)) = Cat(Ahead(x, p), Behind(x, p))
    <2>1. PICK a \in Seq(Shown), b \in Seq(Shown) : a = Ahead(x, f) /\ b = Behind(x, f)
        BY <1>8
    <2>2. Cat(Cat(a, Cat(l, r)), b) = Cat(Cat(a, l), Cat(r, b))
        <3>1. Cat(a, Cat(l, r)) = Cat(Cat(a, l), r)
            BY CatFacts
        <3>2. Cat(a, l) \in Seq(Shown)
            BY CatFacts
        <3>3. Cat(Cat(Cat(a, l), r), b) = Cat(Cat(a, l), Cat(r, b))
            BY <3>2, CatFacts
        <3> QED
            BY <3>1, <3>3
    <2> QED
        BY <1>4, <1>7, <2>1, <2>2
<1>10. RemovePane(x, p) = WithNode(x, f, IF Len(rest) = 1 THEN rest[1] ELSE [m EXCEPT !.children = rest])
    <2>1. i \in DOMAIN m.children
        BY <1>3, <1>4, LenProperties
    <2> QED
        BY <1>3, <1>4, <1>5, <2>1 DEF RemovePane
<1>11. CASE Len(rest) = 1
    <2>1. PICK new \in OfLevels[k] : new = rest[1] /\ Full(new)
        <3>1. 1 \in 1 .. Len(rest)
            BY <1>11
        <3>2. rest[1] \in OfLevels[k]
            BY <3>1, ElementOfSeq
        <3>3. Full(rest[1])
            BY <1>5, <3>1
        <3> QED
            BY <3>2, <3>3
    <2>2. Len(f) + k <= n + 1 /\ NodeAt(x, f) \in Layout
        BY <1>4
    <2>3. Shows(WithNode(x, f, new), Cat(Cat(Ahead(x, f), Leaves(new)), Behind(x, f)))
        BY <1>4, <2>1, <2>2, PutShows
    <2>4. Leaves(new) = AllLeaves(rest)
        <3>1. rest = <<new>>
            BY <1>5, <1>11, <2>1
        <3>2. new \in Layout
            BY <1>4, <1>6, LevelsInLayout
        <3> QED
            BY <3>1, <3>2, AllLeavesFacts
    <2> QED
        BY <1>7, <1>9, <1>10, <1>11, <2>1, <2>3, <2>4
<1>12. CASE Len(rest) # 1
    <2>1. Len(rest) >= 2
        BY <1>4, <1>5, <1>6, <1>12
    <2>2. Len(f) + k + 1 <= n + 1
        BY <1>4
    <2>3. Shows(WithNode(x, f, [m EXCEPT !.children = rest]), Cat(Cat(Ahead(x, f), AllLeaves(rest)), Behind(x, f)))
        BY <1>4, <1>5, <2>1, <2>2, ChildrenPut
    <2> QED
        BY <1>7, <1>9, <1>10, <1>12, <2>3
<1> QED
    BY <1>11, <1>12

\* The same, of a pane.
LEMMA RemoveShows ==
    ASSUME NEW x \in Layout, Full(x), NEW n \in Nat, n = Len(Leaves(x)), n < MaxLevels,
           NEW p, NEW s, PaneAt(x, p, s), p # <<>>
    PROVE  Shows(RemovePane(x, p), Cat(Ahead(x, p), Behind(x, p)))
<1>1. p \in Path /\ NodeAt(x, p) \in Layout
    BY PaneFacts DEF PaneAt
<1> QED
    BY <1>1, RemoveNodeShows

\* The place of a pane among the panes.
LEMMA PlaceOfPane ==
    ASSUME NEW x \in Layout, NEW p, NEW s, PaneAt(x, p, s), NEW k \in Nat, Len(Ahead(x, p)) = k - 1
    PROVE  /\ k \in 1 .. Len(Leaves(x)) /\ Leaves(x)[k] = s
           /\ Left(Leaves(x), k) = Ahead(x, p) /\ Right(Leaves(x), k) = Behind(x, p)
<1>1. p \in Path /\ s \in Shown /\ Leaves(x) = Cat(Cat(Ahead(x, p), <<s>>), Behind(x, p))
    BY DEF PaneAt
<1>2. PICK a, b, y : a \in Seq(Shown) /\ b \in Seq(Shown) /\ a = Ahead(x, p) /\ b = Behind(x, p) /\ y = Leaves(x)
    BY <1>1, AheadEquation, BehindEquation
<1>3. a \in Seq(Shown) /\ b \in Seq(Shown) /\ y = Cat(Cat(a, <<s>>), b)
    BY <1>1, <1>2
<1>4. Len(a) + 1 \in 1 .. Len(y) /\ y[Len(a) + 1] = s
    BY <1>1, <1>3, CatPlace
<1>5. Left(y, Len(a) + 1) = a /\ Right(y, Len(a) + 1) = b
    BY <1>1, <1>3, CatPlace
<1>6. Len(a) + 1 = k
    BY <1>2
<1> QED
    BY <1>2, <1>4, <1>5, <1>6

\* Another session in the pane at p.
LEMMA PutAt ==
    ASSUME NEW x \in Layout, NEW p, NEW s, PaneAt(x, p, s), NEW k \in Nat, Len(Ahead(x, p)) = k - 1, NEW e \in Shown
    PROVE  /\ WithNode(x, p, Leaf(e)) \in Layout
           /\ Leaves(WithNode(x, p, Leaf(e))) = [Leaves(x) EXCEPT ![k] = e]
           /\ Full(x) => Full(WithNode(x, p, Leaf(e)))
<1>1. p \in Path /\ s \in Shown /\ NodeAt(x, p) = Leaf(s)
    BY DEF PaneAt
<1>2. /\ WithNode(x, p, Leaf(e)) \in Layout
      /\ Leaves(WithNode(x, p, Leaf(e))) = Cat(Cat(Ahead(x, p), <<e>>), Behind(x, p))
      /\ Full(x) => Full(WithNode(x, p, Leaf(e)))
    BY <1>1, PanePut
<1>3. /\ k \in 1 .. Len(Leaves(x))
      /\ Left(Leaves(x), k) = Ahead(x, p) /\ Right(Leaves(x), k) = Behind(x, p)
    BY PlaceOfPane
<1>4. PICK y \in Seq(Shown) : y = Leaves(x)
    BY LeavesFacts
<1>5. [y EXCEPT ![k] = e] = Cat(Cat(Left(y, k), <<e>>), Right(y, k))
    BY <1>3, <1>4, ExceptAround
<1> QED
    BY <1>2, <1>3, <1>4, <1>5

\* Two panes change places.
LEMMA SwapShows ==
    ASSUME NEW x \in Layout, Full(x), NEW s \in Shown, NEW t \in Shown,
           s \in ToSet(Leaves(x)), t \in ToSet(Leaves(x))
    PROVE  \E k, l \in 1 .. Len(Leaves(x)) :
              /\ Len(Ahead(x, PathOf(x, s))) = k - 1 /\ Len(Ahead(x, PathOf(x, t))) = l - 1
              /\ Shows(WithNode(WithNode(x, PathOf(x, s), Leaf(t)), PathOf(x, t), Leaf(s)),
                       [[Leaves(x) EXCEPT ![k] = t] EXCEPT ![l] = s])
<1>1. PICK k \in 1 .. Len(Leaves(x)) : Len(Ahead(x, PathOf(x, s))) = k - 1
    BY PathOfFacts
<1>2. PICK l \in 1 .. Len(Leaves(x)) : PathOf(x, t) = Paths(x)[l] /\ Len(Ahead(x, PathOf(x, t))) = l - 1
    BY PathOfFacts
<1>3. PaneAt(x, PathOf(x, s), s)
    BY PathOfFacts
<1>4. PICK y : y = WithNode(x, PathOf(x, s), Leaf(t))
    OBVIOUS
<1>5. y \in Layout /\ Leaves(y) = [Leaves(x) EXCEPT ![k] = t] /\ Full(y)
    <2>1. k \in Nat
        BY <1>1
    <2> QED
        BY <1>1, <1>3, <1>4, <2>1, PutAt
<1>6. Paths(y) = Paths(x)
    <2>1. PathOf(x, s) \in Path /\ NodeAt(x, PathOf(x, s)) = Leaf(s)
        BY <1>3 DEF PaneAt
    <2> QED
        BY <1>4, <2>1, PathsKept
<1>7. Len(Leaves(y)) = Len(Leaves(x))
    <2>1. PICK u \in Seq(Shown) : u = Leaves(x)
        BY LeavesFacts
    <2>2. Len([u EXCEPT ![k] = t]) = Len(u)
        BY <1>1, <2>1
    <2> QED
        BY <1>5, <2>1, <2>2
<1>8. l \in Nat /\ l \in 1 .. Len(Leaves(y))
    BY <1>2, <1>7
<1>9. PaneAt(y, Paths(y)[l], Leaves(y)[l]) /\ Len(Ahead(y, Paths(y)[l])) = l - 1
    BY <1>5, <1>8, PlaceOfPath
<1>10. PICK p, q : p = Paths(y)[l] /\ q = Leaves(y)[l]
    OBVIOUS
<1>11. PaneAt(y, p, q) /\ Len(Ahead(y, p)) = l - 1
    BY <1>9, <1>10
<1>12. /\ WithNode(y, p, Leaf(s)) \in Layout
       /\ Leaves(WithNode(y, p, Leaf(s))) = [Leaves(y) EXCEPT ![l] = s]
       /\ Full(WithNode(y, p, Leaf(s)))
    <2>1. y \in Layout /\ l \in Nat /\ Full(y)
        BY <1>5, <1>8
    <2>2. WithNode(y, p, Leaf(s)) \in Layout
        BY <1>11, <2>1, PutAt
    <2>3. Leaves(WithNode(y, p, Leaf(s))) = [Leaves(y) EXCEPT ![l] = s]
        BY <1>11, <2>1, PutAt
    <2>4. Full(WithNode(y, p, Leaf(s)))
        BY <1>11, <2>1, PutAt
    <2> QED
        BY <2>2, <2>3, <2>4
<1>13. p = PathOf(x, t)
    BY <1>2, <1>6, <1>10
<1> QED
    BY <1>1, <1>2, <1>4, <1>5, <1>12, <1>13 DEF Shows

\* A pane that goes next to another.
NextTo(a, s, t, b, before) ==
    IF before THEN Cat(Cat(a, <<s>>), Cat(<<t>>, b)) ELSE Cat(Cat(Cat(a, <<t>>), <<s>>), b)

\* Stretches of stretches, put in order.
LEMMA NextToInside ==
    ASSUME NEW a \in Seq(Shown), NEW l \in Seq(Shown), NEW r \in Seq(Shown), NEW b \in Seq(Shown),
           NEW s \in Shown, NEW t \in Shown
    PROVE  /\ Cat(Cat(a, Cat(Cat(l, <<s>>), Cat(<<t>>, r))), b)
                = Cat(Cat(Cat(a, l), <<s>>), Cat(<<t>>, Cat(r, b)))
           /\ Cat(Cat(a, Cat(Cat(Cat(l, <<t>>), <<s>>), r)), b)
                = Cat(Cat(Cat(Cat(a, l), <<t>>), <<s>>), Cat(r, b))
           /\ Cat(Cat(a, Cat(Cat(l, <<t>>), r)), b) = Cat(Cat(Cat(a, l), <<t>>), Cat(r, b))
<1>1. PICK u \in Seq(Shown), v \in Seq(Shown) : u = <<s>> /\ v = <<t>>
    <2>1. <<s>> \in Seq(Shown)
        OBVIOUS
    <2>2. <<t>> \in Seq(Shown)
        OBVIOUS
    <2> QED
        BY <2>1, <2>2
<1>2. \A c, d \in Seq(Shown) : Cat(c, d) \in Seq(Shown)
    BY CatFacts
<1>3. \A c, d, e \in Seq(Shown) : Cat(Cat(c, d), e) = Cat(c, Cat(d, e))
    BY CatFacts
<1>4. Cat(Cat(a, Cat(Cat(l, u), Cat(v, r))), b) = Cat(Cat(Cat(a, l), u), Cat(v, Cat(r, b)))
    <2>1. PICK x \in Seq(Shown), w \in Seq(Shown) : x = Cat(l, u) /\ w = Cat(v, r)
        BY <1>2
    <2>2. Cat(Cat(a, Cat(x, w)), b) = Cat(a, Cat(Cat(x, w), b))
        BY <1>2, <1>3
    <2>3. Cat(Cat(x, w), b) = Cat(x, Cat(w, b))
        BY <1>3
    <2>4. Cat(a, Cat(x, Cat(w, b))) = Cat(Cat(a, x), Cat(w, b))
        BY <1>2, <1>3
    <2>5. Cat(a, x) = Cat(Cat(a, l), u) /\ Cat(w, b) = Cat(v, Cat(r, b))
        BY <1>3, <2>1
    <2> QED
        BY <2>1, <2>2, <2>3, <2>4, <2>5
<1>5. Cat(Cat(a, Cat(Cat(Cat(l, v), u), r)), b) = Cat(Cat(Cat(Cat(a, l), v), u), Cat(r, b))
    <2>1. PICK w \in Seq(Shown) : w = Cat(Cat(l, v), u)
        BY <1>2
    <2>2. Cat(Cat(a, Cat(w, r)), b) = Cat(Cat(a, w), Cat(r, b))
        BY <1>2, <1>3
    <2>3. Cat(a, Cat(Cat(l, v), u)) = Cat(Cat(Cat(a, l), v), u)
        BY <1>2, <1>3
    <2> QED
        BY <2>1, <2>2, <2>3
<1>6. Cat(Cat(a, Cat(Cat(l, v), r)), b) = Cat(Cat(Cat(a, l), v), Cat(r, b))
    BY <1>2, <1>3, SMTT(60)
<1> QED
    BY <1>1, <1>4, <1>5, <1>6

\* A pane put next to the pane that is a child of a split.
LEMMA BesideFacts ==
    ASSUME NEW k \in Nat, k <= MaxLevels, NEW cs \in Seq(OfLevels[k]), NEW i \in 1 .. Len(cs), NEW s \in Shown, NEW t \in Shown,
           cs[i] = Leaf(t), \A q \in 1 .. Len(cs) : Full(cs[q]), NEW position
    PROVE  /\ Beside(cs, i, position, Leaf(s)) \in Seq(OfLevels[k])
           /\ Len(Beside(cs, i, position, Leaf(s))) = Len(cs) + 1
           /\ \A q \in 1 .. Len(cs) + 1 : Full(Beside(cs, i, position, Leaf(s))[q])
           /\ AllLeaves(Beside(cs, i, position, Leaf(s)))
                = NextTo(AllLeaves(Left(cs, i)), s, t, AllLeaves(Right(cs, i)), Before(position))
<1> DEFINE N == {c \in OfLevels[k] : Full(c)}
<1>1. PICK zs \in Seq(N) : zs = cs
    <2>1. DOMAIN cs = 1 .. Len(cs) /\ \A q \in 1 .. Len(cs) : cs[q] \in N
        BY ElementOfSeq
    <2> HIDE DEF N
    <2> QED
        BY <2>1, LenProperties
<1>2. N \subseteq OfLevels[k] /\ N \subseteq Layout /\ \A c \in N : Full(c)
    BY LevelsInLayout
<1>3. Leaf(s) \in N /\ Leaf(t) \in N /\ Leaf(s) \in Layout /\ Leaf(t) \in Layout
    <2>1. k # 0
        <3>1. cs[i] \in OfLevels[k]
            BY ElementOfSeq
        <3> QED
            BY <3>1, LevelsFacts
    <2>2. OfLevels[1] \subseteq OfLevels[k]
        BY <2>1, LevelsGrow
    <2> QED
        BY <2>2, PaneFacts
<1> HIDE DEF N
<1>4. PICK u, v : u = Leaf(s) /\ v = Leaf(t) /\ u \in N /\ v \in N
    BY <1>3
<1>5. PICK l \in Seq(N), r \in Seq(N) :
         l = Left(cs, i) /\ r = Right(cs, i) /\ Len(l) = i - 1 /\ Len(r) = Len(cs) - i
    <2>1. Left(zs, i) \in Seq(N) /\ Len(Left(zs, i)) = i - 1
        BY <1>1, AroundFacts, ZenonT(60)
    <2>2. Right(zs, i) \in Seq(N) /\ Len(Right(zs, i)) = Len(zs) - i
        BY <1>1, AroundFacts, ZenonT(60)
    <2> QED
        BY <1>1, <2>1, <2>2
<1>6. PICK ds : ds = Beside(cs, i, position, Leaf(s))
    OBVIOUS
<1>7. ds = IF Before(position) THEN Cat(Cat(l, <<u>>), Cat(<<v>>, r)) ELSE Cat(Cat(Cat(l, <<v>>), <<u>>), r)
    <2>1. InsertAt(cs, i, u) = Cat(Cat(l, <<u>>), Cat(<<v>>, r))
        <3>1. InsertAt(cs, i, u) = Cat(Cat(Left(cs, i), <<u>>), Cat(<<cs[i]>>, Right(cs, i)))
            BY InsertAround
        <3> QED
            BY <1>4, <1>5, <3>1
    <2>2. InsertAt(cs, i + 1, u) = Cat(Cat(Cat(l, <<v>>), <<u>>), r)
        <3>1. InsertAt(cs, i + 1, u) = Cat(Cat(Cat(Left(cs, i), <<cs[i]>>), <<u>>), Right(cs, i))
            BY InsertAround
        <3> QED
            BY <1>4, <1>5, <3>1
    <2> QED
        BY <1>4, <1>6, <2>1, <2>2 DEF Beside
<1>8. PICK uu \in Seq(N), vv \in Seq(N) : uu = <<u>> /\ vv = <<v>> /\ Len(uu) = 1 /\ Len(vv) = 1
    <2>1. <<u>> \in Seq(N) /\ Len(<<u>>) = 1
        BY <1>4
    <2>2. <<v>> \in Seq(N) /\ Len(<<v>>) = 1
        BY <1>4
    <2> QED
        BY <2>1, <2>2
<1>9. /\ \A a, b \in Seq(N) : Cat(a, b) \in Seq(N)
      /\ \A a, b \in Seq(N) : Len(Cat(a, b)) = Len(a) + Len(b)
    <2>1. \A a, b \in Seq(N) : Cat(a, b) \in Seq(N)
        BY CatElements
    <2>2. \A a, b \in Seq(N) : Len(Cat(a, b)) = Len(a) + Len(b)
        BY CatElements
    <2> QED
        BY <2>1, <2>2
<1>10. ds \in Seq(N) /\ Len(ds) = Len(cs) + 1
    <2>1. ds = IF Before(position) THEN Cat(Cat(l, uu), Cat(vv, r)) ELSE Cat(Cat(Cat(l, vv), uu), r)
        BY <1>7, <1>8
    <2>2. Len(cs) \in Nat
        BY LenProperties
    <2>3. Cat(l, uu) \in Seq(N) /\ Cat(vv, r) \in Seq(N) /\ Cat(l, vv) \in Seq(N)
        BY <1>9
    <2>4. Cat(Cat(l, vv), uu) \in Seq(N)
        BY <1>9, <2>3
    <2>5. Cat(Cat(l, uu), Cat(vv, r)) \in Seq(N) /\ Cat(Cat(Cat(l, vv), uu), r) \in Seq(N)
        BY <1>9, <2>3, <2>4
    <2>6. /\ Len(Cat(l, uu)) = Len(l) + Len(uu) /\ Len(Cat(vv, r)) = Len(vv) + Len(r)
          /\ Len(Cat(l, vv)) = Len(l) + Len(vv)
        BY <1>9
    <2>7. Len(Cat(Cat(l, vv), uu)) = Len(Cat(l, vv)) + Len(uu)
        BY <1>9, <2>3
    <2>8. Len(Cat(Cat(l, uu), Cat(vv, r))) = Len(Cat(l, uu)) + Len(Cat(vv, r))
        BY <1>9, <2>3
    <2>9. Len(Cat(Cat(Cat(l, vv), uu), r)) = Len(Cat(Cat(l, vv), uu)) + Len(r)
        BY <1>9, <2>4
    <2>10. /\ Len(Cat(Cat(l, uu), Cat(vv, r))) = Len(cs) + 1
           /\ Len(Cat(Cat(Cat(l, vv), uu), r)) = Len(cs) + 1
        <3>1. Len(l) = i - 1 /\ Len(r) = Len(cs) - i /\ Len(uu) = 1 /\ Len(vv) = 1
            BY <1>5, <1>8
        <3>2. Len(Cat(l, uu)) = i /\ Len(Cat(vv, r)) = 1 + (Len(cs) - i) /\ Len(Cat(l, vv)) = i
            BY <2>2, <2>6, <3>1
        <3>3. Len(Cat(Cat(l, vv), uu)) = i + 1
            BY <2>7, <3>1, <3>2
        <3>4. Len(Cat(Cat(l, uu), Cat(vv, r))) = Len(cs) + 1
            BY <2>2, <2>8, <3>2
        <3>5. Len(Cat(Cat(Cat(l, vv), uu), r)) = Len(cs) + 1
            BY <2>2, <2>9, <3>1, <3>3
        <3> QED
            BY <3>4, <3>5
    <2> QED
        BY <2>1, <2>5, <2>10
<1>11. ds \in Seq(OfLevels[k]) /\ \A q \in 1 .. Len(cs) + 1 : Full(ds[q])
    <2>1. \A q \in 1 .. Len(ds) : ds[q] \in N
        BY <1>10, ElementOfSeq
    <2>2. Seq(N) \subseteq Seq(OfLevels[k])
        BY <1>2
    <2> QED
        BY <1>2, <1>10, <2>1, <2>2
<1>12. l \in Seq(Layout) /\ r \in Seq(Layout) /\ uu \in Seq(Layout) /\ vv \in Seq(Layout)
    <2>1. Seq(N) \subseteq Seq(Layout)
        BY <1>2
    <2> QED
        BY <2>1
<1>13. AllLeaves(uu) = <<s>> /\ AllLeaves(vv) = <<t>>
    <2>1. AllLeaves(<<u>>) = Leaves(u) /\ AllLeaves(<<v>>) = Leaves(v)
        BY <1>3, <1>4, AllLeavesFacts
    <2>2. Leaves(u) = <<s>> /\ Leaves(v) = <<t>>
        BY <1>4, PaneFacts
    <2> QED
        BY <1>8, <2>1, <2>2
<1>14. \A a, b \in Seq(Layout) : /\ Cat(a, b) \in Seq(Layout)
                                 /\ AllLeaves(Cat(a, b)) = Cat(AllLeaves(a), AllLeaves(b))
    BY AllLeavesFacts DEF Cat
<1>15. /\ AllLeaves(Cat(Cat(l, uu), Cat(vv, r)))
            = Cat(Cat(AllLeaves(l), AllLeaves(uu)), Cat(AllLeaves(vv), AllLeaves(r)))
       /\ AllLeaves(Cat(Cat(Cat(l, vv), uu), r))
            = Cat(Cat(Cat(AllLeaves(l), AllLeaves(vv)), AllLeaves(uu)), AllLeaves(r))
    BY <1>12, <1>14
<1>16. AllLeaves(ds) = NextTo(AllLeaves(l), s, t, AllLeaves(r), Before(position))
    BY <1>7, <1>8, <1>13, <1>15 DEF NextTo
<1> QED
    BY <1>5, <1>6, <1>10, <1>11, <1>16

\* The same, in terms that instances are easily found of.
PaneAmong(k, cs, i, t) ==
    /\ k \in Nat /\ k <= MaxLevels /\ cs \in Seq(OfLevels[k]) /\ i \in 1 .. Len(cs)
    /\ t \in Shown /\ cs[i] = Leaf(t) /\ \A q \in 1 .. Len(cs) : Full(cs[q])

PutBeside(k, cs, i, s, t, position, ds) ==
    /\ ds \in Seq(OfLevels[k]) /\ Len(ds) = Len(cs) + 1 /\ \A q \in 1 .. Len(cs) + 1 : Full(ds[q])
    /\ AllLeaves(ds) = NextTo(AllLeaves(Left(cs, i)), s, t, AllLeaves(Right(cs, i)), Before(position))

\* placePaneRelative puts a pane before or behind another.
LEMMA BesideRule ==
    \A k, cs, i, s, t, position :
        PaneAmong(k, cs, i, t) /\ s \in Shown => PutBeside(k, cs, i, s, t, position, Beside(cs, i, position, Leaf(s)))
<1> SUFFICES ASSUME NEW k, NEW cs, NEW i, NEW s, NEW t, NEW position, PaneAmong(k, cs, i, t), s \in Shown
             PROVE  PutBeside(k, cs, i, s, t, position, Beside(cs, i, position, Leaf(s)))
    OBVIOUS
<1>1. /\ k \in Nat /\ k <= MaxLevels /\ cs \in Seq(OfLevels[k]) /\ i \in 1 .. Len(cs)
      /\ t \in Shown /\ cs[i] = Leaf(t) /\ \A q \in 1 .. Len(cs) : Full(cs[q])
    BY DEF PaneAmong
<1>2. Beside(cs, i, position, Leaf(s)) \in Seq(OfLevels[k])
    BY <1>1, BesideFacts
<1>3. Len(Beside(cs, i, position, Leaf(s))) = Len(cs) + 1
    BY <1>1, BesideFacts
<1>4. \A q \in 1 .. Len(cs) + 1 : Full(Beside(cs, i, position, Leaf(s))[q])
    BY <1>1, BesideFacts
<1>5. AllLeaves(Beside(cs, i, position, Leaf(s)))
             = NextTo(AllLeaves(Left(cs, i)), s, t, AllLeaves(Right(cs, i)), Before(position))
    BY <1>1, BesideFacts
<1> QED
    BY <1>2, <1>3, <1>4, <1>5 DEF PutBeside

\* What two lists have together.
LEMMA ToSetOfCat ==
    ASSUME NEW S
    PROVE  \A u, v \in Seq(S) : ToSet(Cat(u, v)) = ToSet(u) \cup ToSet(v)
<1> SUFFICES ASSUME NEW u \in Seq(S), NEW v \in Seq(S)
             PROVE  ToSet(Cat(u, v)) = ToSet(u) \cup ToSet(v)
    OBVIOUS
<1>1. PICK w \in Seq(S) : w = Cat(u, v) /\ Len(w) = Len(u) + Len(v)
    BY CatElements
<1>2. \A i \in 1 .. Len(u) : w[i] = u[i]
    <2>1. \A i \in 1 .. Len(u) : Cat(u, v)[i] = u[i]
        BY CatElements
    <2> QED
        BY <1>1, <2>1
<1>3. \A i \in 1 .. Len(v) : w[Len(u) + i] = v[i]
    <2>1. \A i \in 1 .. Len(v) : Cat(u, v)[Len(u) + i] = v[i]
        BY CatElements
    <2> QED
        BY <1>1, <2>1
<1>4. DOMAIN u = 1 .. Len(u) /\ DOMAIN v = 1 .. Len(v) /\ DOMAIN w = 1 .. Len(w) /\ Len(u) \in Nat /\ Len(v) \in Nat
    BY LenProperties
<1>5. ToSet(u) \subseteq ToSet(w)
    <2>1. \A i \in 1 .. Len(u) : i \in 1 .. Len(w)
        BY <1>1, <1>4
    <2> QED
        BY <1>2, <1>4, <2>1 DEF ToSet
<1>6. ToSet(v) \subseteq ToSet(w)
    <2>1. \A i \in 1 .. Len(v) : Len(u) + i \in 1 .. Len(w)
        BY <1>1, <1>4
    <2> QED
        BY <1>3, <1>4, <2>1 DEF ToSet
<1>7. ASSUME NEW i \in 1 .. Len(w)
      PROVE  w[i] \in ToSet(u) \cup ToSet(v)
    <2>1. CASE i \in 1 .. Len(u)
        BY <1>2, <1>4, <2>1 DEF ToSet
    <2>2. CASE i \notin 1 .. Len(u)
        <3>1. PICK j \in 1 .. Len(v) : i = Len(u) + j
            <4>1. i - Len(u) \in 1 .. Len(v) /\ i = Len(u) + (i - Len(u))
                BY <1>1, <1>4, <2>2
            <4> QED
                BY <4>1
        <3> QED
            BY <1>3, <1>4, <3>1 DEF ToSet
    <2> QED
        BY <2>1, <2>2
<1>8. ToSet(w) \subseteq ToSet(u) \cup ToSet(v)
    BY <1>4, <1>7 DEF ToSet
<1> QED
    BY <1>1, <1>5, <1>6, <1>8

ShownBy(cs) == UNION {ToSet(Leaves(cs[i])) : i \in 1 .. Len(cs)}

\* The sessions that children show.
LEMMA AllLeavesElements ==
    \A cs \in Seq(Layout) : ToSet(AllLeaves(cs)) = ShownBy(cs)
<1> DEFINE G == {cs \in Seq(Layout) : ToSet(AllLeaves(cs)) = ShownBy(cs)}
<1>1. <<>> \in G
    <2>1. ToSet(<<>>) = {}
        BY DEF ToSet
    <2>2. ShownBy(<<>>) = {}
        BY DEF ShownBy
    <2>3. AllLeaves(<<>>) = <<>>
        BY AllLeavesFacts
    <2>4. ToSet(AllLeaves(<<>>)) = ShownBy(<<>>)
        BY <2>1, <2>2, <2>3
    <2> QED
        BY <2>4
<1>2. ASSUME NEW cs \in Seq(Layout), NEW c \in Layout, cs \in G
      PROVE  Append(cs, c) \in G
    <2>1. PICK ds \in Seq(Layout) : ds = Append(cs, c) /\ ds = cs \o <<c>> /\ Len(ds) = Len(cs) + 1 /\ ds[Len(cs) + 1] = c
             /\ \A i \in 1 .. Len(cs) : ds[i] = cs[i]
        <3>1. Append(cs, c) \in Seq(Layout) /\ Append(cs, c) = cs \o <<c>> /\ Len(Append(cs, c)) = Len(cs) + 1
            BY AppendProperties
        <3>2. Append(cs, c)[Len(cs) + 1] = c /\ \A i \in 1 .. Len(cs) : Append(cs, c)[i] = cs[i]
            BY AppendProperties
        <3> QED
            BY <3>1, <3>2
    <2>2. AllLeaves(ds) = Cat(AllLeaves(cs), Leaves(c))
        <3>1. <<c>> \in Seq(Layout) /\ AllLeaves(<<c>>) = Leaves(c)
            BY AllLeavesFacts
        <3>2. AllLeaves(cs \o <<c>>) = AllLeaves(cs) \o AllLeaves(<<c>>)
            BY <3>1, AllLeavesFacts
        <3> QED
            BY <2>1, <3>1, <3>2 DEF Cat
    <2>3. AllLeaves(cs) \in Seq(Shown) /\ Leaves(c) \in Seq(Shown)
        BY AllLeavesFacts, LeavesFacts
    <2>4. ToSet(AllLeaves(ds)) = ToSet(AllLeaves(cs)) \cup ToSet(Leaves(c))
        BY <2>2, <2>3, ToSetOfCat
    <2>5. ShownBy(ds) = ShownBy(cs) \cup ToSet(Leaves(c))
        <3>1. Len(cs) \in Nat
            BY LenProperties
        <3>2. \A i \in 1 .. Len(ds) : i \in 1 .. Len(cs) \/ i = Len(cs) + 1
            BY <2>1, <3>1
        <3>3. Len(cs) + 1 \in 1 .. Len(ds) /\ \A i \in 1 .. Len(cs) : i \in 1 .. Len(ds)
            BY <2>1, <3>1
        <3> QED
            BY <2>1, <3>2, <3>3 DEF ShownBy
    <2> QED
        BY <1>2, <2>1, <2>4, <2>5
<1> HIDE DEF G
<1>3. \A cs \in Seq(Layout) : cs \in G
    BY <1>1, <1>2, InductionOnAppend
<1> QED
    BY <1>3 DEF G

\* movePane, to a new split with the other pane.
LEMMA MoveIntoPair ==
    ASSUME NEW z \in Layout, Full(z), NEW n \in Nat, n = Len(Leaves(z)), n < MaxLevels,
           NEW p, NEW t, PaneAt(z, p, t), NEW s \in Shown, NEW d \in {"h", "v"}, NEW before
    PROVE  Shows(WithNode(z, p, SplitOf(d, IF before THEN <<Leaf(s), Leaf(t)>> ELSE <<Leaf(t), Leaf(s)>>)),
                 NextTo(Ahead(z, p), s, t, Behind(z, p), before))
<1>1. p \in Path /\ t \in Shown /\ NodeAt(z, p) = Leaf(t) /\ NodeAt(z, p) \in Layout
    BY PaneFacts DEF PaneAt
<1>2. Len(p) \in Nat /\ Len(p) < n
    BY <1>1, BelowFull
<1>3. PICK j \in Nat : j = 2 /\ Len(p) + j <= n + 1 /\ 2 <= MaxLevels
    BY <1>2, LayoutTreeAssumption
<1>4. PICK a \in Seq(Shown), b \in Seq(Shown) : a = Ahead(z, p) /\ b = Behind(z, p)
    BY <1>1, AheadEquation, BehindEquation
<1>5. PICK u \in Seq(Shown), v \in Seq(Shown) : u = <<s>> /\ v = <<t>>
    <2>1. <<s>> \in Seq(Shown)
        OBVIOUS
    <2>2. <<t>> \in Seq(Shown)
        BY <1>1
    <2> QED
        BY <2>1, <2>2
<1>6. \A e, f \in Seq(Shown) : Cat(e, f) \in Seq(Shown)
    BY CatFacts
<1>7. \A e, f, g \in Seq(Shown) : Cat(Cat(e, f), g) = Cat(e, Cat(f, g))
    BY CatFacts
<1>8. CASE before
    <2>1. PICK new \in OfLevels[j] : new = SplitOf(d, <<Leaf(s), Leaf(t)>>) /\ Full(new) /\ Leaves(new) = Cat(u, v)
        BY <1>1, <1>3, <1>5, PairFacts
    <2>2. Shows(WithNode(z, p, new), Cat(Cat(Ahead(z, p), Leaves(new)), Behind(z, p)))
        BY <1>1, <1>3, <2>1, PutShows
    <2>3. Cat(Cat(a, Cat(u, v)), b) = Cat(Cat(a, u), Cat(v, b))
        BY <1>6, <1>7
    <2> QED
        BY <1>4, <1>5, <1>8, <2>1, <2>2, <2>3 DEF NextTo
<1>9. CASE ~before
    <2>1. PICK new \in OfLevels[j] : new = SplitOf(d, <<Leaf(t), Leaf(s)>>) /\ Full(new) /\ Leaves(new) = Cat(v, u)
        BY <1>1, <1>3, <1>5, PairFacts
    <2>2. Shows(WithNode(z, p, new), Cat(Cat(Ahead(z, p), Leaves(new)), Behind(z, p)))
        BY <1>1, <1>3, <2>1, PutShows
    <2>3. Cat(Cat(a, Cat(v, u)), b) = Cat(Cat(Cat(a, v), u), b)
        BY <1>6, <1>7
    <2> QED
        BY <1>4, <1>5, <1>9, <2>1, <2>2, <2>3 DEF NextTo
<1> QED
    BY <1>8, <1>9

\* movePane, to the split of the other pane.
LEMMA MoveIntoSplit ==
    ASSUME NEW z \in Layout, Full(z), NEW n \in Nat, n = Len(Leaves(z)), n < MaxLevels,
           NEW p, NEW t, PaneAt(z, p, t), p # <<>>, NEW s \in Shown, NEW position
    PROVE  Shows(WithNode(z, Front(p), [NodeAt(z, Front(p)) EXCEPT !.children = Beside(@, Last(p), position, Leaf(s))]),
                 NextTo(Ahead(z, p), s, t, Behind(z, p), Before(position)))
<1>1. p \in Path /\ t \in Shown /\ NodeAt(z, p) = Leaf(t) /\ NodeAt(z, p) \in Layout
    BY PaneFacts DEF PaneAt
<1>2. PICK m, k : Parent(z, p, n, m, k)
    BY <1>1, ParentFacts
<1>3. PICK f, cs, i : f \in Path /\ f = Front(p) /\ cs = m.children /\ i = Last(p)
    BY <1>2 DEF Parent
<1>4. /\ f \in Path /\ m = NodeAt(z, f) /\ m \in Layout /\ ~IsLeaf(m)
      /\ k \in Nat /\ Len(f) \in Nat /\ Len(f) + k + 1 <= n
      /\ cs \in Seq(OfLevels[k]) /\ Len(cs) >= 2
      /\ \A q \in 1 .. Len(cs) : Full(cs[q])
      /\ i \in 1 .. Len(cs) /\ cs[i] = Leaf(t)
      /\ Ahead(z, p) = Cat(Ahead(z, f), AllLeaves(Left(cs, i)))
      /\ Behind(z, p) = Cat(AllLeaves(Right(cs, i)), Behind(z, f))
    BY <1>1, <1>2, <1>3 DEF Parent
<1>5. k <= MaxLevels /\ Len(cs) \in Nat /\ Len(f) + k + 1 <= n + 1
    BY <1>4, LayoutTreeAssumption, LenProperties
<1>6. PICK ds : ds = Beside(cs, i, position, Leaf(s))
    OBVIOUS
<1>6a. PutBeside(k, cs, i, s, t, position, ds)
    <2>1. PaneAmong(k, cs, i, t)
        BY <1>1, <1>4, <1>5 DEF PaneAmong
    <2>2. PutBeside(k, cs, i, s, t, position, Beside(cs, i, position, Leaf(s)))
        BY <2>1, BesideRule
    <2> QED
        BY <1>6, <2>2
<1>7. ds \in Seq(OfLevels[k]) /\ Len(ds) = Len(cs) + 1
    BY <1>6a DEF PutBeside
<1>8. \A q \in 1 .. Len(cs) + 1 : Full(ds[q])
    BY <1>6a DEF PutBeside
<1>9. PICK l \in Seq(Shown), r \in Seq(Shown) : l = AllLeaves(Left(cs, i)) /\ r = AllLeaves(Right(cs, i))
    <2>1. cs \in Seq(Layout)
        <3>1. OfLevels[k] \subseteq Layout
            BY <1>4, <1>5, LevelsInLayout
        <3> QED
            BY <1>4, <3>1
    <2>2. Left(cs, i) \in Seq(Layout)
        BY <1>4, <2>1, AroundFacts
    <2>3. Right(cs, i) \in Seq(Layout)
        BY <1>4, <2>1, AroundFacts
    <2> QED
        BY <2>2, <2>3, AllLeavesFacts
<1>10. AllLeaves(ds) = NextTo(l, s, t, r, Before(position))
    BY <1>6a, <1>9 DEF PutBeside
<1>11. Shows(WithNode(z, f, [m EXCEPT !.children = ds]), Cat(Cat(Ahead(z, f), AllLeaves(ds)), Behind(z, f)))
    <2>1. Len(ds) >= 2 /\ \A q \in 1 .. Len(ds) : Full(ds[q])
        <3>1. Len(ds) >= 2
            BY <1>4, <1>5, <1>7
        <3>2. ASSUME NEW q \in 1 .. Len(ds)
              PROVE  Full(ds[q])
            BY <1>7, <1>8, <3>2
        <3> QED
            BY <3>1, <3>2
    <2> QED
        BY <1>4, <1>5, <1>7, <2>1, ChildrenPut
<1>12. PICK a \in Seq(Shown), b \in Seq(Shown) : a = Ahead(z, f) /\ b = Behind(z, f)
    BY <1>4, AheadEquation, BehindEquation
<1>14. Cat(Cat(a, NextTo(l, s, t, r, Before(position))), b) = NextTo(Cat(a, l), s, t, Cat(r, b), Before(position))
    <2>1. t \in Shown
        BY <1>1
    <2>2. CASE Before(position)
        <3>1. Cat(Cat(a, Cat(Cat(l, <<s>>), Cat(<<t>>, r))), b)
                = Cat(Cat(Cat(a, l), <<s>>), Cat(<<t>>, Cat(r, b)))
            BY <2>1, NextToInside
        <3> QED
            BY <2>2, <3>1 DEF NextTo
    <2>3. CASE ~Before(position)
        <3>1. Cat(Cat(a, Cat(Cat(Cat(l, <<t>>), <<s>>), r)), b)
                = Cat(Cat(Cat(Cat(a, l), <<t>>), <<s>>), Cat(r, b))
            BY <2>1, NextToInside
        <3> QED
            BY <2>3, <3>1 DEF NextTo
    <2> QED
        BY <2>2, <2>3
<1>15. [NodeAt(z, Front(p)) EXCEPT !.children = Beside(@, Last(p), position, Leaf(s))] = [m EXCEPT !.children = ds]
    BY <1>3, <1>4, <1>6
<1> QED
    BY <1>3, <1>4, <1>9, <1>10, <1>11, <1>12, <1>14, <1>15

\* The panes that remain come in their order.
LEMMA NoneAheadOf ==
    ASSUME NEW cs \in Seq(Layout), NEW i \in 1 .. Len(cs), NEW j \in 1 .. Len(cs), i # j,
           NEW e \in 1 .. Len(cs) - 1, e = IF i < j THEN j - 1 ELSE j
    PROVE  /\ RemoveAt(cs, i)[e] = cs[j]
           /\ ShownBy(Left(RemoveAt(cs, i), e)) \subseteq ShownBy(Left(cs, j))
<1>1. PICK n \in Nat : n = Len(cs)
    BY LenProperties
<1>2. PICK rest \in Seq(Layout) : rest = RemoveAt(cs, i) /\ Len(rest) = n - 1
    BY <1>1, OthersFacts
<1>3. \A q \in 1 .. n - 1 : rest[q] = IF q < i THEN cs[q] ELSE cs[q + 1]
    BY <1>1, <1>2, OthersFacts
<1>4. rest[e] = cs[j]
    <2>1. CASE i < j
        <3>1. e = j - 1 /\ ~(e < i) /\ e + 1 = j
            BY <2>1
        <3> QED
            BY <1>1, <1>3, <3>1
    <2>2. CASE ~(i < j)
        <3>1. e = j /\ e < i
            BY <1>1, <2>2
        <3> QED
            BY <1>1, <1>3, <3>1
    <2> QED
        BY <2>1, <2>2
<1>4a. e \in 1 .. Len(rest)
    BY <1>1, <1>2
<1>5. PICK u \in Seq(Layout) : u = Left(rest, e) /\ Len(u) = e - 1
    <2>1. Left(rest, e) \in Seq(Layout) /\ Len(Left(rest, e)) = e - 1
        BY <1>4a, AroundFacts, ZenonT(60)
    <2> QED
        BY <2>1
<1>6. \A q \in 1 .. e - 1 : u[q] = rest[q]
    <2>1. \A q \in 1 .. e - 1 : Left(rest, e)[q] = rest[q]
        BY <1>4a, AroundFacts
    <2> QED
        BY <1>5, <2>1
<1>7. PICK v \in Seq(Layout) : v = Left(cs, j) /\ Len(v) = j - 1
    <2>1. Left(cs, j) \in Seq(Layout) /\ Len(Left(cs, j)) = j - 1
        BY AroundFacts
    <2> QED
        BY <2>1
<1>8. \A q \in 1 .. j - 1 : v[q] = cs[q]
    <2>1. \A q \in 1 .. j - 1 : Left(cs, j)[q] = cs[q]
        BY AroundFacts
    <2> QED
        BY <1>7, <2>1
<1>9. ASSUME NEW q \in 1 .. Len(u)
      PROVE  \E c \in 1 .. Len(v) : u[q] = v[c]
    <2>1. CASE q < i
        <3>1. q \in 1 .. e - 1 /\ q \in 1 .. n - 1 /\ q \in 1 .. j - 1 /\ q \in 1 .. Len(v)
            BY <1>1, <1>5, <1>7, <2>1
        <3> QED
            BY <1>3, <1>6, <1>8, <2>1, <3>1
    <2>2. CASE ~(q < i)
        <3>1. q \in 1 .. e - 1 /\ q \in 1 .. n - 1 /\ q + 1 \in 1 .. j - 1 /\ q + 1 \in 1 .. Len(v)
            BY <1>1, <1>5, <1>7, <2>2
        <3> QED
            BY <1>3, <1>6, <1>8, <2>2, <3>1
    <2> QED
        BY <2>1, <2>2
<1>10. ShownBy(u) \subseteq ShownBy(v)
    BY <1>9 DEF ShownBy
<1> QED
    BY <1>2, <1>4, <1>5, <1>7, <1>10

\* movePane, among the children of one split.
Among(cs, i, j, position) == Beside(RemoveAt(cs, i), IF i < j THEN j - 1 ELSE j, position, cs[i])

Rearranged(k, cs, i, j, s, t, position) ==
    \E ds \in Seq(OfLevels[k]), l, r \in Seq(Shown) :
       /\ ds = Among(cs, i, j, position) /\ Len(ds) = Len(cs) /\ \A q \in 1 .. Len(ds) : Full(ds[q])
       /\ AllLeaves(ds) = NextTo(l, s, t, r, Before(position))
       /\ AllLeaves(RemoveAt(cs, i)) = Cat(Cat(l, <<t>>), r)
       /\ ToSet(l) \subseteq ToSet(AllLeaves(Left(cs, j)))

\* A pane that moves among its siblings.
LEMMA AmongFacts ==
    \A k, cs, i, j, s, t, position :
        PaneAmong(k, cs, i, s) /\ PaneAmong(k, cs, j, t) /\ s # t => Rearranged(k, cs, i, j, s, t, position)
<1> SUFFICES ASSUME NEW k, NEW cs, NEW i, NEW j, NEW s, NEW t, NEW position,
                    PaneAmong(k, cs, i, s), PaneAmong(k, cs, j, t), s # t
             PROVE  Rearranged(k, cs, i, j, s, t, position)
    OBVIOUS
<1>0. /\ k \in Nat /\ k <= MaxLevels /\ cs \in Seq(OfLevels[k]) /\ i \in 1 .. Len(cs) /\ j \in 1 .. Len(cs)
      /\ s \in Shown /\ t \in Shown /\ cs[i] = Leaf(s) /\ cs[j] = Leaf(t)
      /\ \A q \in 1 .. Len(cs) : Full(cs[q])
    BY DEF PaneAmong
<1>0a. i # j
    BY <1>0, PaneFacts
<1>1. PICK c \in Nat : c = Len(cs)
    BY <1>0, LenProperties
<1>2. PICK e \in 1 .. Len(cs) - 1 : e = IF i < j THEN j - 1 ELSE j
    BY <1>0, <1>0a, <1>1
<1>3. OfLevels[k] \subseteq Layout
    BY <1>0, LevelsInLayout
<1>4. cs \in Seq(Layout)
    BY <1>0, <1>3
<1>5. PICK rest \in Seq(OfLevels[k]) : rest = RemoveAt(cs, i) /\ Len(rest) = Len(cs) - 1
    BY <1>0, OthersFacts
<1>6. \A q \in 1 .. Len(rest) : Full(rest[q])
    <2>1. \A q \in 1 .. Len(cs) - 1 : RemoveAt(cs, i)[q] = IF q < i THEN cs[q] ELSE cs[q + 1]
        BY <1>0, OthersFacts
    <2>2. \A q \in 1 .. Len(cs) - 1 : q \in 1 .. Len(cs) /\ q + 1 \in 1 .. Len(cs)
        BY <1>1
    <2>3. \A q \in 1 .. Len(cs) - 1 : Full(RemoveAt(cs, i)[q])
        BY <1>0, <2>1, <2>2
    <2> QED
        BY <1>5, <2>3
<1>7. rest[e] = Leaf(t)
    <2>1. RemoveAt(cs, i)[e] = cs[j]
        BY <1>0, <1>0a, <1>2, <1>4, NoneAheadOf
    <2> QED
        BY <1>0, <1>5, <2>1
<1>8. e \in 1 .. Len(rest)
    BY <1>5
<1>9. PICK ds : ds = Beside(rest, e, position, Leaf(s))
    OBVIOUS
<1>10. ds = Among(cs, i, j, position)
    BY <1>0, <1>2, <1>5, <1>9 DEF Among
<1>11. PutBeside(k, rest, e, s, t, position, ds)
    <2>1. PaneAmong(k, rest, e, t)
        BY <1>0, <1>6, <1>7, <1>8 DEF PaneAmong
    <2>2. PutBeside(k, rest, e, s, t, position, Beside(rest, e, position, Leaf(s)))
        BY <1>0, <2>1, BesideRule
    <2> QED
        BY <1>9, <2>2
<1>12. /\ ds \in Seq(OfLevels[k]) /\ Len(ds) = Len(rest) + 1 /\ \A q \in 1 .. Len(rest) + 1 : Full(ds[q])
       /\ AllLeaves(ds) = NextTo(AllLeaves(Left(rest, e)), s, t, AllLeaves(Right(rest, e)), Before(position))
    BY <1>11 DEF PutBeside
<1>13. Len(ds) = Len(cs) /\ \A q \in 1 .. Len(ds) : Full(ds[q])
    <2>1. Len(rest) + 1 = Len(cs)
        BY <1>1, <1>5
    <2> QED
        BY <1>12, <2>1
<1>14. rest \in Seq(Layout)
    BY <1>3
<1>15. PICK ll \in Seq(Layout), rr \in Seq(Layout) : ll = Left(rest, e) /\ rr = Right(rest, e)
    <2>1. Left(rest, e) \in Seq(Layout)
        BY <1>8, <1>14, AroundFacts
    <2>2. Right(rest, e) \in Seq(Layout)
        BY <1>8, <1>14, AroundFacts
    <2> QED
        BY <2>1, <2>2
<1>16. PICK l \in Seq(Shown), r \in Seq(Shown) : l = AllLeaves(ll) /\ r = AllLeaves(rr)
    BY AllLeavesFacts
<1>17. AllLeaves(ds) = NextTo(l, s, t, r, Before(position))
    BY <1>12, <1>15, <1>16
<1>18. AllLeaves(rest) = Cat(Cat(l, <<t>>), r)
    <2>1. rest = Cat(Cat(ll, <<Leaf(t)>>), rr)
        <3>1. rest = Cat(Cat(Left(rest, e), <<rest[e]>>), Right(rest, e))
            BY <1>8, <1>14, CatAround
        <3> QED
            BY <1>7, <1>15, <3>1
    <2>2. Leaf(t) \in Layout /\ Leaves(Leaf(t)) = <<t>>
        BY <1>0, PaneFacts
    <2>3. AllLeaves(Cat(Cat(ll, <<Leaf(t)>>), rr)) = Cat(Cat(AllLeaves(ll), Leaves(Leaf(t))), AllLeaves(rr))
        BY <2>2, AllLeavesAround
    <2> QED
        BY <1>16, <2>1, <2>2, <2>3
<1>19. ToSet(l) \subseteq ToSet(AllLeaves(Left(cs, j)))
    <2>1. PICK h \in Seq(Layout) : h = Left(cs, j)
        BY <1>0, <1>4, AroundFacts
    <2>2. ToSet(l) = ShownBy(ll) /\ ToSet(AllLeaves(h)) = ShownBy(h)
        BY <1>16, AllLeavesElements
    <2>3. ShownBy(Left(RemoveAt(cs, i), e)) \subseteq ShownBy(Left(cs, j))
        BY <1>0, <1>0a, <1>2, <1>4, NoneAheadOf
    <2> QED
        BY <1>5, <1>15, <2>1, <2>2, <2>3
<1>20. AllLeaves(RemoveAt(cs, i)) = Cat(Cat(l, <<t>>), r)
    BY <1>5, <1>18
<1> QED
    BY <1>10, <1>12, <1>13, <1>17, <1>19, <1>20 DEF Rearranged

\* A pane that is dropped next to a sibling.
LEMMA MoveAmongSiblings ==
    ASSUME NEW x \in Layout, Full(x), NEW n \in Nat, n = Len(Leaves(x)), n < MaxLevels,
           NEW p, NEW s, PaneAt(x, p, s), p # <<>>, NEW q, NEW t, PaneAt(x, q, t), q # <<>>, s # t,
           Front(p) = Front(q), t \notin ToSet(Ahead(x, q)), NEW position,
           NEW m, m = NodeAt(x, Front(p))
    PROVE  \E a, b \in Seq(Shown) :
              /\ Cat(Ahead(x, p), Behind(x, p)) = Cat(Cat(a, <<t>>), b) /\ t \notin ToSet(a)
              /\ Shows(WithNode(x, Front(p), [m EXCEPT !.children = Among(m.children, Last(p), Last(q), position)]),
                       NextTo(a, s, t, b, Before(position)))
<1>1. /\ p \in Path /\ s \in Shown /\ NodeAt(x, p) = Leaf(s) /\ NodeAt(x, p) \in Layout
      /\ q \in Path /\ t \in Shown /\ NodeAt(x, q) = Leaf(t) /\ NodeAt(x, q) \in Layout
      /\ Leaf(s) # Leaf(t)
    BY PaneFacts DEF PaneAt
<1>2. PICK k : Parent(x, p, n, m, k)
    <2>1. PICK m1, k : Parent(x, p, n, m1, k)
        BY <1>1, ParentFacts
    <2>2. m1 = m
        BY <2>1 DEF Parent
    <2> QED
        BY <2>1, <2>2
<1>3. PICK m2, k2 : Parent(x, q, n, m2, k2)
    BY <1>1, ParentFacts
<1>4. PICK f, cs, i, j : f \in Path /\ f = Front(p) /\ cs = m.children /\ i = Last(p) /\ j = Last(q)
    BY <1>2 DEF Parent
<1>5. /\ f \in Path /\ m = NodeAt(x, f) /\ m \in Layout /\ ~IsLeaf(m)
      /\ k \in Nat /\ Len(f) \in Nat /\ Len(f) + k + 1 <= n
      /\ cs \in Seq(OfLevels[k]) /\ Len(cs) >= 2
      /\ \A g \in 1 .. Len(cs) : Full(cs[g])
      /\ i \in 1 .. Len(cs) /\ cs[i] = Leaf(s)
      /\ Ahead(x, p) = Cat(Ahead(x, f), AllLeaves(Left(cs, i)))
      /\ Behind(x, p) = Cat(AllLeaves(Right(cs, i)), Behind(x, f))
    BY <1>1, <1>2, <1>4 DEF Parent
<1>6. /\ j \in 1 .. Len(cs) /\ cs[j] = Leaf(t)
      /\ Ahead(x, q) = Cat(Ahead(x, f), AllLeaves(Left(cs, j)))
    <2>1. m2 = m
        BY <1>3, <1>4, <1>5 DEF Parent
    <2> QED
        BY <1>1, <1>3, <1>4, <2>1 DEF Parent
<1>7. i # j /\ k <= MaxLevels /\ Len(f) + k + 1 <= n + 1 /\ cs \in Seq(Layout)
    <2>1. i # j /\ k <= MaxLevels /\ Len(f) + k + 1 <= n + 1
        BY <1>1, <1>5, <1>6, LayoutTreeAssumption
    <2>2. OfLevels[k] \subseteq Layout
        BY <1>5, <2>1, LevelsInLayout
    <2> QED
        BY <1>5, <2>1, <2>2
<1>8. PICK ds \in Seq(OfLevels[k]), l \in Seq(Shown), r \in Seq(Shown) :
         /\ ds = Among(cs, i, j, position) /\ Len(ds) = Len(cs) /\ \A g \in 1 .. Len(ds) : Full(ds[g])
         /\ AllLeaves(ds) = NextTo(l, s, t, r, Before(position))
         /\ AllLeaves(RemoveAt(cs, i)) = Cat(Cat(l, <<t>>), r)
         /\ ToSet(l) \subseteq ToSet(AllLeaves(Left(cs, j)))
    <2>1. PaneAmong(k, cs, i, s) /\ PaneAmong(k, cs, j, t)
        BY <1>1, <1>5, <1>6, <1>7 DEF PaneAmong
    <2>2. Rearranged(k, cs, i, j, s, t, position)
        BY <2>1, AmongFacts
    <2> QED
        BY <2>2 DEF Rearranged
<1>9. Shows(WithNode(x, f, [m EXCEPT !.children = ds]), Cat(Cat(Ahead(x, f), AllLeaves(ds)), Behind(x, f)))
    <2>1. Len(ds) >= 2 /\ \A g \in 1 .. Len(ds) : Full(ds[g])
        BY <1>5, <1>8
    <2> QED
        BY <1>5, <1>7, <2>1, ChildrenPut
<1>10. PICK y : /\ y = WithNode(x, f, [m EXCEPT !.children = ds])
                 /\ y = WithNode(x, Front(p), [m EXCEPT !.children = Among(m.children, Last(p), Last(q), position)])
    BY <1>4, <1>8
<1>11. PICK a \in Seq(Shown), b \in Seq(Shown) : a = Ahead(x, f) /\ b = Behind(x, f)
    BY <1>5, AheadEquation, BehindEquation
<1>12. s \in Shown /\ t \in Shown
    BY <1>1
<1>13. Cat(Cat(a, NextTo(l, s, t, r, Before(position))), b) = NextTo(Cat(a, l), s, t, Cat(r, b), Before(position))
    <2>1. CASE Before(position)
        <3>1. Cat(Cat(a, Cat(Cat(l, <<s>>), Cat(<<t>>, r))), b)
                = Cat(Cat(Cat(a, l), <<s>>), Cat(<<t>>, Cat(r, b)))
            BY <1>12, NextToInside
        <3> QED
            BY <2>1, <3>1 DEF NextTo
    <2>2. CASE ~Before(position)
        <3>1. Cat(Cat(a, Cat(Cat(Cat(l, <<t>>), <<s>>), r)), b)
                = Cat(Cat(Cat(Cat(a, l), <<t>>), <<s>>), Cat(r, b))
            BY <1>12, NextToInside
        <3> QED
            BY <2>2, <3>1 DEF NextTo
    <2> QED
        BY <2>1, <2>2
<1>14. Cat(Cat(a, Cat(Cat(l, <<t>>), r)), b) = Cat(Cat(Cat(a, l), <<t>>), Cat(r, b))
    BY <1>12, NextToInside
<1>15. Cat(Ahead(x, p), Behind(x, p)) = Cat(Cat(a, AllLeaves(RemoveAt(cs, i))), b)
    <2>1. PICK g \in Seq(Layout), h \in Seq(Layout) : g = Left(cs, i) /\ h = Right(cs, i)
        <3>1. Left(cs, i) \in Seq(Layout)
            BY <1>5, <1>7, AroundFacts
        <3>2. Right(cs, i) \in Seq(Layout)
            BY <1>5, <1>7, AroundFacts
        <3> QED
            BY <3>1, <3>2
    <2>2. PICK u \in Seq(Shown), v \in Seq(Shown) : u = AllLeaves(g) /\ v = AllLeaves(h)
        BY AllLeavesFacts
    <2>3. AllLeaves(RemoveAt(cs, i)) = Cat(u, v)
        <3>1. RemoveAt(cs, i) = g \o h
            BY <2>1, RemoveAround DEF Cat
        <3> QED
            BY <2>2, <3>1, AllLeavesFacts DEF Cat
    <2>4. Cat(Cat(a, Cat(u, v)), b) = Cat(Cat(a, u), Cat(v, b))
        <3>1. \A c1, c2 \in Seq(Shown) : Cat(c1, c2) \in Seq(Shown)
            BY CatFacts
        <3>2. \A c1, c2, c3 \in Seq(Shown) : Cat(Cat(c1, c2), c3) = Cat(c1, Cat(c2, c3))
            BY CatFacts
        <3> QED
            BY <3>1, <3>2
    <2> QED
        BY <1>5, <1>11, <2>1, <2>2, <2>3, <2>4
<1>16. t \notin ToSet(Cat(a, l))
    <2>1. PICK v \in Seq(Shown) : v = AllLeaves(Left(cs, j))
        <3>1. Left(cs, j) \in Seq(Layout)
            BY <1>6, <1>7, AroundFacts
        <3> QED
            BY <3>1, AllLeavesFacts
    <2>2. t \notin ToSet(Cat(a, v))
        BY <1>6, <1>11, <2>1
    <2>3. ToSet(Cat(a, v)) = ToSet(a) \cup ToSet(v) /\ ToSet(Cat(a, l)) = ToSet(a) \cup ToSet(l)
        BY ToSetOfCat
    <2>4. ToSet(l) \subseteq ToSet(v)
        BY <1>8, <2>1
    <2> QED
        BY <2>2, <2>3, <2>4
<1>17. Cat(a, l) \in Seq(Shown) /\ Cat(r, b) \in Seq(Shown)
    BY CatFacts
<1>18. Shows(y, NextTo(Cat(a, l), s, t, Cat(r, b), Before(position)))
    BY <1>8, <1>9, <1>10, <1>11, <1>13
<1>19. Cat(Ahead(x, p), Behind(x, p)) = Cat(Cat(Cat(a, l), <<t>>), Cat(r, b))
    BY <1>8, <1>14, <1>15
<1> QED
    BY <1>10, <1>16, <1>17, <1>18, <1>19

\* The first of a sequence that is so.
LEMMA FirstPlace ==
    ASSUME NEW S, NEW a \in Seq(S), NEW x \in S, NEW b \in Seq(S), x \notin ToSet(a),
           NEW s, s = Cat(Cat(a, <<x>>), b)
    PROVE  /\ PanesInOrder!FirstIn(s, x) = Len(a) + 1
           /\ RemoveAt(s, Len(a) + 1) = Cat(a, b)
<1>1. s \in Seq(S) /\ Len(a) + 1 \in 1 .. Len(s) /\ s[Len(a) + 1] = x
    BY CatPlace
<1>2. Left(s, Len(a) + 1) = a /\ Right(s, Len(a) + 1) = b
    BY CatPlace
<1>3. RemoveAt(s, Len(a) + 1) = Cat(a, b)
    BY <1>2, RemoveAround
<1>4. PICK k \in Nat : k = Len(a) + 1
    BY LenProperties
<1>5. \A j \in 1 .. k - 1 : s[j] # x
    <2>1. \A j \in 1 .. k - 1 : Left(s, k)[j] = s[j]
        <3>1. k \in 1 .. Len(s)
            BY <1>1, <1>4
        <3> QED
            BY <1>1, <3>1, AroundFacts, ZenonT(40)
    <2>2. \A j \in 1 .. k - 1 : a[j] \in ToSet(a)
        <3>1. DOMAIN a = 1 .. k - 1
            BY <1>4, LenProperties
        <3> QED
            BY <3>1 DEF ToSet
    <2> QED
        BY <1>2, <1>4, <2>1, <2>2
<1>6. PICK D : D = DOMAIN s /\ D = 1 .. Len(s) /\ k \in D
    BY <1>1, <1>4, LenProperties
<1>7. \A i \in D : s[i] = x /\ (\A j \in 1 .. i - 1 : s[j] # x) => i = k
    <2> SUFFICES ASSUME NEW i \in D, s[i] = x, \A j \in 1 .. i - 1 : s[j] # x
                 PROVE  i = k
        OBVIOUS
    <2>1. i \in Nat /\ i >= 1
        BY <1>6
    <2>2. ~(i < k)
        <3>1. i < k => i \in 1 .. k - 1
            BY <2>1
        <3> QED
            BY <1>5, <3>1
    <2>3. ~(k < i)
        <3>1. k < i => k \in 1 .. i - 1
            BY <1>4, <1>6, <2>1
        <3> QED
            BY <1>1, <1>4, <3>1
    <2> QED
        BY <2>1, <2>2, <2>3
<1>8. PanesInOrder!FirstIn(s, x) = k
    BY <1>1, <1>4, <1>5, <1>6, <1>7 DEF PanesInOrder!FirstIn
<1> QED
    BY <1>3, <1>4, <1>8

\* movePane.
LEMMA MoveShows ==
    ASSUME NEW x \in Layout, Full(x), NEW n \in Nat, n = Len(Leaves(x)), n < MaxLevels,
           NEW s \in Shown, NEW t \in Shown, s # t, s \in ToSet(Leaves(x)), t \in ToSet(Leaves(x)), NEW position
    PROVE  \E a, b \in Seq(Shown) :
              /\ Cat(Ahead(x, PathOf(x, s)), Behind(x, PathOf(x, s))) = Cat(Cat(a, <<t>>), b) /\ t \notin ToSet(a)
              /\ Shows(MoveBeside(x, s, t, position), NextTo(a, s, t, b, Before(position)))
<1>1. PICK from : from = PathOf(x, s) /\ PaneAt(x, from, s)
    BY PathOfFacts
<1>2. PICK to : to = PathOf(x, t) /\ PaneAt(x, to, t) /\ t \notin ToSet(Ahead(x, to))
    <2>1. PaneAt(x, PathOf(x, t), t)
        BY PathOfFacts
    <2>2. t \notin ToSet(Ahead(x, PathOf(x, t)))
        BY PathOfFacts
    <2> QED
        BY <2>1, <2>2
<1>3. from \in Path /\ NodeAt(x, from) = Leaf(s) /\ Len(from) \in Nat
    BY <1>1, LenProperties DEF PaneAt, Path
<1>4. to \in Path /\ Len(to) \in Nat
    BY <1>2, LenProperties DEF PaneAt, Path
<1>5. from # <<>>
    <2> SUFFICES ASSUME from = <<>>
                 PROVE  FALSE
        OBVIOUS
    <2>1. x = Leaf(s)
        BY <1>3, NodeAtEquation
    <2>2. Leaves(x) = <<s>>
        BY <2>1, PaneFacts
    <2>3. ToSet(<<s>>) = {s}
        BY DEF ToSet
    <2> QED
        BY <2>2, <2>3
<1> DEFINE d == Direction(position)
           siblings == Len(from) > 0 /\ Len(from) = Len(to) /\ Front(from) = Front(to)
           parent == NodeAt(x, Front(from))
           without == RemovePane(x, from)
           at == PathOf(without, t)
           above == NodeAt(without, Front(at))
           pair == IF Before(position) THEN <<Leaf(s), Leaf(t)>> ELSE <<Leaf(t), Leaf(s)>>
           y1 == WithNode(x, Front(from),
                        [parent EXCEPT !.children =
                            Beside(RemoveAt(@, Last(from)), IF Last(from) < Last(to) THEN Last(to) - 1 ELSE Last(to),
                                   position, @[Last(from)])])
           y2 == WithNode(without, Front(at),
                       [above EXCEPT !.children = Beside(@, Last(at), position, Leaf(s))])
           y3 == WithNode(without, at, SplitOf(d, pair))
<1>6. MoveBeside(x, s, t, position) =
         IF siblings /\ parent.split = d THEN y1
         ELSE IF at # <<>> /\ above.split = d THEN y2 ELSE y3
    BY <1>1, <1>2 DEF MoveBeside
<1>7. CASE siblings /\ parent.split = d
    <2>1. to # <<>> /\ Front(from) = Front(to)
        BY <1>3, <1>7
    <2>2. PICK y : y = y1
        OBVIOUS
    <2>3. \E a, b \in Seq(Shown) :
              /\ Cat(Ahead(x, from), Behind(x, from)) = Cat(Cat(a, <<t>>), b) /\ t \notin ToSet(a)
              /\ Shows(y, NextTo(a, s, t, b, Before(position)))
        <3>1. PaneAt(x, from, s) /\ PaneAt(x, to, t) /\ t \notin ToSet(Ahead(x, to))
            BY <1>1, <1>2
        <3>2. PICK p, q : p = from /\ q = to
            OBVIOUS
        <3>6. PICK m : m = NodeAt(x, Front(p))
            OBVIOUS
        <3>3. y = WithNode(x, Front(p), [m EXCEPT !.children = Among(m.children, Last(p), Last(q), position)])
            BY <2>2, <3>2, <3>6 DEF Among
        <3>4. /\ PaneAt(x, p, s) /\ PaneAt(x, q, t) /\ t \notin ToSet(Ahead(x, q))
              /\ p # <<>> /\ q # <<>> /\ Front(p) = Front(q)
            BY <1>5, <2>1, <3>1, <3>2
        <3> HIDE DEF y1, y2, y3
        <3>5. \E a, b \in Seq(Shown) :
              /\ Cat(Ahead(x, p), Behind(x, p)) = Cat(Cat(a, <<t>>), b) /\ t \notin ToSet(a)
              /\ Shows(WithNode(x, Front(p), [m EXCEPT !.children = Among(m.children, Last(p), Last(q), position)]),
                       NextTo(a, s, t, b, Before(position)))
            BY <3>4, <3>6, MoveAmongSiblings
        <3> QED
            BY <3>2, <3>3, <3>5
    <2> HIDE DEF y1, y2, y3
    <2> QED
        BY <1>1, <1>6, <1>7, <2>2, <2>3
<1>8. ASSUME ~(siblings /\ parent.split = d)
      PROVE  \E a, b \in Seq(Shown) :
                /\ Cat(Ahead(x, from), Behind(x, from)) = Cat(Cat(a, <<t>>), b) /\ t \notin ToSet(a)
                /\ Shows(MoveBeside(x, s, t, position), NextTo(a, s, t, b, Before(position)))
    <2>1. PICK z : z = without /\ z \in Layout /\ Full(z) /\ Leaves(z) = Cat(Ahead(x, from), Behind(x, from))
        <3>1. Shows(RemovePane(x, from), Cat(Ahead(x, from), Behind(x, from)))
            BY <1>1, <1>5, RemoveShows
        <3> QED
            BY <3>1 DEF Shows
    <2>2. PICK a0 \in Seq(Shown), b0 \in Seq(Shown) : a0 = Ahead(x, from) /\ b0 = Behind(x, from)
        BY <1>3, AheadEquation, BehindEquation
    <2>3. Leaves(x) = Cat(Cat(a0, <<s>>), b0)
        BY <1>1, <2>2 DEF PaneAt
    <2>4. t \in ToSet(Leaves(z))
        <3>1. PICK c \in Seq(Shown) : c = <<s>>
            <4>1. <<s>> \in Seq(Shown)
                OBVIOUS
            <4> QED
                BY <4>1
        <3>1a. Cat(a0, c) \in Seq(Shown)
            BY CatFacts
        <3>2. \A u, v \in Seq(Shown) : ToSet(Cat(u, v)) = ToSet(u) \cup ToSet(v)
            BY ToSetOfCat
        <3>3. ToSet(<<s>>) = {s}
            BY DEF ToSet
        <3>4. ToSet(Cat(Cat(a0, c), b0)) = (ToSet(a0) \cup ToSet(c)) \cup ToSet(b0)
            BY <3>1a, <3>2
        <3>5. ToSet(Cat(a0, b0)) = ToSet(a0) \cup ToSet(b0)
            BY <3>2
        <3> QED
            BY <2>1, <2>2, <2>3, <3>1, <3>3, <3>4, <3>5
    <2>5. PICK m \in Nat : m = Len(Leaves(z)) /\ m < MaxLevels
        <3>1. Len(Cat(Cat(a0, <<s>>), b0)) = Len(a0) + 1 + Len(b0)
            BY CatPlace
        <3>2. Len(Cat(a0, b0)) = Len(a0) + Len(b0) /\ Len(a0) \in Nat /\ Len(b0) \in Nat
            BY CatElements, LenProperties
        <3>3. n = Len(a0) + 1 + Len(b0)
            BY <2>3, <3>1
        <3>4. Len(a0) + Len(b0) \in Nat /\ Len(a0) + Len(b0) < MaxLevels
            BY <3>2, <3>3, LayoutTreeAssumption
        <3> QED
            BY <2>1, <2>2, <3>2, <3>4
    <2>6. PICK p : p = PathOf(z, t) /\ PaneAt(z, p, t) /\ t \notin ToSet(Ahead(z, p))
        <3>1. PaneAt(z, PathOf(z, t), t)
            BY <2>1, <2>4, PathOfFacts
        <3>2. t \notin ToSet(Ahead(z, PathOf(z, t)))
            BY <2>1, <2>4, PathOfFacts
        <3> QED
            BY <3>1, <3>2
    <2>7. PICK a \in Seq(Shown), b \in Seq(Shown) : a = Ahead(z, p) /\ b = Behind(z, p)
        BY <2>1, <2>6, AheadEquation, BehindEquation DEF PaneAt
    <2>8. Cat(Ahead(x, from), Behind(x, from)) = Cat(Cat(a, <<t>>), b) /\ t \notin ToSet(a)
        BY <2>1, <2>6, <2>7 DEF PaneAt
    <2>9. p = at /\ without = z
        BY <2>1, <2>6
    <2>10. CASE at # <<>> /\ above.split = d
        <3>1. p # <<>>
            BY <2>9, <2>10
        <3>2. Shows(WithNode(z, Front(p), [NodeAt(z, Front(p)) EXCEPT !.children = Beside(@, Last(p), position, Leaf(s))]),
                     NextTo(Ahead(z, p), s, t, Behind(z, p), Before(position)))
            BY <2>1, <2>5, <2>6, <3>1, MoveIntoSplit
        <3>3. y2 = WithNode(z, Front(p), [NodeAt(z, Front(p)) EXCEPT !.children = Beside(@, Last(p), position, Leaf(s))])
            BY <2>9
        <3>4. MoveBeside(x, s, t, position) = y2
            <4> HIDE DEF y1, y2, y3
            <4> QED
                BY <1>6, <1>8, <2>10
        <3>5. Shows(MoveBeside(x, s, t, position), NextTo(a, s, t, b, Before(position)))
            <4> HIDE DEF y2
            <4> QED
                BY <2>7, <3>2, <3>3, <3>4
        <3> QED
            BY <2>8, <3>5
    <2>11. CASE ~(at # <<>> /\ above.split = d)
        <3>1. d \in {"h", "v"}
            BY DEF Direction
        <3>2. PICK e \in {"h", "v"} : e = d
            BY <3>1
        <3>3. Shows(WithNode(z, p, SplitOf(e, pair)), NextTo(Ahead(z, p), s, t, Behind(z, p), Before(position)))
            BY <2>1, <2>5, <2>6, MoveIntoPair
        <3>4. y3 = WithNode(z, p, SplitOf(e, pair))
            BY <2>9, <3>2
        <3>5. MoveBeside(x, s, t, position) = y3
            <4> HIDE DEF y1, y2, y3
            <4> QED
                BY <1>6, <1>8, <2>11
        <3>6. Shows(MoveBeside(x, s, t, position), NextTo(a, s, t, b, Before(position)))
            <4> HIDE DEF y3
            <4> QED
                BY <2>7, <3>3, <3>4, <3>5
        <3> QED
            BY <2>8, <3>6
    <2> QED
        BY <2>10, <2>11
<1> QED
    BY <1>1, <1>7, <1>8

-----------------------------------------------------------------------------
(* The layout of a workspace.                                               *)

\* What is shown is what the tree holds, each split has two children or more,
\* and the operations stay within the bounds.
LayoutInv ==
    /\ tree \in Layout /\ Full(tree)
    /\ shown = Leaves(tree) /\ Len(shown) \in 1 .. MaxPanesShown

PanesBecome(panes) == LayoutInv' /\ shown' = panes

\* An operation that arranges a layout anew, and one that leaves it as it is.
LEMMA ArrangedStep ==
    ASSUME NEW y, NEW panes, Shows(y, panes), Len(panes) \in 1 .. MaxPanesShown, Becomes(AutoArrange(y))
    PROVE  PanesBecome(panes)
<1>1. y \in Layout /\ Full(y) /\ Leaves(y) = panes
    BY DEF Shows
<1>2. Len(Leaves(y)) \in Nat /\ 1 <= Len(Leaves(y)) /\ Len(Leaves(y)) <= MaxLevels
    BY <1>1, LayoutTreeAssumption
<1>3. Shows(AutoArrange(y), Leaves(y))
    BY <1>1, <1>2, AutoArrangeFacts
<1>4. tree' = AutoArrange(y) /\ shown' = Leaves(tree')
    BY DEF Becomes
<1>5. tree' \in Layout /\ Full(tree') /\ Leaves(tree') = panes
    BY <1>1, <1>3, <1>4 DEF Shows
<1> QED
    BY <1>4, <1>5 DEF PanesBecome, LayoutInv

\* A layout that shows panes within the limit keeps the invariant.
LEMMA PlainStep ==
    ASSUME NEW y, NEW panes, Shows(y, panes), Len(panes) \in 1 .. MaxPanesShown, Becomes(y)
    PROVE  PanesBecome(panes)
<1>1. y \in Layout /\ Full(y) /\ Leaves(y) = panes
    BY DEF Shows
<1>2. tree' = y /\ shown' = Leaves(tree')
    BY DEF Becomes
<1> QED
    BY <1>1, <1>2 DEF PanesBecome, LayoutInv

\* The place of a pane on the screen.
InPlace(p, s, n, i, a, b) ==
    /\ n \in 1 .. MaxPanesShown /\ i \in 1 .. n /\ a \in Seq(Shown) /\ b \in Seq(Shown)
    /\ n = Len(shown) /\ n = Len(Leaves(tree)) /\ n < MaxLevels /\ shown \in Seq(Shown)
    /\ a = Ahead(tree, p) /\ b = Behind(tree, p) /\ s \in Shown
    /\ i = Len(a) + 1 /\ shown = Cat(Cat(a, <<s>>), b) /\ n = Len(a) + 1 + Len(b)
    /\ Left(shown, i) = a /\ Right(shown, i) = b /\ shown[i] = s

\* A pane of the tree and its place in the order.
LEMMA PlaceShown ==
    ASSUME LayoutInv, NEW p, NEW s, PaneAt(tree, p, s)
    PROVE  \E n, i, a, b : InPlace(p, s, n, i, a, b)
<1>1. tree \in Layout /\ Full(tree) /\ shown = Leaves(tree) /\ Len(shown) \in 1 .. MaxPanesShown
    BY DEF LayoutInv
<1>2. s \in Shown /\ Leaves(tree) = Cat(Cat(Ahead(tree, p), <<s>>), Behind(tree, p)) /\ p \in Path
    BY DEF PaneAt
<1>3. PICK a \in Seq(Shown), b \in Seq(Shown) : a = Ahead(tree, p) /\ b = Behind(tree, p)
    BY <1>1, <1>2, AheadEquation, BehindEquation
<1>4. shown = Cat(Cat(a, <<s>>), b)
    BY <1>1, <1>2, <1>3
<1>5. shown \in Seq(Shown) /\ Len(shown) = Len(a) + 1 + Len(b)
    BY <1>2, <1>4, CatPlace
<1>6. Len(a) + 1 \in 1 .. Len(shown) /\ shown[Len(a) + 1] = s
    BY <1>2, <1>4, CatPlace
<1>7. Left(shown, Len(a) + 1) = a /\ Right(shown, Len(a) + 1) = b
    BY <1>2, <1>4, CatPlace
<1>8. PICK n \in 1 .. MaxPanesShown : n = Len(shown) /\ n < MaxLevels
    BY <1>1, LayoutTreeAssumption
<1>9. PICK i \in 1 .. n : i = Len(a) + 1
    BY <1>6, <1>8
<1>10. InPlace(p, s, n, i, a, b)
    BY <1>1, <1>2, <1>3, <1>4, <1>5, <1>6, <1>7, <1>8, <1>9 DEF InPlace
<1> QED
    BY <1>10

\* Splitting a pane keeps the invariant and is a Split of the list.
LEMMA SplitPaneStep ==
    ASSUME LayoutInv, NEW p \in ToSet(Paths(tree)), NEW d \in {"h", "v"}, SplitPane(p, d)
    PROVE  LayoutInv' /\ \E i \in DOMAIN shown : PanesInOrder!Split(i)
<1>1. tree \in Layout /\ Full(tree)
    BY DEF LayoutInv
<1>2. PICK s : PaneAt(tree, p, s)
    BY <1>1, PathsLeadToPanes
<1>3a. \E n, i, a, b : InPlace(p, s, n, i, a, b)
    BY <1>2, PlaceShown
<1>3b. PICK n, i \in Nat, a \in Seq(Shown), b \in Seq(Shown) : InPlace(p, s, n, i, a, b)
    BY <1>3a, LayoutTreeAssumption DEF InPlace
<1>3. /\ n \in 1 .. MaxPanesShown /\ i \in 1 .. n /\ n \in Nat
      /\ n = Len(shown) /\ n = Len(Leaves(tree)) /\ n < MaxLevels /\ shown \in Seq(Shown)
      /\ a = Ahead(tree, p) /\ b = Behind(tree, p) /\ s \in Shown
      /\ i = Len(a) + 1 /\ shown = Cat(Cat(a, <<s>>), b) /\ n = Len(a) + 1 + Len(b)
      /\ Left(shown, i) = a /\ Right(shown, i) = b /\ shown[i] = s
    BY <1>3b, LayoutTreeAssumption DEF InPlace
<1>4. n < MaxPanesShown /\ Becomes(AutoArrange(SplitPaneAt(tree, p, d, EmptyPane)))
    BY <1>3 DEF SplitPane
<1>5. EmptyPane \in Shown
    BY DEF Shown
<1>6. Shows(SplitPaneAt(tree, p, d, EmptyPane), Cat(Cat(a, Cat(<<s>>, <<EmptyPane>>)), b))
    <2>1. n \in Nat
        BY <1>3
    <2> QED
        BY <1>1, <1>2, <1>3, <1>5, <2>1, SplitPaneAtShows
<1>7. PICK u \in Seq(Shown), v \in Seq(Shown) : u = <<s>> /\ v = <<EmptyPane>> /\ Len(u) = 1 /\ Len(v) = 1
    <2>1. <<s>> \in Seq(Shown) /\ Len(<<s>>) = 1
        BY <1>3
    <2>2. <<EmptyPane>> \in Seq(Shown) /\ Len(<<EmptyPane>>) = 1
        BY <1>5
    <2> QED
        BY <2>1, <2>2
<1>8. PICK panes \in Seq(Shown) : panes = Cat(Cat(a, Cat(u, v)), b) /\ Len(panes) = n + 1
    <2>1. Cat(u, v) \in Seq(Shown) /\ Len(Cat(u, v)) = Len(u) + Len(v)
        BY CatElements
    <2>2. PICK w \in Seq(Shown) : w = Cat(u, v) /\ Len(w) = 2
        BY <1>7, <2>1
    <2>3. Cat(a, w) \in Seq(Shown) /\ Len(Cat(a, w)) = Len(a) + Len(w)
        BY CatElements
    <2>4. PICK x \in Seq(Shown) : x = Cat(a, w) /\ Len(x) = Len(a) + 2
        BY <2>2, <2>3
    <2>5. Cat(x, b) \in Seq(Shown) /\ Len(Cat(x, b)) = Len(x) + Len(b)
        BY CatElements
    <2>6. Len(Cat(x, b)) = n + 1
        <3>1. Len(a) \in Nat /\ Len(b) \in Nat /\ n = Len(a) + 1 + Len(b)
            BY <1>3, LenProperties
        <3> QED
            BY <2>4, <2>5, <3>1
    <2> QED
        BY <2>2, <2>4, <2>5, <2>6
<1>9. PanesBecome(panes)
    <2>1. Len(panes) \in 1 .. MaxPanesShown
        BY <1>4, <1>8, LayoutTreeAssumption
    <2>2. PICK y : y = SplitPaneAt(tree, p, d, EmptyPane)
        OBVIOUS
    <2>3. Shows(y, panes)
        BY <1>6, <1>7, <1>8, <2>2
    <2> QED
        BY <1>4, <2>1, <2>2, <2>3, ArrangedStep
<1>10. panes = InsertAt(shown, i + 1, EmptyPane)
    <2>1. InsertAt(shown, i + 1, EmptyPane)
            = Cat(Cat(Cat(Left(shown, i), <<shown[i]>>), <<EmptyPane>>), Right(shown, i))
        <3>1. shown \in Seq(Shown) /\ i \in 1 .. Len(shown)
            BY <1>3
        <3> QED
            BY <3>1, InsertAround
    <2>2. Cat(Cat(a, Cat(u, v)), b) = Cat(Cat(Cat(a, u), v), b)
        <3>1. Cat(Cat(a, u), v) = Cat(a, Cat(u, v))
            BY CatFacts
        <3> QED
            BY <3>1
    <2> QED
        BY <1>3, <1>7, <1>8, <2>1, <2>2
<1>11. i \in DOMAIN shown
    BY <1>3, LenProperties
<1>12. PanesInOrder!Split(i)
    <2>1. PanesInOrder!InsertAt(shown, i + 1, EmptyPane) = InsertAt(shown, i + 1, EmptyPane)
        BY DEF PanesInOrder!InsertAt, InsertAt
    <2> QED
        BY <1>9, <1>10, <2>1 DEF PanesBecome, PanesInOrder!Split
<1> QED
    BY <1>9, <1>11, <1>12 DEF PanesBecome

\* Closing a pane keeps the invariant and is a Close of the list.
LEMMA ClosePaneStep ==
    ASSUME LayoutInv, NEW p \in ToSet(Paths(tree)), ClosePane(p)
    PROVE  LayoutInv' /\ \E i \in DOMAIN shown : PanesInOrder!Close(i)
<1>1. tree \in Layout /\ Full(tree) /\ shown = Leaves(tree)
    BY DEF LayoutInv
<1>2. PICK s : PaneAt(tree, p, s)
    BY <1>1, PathsLeadToPanes
<1>3a. \E n, i, a, b : InPlace(p, s, n, i, a, b)
    BY <1>2, PlaceShown
<1>3b. PICK n, i \in Nat, a \in Seq(Shown), b \in Seq(Shown) : InPlace(p, s, n, i, a, b)
    BY <1>3a, LayoutTreeAssumption DEF InPlace
<1>3. /\ n \in 1 .. MaxPanesShown /\ i \in 1 .. n /\ n \in Nat
      /\ n = Len(shown) /\ n = Len(Leaves(tree)) /\ n < MaxLevels /\ shown \in Seq(Shown)
      /\ a = Ahead(tree, p) /\ b = Behind(tree, p) /\ s \in Shown
      /\ i = Len(a) + 1 /\ shown = Cat(Cat(a, <<s>>), b) /\ n = Len(a) + 1 + Len(b)
      /\ Left(shown, i) = a /\ Right(shown, i) = b /\ shown[i] = s
    BY <1>3b, LayoutTreeAssumption DEF InPlace
<1>4. n > 1 /\ Becomes(AutoArrange(RemovePane(tree, p)))
    BY <1>3 DEF ClosePane
<1>5. p # <<>>
    <2> SUFFICES ASSUME p = <<>>
                 PROVE  FALSE
        OBVIOUS
    <2>1. tree = Leaf(s)
        BY <1>1, <1>2, NodeAtEquation DEF PaneAt
    <2>2. Leaves(tree) = <<s>>
        BY <1>3, <2>1, PaneFacts
    <2>3. Len(<<s>>) = 1
        OBVIOUS
    <2> QED
        <3>1. Len(Leaves(tree)) = 1
            BY <2>2, <2>3
        <3>2. n = Len(Leaves(tree)) /\ n > 1
            BY <1>3, <1>4
        <3> QED
            BY <3>1, <3>2
<1>6. Shows(RemovePane(tree, p), Cat(a, b))
    <2>1. n \in Nat
        BY <1>3
    <2> QED
        BY <1>1, <1>2, <1>3, <1>5, <2>1, RemoveShows
<1>7. Len(Cat(a, b)) = n - 1
    <2>1. Len(Cat(a, b)) = Len(a) + Len(b)
        BY CatElements
    <2>2. Len(a) \in Nat /\ Len(b) \in Nat /\ n = Len(a) + 1 + Len(b)
        BY <1>3, LenProperties
    <2> QED
        BY <2>1, <2>2
<1>8. PanesBecome(Cat(a, b))
    <2>1. Len(Cat(a, b)) \in 1 .. MaxPanesShown
        BY <1>3, <1>4, <1>7, LayoutTreeAssumption
    <2>2. PICK y, panes : y = RemovePane(tree, p) /\ panes = Cat(a, b)
        OBVIOUS
    <2>3. Shows(y, panes) /\ Len(panes) \in 1 .. MaxPanesShown /\ Becomes(AutoArrange(y))
        BY <1>4, <1>6, <2>1, <2>2
    <2> QED
        BY <2>2, <2>3, ArrangedStep
<1>9. RemoveAt(shown, i) = Cat(a, b)
    BY <1>3, RemoveAround
<1>10. i \in DOMAIN shown
    BY <1>3, LenProperties
<1>11. PanesInOrder!Close(i)
    <2>1. PanesInOrder!RemoveAt(shown, i) = RemoveAt(shown, i)
        BY DEF PanesInOrder!RemoveAt, RemoveAt
    <2>2. Len(shown) > 1 /\ shown' = RemoveAt(shown, i)
        BY <1>3, <1>4, <1>8, <1>9 DEF PanesBecome
    <2> QED
        BY <2>1, <2>2 DEF PanesInOrder!Close
<1> QED
    BY <1>8, <1>10, <1>11 DEF PanesBecome

\* A session for a pane keeps the invariant and is an Assign of the list.
LEMMA AssignStep ==
    ASSUME LayoutInv, NEW p \in ToSet(Paths(tree)), NEW e \in Content, AssignSession(p, e)
    PROVE  LayoutInv' /\ \E i \in DOMAIN shown : PanesInOrder!Assign(i, e)
<1>1. tree \in Layout /\ Full(tree) /\ shown = Leaves(tree) /\ e \in Shown
    BY DEF LayoutInv, Shown
<1>2. PICK s : PaneAt(tree, p, s)
    BY <1>1, PathsLeadToPanes
<1>3a. \E n, i, a, b : InPlace(p, s, n, i, a, b)
    BY <1>2, PlaceShown
<1>3b. PICK n, i \in Nat, a \in Seq(Shown), b \in Seq(Shown) : InPlace(p, s, n, i, a, b)
    BY <1>3a, LayoutTreeAssumption DEF InPlace
<1>3. /\ n \in 1 .. MaxPanesShown /\ i \in 1 .. n /\ n \in Nat
      /\ n = Len(shown) /\ n = Len(Leaves(tree)) /\ n < MaxLevels /\ shown \in Seq(Shown)
      /\ a = Ahead(tree, p) /\ b = Behind(tree, p) /\ s \in Shown
      /\ i = Len(a) + 1 /\ shown = Cat(Cat(a, <<s>>), b) /\ n = Len(a) + 1 + Len(b)
      /\ Left(shown, i) = a /\ Right(shown, i) = b /\ shown[i] = s
    BY <1>3b, LayoutTreeAssumption DEF InPlace
<1>4. Becomes(WithNode(tree, p, Leaf(e)))
    BY DEF AssignSession
<1>5. /\ WithNode(tree, p, Leaf(e)) \in Layout
      /\ Leaves(WithNode(tree, p, Leaf(e))) = [Leaves(tree) EXCEPT ![i] = e]
      /\ Full(WithNode(tree, p, Leaf(e)))
    <2>1. Len(Ahead(tree, p)) = i - 1 /\ i \in Nat
        <3>1. Len(a) \in Nat
            BY LenProperties
        <3> QED
            BY <1>3, <3>1
    <2> QED
        BY <1>1, <1>2, <2>1, PutAt
<1>6. PICK y, panes : y = WithNode(tree, p, Leaf(e)) /\ panes = [shown EXCEPT ![i] = e]
    OBVIOUS
<1>7. Shows(y, panes)
    BY <1>1, <1>5, <1>6 DEF Shows
<1>8. Len(panes) = n
    BY <1>1, <1>3, <1>6
<1>9. PanesBecome(panes)
    BY <1>3, <1>4, <1>6, <1>7, <1>8, PlainStep
<1>10. i \in DOMAIN shown
    BY <1>3, LenProperties
<1>11. PanesInOrder!Assign(i, e)
    BY <1>6, <1>9 DEF PanesBecome, PanesInOrder!Assign
<1> QED
    BY <1>9, <1>10, <1>11 DEF PanesBecome

\* The first pane of a session, by its path and by its place.
LEMMA FirstShown ==
    ASSUME LayoutInv, NEW s \in Shown, s \in ToSet(shown)
    PROVE  /\ PaneAt(tree, PathOf(tree, s), s)
           /\ PanesInOrder!FirstIn(shown, s) = Len(Ahead(tree, PathOf(tree, s))) + 1
           /\ RemoveAt(shown, PanesInOrder!FirstIn(shown, s))
                = Cat(Ahead(tree, PathOf(tree, s)), Behind(tree, PathOf(tree, s)))
<1>1. tree \in Layout /\ shown = Leaves(tree)
    BY DEF LayoutInv
<1>2. PaneAt(tree, PathOf(tree, s), s)
    BY <1>1, PathOfFacts
<1>3. s \notin ToSet(Ahead(tree, PathOf(tree, s)))
    BY <1>1, PathOfFacts
<1>4. PICK p : p = PathOf(tree, s)
    OBVIOUS
<1>5. \E n, i, a, b : InPlace(p, s, n, i, a, b)
    BY <1>2, <1>4, PlaceShown
<1>6. PICK n, i \in Nat, a \in Seq(Shown), b \in Seq(Shown) : InPlace(p, s, n, i, a, b)
    BY <1>5, LayoutTreeAssumption DEF InPlace
<1>7. a = Ahead(tree, p) /\ b = Behind(tree, p) /\ shown = Cat(Cat(a, <<s>>), b) /\ s \notin ToSet(a)
    BY <1>3, <1>4, <1>6 DEF InPlace
<1>8. PanesInOrder!FirstIn(shown, s) = Len(a) + 1
    BY <1>7, FirstPlace
<1>9. RemoveAt(shown, Len(a) + 1) = Cat(a, b)
    BY <1>7, FirstPlace
<1> QED
    BY <1>2, <1>4, <1>7, <1>8, <1>9

\* Two panes that change places.
LEMMA SwapStep ==
    ASSUME LayoutInv, NEW s \in Content, NEW t \in Content, s # t, s \in ToSet(shown), t \in ToSet(shown),
           DropPane(s, t, "swap")
    PROVE  LayoutInv' /\ PanesInOrder!Swap(s, t)
<1>1. tree \in Layout /\ Full(tree) /\ shown = Leaves(tree) /\ Len(shown) \in 1 .. MaxPanesShown
    BY DEF LayoutInv
<1>2. s \in Shown /\ t \in Shown
    BY DEF Shown
<1>3. PICK k, l \in 1 .. Len(Leaves(tree)) :
              /\ Len(Ahead(tree, PathOf(tree, s))) = k - 1 /\ Len(Ahead(tree, PathOf(tree, t))) = l - 1
              /\ Shows(WithNode(WithNode(tree, PathOf(tree, s), Leaf(t)), PathOf(tree, t), Leaf(s)),
                       [[Leaves(tree) EXCEPT ![k] = t] EXCEPT ![l] = s])
    BY <1>1, <1>2, SwapShows
<1>4. PICK y, panes : /\ y = WithNode(WithNode(tree, PathOf(tree, s), Leaf(t)), PathOf(tree, t), Leaf(s))
                      /\ panes = [[shown EXCEPT ![k] = t] EXCEPT ![l] = s]
    OBVIOUS
<1>5. Shows(y, panes)
    BY <1>1, <1>3, <1>4
<1>6. Len(panes) = Len(shown)
    <2>1. shown \in Seq(Shown)
        BY <1>1, LeavesFacts
    <2>2. [shown EXCEPT ![k] = t] \in Seq(Shown) /\ Len([shown EXCEPT ![k] = t]) = Len(shown)
        BY <1>1, <1>2, <1>3, <2>1
    <2>3. PICK z \in Seq(Shown) : z = [shown EXCEPT ![k] = t] /\ Len(z) = Len(shown)
        BY <2>2
    <2>4. Len([z EXCEPT ![l] = s]) = Len(z)
        BY <1>2
    <2> QED
        BY <1>4, <2>3, <2>4
<1>7. Becomes(y)
    <2>1. {s, t} \subseteq ToSet(Leaves(tree))
        BY <1>1
    <2>2. MovePane(tree, s, t, "swap") = y
        BY <1>4, <2>1 DEF MovePane
    <2> QED
        BY <2>2 DEF DropPane
<1>8. PanesBecome(panes)
    BY <1>1, <1>5, <1>6, <1>7, PlainStep
<1>9. PanesInOrder!FirstIn(shown, s) = k
    <2>1. PanesInOrder!FirstIn(shown, s) = Len(Ahead(tree, PathOf(tree, s))) + 1
        BY <1>2, FirstShown
    <2> QED
        BY <1>1, <1>3, <2>1
<1>10. PanesInOrder!FirstIn(shown, t) = l
    <2>1. PanesInOrder!FirstIn(shown, t) = Len(Ahead(tree, PathOf(tree, t))) + 1
        BY <1>2, FirstShown
    <2> QED
        BY <1>1, <1>3, <2>1
<1> QED
    BY <1>4, <1>8, <1>9, <1>10 DEF PanesBecome, PanesInOrder!Swap

\* A pane that is dropped at a side of another.
LEMMA MoveStep ==
    ASSUME LayoutInv, NEW s \in Content, NEW t \in Content, s # t, s \in ToSet(shown), t \in ToSet(shown),
           NEW position, position # "swap", DropPane(s, t, position)
    PROVE  LayoutInv' /\ \E before \in BOOLEAN : PanesInOrder!MoveNextTo(s, t, before)
<1>1. tree \in Layout /\ Full(tree) /\ shown = Leaves(tree)
    BY DEF LayoutInv
<1>2. s \in Shown /\ t \in Shown
    BY DEF Shown
<1>3. PICK p : p = PathOf(tree, s) /\ PaneAt(tree, p, s)
    BY <1>2, FirstShown
<1>4. \E m, i, aa, bb : InPlace(p, s, m, i, aa, bb)
    BY <1>3, PlaceShown
<1>5. PICK n, i \in Nat, aa \in Seq(Shown), bb \in Seq(Shown) : InPlace(p, s, n, i, aa, bb)
    BY <1>4, LayoutTreeAssumption DEF InPlace
<1>6. /\ n = Len(shown) /\ n = Len(Leaves(tree)) /\ n < MaxLevels /\ n \in 1 .. MaxPanesShown
      /\ aa = Ahead(tree, p) /\ bb = Behind(tree, p) /\ n = Len(aa) + 1 + Len(bb)
    BY <1>5 DEF InPlace
<1>7. PICK y : y = MoveBeside(tree, s, t, position)
    OBVIOUS
<1>8. \E a, b \in Seq(Shown) :
         /\ Cat(Ahead(tree, PathOf(tree, s)), Behind(tree, PathOf(tree, s))) = Cat(Cat(a, <<t>>), b)
         /\ t \notin ToSet(a)
         /\ Shows(MoveBeside(tree, s, t, position), NextTo(a, s, t, b, Before(position)))
    BY <1>1, <1>2, <1>6, MoveShows
<1>9. PICK a \in Seq(Shown), b \in Seq(Shown) :
         /\ Cat(aa, bb) = Cat(Cat(a, <<t>>), b) /\ t \notin ToSet(a)
         /\ Shows(y, NextTo(a, s, t, b, Before(position)))
    BY <1>3, <1>6, <1>7, <1>8
<1>10. PICK rest \in Seq(Shown) : rest = Cat(Cat(a, <<t>>), b) /\ rest = Cat(aa, bb)
    BY <1>9, CatFacts
<1>11. RemoveAt(shown, PanesInOrder!FirstIn(shown, s)) = rest
    <2>1. RemoveAt(shown, PanesInOrder!FirstIn(shown, s)) = Cat(Ahead(tree, p), Behind(tree, p))
        BY <1>2, <1>3, FirstShown
    <2> QED
        BY <1>6, <1>10, <2>1
<1>12. PICK k \in Nat : k = Len(a) + 1
    BY LenProperties
<1>13. PanesInOrder!FirstIn(rest, t) = k
    BY <1>2, <1>9, <1>10, <1>12, FirstPlace
<1>14a. t \in Shown /\ rest = Cat(Cat(a, <<t>>), b)
    BY <1>2, <1>10
<1>14. k \in 1 .. Len(rest) /\ rest[k] = t /\ Len(rest) = Len(a) + 1 + Len(b)
    <2>1. Len(a) + 1 \in 1 .. Len(rest) /\ rest[Len(a) + 1] = t
        BY <1>14a, CatPlace
    <2>2. Len(rest) = Len(a) + 1 + Len(b)
        BY <1>14a, CatPlace
    <2> QED
        BY <1>12, <2>1, <2>2
<1>15. Left(rest, k) = a /\ Right(rest, k) = b
    <2>1. Left(rest, Len(a) + 1) = a /\ Right(rest, Len(a) + 1) = b
        BY <1>14a, CatPlace
    <2> QED
        BY <1>12, <2>1
<1>16. Len(rest) + 1 = n
    <2>1. Len(Cat(aa, bb)) = Len(aa) + Len(bb)
        BY CatElements
    <2>2. Len(aa) \in Nat /\ Len(bb) \in Nat
        BY LenProperties
    <2> QED
        BY <1>6, <1>10, <2>1, <2>2
<1>17. Becomes(y)
    <2>1. {s, t} \subseteq ToSet(Leaves(tree))
        BY <1>1
    <2>2. MovePane(tree, s, t, position) = y
        BY <1>7, <2>1 DEF MovePane
    <2> QED
        BY <2>2 DEF DropPane
<1>18. PICK u \in Seq(Shown), v \in Seq(Shown) : u = <<s>> /\ v = <<t>> /\ Len(u) = 1 /\ Len(v) = 1
    <2>1. <<s>> \in Seq(Shown) /\ Len(<<s>>) = 1
        BY <1>2
    <2>2. <<t>> \in Seq(Shown) /\ Len(<<t>>) = 1
        BY <1>2
    <2> QED
        BY <2>1, <2>2
<1>19. \A c, d \in Seq(Shown) : Cat(c, d) \in Seq(Shown)
    BY CatFacts
<1>20. \A c, d \in Seq(Shown) : Len(Cat(c, d)) = Len(c) + Len(d)
    BY CatElements
<1>21. Len(a) \in Nat /\ Len(b) \in Nat
    BY LenProperties
<1>22. PanesInOrder!RemoveAt(shown, PanesInOrder!FirstIn(shown, s)) = rest
    BY <1>11 DEF PanesInOrder!RemoveAt, RemoveAt
<1>23. CASE Before(position)
    <2>1. PICK panes : panes = Cat(Cat(a, u), Cat(v, b))
        OBVIOUS
    <2>2. Shows(y, panes)
        BY <1>9, <1>18, <1>23, <2>1 DEF NextTo
    <2>3. Len(panes) = n
        <3>1. Len(Cat(a, u)) = Len(a) + 1 /\ Len(Cat(v, b)) = 1 + Len(b)
            BY <1>18, <1>20
        <3>2. Cat(a, u) \in Seq(Shown) /\ Cat(v, b) \in Seq(Shown)
            BY <1>19
        <3>3. Len(panes) = Len(Cat(a, u)) + Len(Cat(v, b))
            BY <1>20, <2>1, <3>2
        <3> QED
            BY <1>14, <1>16, <1>21, <3>1, <3>3
    <2>4. PanesBecome(panes)
        BY <1>6, <1>17, <2>2, <2>3, PlainStep
    <2>5. PanesInOrder!InsertAt(rest, k, s) = panes
        <3>1. InsertAt(rest, k, s) = Cat(Cat(Left(rest, k), <<s>>), Cat(<<rest[k]>>, Right(rest, k)))
            BY <1>14, InsertAround
        <3>2. InsertAt(rest, k, s) = panes
            BY <1>14, <1>15, <1>18, <2>1, <3>1
        <3> QED
            BY <3>2 DEF PanesInOrder!InsertAt, InsertAt
    <2>6. PanesInOrder!MoveNextTo(s, t, TRUE)
        BY <1>13, <1>22, <2>4, <2>5 DEF PanesBecome, PanesInOrder!MoveNextTo
    <2> QED
        BY <2>4, <2>6 DEF PanesBecome
<1>24. CASE ~Before(position)
    <2>1. PICK panes : panes = Cat(Cat(Cat(a, v), u), b)
        OBVIOUS
    <2>2. Shows(y, panes)
        BY <1>9, <1>18, <1>24, <2>1 DEF NextTo
    <2>3. Len(panes) = n
        <3>1. Len(Cat(a, v)) = Len(a) + 1 /\ Cat(a, v) \in Seq(Shown)
            BY <1>18, <1>19, <1>20
        <3>2. Cat(Cat(a, v), u) \in Seq(Shown) /\ Len(Cat(Cat(a, v), u)) = Len(Cat(a, v)) + 1
            BY <1>18, <1>19, <1>20, <3>1
        <3>3. Len(panes) = Len(Cat(Cat(a, v), u)) + Len(b)
            BY <1>20, <2>1, <3>2
        <3> QED
            BY <1>14, <1>16, <1>21, <3>1, <3>2, <3>3
    <2>4. PanesBecome(panes)
        BY <1>6, <1>17, <2>2, <2>3, PlainStep
    <2>5. PanesInOrder!InsertAt(rest, k + 1, s) = panes
        <3>1. InsertAt(rest, k + 1, s) = Cat(Cat(Cat(Left(rest, k), <<rest[k]>>), <<s>>), Right(rest, k))
            BY <1>14, InsertAround
        <3>2. InsertAt(rest, k + 1, s) = panes
            BY <1>14, <1>15, <1>18, <2>1, <3>1
        <3> QED
            BY <3>2 DEF PanesInOrder!InsertAt, InsertAt
    <2>6. PanesInOrder!MoveNextTo(s, t, FALSE)
        BY <1>13, <1>22, <2>4, <2>5 DEF PanesBecome, PanesInOrder!MoveNextTo
    <2> QED
        BY <2>4, <2>6 DEF PanesBecome
<1> QED
    BY <1>23, <1>24

\* A pane that is dropped on itself, or from elsewhere, changes nothing.
LEMMA StayStep ==
    ASSUME LayoutInv, NEW s \in Content, NEW t \in Content, NEW position,
           s = t \/ s \notin ToSet(shown) \/ t \notin ToSet(shown), DropPane(s, t, position)
    PROVE  LayoutInv' /\ shown' = shown
<1>1. tree \in Layout /\ Full(tree) /\ shown = Leaves(tree) /\ Len(shown) \in 1 .. MaxPanesShown
    BY DEF LayoutInv
<1>2. MovePane(tree, s, t, position) = tree
    BY <1>1 DEF MovePane
<1>3. PICK y, panes : y = tree /\ panes = shown
    OBVIOUS
<1>4. Shows(y, panes) /\ Len(panes) \in 1 .. MaxPanesShown /\ Becomes(y)
    BY <1>1, <1>2, <1>3 DEF Shows, DropPane
<1>5. PanesBecome(panes)
    BY <1>4, PlainStep
<1> QED
    BY <1>3, <1>5 DEF PanesBecome

\* The invariant holds at the start, which is one of the list.
LEMMA LayoutStarts ==
    ASSUME LayoutInit
    PROVE  LayoutInv /\ PanesInOrder!Init
<1>1. EmptyPane \in Shown
    BY DEF Shown
<1>2. Leaf(EmptyPane) \in Layout /\ Full(Leaf(EmptyPane)) /\ Leaves(Leaf(EmptyPane)) = <<EmptyPane>>
    BY <1>1, PaneFacts
<1>3. Len(<<EmptyPane>>) = 1
    OBVIOUS
<1> QED
    BY <1>2, <1>3, LayoutTreeAssumption DEF LayoutInit, LayoutInv, PanesInOrder!Init

\* Every step keeps it, and is one of the list or none.
LEMMA LayoutSteps ==
    ASSUME LayoutInv, [LayoutNext]_layoutVars
    PROVE  LayoutInv' /\ [PanesInOrder!Next]_shown
<1>1. CASE UNCHANGED layoutVars
    BY <1>1 DEF layoutVars, LayoutInv, Full, Nodes
<1>2. ASSUME NEW p \in ToSet(Paths(tree)), NEW d \in {"h", "v"}, SplitPane(p, d)
      PROVE  LayoutInv' /\ PanesInOrder!Next
    BY <1>2, SplitPaneStep DEF PanesInOrder!Next
<1>3. ASSUME NEW p \in ToSet(Paths(tree)), ClosePane(p)
      PROVE  LayoutInv' /\ PanesInOrder!Next
    BY <1>3, ClosePaneStep DEF PanesInOrder!Next
<1>4. ASSUME NEW p \in ToSet(Paths(tree)), NEW e \in Content, AssignSession(p, e)
      PROVE  LayoutInv' /\ PanesInOrder!Next
    BY <1>4, AssignStep DEF PanesInOrder!Next
<1>5. ASSUME NEW s \in Content, NEW t \in Content, NEW position \in {"left", "right", "top", "bottom", "swap"},
             DropPane(s, t, position)
      PROVE  LayoutInv' /\ [PanesInOrder!Next]_shown
    <2>1. CASE s = t \/ s \notin ToSet(shown) \/ t \notin ToSet(shown)
        BY <1>5, <2>1, StayStep
    <2>2. CASE s # t /\ s \in ToSet(shown) /\ t \in ToSet(shown)
        <3>1. s \in Content \cap PanesInOrder!ToSet(shown) /\ t \in Content \cap PanesInOrder!ToSet(shown)
            BY <2>2 DEF ToSet, PanesInOrder!ToSet
        <3>2. LayoutInv' /\ (PanesInOrder!Swap(s, t) \/ \E before \in BOOLEAN : PanesInOrder!MoveNextTo(s, t, before))
            <4>1. CASE position = "swap"
                BY <1>5, <2>2, <4>1, SwapStep
            <4>2. CASE position # "swap"
                BY <1>5, <2>2, <4>2, MoveStep
            <4> QED
                BY <4>1, <4>2
        <3> QED
            BY <2>2, <3>1, <3>2 DEF PanesInOrder!Next
    <2> QED
        BY <2>1, <2>2
<1>6. CASE LayoutNext
    BY <1>2, <1>3, <1>4, <1>5, <1>6 DEF LayoutNext
<1> QED
    BY <1>1, <1>6

\* What the invariant says of what is saved.
LEMMA LayoutInvHolds ==
    ASSUME LayoutInv
    PROVE  LayoutIsSavable
<1>1. tree \in Layout /\ Full(tree) /\ shown = Leaves(tree) /\ Len(shown) \in 1 .. MaxPanesShown
    BY DEF LayoutInv
<1>2. \A node \in Nodes(tree) : ~IsLeaf(node) => Len(node.children) >= 2
    BY <1>1 DEF Full
<1>3. PICK n \in Nat : n = Len(shown)
    BY <1>1
<1>4. tree \in OfLevels[n] /\ \A m \in Nodes(tree) : ~IsLeaf(m) => Len(m.children) <= n
    BY <1>1, <1>3, FullIsMeasured DEF Measured
<1>5. ASSUME n <= MaxLayoutChildren
      PROVE  WithinBounds(tree)
    <2>1. MaxLayoutDepth \in Nat /\ n <= MaxLayoutDepth /\ n <= MaxLayoutPanes
        BY <1>5, LayoutTreeAssumption
    <2>2. OfLevels[n] \subseteq OfLevels[MaxLayoutDepth]
        BY <2>1, LevelsGrow
    <2>3. \A m \in Nodes(tree) : ~IsLeaf(m) => Len(m.children) <= MaxLayoutChildren
        <3> SUFFICES ASSUME NEW m \in Nodes(tree), ~IsLeaf(m)
                     PROVE  Len(m.children) <= MaxLayoutChildren
            OBVIOUS
        <3>1. Len(m.children) <= n
            BY <1>4
        <3>2. Len(m.children) \in Nat
            <4>1. m \in Layout
                BY <1>1, NodesInLayout
            <4> QED
                BY <4>1, LayoutFacts, LenProperties
        <3> QED
            BY <1>5, <3>1, <3>2, LayoutTreeAssumption
    <2> QED
        BY <1>1, <1>3, <1>4, <2>1, <2>2, <2>3 DEF WithinBounds
<1> QED
    BY <1>2, <1>3, <1>5 DEF LayoutIsSavable

\* Whatever is done to a layout, each of its splits has two children or more, and
\* if its panes would fit in one split the server saves it (assertLayoutBounds).
THEOREM LayoutIsSavableAlways ==
    LayoutSpec => []LayoutIsSavable
<1>1. LayoutInit => LayoutInv
    BY LayoutStarts
<1>2. LayoutInv /\ [LayoutNext]_layoutVars => LayoutInv'
    BY LayoutSteps
<1>3. LayoutInv => LayoutIsSavable
    BY LayoutInvHolds
<1> QED
    BY <1>1, <1>2, <1>3, PTL DEF LayoutSpec

\* Every operation on the tree of a layout is one on the sequence of its panes:
\* what it moves, closes or puts in, and nothing else (layout.js).
THEOREM LayoutImplementsPaneSequence ==
    LayoutSpec => ImplementsPaneSequence
<1>1. LayoutInit => LayoutInv /\ PanesInOrder!Init
    BY LayoutStarts
<1>2. LayoutInv /\ [LayoutNext]_layoutVars => LayoutInv' /\ [PanesInOrder!Next]_shown
    BY LayoutSteps
<1> QED
    BY <1>1, <1>2, PTL DEF LayoutSpec, ImplementsPaneSequence, PanesInOrder!Spec

-----------------------------------------------------------------------------
(***************************************************************************)
(* What the operations do to the nodes of a layout, path by path.          *)
(***************************************************************************)

\* Where a path leads: to a node of the layout, or nowhere.
LEMMA NodeOrNothing ==
    \A p \in Path : \A x \in Layout : NodeAt(x, p) \in Layout \cup {Nothing}
<1> DEFINE G == {p \in Path : \A x \in Layout : NodeAt(x, p) \in Layout \cup {Nothing}}
<1>1. <<>> \in G
    BY NodeAtEquation, EmptySeq DEF Path
<1>2. ASSUME NEW p \in Path, p # <<>>, Tail(p) \in G
      PROVE  p \in G
    <2> SUFFICES ASSUME NEW x \in Layout
                 PROVE  NodeAt(x, p) \in Layout \cup {Nothing}
        OBVIOUS
    <2>1. NodeAt(x, p) = IF Leads(x, p) THEN NodeAt(ChildOn(x, p), Tail(p)) ELSE Nothing
        BY <1>2, NodeAtEquation
    <2>2. Leads(x, p) => ChildOn(x, p) \in Layout
        BY <1>2, LeadsFacts
    <2> QED
        BY <1>2, <2>1, <2>2
<1>3. \A p \in Path : p \in G
    <2> HIDE DEF G
    <2> QED
        BY <1>1, <1>2, InductionOnTail DEF Path
<1> QED
    BY <1>3

\* A path leads on to the children of the node it leads to.
LEMMA ChildBelow ==
    \A f \in Path : \A x \in Layout, i \in Nat :
        NodeAt(x, f) \in Layout /\ ~IsLeaf(NodeAt(x, f)) /\ i \in DOMAIN NodeAt(x, f).children =>
            NodeAt(x, Append(f, i)) \in Layout
<1> DEFINE G == {f \in Path : \A x \in Layout, i \in Nat :
                    NodeAt(x, f) \in Layout /\ ~IsLeaf(NodeAt(x, f)) /\ i \in DOMAIN NodeAt(x, f).children =>
                        NodeAt(x, Append(f, i)) \in Layout}
<1>1. <<>> \in G
    <2>1. <<>> \in Path
        BY EmptySeq DEF Path
    <2>2. ASSUME NEW x \in Layout, NEW i \in Nat, ~IsLeaf(x), i \in DOMAIN x.children
          PROVE  NodeAt(x, Append(<<>>, i)) \in Layout
        <3>1. PICK p \in Path : p = Append(<<>>, i) /\ p # <<>> /\ Head(p) = i /\ Tail(p) = <<>>
            BY <2>1, PathsOneByOne
        <3>2. Leads(x, p)
            BY <2>2, <3>1 DEF Leads
        <3>3. ChildOn(x, p) \in Layout
            BY <3>1, <3>2, LeadsFacts
        <3>4. NodeAt(x, p) = NodeAt(ChildOn(x, p), <<>>)
            BY <3>1, <3>2, NodeAtEquation
        <3> QED
            BY <3>1, <3>3, <3>4, NodeAtEquation
    <2> QED
        BY <2>1, <2>2, NodeAtEquation
<1>2. ASSUME NEW f \in Path, f # <<>>, Tail(f) \in G
      PROVE  f \in G
    <2> SUFFICES ASSUME NEW x \in Layout, NEW i \in Nat, NodeAt(x, f) \in Layout,
                        ~IsLeaf(NodeAt(x, f)), i \in DOMAIN NodeAt(x, f).children
                 PROVE  NodeAt(x, Append(f, i)) \in Layout
        OBVIOUS
    <2>1. Leads(x, f) /\ NodeAt(x, f) = NodeAt(ChildOn(x, f), Tail(f))
        BY <1>2, NodeAtFacts
    <2>2. ChildOn(x, f) \in Layout
        BY <1>2, <2>1, LeadsFacts
    <2>3. NodeAt(ChildOn(x, f), Append(Tail(f), i)) \in Layout
        BY <1>2, <2>1, <2>2
    <2>4. PICK p \in Path : p = Append(f, i) /\ p # <<>> /\ Head(p) = Head(f) /\ Tail(p) = Append(Tail(f), i)
        BY <1>2, PathsOneByOne
    <2>5. Leads(x, p) /\ ChildOn(x, p) = ChildOn(x, f)
        BY <2>1, <2>4 DEF Leads, ChildOn
    <2>6. NodeAt(x, p) = NodeAt(ChildOn(x, p), Tail(p))
        BY <2>4, <2>5, NodeAtEquation
    <2> QED
        BY <2>3, <2>4, <2>5, <2>6
<1>3. \A f \in Path : f \in G
    <2> HIDE DEF G
    <2> QED
        BY <1>1, <1>2, InductionOnTail DEF Path
<1> QED
    BY <1>3

\* A split with another child, seen from a path: it leads on as before.
LEMMA LeadsOnAlike ==
    ASSUME NEW x \in Layout, NEW y \in Layout, ~IsLeaf(x), ~IsLeaf(y), DOMAIN y.children = DOMAIN x.children,
           NEW q \in Path, q # <<>>
    PROVE  Leads(y, q) <=> Leads(x, q)
BY DEF Leads

\* Another session in a pane leaves every other pane as it is.
LEMMA OtherPanesStay ==
    \A p \in Path : \A x \in Layout, s, e \in Shown : NodeAt(x, p) = Leaf(s) =>
        \A q \in Path : \A t : q # p /\ NodeAt(x, q) = Leaf(t) => NodeAt(WithNode(x, p, Leaf(e)), q) = Leaf(t)
<1>0. \A t : IsLeaf(Leaf(t)) /\ Leaf(t) # Nothing
    BY DEF IsLeaf, Leaf, Nothing
<1> DEFINE G == {p \in Path : \A x \in Layout, s, e \in Shown : NodeAt(x, p) = Leaf(s) =>
                    \A q \in Path : \A t : q # p /\ NodeAt(x, q) = Leaf(t) =>
                        NodeAt(WithNode(x, p, Leaf(e)), q) = Leaf(t)}
<1>1. <<>> \in G
    <2>1. <<>> \in Path
        BY EmptySeq DEF Path
    <2>2. ASSUME NEW x \in Layout, NEW s \in Shown, NodeAt(x, <<>>) = Leaf(s),
                 NEW q \in Path, NEW t, q # <<>>, NodeAt(x, q) = Leaf(t)
          PROVE  FALSE
        <3>1. IsLeaf(x)
            BY <1>0, <2>2, NodeAtEquation
        <3>2. NodeAt(x, q) = Nothing
            BY <2>2, <3>1, NodeAtEquation DEF Leads
        <3> QED
            BY <1>0, <2>2, <3>2
    <2> QED
        BY <2>1, <2>2
<1>2. ASSUME NEW p \in Path, p # <<>>, Tail(p) \in G
      PROVE  p \in G
    <2> SUFFICES ASSUME NEW x \in Layout, NEW s \in Shown, NEW e \in Shown, NodeAt(x, p) = Leaf(s),
                        NEW q \in Path, NEW t, q # p, NodeAt(x, q) = Leaf(t)
                 PROVE  NodeAt(WithNode(x, p, Leaf(e)), q) = Leaf(t)
        OBVIOUS
    <2>1. NodeAt(x, p) \in Layout
        BY PaneFacts
    <2>2. Leads(x, p) /\ NodeAt(x, p) = NodeAt(ChildOn(x, p), Tail(p))
        BY <1>2, <2>1, NodeAtFacts
    <2>3. PICK i \in 1 .. Len(x.children), c \in Layout, r \in Path :
              i = Head(p) /\ c = ChildOn(x, p) /\ r = Tail(p) /\ c = x.children[i] /\ ~IsLeaf(x)
        BY <1>2, <2>2, LeadsFacts DEF ChildOn
    <2>4. NodeAt(c, r) = Leaf(s) /\ r \in G
        BY <1>2, <2>2, <2>3
    <2>5. PICK d \in Layout : d = WithNode(c, r, Leaf(e))
        BY <2>4, PanePut
    <2>6. PICK y \in Layout : y = WithNode(x, p, Leaf(e))
        BY PanePut
    <2>7. y = WithChild(x, i, d)
        <3>1. Leaf(e) \in AnyNode
            BY PaneFacts DEF AnyNode
        <3>2. WithNode(x, p, Leaf(e)) = WithChild(x, Head(p), WithNode(ChildOn(x, p), Tail(p), Leaf(e)))
            BY <1>2, <2>2, <3>1, WithNodeEquation
        <3> QED
            BY <2>3, <2>5, <2>6, <3>2
    <2>8. /\ ~IsLeaf(y) /\ DOMAIN y.children = DOMAIN x.children
          /\ \A k \in DOMAIN x.children : y.children[k] = IF k = i THEN d ELSE x.children[k]
        <3>1. PICK cs \in Seq(Layout) : cs = x.children /\ i \in 1 .. Len(cs) /\ DOMAIN cs = 1 .. Len(cs)
            BY <2>3, LayoutFacts, LenProperties
        <3>2. y = SplitOf(x.split, [cs EXCEPT ![i] = d])
            BY <2>3, <2>7, <3>1, WithChildFacts
        <3>3. ~IsLeaf(y) /\ y.children = [cs EXCEPT ![i] = d]
            BY <3>2 DEF SplitOf, IsLeaf
        <3> QED
            BY <3>1, <3>3
    <2>9. q # <<>>
        BY <1>0, <2>3, NodeAtEquation
    <2>10. Leads(x, q) /\ NodeAt(x, q) = NodeAt(ChildOn(x, q), Tail(q))
        BY <1>0, <2>9, NodeAtEquation
    <2>11. /\ q = <<Head(q)>> \o Tail(q) /\ p = <<Head(p)>> \o Tail(p) /\ Tail(q) \in Path
           /\ Head(q) \in DOMAIN x.children /\ ChildOn(x, q) \in Layout
        BY <1>2, <2>9, <2>10, LeadsFacts DEF Leads
    <2>12. Leads(y, q) /\ NodeAt(y, q) = NodeAt(ChildOn(y, q), Tail(q))
        <3>1. Leads(y, q)
            BY <2>3, <2>8, <2>9, <2>10, LeadsOnAlike
        <3> QED
            BY <2>9, <3>1, NodeAtEquation
    <2>13. CASE Head(q) = i
        <3>1. Tail(q) # r
            <4>1. ASSUME Tail(q) = r
                  PROVE  q = p
                <5>1. Tail(q) = Tail(p) /\ Head(q) = Head(p)
                    BY <2>3, <2>13, <4>1
                <5>2. <<Head(q)>> \o Tail(q) = <<Head(p)>> \o Tail(p)
                    BY <5>1
                <5> QED
                    BY <2>11, <5>2
            <4> QED
                BY <4>1
        <3>2. ChildOn(x, q) = c /\ ChildOn(y, q) = d
            BY <2>3, <2>8, <2>11, <2>13 DEF ChildOn
        <3>3. NodeAt(d, Tail(q)) = Leaf(t)
            <4>1. PICK v \in Path : v = Tail(q) /\ v # r
                BY <2>11, <3>1
            <4>2. NodeAt(c, v) = Leaf(t)
                BY <2>10, <3>2, <4>1
            <4>3. \A w \in Path : \A u : w # r /\ NodeAt(c, w) = Leaf(u) => NodeAt(WithNode(c, r, Leaf(e)), w) = Leaf(u)
                BY <2>4
            <4> QED
                BY <2>5, <4>1, <4>2, <4>3
        <3> QED
            BY <2>6, <2>12, <3>2, <3>3
    <2>14. CASE Head(q) # i
        <3>1. ChildOn(y, q) = ChildOn(x, q)
            BY <2>8, <2>11, <2>14 DEF ChildOn
        <3> QED
            BY <2>6, <2>10, <2>12, <3>1
    <2> QED
        BY <2>13, <2>14
<1>3. \A p \in Path : p \in G
    <2> HIDE DEF G
    <2> QED
        BY <1>1, <1>2, InductionOnTail DEF Path
<1> QED
    BY <1>3

-----------------------------------------------------------------------------
(* A session with another name, in one layout.                              *)

RenamesPanes(f, old, new) ==
    f = [node \in Layout |->
            IF IsLeaf(node) THEN IF node.session = old THEN Leaf(new) ELSE node
            ELSE SplitOf(node.split, Along(node.children, f))]

\* Renamed is a function on layouts.
LEMMA RenamedFunction ==
    ASSUME NEW old \in Content, NEW new \in Content
    PROVE  \E f \in [Layout -> Layout] : RenamesPanes(f, old, new) /\ \A x : Renamed(x, old, new) = f[x]
<1> DEFINE V == Layout
           leaf == [x \in Layout |-> IF IsLeaf(x) THEN IF x.session = old THEN Leaf(new) ELSE x ELSE x]
           Join(x, vs) == IF SplitOf(x.split, vs) \in Layout THEN SplitOf(x.split, vs) ELSE x
           join == [arg \in Layout \X Seq(V) |-> Join(arg[1], arg[2])]
           renamed == CHOOSE g : g = [node \in Layout |->
                          IF IsLeaf(node) THEN IF node.session = old THEN Leaf(new) ELSE node
                          ELSE SplitOf(node.split, [i \in DOMAIN node.children |-> g[node.children[i]]])]
<1>1. V # {} /\ leaf \in [Layout -> V] /\ join \in [Layout \X Seq(V) -> V]
    <2>1. Leaf(new) \in Layout
        BY PaneFacts DEF Shown
    <2>2. \A x \in Layout, vs \in Seq(V) : Join(x, vs) \in V
        OBVIOUS
    <2> HIDE DEF Join
    <2> QED
        BY <2>1, <2>2
<1>2. \A x \in Layout, vs \in Seq(V) : join[<<x, vs>>] = Join(x, vs)
    <2> HIDE DEF V, Join
    <2> QED
        OBVIOUS
<1> HIDE DEF join, V
<1>3. PICK f \in [Layout -> V] : Defines(f, V, leaf, join)
    <2> HIDE DEF leaf
    <2> QED
        BY <1>1, LayoutRecursion
<1>4. \A x \in Layout : IsLeaf(x) => f[x] = IF x.session = old THEN Leaf(new) ELSE x
    BY <1>3 DEF Defines
<1>5. \A x \in Layout : ~IsLeaf(x) => f[x] = Join(x, Along(x.children, f))
    <2>1. \A x \in Layout : ~IsLeaf(x) => Along(x.children, f) \in Seq(V)
        BY LayoutFacts, AlongFacts DEF Maps, V
    <2> SUFFICES ASSUME NEW x \in Layout, ~IsLeaf(x)
                 PROVE  f[x] = Join(x, Along(x.children, f))
        OBVIOUS
    <2>2. PICK vs \in Seq(V) : vs = Along(x.children, f)
        BY <2>1
    <2>3. f[x] = join[<<x, vs>>]
        BY <1>3, <2>2 DEF Defines
    <2> HIDE DEF Join
    <2>4. join[<<x, vs>>] = Join(x, vs)
        BY <1>2
    <2> QED
        BY <2>2, <2>3, <2>4
<1>6. \A x \in Layout : ~IsLeaf(x) => f[x] = SplitOf(x.split, Along(x.children, f))
    <2> DEFINE G == {x \in Layout : \A n \in Nat : n <= MaxLevels /\ x \in OfLevels[n] => f[x] \in OfLevels[n]}
    <2>1. ASSUME NEW x \in Layout, IsLeaf(x)
          PROVE  x \in G
        <3> SUFFICES ASSUME NEW n \in Nat, x \in OfLevels[n]
                     PROVE  f[x] \in OfLevels[n]
            OBVIOUS
        <3>1. n # 0
            BY LevelsFacts
        <3>2. Leaf(new) \in OfLevels[n]
            BY <3>1, LeafFacts
        <3> QED
            BY <1>4, <2>1, <3>2
    <2>2. ASSUME NEW x \in Layout, ~IsLeaf(x), \A i \in 1 .. Len(x.children) : x.children[i] \in G,
                 NEW n \in Nat, n <= MaxLevels, x \in OfLevels[n]
          PROVE  f[x] \in OfLevels[n] /\ f[x] = SplitOf(x.split, Along(x.children, f))
        <3>1. /\ x.split \in {"h", "v"} /\ n # 0 /\ n - 1 \in Nat
              /\ x.children \in Seq(OfLevels[n - 1])
            BY <2>2, NodeFacts
        <3>2. PICK k \in Nat : k = n - 1 /\ k + 1 = n /\ k <= MaxLevels
            BY <2>2, <3>1, LayoutTreeAssumption
        <3>3. PICK cs \in Seq(OfLevels[k]) : cs = x.children
            BY <3>1, <3>2
        <3>4. Len(cs) \in Nat /\ DOMAIN cs = 1 .. Len(cs) /\ \A i \in 1 .. Len(cs) : cs[i] \in OfLevels[k]
            BY LenProperties, ElementOfSeq
        <3>5. \A i \in 1 .. Len(cs) : f[cs[i]] \in OfLevels[k]
            BY <2>2, <3>2, <3>3, <3>4
        <3>6. PICK ds \in Seq(OfLevels[k]) : ds = Along(x.children, f)
            <4>1. Along(x.children, f) = [i \in 1 .. Len(cs) |-> f[cs[i]]]
                BY <3>3, <3>4 DEF Along
            <4> QED
                BY <3>4, <3>5, <4>1
        <3>7. PICK d \in {"h", "v"} : d = x.split
            BY <3>1
        <3>8. SplitOf(d, ds) \in OfLevels[k + 1]
            BY SplitFacts
        <3>9. SplitOf(d, ds) \in OfLevels[n] /\ SplitOf(d, ds) \in Layout
            BY <2>2, <3>2, <3>8, LevelsInLayout
        <3> QED
            BY <1>5, <2>2, <3>6, <3>7, <3>9
    <2>3. \A x \in Layout : x \in G
        <3>1. \A x \in Layout : ~IsLeaf(x) /\ (\A i \in 1 .. Len(x.children) : x.children[i] \in G) => x \in G
            BY <2>2
        <3> HIDE DEF G
        <3> QED
            BY <2>1, <3>1, LayoutInduction
    <2>4. ASSUME NEW x \in Layout, ~IsLeaf(x)
          PROVE  f[x] = SplitOf(x.split, Along(x.children, f))
        <3>1. x.children \in Seq(Layout)
            BY <2>4, LayoutFacts
        <3>2. \A i \in 1 .. Len(x.children) : x.children[i] \in G
            <4> HIDE DEF G
            <4> QED
                BY <2>3, <3>1, ElementOfSeq
        <3>3. MaxLevels \in Nat /\ MaxLevels <= MaxLevels /\ x \in OfLevels[MaxLevels]
            BY LayoutTreeAssumption DEF Layout
        <3> QED
            BY <2>2, <2>4, <3>2, <3>3
    <2> QED
        BY <2>4
<1>7. RenamesPanes(f, old, new)
    <2>1. f = [x \in Layout |-> f[x]]
        BY <1>3
    <2>2. \A x \in Layout : f[x] = IF IsLeaf(x) THEN IF x.session = old THEN Leaf(new) ELSE x
                                   ELSE SplitOf(x.split, Along(x.children, f))
        BY <1>4, <1>6
    <2> HIDE DEF V
    <2> QED
        BY <2>1, <2>2 DEF RenamesPanes
<1>8. renamed = [node \in Layout |->
                    IF IsLeaf(node) THEN IF node.session = old THEN Leaf(new) ELSE node
                    ELSE SplitOf(node.split, [i \in DOMAIN node.children |-> renamed[node.children[i]]])]
    <2>1. f = [node \in Layout |->
                    IF IsLeaf(node) THEN IF node.session = old THEN Leaf(new) ELSE node
                    ELSE SplitOf(node.split, [i \in DOMAIN node.children |-> f[node.children[i]]])]
        BY <1>7 DEF RenamesPanes, Along
    <2> QED
        BY <2>1
<1>9. \A x : Renamed(x, old, new) = renamed[x]
    BY DEF Renamed, renamed
<1> HIDE DEF renamed, Join, leaf
<1>10. renamed = f
    <2> DEFINE G == {x \in Layout : renamed[x] = f[x]}
    <2>1. ASSUME NEW x \in Layout, IsLeaf(x)
          PROVE  x \in G
        BY <1>4, <1>8, <2>1
    <2>2. ASSUME NEW x \in Layout, ~IsLeaf(x), \A i \in 1 .. Len(x.children) : x.children[i] \in G
          PROVE  x \in G
        <3>1. DOMAIN x.children = 1 .. Len(x.children)
            BY <2>2, LayoutFacts, LenProperties
        <3>2. [i \in DOMAIN x.children |-> renamed[x.children[i]]] = Along(x.children, f)
            BY <2>2, <3>1 DEF Along
        <3>3. renamed[x] = SplitOf(x.split, [i \in DOMAIN x.children |-> renamed[x.children[i]]])
            BY <1>8, <2>2
        <3> QED
            BY <1>6, <2>2, <3>2, <3>3
    <2>3. \A x \in Layout : x \in G
        <3> HIDE DEF G
        <3> QED
            BY <2>1, <2>2, LayoutInduction
    <2>4. renamed = [x \in Layout |-> renamed[x]] /\ f = [x \in Layout |-> f[x]]
        BY <1>3, <1>8
    <2> QED
        BY <2>3, <2>4
<1> QED
    BY <1>3, <1>7, <1>9, <1>10 DEF V

\* It keeps the tree, and every pane of another session.
LEMMA RenamedFacts ==
    ASSUME NEW old \in Content, NEW new \in Content
    PROVE  /\ \A x \in Layout : /\ Renamed(x, old, new) \in Layout
                                /\ Paths(Renamed(x, old, new)) = Paths(x)
                                /\ Full(x) => Full(Renamed(x, old, new))
           /\ \A p \in Path : \A x \in Layout : \A t : t # old /\ NodeAt(x, p) = Leaf(t) =>
                 NodeAt(Renamed(x, old, new), p) = Leaf(t)
<1>1. PICK f \in [Layout -> Layout] : RenamesPanes(f, old, new) /\ \A x : Renamed(x, old, new) = f[x]
    BY RenamedFunction
<1>2. ASSUME NEW x \in Layout, IsLeaf(x)
      PROVE  /\ f[x] = IF x.session = old THEN Leaf(new) ELSE x
             /\ f[x] \in Layout /\ IsLeaf(f[x])
    <2>1. f[x] = IF x.session = old THEN Leaf(new) ELSE x
        BY <1>1, <1>2 DEF RenamesPanes
    <2> QED
        BY <1>1, <1>2, <2>1, PaneFacts DEF Shown
<1>3. ASSUME NEW x \in Layout, ~IsLeaf(x)
      PROVE  /\ f[x] \in Layout /\ ~IsLeaf(f[x]) /\ f[x].children = Along(x.children, f)
             /\ f[x].children \in Seq(Layout) /\ x.children \in Seq(Layout)
             /\ Len(f[x].children) = Len(x.children) /\ Len(x.children) \in Nat
             /\ DOMAIN x.children = 1 .. Len(x.children) /\ DOMAIN f[x].children = 1 .. Len(x.children)
             /\ \A i \in 1 .. Len(x.children) : x.children[i] \in Layout /\ f[x].children[i] = f[x.children[i]]
    <2>1. f[x] = SplitOf(x.split, Along(x.children, f))
        BY <1>1, <1>3 DEF RenamesPanes
    <2>2. ~IsLeaf(f[x]) /\ f[x].children = Along(x.children, f)
        BY <2>1 DEF SplitOf, IsLeaf
    <2>3. PICK cs \in Seq(Layout) : cs = x.children
        BY <1>3, LayoutFacts
    <2>4. Maps(f, Layout, Layout)
        BY <1>1 DEF Maps
    <2>5. /\ Along(cs, f) \in Seq(Layout) /\ Len(Along(cs, f)) = Len(cs)
          /\ \A i \in 1 .. Len(cs) : cs[i] \in Layout /\ Along(cs, f)[i] = f[cs[i]]
        BY <2>4, AlongFacts
    <2>6. Len(cs) \in Nat /\ DOMAIN cs = 1 .. Len(cs) /\ DOMAIN Along(cs, f) = 1 .. Len(cs)
        BY <2>5, LenProperties
    <2> QED
        BY <1>1, <2>2, <2>3, <2>5, <2>6
<1>4. \A x \in Layout : Paths(f[x]) = Paths(x) /\ (Full(x) => Full(f[x]))
    <2> DEFINE G == {x \in Layout : Paths(f[x]) = Paths(x) /\ (Full(x) => Full(f[x]))}
    <2>1. ASSUME NEW x \in Layout, IsLeaf(x)
          PROVE  x \in G
        BY <1>2, <2>1, PathsFacts, FullFacts
    <2>2. ASSUME NEW x \in Layout, ~IsLeaf(x), \A i \in 1 .. Len(x.children) : x.children[i] \in G
          PROVE  x \in G
        <3>1. PICK y \in Layout : y = f[x]
            BY <1>1
        <3>2. /\ ~IsLeaf(y) /\ DOMAIN x.children = 1 .. Len(x.children) /\ DOMAIN y.children = 1 .. Len(x.children)
              /\ Len(y.children) = Len(x.children)
              /\ \A i \in 1 .. Len(x.children) : x.children[i] \in Layout /\ y.children[i] = f[x.children[i]]
            BY <1>3, <2>2, <3>1
        <3>3. AllPaths(y.children) = AllPaths(x.children)
            <4>1. [i \in DOMAIN y.children |-> Paths(y.children[i])] = [i \in DOMAIN x.children |-> Paths(x.children[i])]
                BY <2>2, <3>2
            <4> QED
                BY <4>1 DEF AllPaths
        <3>4. Paths(y) = Paths(x)
            BY <2>2, <3>2, <3>3, PathsFacts
        <3>5. ASSUME Full(x)
              PROVE  Full(y)
            <4>1. Len(x.children) >= 2 /\ \A i \in 1 .. Len(x.children) : Full(x.children[i])
                BY <2>2, <3>5, FullFacts
            <4>2. \A i \in 1 .. Len(y.children) : Full(y.children[i])
                BY <2>2, <3>2, <4>1
            <4> QED
                BY <3>2, <4>1, <4>2, FullFacts
        <3> QED
            BY <3>1, <3>4, <3>5
    <2>3. \A x \in Layout : x \in G
        <3> HIDE DEF G
        <3> QED
            BY <2>1, <2>2, LayoutInduction
    <2> QED
        BY <2>3
<1>5. \A p \in Path : \A x \in Layout : \A t : t # old /\ NodeAt(x, p) = Leaf(t) => NodeAt(f[x], p) = Leaf(t)
    <2> DEFINE G == {p \in Path : \A x \in Layout : \A t : t # old /\ NodeAt(x, p) = Leaf(t) => NodeAt(f[x], p) = Leaf(t)}
    <2>0. \A t : IsLeaf(Leaf(t)) /\ Leaf(t).session = t /\ Leaf(t) # Nothing
        BY DEF IsLeaf, Leaf, Nothing
    <2>1. <<>> \in G
        <3>1. <<>> \in Path
            BY EmptySeq DEF Path
        <3>2. ASSUME NEW x \in Layout, NEW t, t # old, NodeAt(x, <<>>) = Leaf(t)
              PROVE  NodeAt(f[x], <<>>) = Leaf(t)
            <4>1. x = Leaf(t) /\ IsLeaf(x) /\ x.session = t
                BY <2>0, <3>2, NodeAtEquation
            <4>2. f[x] = x
                BY <1>2, <3>2, <4>1
            <4> QED
                BY <3>2, <4>2
        <3> QED
            BY <3>1, <3>2
    <2>2. ASSUME NEW p \in Path, p # <<>>, Tail(p) \in G
          PROVE  p \in G
        <3> SUFFICES ASSUME NEW x \in Layout, NEW t, t # old, NodeAt(x, p) = Leaf(t)
                     PROVE  NodeAt(f[x], p) = Leaf(t)
            OBVIOUS
        <3>1. Leads(x, p) /\ NodeAt(x, p) = NodeAt(ChildOn(x, p), Tail(p))
            BY <2>0, <2>2, NodeAtEquation
        <3>2. PICK y \in Layout : y = f[x]
            BY <1>1
        <3>3. PICK i \in 1 .. Len(x.children), c \in Layout, r \in Path :
                  i = Head(p) /\ c = ChildOn(x, p) /\ r = Tail(p) /\ c = x.children[i] /\ ~IsLeaf(x)
            BY <2>2, <3>1, LeadsFacts DEF ChildOn
        <3>4. ~IsLeaf(y) /\ DOMAIN y.children = DOMAIN x.children /\ y.children[i] = f[c]
            BY <1>3, <3>2, <3>3
        <3>5. Leads(y, p) /\ ChildOn(y, p) = f[c]
            BY <3>1, <3>3, <3>4 DEF Leads, ChildOn
        <3>6. NodeAt(y, p) = NodeAt(f[c], r)
            BY <2>2, <3>3, <3>5, NodeAtEquation
        <3>7. NodeAt(c, r) = Leaf(t) /\ r \in G
            BY <2>2, <3>1, <3>3
        <3> QED
            BY <3>2, <3>6, <3>7
    <2>3. \A p \in Path : p \in G
        <3> HIDE DEF G
        <3> QED
            BY <2>1, <2>2, InductionOnTail DEF Path
    <2> QED
        BY <2>3
<1> QED
    BY <1>1, <1>4, <1>5

-----------------------------------------------------------------------------
(* Layouts within the bound of panes, and the operations that keep to it.   *)

Fits(x) == x \in Layout /\ Full(x) /\ Len(Leaves(x)) \in 1 .. MaxPanesHeld

\* Fewer panes than levels.
LEMMA FitsFacts ==
    ASSUME NEW x, Fits(x)
    PROVE  /\ x \in Layout /\ Full(x) /\ MaxPanesHeld \in Nat /\ MaxLevels \in Nat /\ MaxPanesHeld < MaxLevels
           /\ \E n \in Nat : n = Len(Leaves(x)) /\ 1 <= n /\ n <= MaxPanesHeld /\ n < MaxLevels
<1>1. MaxPanesHeld \in Nat /\ MaxLevels \in Nat /\ MaxPanesHeld < MaxLevels
    BY PaneTargetsAssumption, LayoutTreeAssumption
<1>2. PICK n \in Nat : n = Len(Leaves(x)) /\ 1 <= n /\ n <= MaxPanesHeld
    BY <1>1 DEF Fits
<1> QED
    BY <1>1, <1>2 DEF Fits

\* What is shown fits if it is not too much.
LEMMA ShownFits ==
    ASSUME NEW y, NEW panes, Shows(y, panes), NEW m \in Nat, Len(panes) <= m, m <= MaxPanesHeld
    PROVE  Fits(y)
<1>1. y \in Layout /\ Full(y) /\ Leaves(y) = panes
    BY DEF Shows
<1>2. Len(Leaves(y)) >= 1
    BY <1>1, FullIsMeasured DEF Measured
<1>3. Len(Leaves(y)) \in Nat
    BY <1>1, LeavesFacts, LenProperties
<1> QED
    BY <1>1, <1>2, <1>3, PaneTargetsAssumption DEF Fits

\* autoArrangeLayout keeps to it.
LEMMA ArrangedFits ==
    ASSUME NEW y, Fits(y)
    PROVE  Fits(AutoArrange(y))
<1>1. PICK n \in Nat : n = Len(Leaves(y)) /\ 1 <= n /\ n <= MaxPanesHeld /\ n < MaxLevels
    BY FitsFacts
<1>2. y \in Layout /\ Len(Leaves(y)) >= 1 /\ Len(Leaves(y)) <= MaxLevels
    BY <1>1, FitsFacts
<1>3. PICK panes : panes = Leaves(y) /\ Shows(AutoArrange(y), panes)
    BY <1>2, AutoArrangeFacts
<1> QED
    BY <1>1, <1>3, ShownFits

\* How many panes stand before and after a node.
LEMMA AroundNode ==
    ASSUME NEW x \in Layout, NEW p \in Path, NodeAt(x, p) \in Layout
    PROVE  \E a, b, c \in Seq(Shown) :
              /\ a = Ahead(x, p) /\ b = Behind(x, p) /\ c = Leaves(NodeAt(x, p))
              /\ Len(Leaves(x)) = Len(a) + Len(c) + Len(b)
              /\ Len(a) \in Nat /\ Len(b) \in Nat /\ Len(c) \in Nat
<1>1. PICK a \in Seq(Shown), b \in Seq(Shown), c \in Seq(Shown) :
          a = Ahead(x, p) /\ b = Behind(x, p) /\ c = Leaves(NodeAt(x, p))
    BY AheadEquation, BehindEquation, LeavesFacts
<1>2. Leaves(x) = Cat(Cat(a, c), b)
    BY <1>1, InContext
<1>3. Cat(a, c) \in Seq(Shown) /\ Len(Cat(a, c)) = Len(a) + Len(c) /\ Len(a) \in Nat /\ Len(c) \in Nat
    BY CatElements
<1>4. PICK u \in Seq(Shown) : u = Cat(a, c) /\ Len(u) = Len(a) + Len(c)
    BY <1>3
<1>5. Len(Cat(u, b)) = Len(u) + Len(b) /\ Len(b) \in Nat
    BY CatElements
<1> QED
    BY <1>1, <1>2, <1>3, <1>4, <1>5

\* How many panes stand in a row, one by one.
LEMMA LengthsTogether ==
    ASSUME NEW a \in Seq(Shown), NEW b \in Seq(Shown), NEW s \in Shown, NEW t \in Shown
    PROVE  /\ Len(a) \in Nat /\ Len(b) \in Nat
           /\ Len(Cat(a, b)) = Len(a) + Len(b)
           /\ Len(Cat(Cat(a, Cat(<<s>>, <<t>>)), b)) = Len(a) + 2 + Len(b)
           /\ Len(Cat(Cat(a, <<s>>), Cat(<<t>>, b))) = Len(a) + 2 + Len(b)
           /\ Len(Cat(Cat(Cat(a, <<t>>), <<s>>), b)) = Len(a) + 2 + Len(b)
           /\ Len(Cat(<<s>>, <<t>>)) = 2
<1>1. PICK u \in Seq(Shown), v \in Seq(Shown) : u = <<s>> /\ v = <<t>> /\ Len(u) = 1 /\ Len(v) = 1
    <2>1. <<s>> \in Seq(Shown) /\ Len(<<s>>) = 1
        OBVIOUS
    <2>2. <<t>> \in Seq(Shown) /\ Len(<<t>>) = 1
        OBVIOUS
    <2> QED
        BY <2>1, <2>2
<1>2. Len(u) = 1 /\ Len(v) = 1
    BY <1>1
<1>3. PICK m \in Nat, n \in Nat : m = Len(a) /\ n = Len(b)
    BY LenProperties
<1>4. Len(Cat(Cat(a, Cat(u, v)), b)) = m + 2 + n /\ Len(Cat(u, v)) = 2
    <2>1. Cat(u, v) \in Seq(Shown) /\ Len(Cat(u, v)) = Len(u) + Len(v)
        BY CatElements
    <2>2. PICK w \in Seq(Shown) : w = Cat(u, v) /\ Len(w) = 2
        BY <1>2, <2>1
    <2>3. Cat(a, w) \in Seq(Shown) /\ Len(Cat(a, w)) = Len(a) + Len(w)
        BY CatElements
    <2>4. PICK z \in Seq(Shown) : z = Cat(a, w) /\ Len(z) = m + 2
        BY <1>3, <2>2, <2>3
    <2>5. Len(Cat(z, b)) = Len(z) + Len(b)
        BY CatElements
    <2> QED
        BY <1>3, <2>2, <2>4, <2>5
<1>5. Len(Cat(Cat(a, u), Cat(v, b))) = m + 2 + n
    <2>1. /\ Cat(a, u) \in Seq(Shown) /\ Len(Cat(a, u)) = Len(a) + Len(u)
          /\ Cat(v, b) \in Seq(Shown) /\ Len(Cat(v, b)) = Len(v) + Len(b)
        BY CatElements
    <2>2. PICK w \in Seq(Shown), z \in Seq(Shown) :
              w = Cat(a, u) /\ z = Cat(v, b) /\ Len(w) = m + 1 /\ Len(z) = 1 + n
        BY <1>2, <1>3, <2>1
    <2>3. Len(Cat(w, z)) = Len(w) + Len(z)
        BY CatElements
    <2> QED
        BY <2>2, <2>3
<1>6. Len(Cat(Cat(Cat(a, v), u), b)) = m + 2 + n
    <2>1. Cat(a, v) \in Seq(Shown) /\ Len(Cat(a, v)) = Len(a) + Len(v)
        BY CatElements
    <2>2. PICK w \in Seq(Shown) : w = Cat(a, v) /\ Len(w) = m + 1
        BY <1>2, <1>3, <2>1
    <2>3. Cat(w, u) \in Seq(Shown) /\ Len(Cat(w, u)) = Len(w) + Len(u)
        BY CatElements
    <2>4. PICK z \in Seq(Shown) : z = Cat(w, u) /\ Len(z) = m + 2
        BY <1>2, <2>2, <2>3
    <2>5. Len(Cat(z, b)) = Len(z) + Len(b)
        BY CatElements
    <2> QED
        BY <1>3, <2>2, <2>4, <2>5
<1>7. Len(Cat(a, b)) = m + n
    <2>1. Len(Cat(a, b)) = Len(a) + Len(b)
        BY CatElements
    <2> QED
        BY <1>3, <2>1
<1> QED
    BY <1>1, <1>3, <1>4, <1>5, <1>6, <1>7

\* A path that leads to a leaf leads to a pane.
LEMMA LeafIsPane ==
    ASSUME NEW x \in Layout, NEW p \in Path, NodeAt(x, p) # Nothing, IsLeaf(NodeAt(x, p))
    PROVE  \E s \in Shown : PaneAt(x, p, s)
<1>1. NodeAt(x, p) \in Layout
    BY NodeOrNothing
<1>2. PICK s \in Shown : NodeAt(x, p) = Leaf(s)
    BY <1>1, LayoutFacts DEF Shown
<1>3. Leaves(x) = Cat(Cat(Ahead(x, p), <<s>>), Behind(x, p))
    BY <1>1, <1>2, InContext, PaneFacts
<1> QED
    BY <1>2, <1>3 DEF PaneAt

\* splitPaneAt, of whatever the path leads to.
LEMMA SplitFits ==
    ASSUME NEW x, Fits(x), Len(Leaves(x)) < MaxPanesHeld, NEW p \in Path, NEW d \in {"h", "v"}
    PROVE  Fits(SplitPaneAt(x, p, d, EmptyPane))
<1>1. PICK n \in Nat : n = Len(Leaves(x)) /\ 1 <= n /\ n <= MaxPanesHeld /\ n < MaxLevels /\ n < MaxPanesHeld
    BY FitsFacts
<1>2. x \in Layout /\ Full(x) /\ EmptyPane \in Shown /\ MaxPanesHeld \in Nat
    BY FitsFacts DEF Shown
<1>3. CASE NodeAt(x, p) = Nothing \/ ~IsLeaf(NodeAt(x, p))
    BY <1>3 DEF SplitPaneAt
<1>4. CASE NodeAt(x, p) # Nothing /\ IsLeaf(NodeAt(x, p))
    <2>1. PICK s \in Shown : PaneAt(x, p, s)
        BY <1>2, <1>4, LeafIsPane
    <2>2. PICK y, panes : /\ y = SplitPaneAt(x, p, d, EmptyPane)
                          /\ panes = Cat(Cat(Ahead(x, p), Cat(<<s>>, <<EmptyPane>>)), Behind(x, p))
        OBVIOUS
    <2>3. Shows(y, panes)
        BY <1>1, <1>2, <2>1, <2>2, SplitPaneAtShows
    <2>4. NodeAt(x, p) = Leaf(s) /\ NodeAt(x, p) \in Layout /\ Leaves(NodeAt(x, p)) = <<s>>
        BY <2>1, PaneFacts DEF PaneAt
    <2>5. Len(<<s>>) = 1
        OBVIOUS
    <2>6. PICK a \in Seq(Shown), b \in Seq(Shown), c \in Seq(Shown) :
              /\ a = Ahead(x, p) /\ b = Behind(x, p) /\ c = <<s>>
              /\ n = Len(a) + Len(c) + Len(b)
        BY <1>1, <1>2, <2>1, <2>4, AroundNode DEF PaneAt
    <2>7. panes = Cat(Cat(a, Cat(<<s>>, <<EmptyPane>>)), b)
        BY <2>2, <2>6
    <2>8. Len(panes) = Len(a) + 2 + Len(b) /\ Len(a) \in Nat /\ Len(b) \in Nat
        BY <1>2, <2>1, <2>7, LengthsTogether
    <2>9. Len(panes) = n + 1
        BY <2>5, <2>6, <2>8
    <2>11. PICK m \in Nat : m = n + 1 /\ m <= MaxPanesHeld
        BY <1>1, <1>2
    <2> QED
        BY <2>2, <2>3, <2>9, <2>11, ShownFits
<1> QED
    BY <1>3, <1>4

\* removePane, of whatever the path leads to.
LEMMA RemoveFits ==
    ASSUME NEW x, Fits(x), NEW p \in Path, RemovePane(x, p) # Nothing
    PROVE  Fits(RemovePane(x, p))
<1>1. PICK n \in Nat : n = Len(Leaves(x)) /\ 1 <= n /\ n <= MaxPanesHeld /\ n < MaxLevels
    BY FitsFacts
<1>2. x \in Layout /\ Full(x)
    BY FitsFacts
<1>3. p # <<>>
    BY DEF RemovePane
<1>4. CASE NodeAt(x, p) \in Layout
    <2>1. PICK y, panes : y = RemovePane(x, p) /\ panes = Cat(Ahead(x, p), Behind(x, p))
        OBVIOUS
    <2>2. Shows(y, panes)
        BY <1>1, <1>2, <1>3, <1>4, <2>1, RemoveNodeShows
    <2>3. PICK a \in Seq(Shown), b \in Seq(Shown), c \in Seq(Shown) :
              /\ a = Ahead(x, p) /\ b = Behind(x, p) /\ n = Len(a) + Len(c) + Len(b)
              /\ Len(a) \in Nat /\ Len(b) \in Nat /\ Len(c) \in Nat
        BY <1>1, <1>2, <1>4, AroundNode
    <2>4. panes = Cat(a, b) /\ Len(Cat(a, b)) = Len(a) + Len(b)
        BY <2>1, <2>3, CatElements
    <2>5. Len(panes) <= n
        BY <2>3, <2>4
    <2> QED
        BY <1>1, <2>1, <2>2, <2>5, ShownFits
<1>5. CASE NodeAt(x, p) \notin Layout
    <2>1. PICK f \in Path, i \in Nat : p = Append(f, i)
        BY <1>3, SequenceEmptyOrAppend DEF Path
    <2>2. Front(p) = f /\ Last(p) = i
        BY <2>1, PathsOneByOne
    <2>3. NodeAt(x, f) = Nothing \/ IsLeaf(NodeAt(x, f)) \/ i \notin DOMAIN NodeAt(x, f).children
        BY <1>2, <1>5, <2>1, NodeOrNothing, ChildBelow
    <2>4. RemovePane(x, p) = x
        BY <1>3, <2>2, <2>3 DEF RemovePane
    <2> QED
        BY <2>4
<1> QED
    BY <1>4, <1>5

\* movePane.
LEMMA MoveFits ==
    ASSUME NEW x, Fits(x), NEW s \in Content, NEW t \in Content, NEW position
    PROVE  Fits(MovePane(x, s, t, position))
<1>1. PICK n \in Nat : n = Len(Leaves(x)) /\ 1 <= n /\ n <= MaxPanesHeld /\ n < MaxLevels
    BY FitsFacts
<1>2. x \in Layout /\ Full(x) /\ s \in Shown /\ t \in Shown
    BY FitsFacts DEF Shown
<1>3. CASE s = t \/ ~({s, t} \subseteq ToSet(Leaves(x)))
    BY <1>3 DEF MovePane
<1>4. ASSUME s # t, s \in ToSet(Leaves(x)), t \in ToSet(Leaves(x)), position = "swap"
      PROVE  Fits(MovePane(x, s, t, position))
    <2>1. PICK k, l \in 1 .. Len(Leaves(x)) :
              Shows(WithNode(WithNode(x, PathOf(x, s), Leaf(t)), PathOf(x, t), Leaf(s)),
                    [[Leaves(x) EXCEPT ![k] = t] EXCEPT ![l] = s])
        BY <1>2, <1>4, SwapShows
    <2>2. MovePane(x, s, t, position) = WithNode(WithNode(x, PathOf(x, s), Leaf(t)), PathOf(x, t), Leaf(s))
        BY <1>4 DEF MovePane
    <2>3. PICK u \in Seq(Shown) : u = Leaves(x)
        BY <1>2, LeavesFacts
    <2>4. PICK z \in Seq(Shown) : z = [u EXCEPT ![k] = t] /\ Len(z) = Len(u)
        <3>1. [u EXCEPT ![k] = t] \in Seq(Shown) /\ Len([u EXCEPT ![k] = t]) = Len(u)
            BY <1>2, <2>1, <2>3
        <3> QED
            BY <3>1
    <2>5. Len([z EXCEPT ![l] = s]) = n
        BY <1>1, <1>2, <2>1, <2>3, <2>4
    <2>6. PICK y, panes : y = MovePane(x, s, t, position) /\ panes = [z EXCEPT ![l] = s] /\ Shows(y, panes)
        BY <2>1, <2>2, <2>3, <2>4
    <2>7. Len(panes) <= n
        BY <2>5, <2>6
    <2> QED
        BY <1>1, <2>6, <2>7, ShownFits
<1>5. ASSUME s # t, s \in ToSet(Leaves(x)), t \in ToSet(Leaves(x)), position # "swap"
      PROVE  Fits(MovePane(x, s, t, position))
    <2>1. PICK a \in Seq(Shown), b \in Seq(Shown) :
              /\ Cat(Ahead(x, PathOf(x, s)), Behind(x, PathOf(x, s))) = Cat(Cat(a, <<t>>), b)
              /\ Shows(MoveBeside(x, s, t, position), NextTo(a, s, t, b, Before(position)))
        BY <1>1, <1>2, <1>5, MoveShows
    <2>2. PICK y, panes : /\ y = MovePane(x, s, t, position) /\ panes = NextTo(a, s, t, b, Before(position))
                          /\ Shows(y, panes)
        BY <1>5, <2>1 DEF MovePane
    <2>3. PICK p : p = PathOf(x, s) /\ PaneAt(x, p, s)
        BY <1>2, <1>5, PathOfFacts
    <2>4. p \in Path /\ NodeAt(x, p) \in Layout /\ Leaves(NodeAt(x, p)) = <<s>> /\ Len(<<s>>) = 1
        BY <1>2, <2>3, PaneFacts DEF PaneAt
    <2>5. PICK c \in Seq(Shown), d \in Seq(Shown) :
              /\ c = Ahead(x, p) /\ d = Behind(x, p)
              /\ n = Len(c) + 1 + Len(d) /\ Len(c) \in Nat /\ Len(d) \in Nat
        BY <1>1, <1>2, <2>4, AroundNode
    <2>6. Len(Cat(c, d)) = Len(c) + Len(d)
        BY CatElements
    <2>7. Len(Cat(Cat(a, <<t>>), b)) = Len(a) + 1 + Len(b) /\ Len(a) \in Nat /\ Len(b) \in Nat
        BY <1>2, CatPlace, LenProperties
    <2>8. Len(a) + 1 + Len(b) = n - 1
        <3>1. PICK w : w = Cat(c, d) /\ w = Cat(Cat(a, <<t>>), b)
            BY <2>1, <2>3, <2>5
        <3>2. Len(w) = Len(c) + Len(d) /\ Len(w) = Len(a) + 1 + Len(b)
            BY <2>6, <2>7, <3>1
        <3>3. n = Len(c) + 1 + Len(d) /\ Len(c) \in Nat /\ Len(d) \in Nat /\ Len(a) \in Nat /\ Len(b) \in Nat
            BY <2>5, <2>7
        <3> QED
            BY <3>2, <3>3
    <2>10. Len(panes) = Len(a) + 2 + Len(b)
        <3>1. /\ Len(Cat(Cat(a, <<s>>), Cat(<<t>>, b))) = Len(a) + 2 + Len(b)
              /\ Len(Cat(Cat(Cat(a, <<t>>), <<s>>), b)) = Len(a) + 2 + Len(b)
            BY <1>2, LengthsTogether
        <3> QED
            BY <2>2, <3>1 DEF NextTo
    <2>11. Len(panes) <= n
        BY <2>7, <2>8, <2>10
    <2> QED
        BY <1>1, <2>2, <2>11, ShownFits
<1> QED
    BY <1>3, <1>4, <1>5

\* Another session in a pane.
LEMMA AssignFits ==
    ASSUME NEW x, Fits(x), NEW p \in Path, NEW s \in Shown, NodeAt(x, p) = Leaf(s), NEW e \in Shown
    PROVE  Fits(WithNode(x, p, Leaf(e)))
<1>1. x \in Layout /\ Full(x)
    BY FitsFacts
<1>2. PICK y : y = WithNode(x, p, Leaf(e))
    OBVIOUS
<1>3. y \in Layout /\ Full(y)
    BY <1>1, <1>2, PanePut
<1>4. Paths(y) = Paths(x)
    BY <1>1, <1>2, PathsKept
<1>5. Len(Leaves(y)) = Len(Leaves(x))
    BY <1>1, <1>3, <1>4, PanesAreFound DEF PanesFound
<1> QED
    BY <1>2, <1>3, <1>5 DEF Fits

\* Another name of a session.
LEMMA RenamedFits ==
    ASSUME NEW x, Fits(x), NEW old \in Content, NEW new \in Content
    PROVE  Fits(Renamed(x, old, new))
<1>1. x \in Layout /\ Full(x)
    BY FitsFacts
<1>2. PICK y : y = Renamed(x, old, new)
    OBVIOUS
<1>3. y \in Layout /\ Full(y) /\ Paths(y) = Paths(x)
    BY <1>1, <1>2, RenamedFacts
<1>4. Len(Leaves(y)) = Len(Leaves(x))
    BY <1>1, <1>3, PanesAreFound DEF PanesFound
<1> QED
    BY <1>2, <1>3, <1>4 DEF Fits

\* The layouts of one pane, and of two beside each other.
LEMMA FirstFits ==
    ASSUME NEW s \in Shown, NEW t \in Shown
    PROVE  Fits(Leaf(s)) /\ Fits(SplitOf("h", <<Leaf(s), Leaf(t)>>))
<1>1. MaxPanesHeld \in Nat /\ MaxPanesHeld >= 2 /\ MaxPanesHeld < MaxLevels /\ MaxLevels \in Nat
    BY PaneTargetsAssumption, LayoutTreeAssumption
<1>2. Fits(Leaf(s))
    <2>1. Len(<<s>>) = 1
        OBVIOUS
    <2>2. Leaf(s) \in Layout /\ Full(Leaf(s)) /\ Leaves(Leaf(s)) = <<s>>
        BY PaneFacts
    <2>3. 1 \in 1 .. MaxPanesHeld
        BY <1>1
    <2> QED
        BY <2>1, <2>2, <2>3 DEF Fits
<1>3. PICK j \in Nat : j = 2
    OBVIOUS
<1>4. PICK y \in OfLevels[j] : y = SplitOf("h", <<Leaf(s), Leaf(t)>>) /\ Full(y) /\ Leaves(y) = Cat(<<s>>, <<t>>)
    BY <1>1, <1>3, PairFacts
<1>5. y \in Layout
    BY <1>1, <1>3, LevelsInLayout
<1>6. Len(Leaves(y)) = 2
    <2>1. <<>> \in Seq(Shown)
        BY EmptySeq
    <2> QED
        BY <1>4, <2>1, LengthsTogether
<1>7. 2 \in 1 .. MaxPanesHeld
    BY <1>1
<1> QED
    BY <1>2, <1>4, <1>5, <1>6, <1>7 DEF Fits

-----------------------------------------------------------------------------
(***************************************************************************)
(* What the page holds of a pane (PaneTargets), for every set of sessions  *)
(* and of workspaces, and all layouts.                                     *)
(***************************************************************************)

\* A target has a path, and one that has not lapsed leads to the pane it was
\* taken for.
IsTarget(target) == \E path \in Path : \E s, lapsed : target = [path |-> path, session |-> s, lapsed |-> lapsed]
Sound(target) ==
    target # NoTarget => IsTarget(target) /\ (~target.lapsed => Holds(target.path, target.session))

\* The layouts keep to the bounds, so that there are paths in them.  The two
\* dialogs that cover everything else are never open together: what one of them
\* is answered with would change the layout under the other.
TargetsInv ==
    /\ \A w \in DOMAIN layouts : Fits(layouts[w])
    /\ Active => activeSpace \in DOMAIN layouts
    /\ DOMAIN held = Dialog
    /\ held["picker"] = NoTarget \/ held["title"] = NoTarget
    /\ Sound(zoomed) /\ \A dialog \in Dialog : Sound(held[dialog])

-----------------------------------------------------------------------------
(* What a step does to the targets.                                         *)

\* A target that is sound in the layout that is there next.
SoundNext(target) ==
    target # NoTarget =>
        /\ IsTarget(target)
        /\ ~target.lapsed => Active' /\ NodeAt(Current', target.path) = Leaf(target.session)

\* Targets that are sound next, if the layouts fit, the dialogs are apart and
\* the active workspace is there.
LEMMA FollowingTargets ==
    ASSUME \A w \in DOMAIN layouts' : Fits(layouts'[w]),
           (Active => activeSpace \in DOMAIN layouts)',
           DOMAIN held' = Dialog, held'["picker"] = NoTarget \/ held'["title"] = NoTarget,
           SoundNext(zoomed'), \A dialog \in Dialog : SoundNext(held'[dialog])
    PROVE  TargetsInv'
<1>1. Sound(zoomed)'
    BY DEF Sound, SoundNext, Holds
<1>2. ASSUME NEW dialog \in Dialog
      PROVE  Sound(held[dialog])'
    BY <1>2 DEF Sound, SoundNext, Holds
<1>3. (\A w \in DOMAIN layouts : Fits(layouts[w]))'
    BY DEF Fits
<1> QED
    BY <1>1, <1>2, <1>3 DEF TargetsInv

\* Nothing is held; what lapsed concerns no pane any more, whatever became of the
\* layouts; and where they stay, what was held and what is taken leads to its pane.
LEMMA SoundFacts ==
    /\ SoundNext(NoTarget)
    /\ \A old : Sound(old) => SoundNext(Lapse(old))
    /\ (Active => Active' /\ Current' = Current) => \A old : Sound(old) => SoundNext(old)
    /\ UNCHANGED <<layouts, activeSpace>> => \A path \in Path : \A s : SoundNext(Target(path, s))
<1>1. SoundNext(NoTarget)
    BY DEF SoundNext
<1>2. ASSUME NEW old, Sound(old)
      PROVE  SoundNext(Lapse(old))
    <2>1. CASE old = NoTarget
        BY <1>1, <2>1 DEF Lapse
    <2>2. CASE old # NoTarget
        <3>1. PICK path, s, lapsed : path \in Path /\ old = [path |-> path, session |-> s, lapsed |-> lapsed]
            BY <1>2, <2>2 DEF Sound, IsTarget
        <3>2. Lapse(old) = [path |-> path, session |-> s, lapsed |-> TRUE]
            BY <2>2, <3>1 DEF Lapse
        <3>3. IsTarget(Lapse(old))
            BY <3>1, <3>2 DEF IsTarget
        <3>4. Lapse(old).lapsed
            BY <3>2
        <3> QED
            BY <3>3, <3>4 DEF SoundNext
    <2> QED
        BY <2>1, <2>2
<1>3. ASSUME Active => Active' /\ Current' = Current, NEW old, Sound(old)
      PROVE  SoundNext(old)
    BY <1>3 DEF Sound, SoundNext, Holds
<1>4. ASSUME UNCHANGED <<layouts, activeSpace>>, NEW path \in Path, NEW s
      PROVE  SoundNext(Target(path, s))
    <2>1. IsTarget(Target(path, s))
        BY DEF Target, IsTarget
    <2>2. Target(path, s).path = path /\ Target(path, s).session = s
        BY DEF Target
    <2>3. Target(path, s).lapsed = ~Holds(path, s)
        BY DEF Target
    <2>4. Active => Active' /\ Current' = Current
        BY <1>4 DEF Active, Current
    <2> QED
        BY <2>1, <2>2, <2>3, <2>4 DEF SoundNext, Holds
<1> QED
    BY <1>1, <1>2, <1>3, <1>4

\* Nothing happens to the layouts, and what is held was held before or is taken.
LEMMA QuietTargets ==
    ASSUME TargetsInv, NoEdit, UNCHANGED activeSpace, DOMAIN held' = Dialog,
           held'["picker"] = NoTarget \/ held'["title"] = NoTarget,
           \A target \in {zoomed'} \cup {held'[dialog] : dialog \in Dialog} :
               \/ target \in {NoTarget, zoomed} \cup {held[dialog] : dialog \in Dialog}
               \/ \E path \in Path : \E s : target = Target(path, s)
    PROVE  TargetsInv'
<1>1. UNCHANGED <<layouts, activeSpace>> /\ (Active => Active' /\ Current' = Current)
    BY DEF NoEdit, Active, Current
<1>2. \A old \in {zoomed} \cup {held[dialog] : dialog \in Dialog} : Sound(old)
    BY DEF TargetsInv
<1>3. \A target \in {zoomed'} \cup {held'[dialog] : dialog \in Dialog} : SoundNext(target)
    BY <1>1, <1>2, SoundFacts
<1>4. (Active => activeSpace \in DOMAIN layouts)' /\ \A w \in DOMAIN layouts' : Fits(layouts'[w])
    BY <1>1 DEF Active, TargetsInv
<1> QED
    BY <1>3, <1>4, FollowingTargets

\* A change of layouts after which nothing is held but what lapsed.
LEMMA LapsingTargets ==
    ASSUME TargetsInv, \A w \in DOMAIN layouts' : Fits(layouts'[w]),
           (Active => activeSpace \in DOMAIN layouts)',
           DOMAIN held' = Dialog, held'["picker"] = NoTarget \/ held'["title"] = NoTarget,
           \A target \in {zoomed'} \cup {held'[dialog] : dialog \in Dialog} :
               \/ target = NoTarget
               \/ \E old \in {zoomed} \cup {held[dialog] : dialog \in Dialog} : target = Lapse(old)
    PROVE  TargetsInv'
<1>1. \A old \in {zoomed} \cup {held[dialog] : dialog \in Dialog} : Sound(old)
    BY DEF TargetsInv
<1>2. \A target \in {zoomed'} \cup {held'[dialog] : dialog \in Dialog} : SoundNext(target)
    BY <1>1, SoundFacts
<1> QED
    BY <1>2, FollowingTargets

\* The active workspace has a layout, and what leads to its panes are paths.
LEMMA CurrentFacts ==
    ASSUME TargetsInv, Active
    PROVE  /\ activeSpace \in DOMAIN layouts /\ Fits(Current) /\ Current \in Layout
           /\ PanePaths \subseteq Path
           /\ SessionTargetPane \in PanePaths
<1>1. activeSpace \in DOMAIN layouts /\ Fits(Current)
    BY DEF TargetsInv, Current
<1>2. Current \in Layout /\ \E n \in Nat : n = Len(Leaves(Current)) /\ 1 <= n
    BY <1>1, FitsFacts
<1>3. PICK ps \in Seq(Path) : ps = Paths(Current)
    BY <1>2, PathsFacts
<1>4. Len(ps) = Len(Leaves(Current)) /\ Len(ps) \in Nat /\ DOMAIN ps = 1 .. Len(ps)
    BY <1>2, <1>3, PanesAreFound, LenProperties DEF PanesFound
<1>5. PanePaths = {ps[k] : k \in 1 .. Len(ps)}
    BY <1>3, <1>4 DEF PanePaths, ToSet
<1>6. PanePaths \subseteq Path
    BY <1>5, ElementOfSeq
<1>7. Paths(Current)[1] \in PanePaths
    BY <1>2, <1>3, <1>4, <1>5
<1>8. ASSUME focusedOn \in Content, focusedOn \in ToSet(Leaves(Current))
      PROVE  PathOf(Current, focusedOn) \in PanePaths
    <2>1. PICK k \in 1 .. Len(Leaves(Current)) : PathOf(Current, focusedOn) = Paths(Current)[k]
        BY <1>2, <1>8, PathOfFacts DEF Shown
    <2> QED
        BY <1>3, <1>4, <1>5, <2>1
<1>9. SessionTargetPane \in PanePaths
    BY <1>7, <1>8 DEF SessionTargetPane
<1> QED
    BY <1>1, <1>2, <1>6, <1>9

\* updatePaneSession keeps the layout within the bounds and leaves the other
\* panes, so that what is held of them stays.
LEMMA SessionPut ==
    ASSUME TargetsInv, Active, NEW p \in Path, NEW s \in Content, Edit(WithSession(p, s)), UNCHANGED activeSpace
    PROVE  /\ \A w \in DOMAIN layouts' : Fits(layouts'[w])
           /\ (Active => activeSpace \in DOMAIN layouts)'
           /\ \A old : Sound(old) => SoundNext(LapseAt(old, p))
<1>1. activeSpace \in DOMAIN layouts /\ Fits(Current) /\ Current \in Layout
    BY CurrentFacts
<1>2. PICK y : y = WithSession(p, s)
    OBVIOUS
<1>3. Fits(y) /\ \A q \in Path : \A t : q # p /\ NodeAt(Current, q) = Leaf(t) => NodeAt(y, q) = Leaf(t)
    <2>1. CASE NodeAt(Current, p) # Nothing /\ IsLeaf(NodeAt(Current, p))
        <3>1. PICK u \in Shown : NodeAt(Current, p) = Leaf(u)
            BY <1>1, <2>1, LeafIsPane DEF PaneAt
        <3>2. y = WithNode(Current, p, Leaf(s)) /\ s \in Shown
            BY <1>2, <2>1 DEF WithSession, Shown
        <3> QED
            BY <1>1, <3>1, <3>2, AssignFits, OtherPanesStay
    <2>2. CASE ~(NodeAt(Current, p) # Nothing /\ IsLeaf(NodeAt(Current, p)))
        <3>1. y = Current
            BY <1>2, <2>2 DEF WithSession
        <3> QED
            BY <1>1, <3>1
    <2> QED
        BY <2>1, <2>2
<1>4. layouts' = [layouts EXCEPT ![activeSpace] = y] /\ Active' /\ activeSpace' = activeSpace
    BY <1>2 DEF Edit, Active
<1>5. DOMAIN layouts' = DOMAIN layouts /\ Current' = y
    BY <1>1, <1>4 DEF Current
<1>6. ASSUME NEW w \in DOMAIN layouts'
      PROVE  Fits(layouts'[w])
    <2>1. layouts'[w] = y \/ layouts'[w] = layouts[w]
        BY <1>4, <1>5, <1>6
    <2> QED
        BY <1>3, <1>5, <1>6, <2>1 DEF TargetsInv
<1>7. ASSUME NEW old, Sound(old)
      PROVE  SoundNext(LapseAt(old, p))
    <2>1. CASE old = NoTarget \/ old.path = p
        <3>1. LapseAt(old, p) \in {NoTarget, Lapse(old)}
            BY <2>1 DEF LapseAt
        <3> QED
            BY <1>7, <3>1, SoundFacts
    <2>2. CASE old # NoTarget /\ old.path # p
        <3>1. LapseAt(old, p) = old
            BY <2>2 DEF LapseAt
        <3>2. PICK q, t, lapsed : q \in Path /\ old = [path |-> q, session |-> t, lapsed |-> lapsed]
            BY <1>7, <2>2 DEF Sound, IsTarget
        <3>3. old.path = q /\ old.session = t /\ q # p
            BY <2>2, <3>2
        <3>4. IsTarget(old) /\ (~old.lapsed => NodeAt(Current, q) = Leaf(t))
            BY <1>7, <2>2, <3>3 DEF Sound, Holds
        <3>5. ~old.lapsed => NodeAt(Current', q) = Leaf(t)
            BY <1>3, <1>5, <3>2, <3>3, <3>4
        <3> QED
            BY <1>4, <3>1, <3>3, <3>4, <3>5 DEF SoundNext
    <2> QED
        BY <2>1, <2>2
<1>8. (Active => activeSpace \in DOMAIN layouts)'
    BY <1>1, <1>4, <1>5
<1> QED
    BY <1>6, <1>7, <1>8

-----------------------------------------------------------------------------
(* The steps.                                                               *)

\* The page as it opens.
LEMMA TargetsInitially ==
    TargetsInit => TargetsInv
<1> SUFFICES ASSUME TargetsInit
             PROVE  TargetsInv
    OBVIOUS
<1>1. DOMAIN held = Dialog /\ zoomed = NoTarget /\ \A dialog \in Dialog : held[dialog] = NoTarget
    BY DEF TargetsInit
<1>2. activeSpace \in Space /\ DOMAIN layouts = Space
    BY DEF TargetsInit
<1>3. ASSUME NEW w \in DOMAIN layouts
      PROVE  Fits(layouts[w])
    <2>1. \/ layouts[w] = Leaf(EmptyPane)
          \/ \E s \in Content, t \in Content : layouts[w] = SplitOf("h", <<Leaf(s), Leaf(t)>>)
        BY <1>3 DEF TargetsInit
    <2> QED
        BY <2>1, FirstFits DEF Shown
<1> QED
    BY <1>1, <1>2, <1>3 DEF TargetsInv, Sound, Dialog

\* Closing a menu, and whatever else is done to `held` (App.svelte).
LEMMA HeldFacts ==
    ASSUME DOMAIN held = Dialog
    PROVE  /\ CloseMenu => /\ DOMAIN held' = Dialog /\ held'["menu"] = NoTarget
                           /\ held'["picker"] = held["picker"] /\ held'["title"] = held["title"]
           /\ LapseMenu => /\ DOMAIN held' = Dialog /\ held'["menu"] = Lapse(held["menu"])
                           /\ held'["picker"] = held["picker"] /\ held'["title"] = held["title"]
           /\ \A dialog \in Dialog : \A target : Hold(dialog, target) =>
                 /\ DOMAIN held' = Dialog /\ held'[dialog] = target
                 /\ \A other \in Dialog \ {dialog} : held'[other] \in {NoTarget, held[other]}
BY DEF CloseMenu, LapseMenu, Hold, Dialog

\* Steps that leave the layouts alone.
LEMMA QuietSteps ==
    ASSUME TargetsInv,
           \/ Active /\ \E path \in PanePaths : HandleFocus(path) \/ ZoomByButton(path) \/ OpenMenu(path)
           \/ ZoomFromMenu \/ ToggleFocusedZoom \/ Unzoom
           \/ OpenMenuOfZoomed \/ DismissMenu \/ OpenSessionPicker \/ CloseSessionPicker
           \/ OpenRenamePane \/ CloseRenamePane
           \/ \E s \in Content : FocusSession(s)
    PROVE  TargetsInv'
<1> DEFINE Old == {NoTarget, zoomed} \cup {held[dialog] : dialog \in Dialog}
           Fine(target) == target \in Old \/ \E path \in Path : \E s : target = Target(path, s)
<1>1. DOMAIN held = Dialog /\ (held["picker"] = NoTarget \/ held["title"] = NoTarget)
    BY DEF TargetsInv
<1>2. /\ CloseMenu => /\ DOMAIN held' = Dialog /\ held'["menu"] = NoTarget
                      /\ held'["picker"] = held["picker"] /\ held'["title"] = held["title"]
      /\ \A dialog \in Dialog : \A target : Hold(dialog, target) =>
            /\ DOMAIN held' = Dialog /\ held'[dialog] = target
            /\ \A other \in Dialog \ {dialog} : held'[other] \in {NoTarget, held[other]}
    BY <1>1, HeldFacts
<1>3. Dialog = {"menu", "picker", "title"}
    BY DEF Dialog
<1>4. ASSUME NoEdit, UNCHANGED activeSpace, DOMAIN held' = Dialog,
             held'["picker"] = NoTarget \/ held'["title"] = NoTarget,
             Fine(zoomed'), \A dialog \in Dialog : Fine(held'[dialog])
      PROVE  TargetsInv'
    BY <1>4, QuietTargets
<1>5. ASSUME CloseMenu
      PROVE  /\ DOMAIN held' = Dialog
             /\ held'["picker"] = NoTarget \/ held'["title"] = NoTarget
             /\ \A dialog \in Dialog : Fine(held'[dialog])
    BY <1>1, <1>2, <1>3, <1>5
<1>6. ASSUME UNCHANGED held
      PROVE  /\ DOMAIN held' = Dialog
             /\ held'["picker"] = NoTarget \/ held'["title"] = NoTarget
             /\ \A dialog \in Dialog : Fine(held'[dialog])
    BY <1>1, <1>6
<1>7. ASSUME NEW dialog \in Dialog, NEW target, Fine(target), NoDialog, Hold(dialog, target)
      PROVE  /\ DOMAIN held' = Dialog
             /\ held'["picker"] = NoTarget \/ held'["title"] = NoTarget
             /\ \A other \in Dialog : Fine(held'[other])
    <2>1. \A other \in Dialog \ {dialog} : held'[other] \in {NoTarget, held[other]}
        BY <1>2, <1>7
    <2>2. held'[dialog] = target /\ DOMAIN held' = Dialog
        BY <1>2, <1>7
    <2>3. \A other \in Dialog : Fine(held'[other])
        BY <1>7, <2>1, <2>2
    <2> QED
        BY <1>3, <1>7, <2>1, <2>2, <2>3 DEF NoDialog
<1>8. ASSUME NEW s, NEW path \in Path, HandleZoom(s, path)
      PROVE  Fine(zoomed')
    BY <1>8 DEF HandleZoom
<1>9. zoomed' = NoTarget \/ UNCHANGED zoomed => Fine(zoomed')
    OBVIOUS
<1> HIDE DEF Fine
<1>8a. <<>> \in Path
    BY EmptySeq DEF Path
<1>8b. Active => PanePaths \subseteq Path
    BY CurrentFacts
<1>10. ASSUME Active, NEW path \in PanePaths, HandleFocus(path) \/ ZoomByButton(path) \/ OpenMenu(path)
       PROVE  TargetsInv'
    <2>1. CASE HandleFocus(path)
        BY <1>4, <1>5, <1>9, <2>1 DEF HandleFocus
    <2>2. CASE ZoomByButton(path)
        BY <1>4, <1>6, <1>8, <1>8b, <1>10, <2>2 DEF ZoomByButton
    <2>3. CASE OpenMenu(path)
        <3> DEFINE target == Target(path, SessionAt(path))
        <3>1. Hold("menu", target) /\ NoEdit /\ UNCHANGED <<activeSpace, zoomed>> /\ NoDialog
            BY <2>3 DEF OpenMenu, Reachable
        <3>2. Fine(target)
            BY <1>8b, <1>10 DEF Fine
        <3> QED
            BY <1>3, <1>4, <1>7, <1>9, <3>1, <3>2
    <2> QED
        BY <1>10, <2>1, <2>2, <2>3
<1>11. CASE ZoomFromMenu
    BY <1>4, <1>5, <1>8, <1>8a, <1>11 DEF ZoomFromMenu
<1>12. CASE ToggleFocusedZoom
    BY <1>4, <1>5, <1>8, <1>8a, <1>9, <1>12 DEF ToggleFocusedZoom
<1>13. CASE Unzoom
    BY <1>4, <1>6, <1>9, <1>13 DEF Unzoom
<1>14. CASE OpenMenuOfZoomed
    <2>1. Fine(zoomed)
        BY DEF Fine
    <2>2. Hold("menu", zoomed) /\ NoEdit /\ UNCHANGED <<activeSpace, zoomed>> /\ NoDialog
        BY <1>14 DEF OpenMenuOfZoomed
    <2> QED
        BY <1>3, <1>4, <1>7, <1>9, <2>1, <2>2
<1>15. CASE DismissMenu
    BY <1>4, <1>5, <1>9, <1>15 DEF DismissMenu
<1>16. CASE OpenSessionPicker
    <2>1. NoDialog /\ NoEdit /\ UNCHANGED <<activeSpace, zoomed>>
        BY <1>16 DEF OpenSessionPicker
    <2>2. ASSUME NEW target, Fine(target), held' = [held EXCEPT !["picker"] = target]
          PROVE  TargetsInv'
        <3>1. DOMAIN held' = Dialog /\ held'["title"] = NoTarget
            BY <1>1, <1>3, <2>1, <2>2 DEF NoDialog
        <3>2. held'["menu"] = held["menu"] /\ held'["picker"] = target
            BY <1>1, <1>3, <2>2
        <3>3. Fine(NoTarget) /\ Fine(held["menu"])
            BY <1>3 DEF Fine
        <3> QED
            BY <1>3, <1>4, <1>9, <2>1, <2>2, <3>1, <3>2, <3>3
    <2>3. ASSUME NEW path \in Path, held' = [held EXCEPT !["picker"] = Target(path, SessionAt(path))]
          PROVE  TargetsInv'
        <3>1. Fine(Target(path, SessionAt(path)))
            BY DEF Fine
        <3> QED
            BY <2>2, <2>3, <3>1
    <2>4. CASE held' = [held EXCEPT !["picker"] = zoomed]
        <3>1. PICK target : target = zoomed
            OBVIOUS
        <3>2. Fine(target) /\ held' = [held EXCEPT !["picker"] = target]
            BY <2>4, <3>1 DEF Fine
        <3> QED
            BY <2>2, <3>2
    <2>5. CASE Hold("picker", held["menu"])
        <3>1. PICK target : target = held["menu"]
            OBVIOUS
        <3>2. Fine(target)
            BY <1>3, <3>1 DEF Fine
        <3>3. Hold("picker", target)
            BY <2>5, <3>1
        <3> QED
            BY <1>3, <1>4, <1>7, <1>9, <2>1, <3>2, <3>3
    <2> QED
        BY <1>8b, <1>16, <2>3, <2>4, <2>5 DEF OpenSessionPicker
<1>17. CASE CloseSessionPicker
    <2>1. /\ NoEdit /\ UNCHANGED <<activeSpace, zoomed>>
          /\ held' = [held EXCEPT !["picker"] = NoTarget]
        BY <1>17 DEF CloseSessionPicker
    <2>2. \A dialog \in Dialog : Fine(held'[dialog])
        BY <1>1, <1>3, <2>1 DEF Fine
    <2> QED
        BY <1>1, <1>3, <1>4, <1>9, <2>1, <2>2
<1>18. CASE OpenRenamePane
    <2>1. PICK target : target = held["menu"]
        OBVIOUS
    <2>2. Fine(target)
        BY <1>3, <2>1 DEF Fine
    <2>3. Hold("title", target) /\ NoEdit /\ UNCHANGED <<activeSpace, zoomed>> /\ NoDialog
        BY <1>18, <2>1 DEF OpenRenamePane
    <2> QED
        BY <1>3, <1>4, <1>7, <1>9, <2>2, <2>3
<1>19. CASE CloseRenamePane
    <2>1. /\ NoEdit /\ UNCHANGED <<activeSpace, zoomed>>
          /\ held' = [held EXCEPT !["title"] = NoTarget]
        BY <1>19 DEF CloseRenamePane
    <2>2. \A dialog \in Dialog : Fine(held'[dialog])
        BY <1>1, <1>3, <2>1 DEF Fine
    <2> QED
        BY <1>1, <1>3, <1>4, <1>9, <2>1, <2>2
<1>20. ASSUME NEW s \in Content, FocusSession(s)
       PROVE  TargetsInv'
    BY <1>4, <1>5, <1>9, <1>20 DEF FocusSession
<1> QED
    BY <1>10, <1>11, <1>12, <1>13, <1>14, <1>15, <1>16, <1>17, <1>18, <1>19, <1>20

\* Steps that change the layout of the active workspace: a path that was taken
\* before may lead to another pane.
LEMMA EditSteps ==
    ASSUME TargetsInv,
           \/ Active /\ \E path \in PanePaths :
                 CloseByButton(path) \/ \E direction \in {"h", "v"} : SplitByButton(path, direction)
           \/ CloseFromMenu \/ \E direction \in {"h", "v"} : SplitFromMenu(direction)
           \/ \E s, t \in Content, position \in {"left", "right", "top", "bottom", "swap"} :
                 HandlePaneDrop(s, t, position)
    PROVE  TargetsInv'
<1> DEFINE Old == {zoomed} \cup {held[dialog] : dialog \in Dialog}
           Over(target) == target = NoTarget \/ \E old \in Old : target = Lapse(old)
<1>1. DOMAIN held = Dialog /\ (held["picker"] = NoTarget \/ held["title"] = NoTarget)
      /\ (Active => activeSpace \in DOMAIN layouts) /\ \A w \in DOMAIN layouts : Fits(layouts[w])
    BY DEF TargetsInv
<1>2. Dialog = {"menu", "picker", "title"}
    BY DEF Dialog
<1>3. ASSUME DOMAIN held' = Dialog, UNCHANGED activeSpace,
             NEW layout, Fits(layout), Edit(layout),
             held'["picker"] = NoTarget \/ held'["title"] = NoTarget,
             Over(zoomed'), \A dialog \in Dialog : Over(held'[dialog])
      PROVE  TargetsInv'
    <2>1. DOMAIN layouts' = DOMAIN layouts /\ \A w \in DOMAIN layouts' : layouts'[w] \in {layout, layouts[w]}
        BY <1>3 DEF Edit
    <2>2. (Active => activeSpace \in DOMAIN layouts)'
        BY <1>1, <1>3, <2>1 DEF Active
    <2>3. \A w \in DOMAIN layouts' : Fits(layouts'[w])
        BY <1>1, <1>3, <2>1
    <2> QED
        BY <1>3, <2>2, <2>3, LapsingTargets
<1>4. ASSUME CloseMenu \/ LapseMenu, NoDialog
      PROVE  /\ DOMAIN held' = Dialog /\ held'["picker"] = NoTarget
             /\ \A dialog \in Dialog : Over(held'[dialog])
    <2>1. /\ DOMAIN held' = Dialog
          /\ held'["menu"] = NoTarget \/ held'["menu"] = Lapse(held["menu"])
          /\ held'["picker"] = NoTarget /\ held'["title"] = NoTarget
        BY <1>1, <1>4, HeldFacts DEF NoDialog
    <2>2. Over(NoTarget) /\ Over(Lapse(held["menu"]))
        BY <1>2
    <2> QED
        BY <1>2, <2>1, <2>2
<1>5. Over(NoTarget) /\ Over(Lapse(zoomed))
    OBVIOUS
<1>6. ASSUME Active, NEW path \in Path, CloseAt(path), CloseMenu \/ LapseMenu, NoDialog
      PROVE  TargetsInv'
    <2>1. CASE NoEdit /\ UNCHANGED zoomed
        <3>1. UNCHANGED <<layouts, activeSpace>> /\ (Active => Active' /\ Current' = Current)
            BY <1>6, <2>1 DEF CloseAt, NoEdit, Active, Current
        <3>2. Sound(zoomed) /\ \A dialog \in Dialog : Sound(held[dialog])
            BY DEF TargetsInv
        <3>3. /\ DOMAIN held' = Dialog /\ held'["picker"] = NoTarget
              /\ \A dialog \in Dialog : held'[dialog] \in {NoTarget, Lapse(held[dialog])}
            <4>1. held["picker"] = NoTarget /\ held["title"] = NoTarget
                BY <1>6 DEF NoDialog
            <4> QED
                BY <1>1, <1>2, <1>6, <4>1, HeldFacts
        <3>4. SoundNext(zoomed') /\ \A dialog \in Dialog : SoundNext(held'[dialog])
            BY <2>1, <3>1, <3>2, <3>3, SoundFacts
        <3>5. (Active => activeSpace \in DOMAIN layouts)' /\ \A w \in DOMAIN layouts' : Fits(layouts'[w])
            BY <1>1, <3>1 DEF Active
        <3> QED
            BY <3>3, <3>4, <3>5, FollowingTargets
    <2>2. CASE RemovePane(Current, path) # Nothing /\ Edit(AutoArrange(RemovePane(Current, path))) /\ ForgetPanes
        <3>1. zoomed' = NoTarget /\ UNCHANGED activeSpace
            BY <1>6, <2>2 DEF CloseAt, ForgetPanes
        <3>2. PICK y : y = AutoArrange(RemovePane(Current, path))
            OBVIOUS
        <3>3. Fits(y)
            BY <1>6, <2>2, <3>2, CurrentFacts, RemoveFits, ArrangedFits
        <3> HIDE DEF Over
        <3> QED
            BY <1>3, <1>4, <1>5, <1>6, <2>2, <3>1, <3>2, <3>3
    <2> QED
        BY <1>6, <2>1, <2>2 DEF CloseAt
<1> HIDE DEF Over
<1>7. ASSUME Active, NEW path \in Path, NEW direction \in {"h", "v"}, SplitAt(path, direction),
             CloseMenu \/ LapseMenu, NoDialog
      PROVE  TargetsInv'
    <2>1. PICK y : y = AutoArrange(SplitPaneAt(Current, path, direction, EmptyPane))
        OBVIOUS
    <2>2. /\ Len(Leaves(Current)) < MaxPanesHeld /\ Edit(y)
          /\ zoomed' = Lapse(zoomed) /\ UNCHANGED activeSpace
        BY <1>7, <2>1 DEF SplitAt
    <2>3. Fits(y)
        BY <1>7, <2>1, <2>2, CurrentFacts, SplitFits, ArrangedFits
    <2> QED
        BY <1>3, <1>4, <1>5, <1>7, <2>2, <2>3
<1>8. ASSUME NEW s \in Content, NEW t \in Content, NEW position, HandlePaneDrop(s, t, position)
      PROVE  TargetsInv'
    <2>1. PICK y : y = MovePane(Current, s, t, position)
        OBVIOUS
    <2>2. Active /\ Edit(y) /\ zoomed' = NoTarget /\ LapseMenu /\ NoDialog /\ UNCHANGED activeSpace
        BY <1>8, <2>1 DEF HandlePaneDrop, Reachable, ForgetPanes
    <2>3. Fits(y)
        BY <2>1, <2>2, CurrentFacts, MoveFits
    <2> QED
        BY <1>3, <1>4, <1>5, <2>2, <2>3
<1>9. ASSUME Active, NEW path \in PanePaths,
             CloseByButton(path) \/ \E direction \in {"h", "v"} : SplitByButton(path, direction)
      PROVE  TargetsInv'
    <2>1. path \in Path
        BY <1>9, CurrentFacts
    <2> QED
        BY <1>6, <1>7, <1>9, <2>1 DEF CloseByButton, SplitByButton, Reachable
<1>10. CASE CloseFromMenu \/ \E direction \in {"h", "v"} : SplitFromMenu(direction)
    <2>1. held["menu"] # NoTarget /\ Active /\ NoDialog
        BY <1>10 DEF CloseFromMenu, SplitFromMenu
    <2>2. held["menu"].path \in Path
        BY <1>2, <2>1 DEF TargetsInv, Sound, IsTarget
    <2> QED
        BY <1>6, <1>7, <1>10, <2>1, <2>2 DEF CloseFromMenu, SplitFromMenu
<1> QED
    BY <1>8, <1>9, <1>10

\* A session for one pane: what is held of it lapses, what is held of another
\* pane leads there as before.
LEMMA SessionSteps ==
    ASSUME TargetsInv, NEW s \in Content, AssignFromPicker(s) \/ OpenSessionInCurrentPane(s)
    PROVE  TargetsInv'
<1>1. DOMAIN held = Dialog /\ (held["picker"] = NoTarget \/ held["title"] = NoTarget)
      /\ Sound(zoomed) /\ \A dialog \in Dialog : Sound(held[dialog])
    BY DEF TargetsInv
<1>2. Dialog = {"menu", "picker", "title"}
    BY DEF Dialog
<1>3. CASE AssignFromPicker(s)
    <2>1. PICK p : p = held["picker"].path
        OBVIOUS
    <2>2. /\ held["picker"] # NoTarget /\ Active /\ UNCHANGED activeSpace
          /\ Edit(WithSession(p, s))
          /\ held' = [held EXCEPT !["picker"] = NoTarget, !["menu"] = LapseAt(@, p)]
          /\ zoomed' = LapseAt(zoomed, p)
        BY <1>3, <2>1 DEF AssignFromPicker
    <2>3. p \in Path
        BY <1>1, <1>2, <2>1, <2>2 DEF Sound, IsTarget
    <2>4. /\ DOMAIN held' = Dialog /\ held'["menu"] = LapseAt(held["menu"], p)
          /\ held'["picker"] = NoTarget /\ held'["title"] = NoTarget
        BY <1>1, <1>2, <2>2
    <2>5. /\ \A w \in DOMAIN layouts' : Fits(layouts'[w])
          /\ (Active => activeSpace \in DOMAIN layouts)'
          /\ \A old : Sound(old) => SoundNext(LapseAt(old, p))
        BY <2>2, <2>3, SessionPut
    <2>6. SoundNext(zoomed') /\ \A dialog \in Dialog : SoundNext(held'[dialog])
        BY <1>1, <1>2, <2>2, <2>4, <2>5, SoundFacts
    <2> QED
        BY <2>4, <2>5, <2>6, FollowingTargets
<1>4. CASE OpenSessionInCurrentPane(s)
    <2>1. PICK p : p = SessionTargetPane
        OBVIOUS
    <2>2. /\ Active /\ UNCHANGED activeSpace /\ Edit(WithSession(p, s))
          /\ held' = [dialog \in Dialog |-> LapseAt(held[dialog], p)]
          /\ zoomed' = LapseAt(zoomed, p)
        BY <1>4, <2>1 DEF OpenSessionInCurrentPane
    <2>3. p \in Path
        BY <2>1, <2>2, CurrentFacts
    <2>4. LapseAt(NoTarget, p) = NoTarget
        BY DEF LapseAt
    <2>5. DOMAIN held' = Dialog /\ (held'["picker"] = NoTarget \/ held'["title"] = NoTarget)
        BY <1>1, <1>2, <2>2, <2>4
    <2>6. /\ \A w \in DOMAIN layouts' : Fits(layouts'[w])
          /\ (Active => activeSpace \in DOMAIN layouts)'
          /\ \A old : Sound(old) => SoundNext(LapseAt(old, p))
        BY <2>2, <2>3, SessionPut
    <2>7. SoundNext(zoomed') /\ \A dialog \in Dialog : SoundNext(held'[dialog])
        BY <1>1, <2>2, <2>6
    <2> QED
        BY <2>5, <2>6, <2>7, FollowingTargets
<1> QED
    BY <1>3, <1>4

\* Steps that concern other workspaces, or all of them.
LEMMA SpaceSteps ==
    ASSUME TargetsInv,
           \/ \E w \in DOMAIN layouts : SwitchSpace(w) \/ WorkspaceDeleted(w)
           \/ \E w \in Space : \E layout \in {Leaf(EmptyPane)} \cup {layouts[v] : v \in DOMAIN layouts} :
                 WorkspaceCreated(w, layout)
           \/ \E s, t \in Content : SessionRenamed(s, t)
    PROVE  TargetsInv'
<1>1. DOMAIN held = Dialog /\ (held["picker"] = NoTarget \/ held["title"] = NoTarget)
      /\ (Active => activeSpace \in DOMAIN layouts) /\ \A w \in DOMAIN layouts : Fits(layouts[w])
    BY DEF TargetsInv
<1>2. Dialog = {"menu", "picker", "title"}
    BY DEF Dialog
<1>2a. Sound(zoomed) /\ \A dialog \in Dialog : Sound(held[dialog])
    BY DEF TargetsInv
<1>3. ASSUME LapseAll, (Active => activeSpace \in DOMAIN layouts)', \A w \in DOMAIN layouts' : Fits(layouts'[w])
      PROVE  TargetsInv'
    <2>1. /\ held' = [dialog \in Dialog |-> Lapse(held[dialog])]
          /\ zoomed' = Lapse(zoomed)
        BY <1>3 DEF LapseAll
    <2>2. Lapse(NoTarget) = NoTarget
        BY DEF Lapse
    <2>3. DOMAIN held' = Dialog /\ (held'["picker"] = NoTarget \/ held'["title"] = NoTarget)
        BY <1>1, <1>2, <2>1, <2>2
    <2>4. \A target \in {zoomed'} \cup {held'[dialog] : dialog \in Dialog} :
             \E old \in {zoomed} \cup {held[dialog] : dialog \in Dialog} : target = Lapse(old)
        BY <2>1
    <2> QED
        BY <1>3, <2>3, <2>4, LapsingTargets
<1>4. ASSUME NEW w \in DOMAIN layouts, SwitchSpace(w)
      PROVE  TargetsInv'
    <2>1. /\ zoomed' = NoTarget /\ CloseMenu /\ NoDialog /\ activeSpace' = w /\ layouts' = layouts
        BY <1>4 DEF SwitchSpace, ForgetPanes, NoEdit
    <2>2. DOMAIN held' = Dialog /\ \A dialog \in Dialog : held'[dialog] = NoTarget
        BY <1>1, <1>2, <2>1, HeldFacts DEF NoDialog
    <2>3. (Active => activeSpace \in DOMAIN layouts)' /\ \A v \in DOMAIN layouts' : Fits(layouts'[v])
        BY <1>1, <2>1
    <2> QED
        BY <1>2, <2>1, <2>2, <2>3, LapsingTargets
<1>5. ASSUME NEW w \in Space, NEW layout, layout = Leaf(EmptyPane) \/ \E v \in DOMAIN layouts : layout = layouts[v],
             WorkspaceCreated(w, layout)
      PROVE  TargetsInv'
    <2>1. /\ activeSpace' = w /\ LapseAll
          /\ layouts' = [v \in DOMAIN layouts \cup {w} |-> IF v = w THEN layout ELSE layouts[v]]
        BY <1>5 DEF WorkspaceCreated
    <2>2. Fits(layout)
        BY <1>1, <1>5, FirstFits DEF Shown
    <2>3. w \in DOMAIN layouts' /\ \A v \in DOMAIN layouts' : Fits(layouts'[v])
        BY <1>1, <2>1, <2>2
    <2> QED
        BY <1>3, <2>1, <2>3
<1>6. ASSUME NEW w \in DOMAIN layouts, WorkspaceDeleted(w)
      PROVE  TargetsInv'
    <2>1. layouts' = [v \in DOMAIN layouts \ {w} |-> layouts[v]]
        BY <1>6 DEF WorkspaceDeleted
    <2>2. \A v \in DOMAIN layouts' : Fits(layouts'[v])
        BY <1>1, <2>1
    <2>3. CASE activeSpace # w
        <3>1. UNCHANGED <<activeSpace, held, zoomed>>
            BY <1>6, <2>3 DEF WorkspaceDeleted
        <3>2. Active => Active' /\ Current' = Current /\ activeSpace' \in DOMAIN layouts'
            BY <1>1, <2>1, <2>3, <3>1 DEF Active, Current
        <3>3. SoundNext(zoomed') /\ \A dialog \in Dialog : SoundNext(held'[dialog])
            BY <1>2a, <3>1, <3>2, SoundFacts
        <3>4. (Active => activeSpace \in DOMAIN layouts)'
            BY <3>1, <3>2 DEF Active
        <3> QED
            BY <1>1, <2>2, <3>1, <3>3, <3>4, FollowingTargets
    <2>4. CASE activeSpace = w
        <3>1. LapseAll /\ (activeSpace' = NoSpace \/ activeSpace' \in DOMAIN layouts')
            BY <1>6, <2>4 DEF WorkspaceDeleted
        <3> QED
            BY <1>3, <2>2, <3>1 DEF Active
    <2> QED
        BY <2>3, <2>4
<1>7. ASSUME NEW s \in Content, NEW t \in Content, SessionRenamed(s, t)
      PROVE  TargetsInv'
    <2>1. /\ layouts' = [w \in DOMAIN layouts |-> Renamed(layouts[w], s, t)] /\ UNCHANGED activeSpace
          /\ held' = [dialog \in Dialog |-> LapseNamed(held[dialog], s)]
          /\ zoomed' = LapseNamed(zoomed, s)
        BY <1>7 DEF SessionRenamed
    <2>2. \A w \in DOMAIN layouts' : Fits(layouts'[w])
        BY <1>1, <2>1, RenamedFits
    <2>3. (Active => activeSpace \in DOMAIN layouts)'
        BY <1>1, <2>1 DEF Active
    <2>4. ASSUME NEW old, Sound(old)
          PROVE  SoundNext(LapseNamed(old, s))
        <3>1. CASE old = NoTarget \/ old.session = s
            <4>1. LapseNamed(old, s) \in {NoTarget, Lapse(old)}
                BY <3>1 DEF LapseNamed
            <4> QED
                BY <2>4, <4>1, SoundFacts
        <3>2. CASE old # NoTarget /\ old.session # s
            <4>1. LapseNamed(old, s) = old
                BY <3>2 DEF LapseNamed
            <4>2. PICK q, u, lapsed : q \in Path /\ old = [path |-> q, session |-> u, lapsed |-> lapsed]
                BY <2>4, <3>2 DEF Sound, IsTarget
            <4>3. old.path = q /\ old.session = u /\ u # s
                BY <3>2, <4>2
            <4>4. IsTarget(old) /\ (~old.lapsed => Active /\ NodeAt(Current, q) = Leaf(u))
                BY <2>4, <3>2, <4>3 DEF Sound, Holds
            <4>5. Active => Current \in Layout /\ Active' /\ Current' = Renamed(Current, s, t)
                BY <1>1, <2>1, CurrentFacts DEF Active, Current
            <4>6. ~old.lapsed => NodeAt(Current', q) = Leaf(u)
                BY <4>2, <4>3, <4>4, <4>5, RenamedFacts
            <4> QED
                BY <4>1, <4>3, <4>4, <4>5, <4>6 DEF SoundNext
        <3> QED
            BY <3>1, <3>2
    <2>5. SoundNext(zoomed') /\ \A dialog \in Dialog : SoundNext(held'[dialog])
        BY <1>2a, <2>1, <2>4
    <2>6. LapseNamed(NoTarget, s) = NoTarget
        BY DEF LapseNamed
    <2>7. DOMAIN held' = Dialog /\ (held'["picker"] = NoTarget \/ held'["title"] = NoTarget)
        BY <1>1, <1>2, <2>1, <2>6
    <2> QED
        BY <2>2, <2>3, <2>5, <2>7, FollowingTargets
<1> QED
    BY <1>4, <1>5, <1>6, <1>7

\* Every step of the page.
LEMMA TargetsStep ==
    TargetsInv /\ [TargetsNext]_targetVars => TargetsInv'
<1> SUFFICES ASSUME TargetsInv, [TargetsNext]_targetVars
             PROVE  TargetsInv'
    OBVIOUS
<1>1. CASE UNCHANGED targetVars
    BY <1>1 DEF targetVars, TargetsInv, Sound, Active, Holds, Current
<1>2. CASE TargetsNext
    BY <1>2, QuietSteps, EditSteps, SessionSteps, SpaceSteps DEF TargetsNext
<1> QED
    BY <1>1, <1>2

\* What is held of a pane concerns that pane, however many panes, sessions and
\* workspaces there are and whatever shape the layouts have (App.svelte).
THEOREM TargetIsItsPaneAlways ==
    TargetsSpec => []TargetIsItsPane
<1>1. TargetsInv => TargetIsItsPane
    BY DEF TargetsInv, Sound, TargetIsItsPane
<1> QED
    BY <1>1, TargetsInitially, TargetsStep, PTL DEF TargetsSpec

=============================================================================
