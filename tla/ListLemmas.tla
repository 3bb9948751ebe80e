----------------------------- MODULE ListLemmas -----------------------------
(***************************************************************************)
(* Facts about sequences and sets of numbers that the proofs of several    *)
(* components need: what is left of a sequence when an element is taken    *)
(* out, what is in one that an element was appended to, the sequence of a  *)
(* finite set's elements, and least and greatest elements.                 *)
(***************************************************************************)
EXTENDS Integers, SequencesExt, SequenceTheorems, FiniteSetTheorems, WellFoundedInduction, TLAPS

-----------------------------------------------------------------------------
(* Sets of numbers.                                                         *)

\* A set of numbers that is not empty has a smallest element.
LEMMA SmallestExists ==
    ASSUME NEW T \in SUBSET Nat, T # {}
    PROVE  \E x \in T : \A y \in T : x <= y
<1> DEFINE R == OpToRel(<, Nat)
<1>1. IsWellFoundedOn(R, Nat)
    BY NatLessThanWellFounded
<1>2. PICK x \in T : \A y \in T : ~ (<<y, x>> \in R)
    <2> HIDE DEF R
    <2> QED
        BY <1>1, WFMin
<1>3. ASSUME NEW y \in T
      PROVE  x <= y
    <2>1. x \in Nat /\ y \in Nat
        OBVIOUS
    <2>2. y < x => <<y, x>> \in R
        BY <2>1 DEF OpToRel
    <2>3. ~ (y < x)
        <3> HIDE DEF R
        <3> QED
            BY <1>2, <2>2
    <2> QED
        BY <2>1, <2>3
<1> QED
    BY <1>3

\* The minimum of a set of numbers is in it, and below the others.
LEMMA MinFacts ==
    ASSUME NEW T \in SUBSET Nat, T # {}
    PROVE  Min(T) \in T /\ \A y \in T : Min(T) <= y
<1>1. \E x \in T : \A y \in T : x <= y
    BY SmallestExists
<1> QED
    BY <1>1 DEF Min

\* A set of numbers that is not empty and has a bound has a greatest element.
LEMMA LargestExists ==
    ASSUME NEW S \in SUBSET Nat, S # {}, NEW n \in Nat, \A j \in S : j <= n
    PROVE  \E i \in S : \A j \in S : j <= i
<1> DEFINE gaps == {n - j : j \in S}
           R == OpToRel(<, Nat)
<1>1. gaps \subseteq Nat
    <2>1. \A j \in S : j \in Nat /\ j <= n
        OBVIOUS
    <2>2. \A j \in S : n - j \in Nat
        BY <2>1
    <2> QED
        BY <2>2
<1>2. PICK g \in gaps : \A h \in gaps : ~(<<h, g>> \in R)
    <2>1. gaps # {}
        OBVIOUS
    <2>2. IsWellFoundedOn(R, Nat)
        BY NatLessThanWellFounded
    <2> HIDE DEF gaps, R
    <2> QED
        BY <1>1, <2>1, <2>2, WFMin
<1>3. ASSUME NEW h \in gaps
      PROVE  g <= h
    <2>1. g \in Nat /\ h \in Nat
        BY <1>1
    <2>2. h < g => <<h, g>> \in R
        BY <2>1 DEF OpToRel
    <2> HIDE DEF gaps, R
    <2> QED
        BY <1>2, <2>1, <2>2
<1>4. PICK i \in S : g = n - i
    OBVIOUS
<1>5. ASSUME NEW j \in S
      PROVE  j <= i
    <2>1. n - j \in gaps
        OBVIOUS
    <2> QED
        BY <1>3, <1>4, <2>1
<1> QED
    BY <1>5

\* The largest of some numbers.
LEMMA MaxFacts ==
    ASSUME NEW S \in SUBSET Nat, S # {}, NEW n \in Nat, \A j \in S : j <= n
    PROVE  Max(S) \in S /\ \A y \in S : y <= Max(S)
<1>1. \E i \in S : \A j \in S : i >= j
    BY LargestExists
<1> QED
    BY <1>1 DEF Max

\* What a function makes of finitely many arguments is finite.
LEMMA ImageIsFinite ==
    ASSUME NEW S, IsFiniteSet(S), NEW f, S \subseteq DOMAIN f
    PROVE  IsFiniteSet({f[x] : x \in S})
<1> DEFINE T == {f[x] : x \in S}
           g == [x \in S |-> f[x]]
<1>1. g \in Surjection(S, T)
    BY DEF Surjection
<1> QED
    BY <1>1, FS_Surjection

-----------------------------------------------------------------------------
(* Sequences.                                                               *)

\* The place in s of the j-th element of s without its i-th.
InWhole(i, j) == IF j < i THEN j ELSE j + 1

\* Every place but the i-th is that of an element which is left.
LEMMA BeforeFacts ==
    ASSUME NEW n \in Nat, NEW i \in 1 .. n, NEW k \in 1 .. n, k # i
    PROVE  \E j \in 1 .. n - 1 : InWhole(i, j) = k
<1>1. CASE k < i
    <2>1. k \in 1 .. n - 1 /\ InWhole(i, k) = k
        BY <1>1 DEF InWhole
    <2> QED
        BY <2>1
<1>2. CASE k > i
    <2>1. k - 1 \in 1 .. n - 1 /\ InWhole(i, k - 1) = k
        BY <1>2 DEF InWhole
    <2> QED
        BY <2>1
<1> QED
    BY <1>1, <1>2

\* Taking an element out of a sequence leaves the others in their order.
LEMMA RemoveAtFacts ==
    ASSUME NEW S, NEW s \in Seq(S), NEW i \in 1 .. Len(s)
    PROVE  /\ RemoveAt(s, i) \in Seq(S)
           /\ Len(RemoveAt(s, i)) = Len(s) - 1
           /\ \A j \in 1 .. Len(s) - 1 :
                /\ InWhole(i, j) \in 1 .. Len(s)
                /\ InWhole(i, j) # i
                /\ RemoveAt(s, i)[j] = s[InWhole(i, j)]
<1> DEFINE a == SubSeq(s, 1, i - 1)
           b == SubSeq(s, i + 1, Len(s))
<1>1. /\ a \in Seq(S) /\ Len(a) = i - 1
      /\ \A j \in 1 .. i - 1 : a[j] = s[j]
    BY SubSeqProperties
<1>2. /\ b \in Seq(S) /\ Len(b) = Len(s) - i
      /\ \A j \in 1 .. Len(s) - i : b[j] = s[i + j]
    <2>1. /\ b \in Seq(S)
          /\ Len(b) = IF i + 1 <= Len(s) THEN Len(s) - (i + 1) + 1 ELSE 0
          /\ \A j \in 1 .. Len(s) - (i + 1) + 1 : b[j] = s[i + 1 + j - 1]
        BY SubSeqProperties
    <2> QED
        BY <2>1
<1>3. RemoveAt(s, i) = a \o b
    BY DEF RemoveAt
<1> HIDE DEF a, b
<1>4. /\ a \o b \in Seq(S) /\ Len(a \o b) = Len(a) + Len(b)
      /\ \A j \in 1 .. Len(a) + Len(b) :
            (a \o b)[j] = IF j <= Len(a) THEN a[j] ELSE b[j - Len(a)]
    BY <1>1, <1>2, ConcatProperties
<1>5. ASSUME NEW j \in 1 .. Len(s) - 1
      PROVE  /\ InWhole(i, j) \in 1 .. Len(s) /\ InWhole(i, j) # i
             /\ RemoveAt(s, i)[j] = s[InWhole(i, j)]
    <2>1. CASE j < i
        BY <1>1, <1>2, <1>3, <1>4, <2>1 DEF InWhole
    <2>2. CASE j >= i
        <3>1. j - Len(a) \in 1 .. Len(s) - i /\ i + (j - Len(a)) = j + 1
            BY <1>1, <2>2
        <3>2. b[j - Len(a)] = s[j + 1]
            BY <1>2, <3>1
        <3>3. (a \o b)[j] = b[j - Len(a)]
            BY <1>1, <1>2, <1>4, <2>2
        <3> QED
            BY <1>3, <2>2, <3>2, <3>3 DEF InWhole
    <2> QED
        BY <2>1, <2>2
<1> QED
    BY <1>1, <1>2, <1>3, <1>4, <1>5

\* Whoever is removed, the others stay.
LEMMA RemoveFacts ==
    ASSUME NEW S, NEW q \in Seq(S), NEW i \in 1 .. Len(q)
    PROVE  /\ RemoveAt(q, i) \in Seq(S)
           /\ Len(RemoveAt(q, i)) = Len(q) - 1
           /\ \A x \in 1 .. Len(RemoveAt(q, i)) : \E j \in 1 .. Len(q) :
                  j # i /\ RemoveAt(q, i)[x] = q[j]
           /\ \A j \in 1 .. Len(q) : j # i =>
                  \E x \in 1 .. Len(RemoveAt(q, i)) : RemoveAt(q, i)[x] = q[j]
<1>1. Len(q) \in Nat
    BY LenProperties
<1>2. \A j \in 1 .. Len(q) : j # i => \E x \in 1 .. Len(q) - 1 : InWhole(i, x) = j
    BY <1>1, BeforeFacts
<1> DEFINE r == RemoveAt(q, i)
<1>3. /\ r \in Seq(S) /\ Len(r) = Len(q) - 1
      /\ \A x \in 1 .. Len(q) - 1 :
            InWhole(i, x) \in 1 .. Len(q) /\ InWhole(i, x) # i /\ r[x] = q[InWhole(i, x)]
    BY RemoveAtFacts
<1> HIDE DEF r
<1>4. \A x \in 1 .. Len(r) : \E j \in 1 .. Len(q) : j # i /\ r[x] = q[j]
    BY <1>3
<1>5. ASSUME NEW j \in 1 .. Len(q), j # i
      PROVE  \E x \in 1 .. Len(r) : r[x] = q[j]
    <2>1. PICK x \in 1 .. Len(q) - 1 : InWhole(i, x) = j
        BY <1>2, <1>5
    <2> QED
        BY <1>3, <2>1
<1> QED
    BY <1>3, <1>4, <1>5 DEF r

\* A sequence that was appended to.
LEMMA AppendFacts ==
    ASSUME NEW S, NEW q \in Seq(S), NEW e \in S
    PROVE  /\ Append(q, e) \in Seq(S)
           /\ Len(Append(q, e)) = Len(q) + 1
           /\ Len(q) + 1 \in 1 .. Len(Append(q, e)) /\ Append(q, e)[Len(q) + 1] = e
           /\ \A j \in 1 .. Len(q) : j \in 1 .. Len(Append(q, e)) /\ Append(q, e)[j] = q[j]
           /\ \A j \in 1 .. Len(Append(q, e)) : j \in 1 .. Len(q) \/ j = Len(q) + 1
<1>1. Len(q) \in Nat
    BY LenProperties
<1>2. /\ Append(q, e) \in Seq(S)
      /\ Len(Append(q, e)) = Len(q) + 1
      /\ \A j \in 1 .. Len(q) : Append(q, e)[j] = q[j]
      /\ Append(q, e)[Len(q) + 1] = e
    BY AppendProperties
<1> QED
    BY <1>1, <1>2

\* The elements of a finite set, one after the other: each is there once.
LEMMA SetToSeqFacts ==
    ASSUME NEW S, IsFiniteSet(S)
    PROVE  /\ SetToSeq(S) \in Seq(S)
           /\ Len(SetToSeq(S)) = Cardinality(S)
           /\ \A i, j \in 1 .. Cardinality(S) : SetToSeq(S)[i] = SetToSeq(S)[j] => i = j
<1> DEFINE n == Cardinality(S)
<1>1. n \in Nat /\ ExistsBijection(1 .. n, S)
    BY FS_CardinalityType
<1>2. \E f \in [1 .. n -> S] : IsInjective(f)
    BY <1>1 DEF ExistsBijection, Bijection, Injection
<1>3. SetToSeq(S) \in [1 .. n -> S] /\ IsInjective(SetToSeq(S))
    BY <1>2 DEF SetToSeq
<1>4. SetToSeq(S) \in Seq(S) /\ Len(SetToSeq(S)) = n
    <2> HIDE DEF n
    <2> QED
        BY <1>1, <1>3, LenProperties, SeqDef
<1> QED
    BY <1>3, <1>4 DEF IsInjective

\* And each element is there.
LEMMA SetToSeqOnto ==
    ASSUME NEW S, IsFiniteSet(S), NEW x \in S
    PROVE  \E i \in 1 .. Cardinality(S) : SetToSeq(S)[i] = x
<1> DEFINE q == SetToSeq(S)
           n == Cardinality(S)
           rest == S \ {x}
           f == [i \in 1 .. n |-> q[i]]
<1>1. n \in Nat /\ q \in Seq(S) /\ Len(q) = n /\ \A i, j \in 1 .. n : q[i] = q[j] => i = j
    BY FS_CardinalityType, SetToSeqFacts
<1>2. IsFiniteSet(rest) /\ Cardinality(rest) = n - 1
    BY FS_RemoveElement
<1>3. IsFiniteSet(1 .. n) /\ Cardinality(1 .. n) = n
    <2>1. 1 \in Int /\ n \in Int
        BY <1>1
    <2>2. IsFiniteSet(1 .. n) /\ Cardinality(1 .. n) = IF 1 > n THEN 0 ELSE n - 1 + 1
        BY <2>1, FS_Interval
    <2> QED
        BY <1>1, <2>2
<1>4. \A i \in 1 .. n : q[i] \in S
    BY <1>1, ElementOfSeq
<1> HIDE DEF q, n
<1>5. SUFFICES ASSUME \A i \in 1 .. n : q[i] # x
               PROVE  FALSE
    BY DEF q, n
<1>6. f \in [1 .. n -> rest]
    BY <1>4, <1>5
<1>7. \A i, j \in 1 .. n : f[i] = f[j] => i = j
    BY <1>1
<1> HIDE DEF f, rest
<1>8. Cardinality(rest) < Cardinality(1 .. n)
    BY <1>1, <1>2, <1>3
<1> QED
    <2> DEFINE places == 1 .. n
    <2>1. IsFiniteSet(places) /\ Cardinality(rest) < Cardinality(places) /\ f \in [places -> rest]
          /\ \A i, j \in places : f[i] = f[j] => i = j
        BY <1>3, <1>6, <1>7, <1>8
    <2> HIDE DEF places
    <2>2. \E i, j \in places : i # j /\ f[i] = f[j]
        BY <1>2, <2>1, FS_PigeonHole
    <2> QED
        BY <2>1, <2>2

-----------------------------------------------------------------------------
(* Induction, and functions that are defined by recursion.  The properties *)
(* of arguments are sets of them, and the right side of a definition is a  *)
(* function, `step`, of the argument and of the function it defines.       *)

\* A set of numbers with zero and with the successor of each of its elements.
LEMMA InductionOnNumbers ==
    ASSUME NEW G, 0 \in G, \A n \in Nat : n \in G => n + 1 \in G
    PROVE  \A n \in Nat : n \in G
<1> SUFFICES ASSUME NEW m \in Nat, m \notin G
             PROVE  FALSE
    OBVIOUS
<1>1. PICK x \in Nat \ G : \A y \in Nat \ G : x <= y
    <2>1. Nat \ G # {} /\ Nat \ G \in SUBSET Nat
        OBVIOUS
    <2> QED
        BY <2>1, SmallestExists
<1>2. x # 0
    BY <1>1
<1>3. x - 1 \in Nat /\ ~(x <= x - 1) /\ x - 1 + 1 = x
    BY <1>1, <1>2
<1>4. x - 1 \in G
    BY <1>1, <1>3
<1> QED
    BY <1>1, <1>3, <1>4

\* Whatever has a size: an element is in the set if all the smaller ones are.
InductiveBySize(S, size, G) ==
    /\ size \in [S -> Nat]
    /\ \A x \in S : (\A y \in S : size[y] < size[x] => y \in G) => x \in G

\* What follows for an element from all smaller ones holds for all.
LEMMA InductionOnSize ==
    ASSUME NEW S, NEW size, NEW G, InductiveBySize(S, size, G)
    PROVE  \A x \in S : x \in G
<1> SUFFICES ASSUME size \in [S -> Nat],
                    \A x \in S : (\A y \in S : size[y] < size[x] => y \in G) => x \in G,
                    NEW z \in S, z \notin G
             PROVE  FALSE
    BY DEF InductiveBySize
<1> DEFINE bad == {size[x] : x \in {x \in S : x \notin G}}
<1>1. bad \in SUBSET Nat /\ bad # {}
    OBVIOUS
<1>2. PICK n \in bad : \A k \in bad : n <= k
    <2> HIDE DEF bad
    <2> QED
        BY <1>1, SmallestExists
<1>3. PICK x \in S : x \notin G /\ size[x] = n
    BY <1>2
<1>4. ASSUME NEW y \in S, size[y] < size[x]
      PROVE  y \in G
    <2>1. size[y] \in Nat /\ n \in Nat
        BY <1>3
    <2>2. ~(n <= size[y])
        BY <1>3, <1>4, <2>1
    <2>3. size[y] \notin bad
        BY <1>2, <2>2
    <2> QED
        BY <2>3
<1> QED
    BY <1>3, <1>4

\* The value for an argument depends on those for smaller arguments only.
Recursive(S, size, V, step) ==
    /\ size \in [S -> Nat]
    /\ V # {}
    /\ step \in [S \X [S -> V] -> V]
    /\ \A x \in S, f, g \in [S -> V] :
          (\A y \in S : size[y] < size[x] => f[y] = g[y]) => step[<<x, f>>] = step[<<x, g>>]

Solves(f, S, V, step) == f \in [S -> V] /\ \A x \in S : f[x] = step[<<x, f>>]

\* A definition by recursion on the size has a solution.
LEMMA RecursionExists ==
    ASSUME NEW S, NEW size, NEW V, NEW step, Recursive(S, size, V, step)
    PROVE  \E f : Solves(f, S, V, step)
<1> SUFFICES ASSUME size \in [S -> Nat], NEW any \in V,
                    step \in [S \X [S -> V] -> V],
                    \A x \in S, f, g \in [S -> V] :
                       (\A y \in S : size[y] < size[x] => f[y] = g[y]) => step[<<x, f>>] = step[<<x, g>>]
             PROVE  \E f \in [S -> V] : \A x \in S : f[x] = step[<<x, f>>]
    BY DEF Recursive, Solves
<1> DEFINE Upto(n, f) == f \in [S -> V] /\ \A x \in S : size[x] < n => f[x] = step[<<x, f>>]
           G == {n \in Nat : \E f : Upto(n, f)}
<1>1. \A f \in [S -> V] : \A x \in S : step[<<x, f>>] \in V
    OBVIOUS
<1>2. 0 \in G
    <2> DEFINE f == [x \in S |-> any]
    <2>1. f \in [S -> V] /\ \A x \in S : ~(size[x] < 0)
        OBVIOUS
    <2>2. Upto(0, f)
        BY <2>1
    <2> QED
        BY <2>2
<1>3. ASSUME NEW n \in Nat, n \in G
      PROVE  n + 1 \in G
    <2>1. PICK f : Upto(n, f)
        BY <1>3
    <2> DEFINE g == [x \in S |-> step[<<x, f>>]]
    <2>2. g \in [S -> V]
        BY <1>1, <2>1
    <2>3. ASSUME NEW x \in S, size[x] < n + 1
          PROVE  g[x] = step[<<x, g>>]
        <3>1. ASSUME NEW y \in S, size[y] < size[x]
              PROVE  f[y] = g[y]
            <4>1. size[y] \in Nat /\ size[x] \in Nat
                OBVIOUS
            <4>2. size[y] < n
                BY <2>3, <3>1, <4>1
            <4> QED
                BY <2>1, <4>2
        <3>2. step[<<x, f>>] = step[<<x, g>>]
            BY <2>1, <2>2, <3>1
        <3> QED
            BY <3>2
    <2> HIDE DEF g
    <2>4. Upto(n + 1, g)
        BY <2>2, <2>3
    <2> QED
        BY <2>4
<1>4. \A n \in Nat : \E f : Upto(n, f)
    <2>1. \A n \in Nat : n \in G
        <3> HIDE DEF G
        <3> QED
            BY <1>2, <1>3, InductionOnNumbers
    <2> QED
        BY <2>1
<1>5. ASSUME NEW m \in Nat, NEW n \in Nat, NEW f, NEW g, Upto(m, f), Upto(n, g)
      PROVE  \A x \in S : size[x] < m /\ size[x] < n => f[x] = g[x]
    <2> DEFINE H == {x \in S : size[x] < m /\ size[x] < n => f[x] = g[x]}
    <2>1. ASSUME NEW x \in S, \A y \in S : size[y] < size[x] => y \in H
          PROVE  x \in H
        <3> SUFFICES ASSUME size[x] < m, size[x] < n
                     PROVE  f[x] = g[x]
            OBVIOUS
        <3>1. ASSUME NEW y \in S, size[y] < size[x]
              PROVE  f[y] = g[y]
            <4>1. size[y] \in Nat /\ size[x] \in Nat
                OBVIOUS
            <4>2. size[y] < m /\ size[y] < n /\ y \in H
                BY <2>1, <3>1, <4>1
            <4> QED
                BY <4>2
        <3>2. step[<<x, f>>] = step[<<x, g>>]
            BY <1>5, <3>1
        <3> QED
            BY <1>5, <3>2
    <2>2. \A x \in S : x \in H
        <3> HIDE DEF H
        <3> QED
            BY <2>1, InductionOnSize DEF InductiveBySize
    <2> QED
        BY <2>2
<1> DEFINE at == [x \in S |-> CHOOSE f : Upto(size[x] + 1, f)]
           F == [x \in S |-> at[x][x]]
<1>6. ASSUME NEW x \in S
      PROVE  Upto(size[x] + 1, at[x])
    <2>1. size[x] + 1 \in Nat
        OBVIOUS
    <2> HIDE DEF Upto
    <2> QED
        BY <1>4, <2>1
<1> HIDE DEF at
<1>7. F \in [S -> V]
    BY <1>6
<1>8. ASSUME NEW x \in S
      PROVE  F[x] = step[<<x, F>>]
    <2>1. size[x] \in Nat /\ size[x] < size[x] + 1 /\ size[x] + 1 \in Nat
        OBVIOUS
    <2>2. at[x] \in [S -> V] /\ at[x][x] = step[<<x, at[x]>>]
        BY <1>6, <2>1
    <2>3. ASSUME NEW y \in S, size[y] < size[x]
          PROVE  at[x][y] = F[y]
        <3>1. size[y] \in Nat /\ size[y] < size[y] + 1 /\ size[y] + 1 \in Nat /\ size[y] < size[x] + 1
            BY <2>1, <2>3
        <3>2. Upto(size[x] + 1, at[x]) /\ Upto(size[y] + 1, at[y])
            BY <1>6
        <3>3. at[x][y] = at[y][y]
            <4> HIDE DEF Upto
            <4> QED
                BY <1>5, <2>1, <3>1, <3>2
        <3> QED
            BY <3>3
    <2>4. step[<<x, at[x]>>] = step[<<x, F>>]
        <3> HIDE DEF F
        <3> QED
            BY <1>7, <2>2, <2>3
    <2> QED
        BY <2>2, <2>4
<1> QED
    BY <1>7, <1>8

-----------------------------------------------------------------------------
(* Sequences of sequences, one after the other.                             *)

\* The sequences up to each of them, one after the other.
Joined(ss, f) == f = [i \in 1 .. Len(ss) |-> IF i = 1 THEN ss[i] ELSE f[i - 1] \o ss[i]]

\* What FlattenSeq computes.
LEMMA JoinedExists ==
    ASSUME NEW T, NEW ss \in Seq(Seq(T)), Len(ss) > 0
    PROVE  /\ FlattenSeq(ss) \in Seq(T)
           /\ \E f : Joined(ss, f) /\ FlattenSeq(ss) = f[Len(ss)]
<1> DEFINE S == 1 .. Len(ss)
           V == Seq(T)
           size == [i \in S |-> i]
           step == [arg \in S \X [S -> V] |->
                       IF arg[1] = 1 THEN ss[arg[1]] ELSE arg[2][arg[1] - 1] \o ss[arg[1]]]
<1>1. Len(ss) \in Nat /\ \A i \in S : ss[i] \in V
    BY LenProperties, ElementOfSeq
<1>2. size \in [S -> Nat] /\ <<>> \in V
    BY <1>1
<1>3. step \in [S \X [S -> V] -> V]
    <2>1. ASSUME NEW i \in S, NEW f \in [S -> V]
          PROVE  (IF i = 1 THEN ss[i] ELSE f[i - 1] \o ss[i]) \in V
        <3>1. CASE i = 1
            BY <1>1, <3>1
        <3>2. CASE i # 1
            <4>1. i - 1 \in S
                BY <1>1, <3>2
            <4>2. f[i - 1] \in V /\ ss[i] \in V
                BY <1>1, <4>1
            <4> QED
                BY <3>2, <4>2, ConcatProperties
        <3> QED
            BY <3>1, <3>2
    <2> HIDE DEF S, V
    <2> QED
        BY <2>1
<1>4. ASSUME NEW i \in S, NEW f \in [S -> V], NEW g \in [S -> V],
             \A j \in S : size[j] < size[i] => f[j] = g[j]
      PROVE  step[<<i, f>>] = step[<<i, g>>]
    <2>1. step[<<i, f>>] = IF i = 1 THEN ss[i] ELSE f[i - 1] \o ss[i]
        <3> HIDE DEF S, V
        <3> QED
            OBVIOUS
    <2>2. step[<<i, g>>] = IF i = 1 THEN ss[i] ELSE g[i - 1] \o ss[i]
        <3> HIDE DEF S, V
        <3> QED
            OBVIOUS
    <2>3. CASE i # 1
        <3>1. i - 1 \in S /\ size[i - 1] < size[i]
            BY <1>1, <2>3
        <3> QED
            BY <1>4, <2>1, <2>2, <3>1
    <2> QED
        BY <2>1, <2>2, <2>3
<1>5. PICK f \in [S -> V] : \A i \in S : f[i] = step[<<i, f>>]
    <2> HIDE DEF S, V, size, step
    <2>1. Recursive(S, size, V, step)
        BY <1>2, <1>3, <1>4 DEF Recursive
    <2> QED
        BY <2>1, RecursionExists DEF Solves
<1>6. Joined(ss, f)
    <2>1. \A i \in S : f[i] = IF i = 1 THEN ss[i] ELSE f[i - 1] \o ss[i]
        <3> HIDE DEF S, V
        <3> QED
            BY <1>5
    <2> QED
        BY <1>5, <2>1 DEF Joined
<1> HIDE DEF step, size
<1> DEFINE flat == CHOOSE g : Joined(ss, g)
<1>7. Joined(ss, flat)
    BY <1>6
<1>8. FlattenSeq(ss) = flat[Len(ss)]
    BY <1>1 DEF FlattenSeq, Joined
<1>9. \A i \in S : flat[i] \in V
    <2> DEFINE G == {i \in Nat : i + 1 \in S => flat[i + 1] \in V}
    <2> HIDE DEF flat
    <2>1. \A i \in S : flat[i] = IF i = 1 THEN ss[i] ELSE flat[i - 1] \o ss[i]
        BY <1>7 DEF Joined
    <2>2. 0 \in G
        BY <1>1, <2>1
    <2>3. ASSUME NEW n \in Nat, n \in G
          PROVE  n + 1 \in G
        <3>1. SUFFICES ASSUME NEW i \in S, i = n + 1 + 1
                       PROVE  flat[i] \in V
            OBVIOUS
        <3>2. i - 1 \in S /\ i # 1 /\ i - 1 = n + 1
            BY <1>1, <3>1
        <3>3. flat[i - 1] \in V /\ ss[i] \in V
            BY <1>1, <2>3, <3>2
        <3>4. flat[i] = flat[i - 1] \o ss[i]
            BY <2>1, <3>2
        <3> QED
            BY <3>3, <3>4, ConcatProperties
    <2>4. \A n \in Nat : n \in G
        <3> HIDE DEF G
        <3> QED
            BY <2>2, <2>3, InductionOnNumbers
    <2>5. ASSUME NEW i \in S
          PROVE  flat[i] \in V
        <3>1. i - 1 \in Nat /\ i - 1 + 1 = i
            BY <1>1
        <3>2. i - 1 \in G
            BY <2>4, <3>1
        <3> QED
            BY <3>1, <3>2
    <2> QED
        BY <2>5
<1>10. Len(ss) \in S
    BY <1>1
<1> HIDE DEF flat, S
<1> QED
    BY <1>7, <1>8, <1>9, <1>10

\* A set with the empty sequence and with every sequence that one of its
\* elements is longer by an element.
LEMMA InductionOnAppend ==
    ASSUME NEW S, NEW G, <<>> \in G, \A s \in Seq(S), e \in S : s \in G => Append(s, e) \in G
    PROVE  \A s \in Seq(S) : s \in G
<1> DEFINE size == [s \in Seq(S) |-> Len(s)]
<1>1. size \in [Seq(S) -> Nat]
    BY LenProperties
<1>2. ASSUME NEW s \in Seq(S), \A t \in Seq(S) : size[t] < size[s] => t \in G
      PROVE  s \in G
    <2>1. CASE s # <<>>
        <3>1. PICK t \in Seq(S), e \in S : s = Append(t, e)
            BY <2>1, SequenceEmptyOrAppend
        <3>2. Len(t) \in Nat /\ Len(s) = Len(t) + 1
            BY <3>1, AppendProperties, LenProperties
        <3>3. size[t] < size[s]
            BY <3>2
        <3> QED
            BY <1>2, <3>1, <3>3
    <2> QED
        BY <2>1
<1>3. InductiveBySize(Seq(S), size, G)
    <2> HIDE DEF size
    <2> QED
        BY <1>1, <1>2 DEF InductiveBySize
<1> QED
    BY <1>3, InductionOnSize

\* A set with the empty sequence and with every sequence whose tail it has.
LEMMA InductionOnTail ==
    ASSUME NEW S, NEW G, <<>> \in G, \A s \in Seq(S) : s # <<>> /\ Tail(s) \in G => s \in G
    PROVE  \A s \in Seq(S) : s \in G
<1> DEFINE size == [s \in Seq(S) |-> Len(s)]
<1>1. size \in [Seq(S) -> Nat]
    BY LenProperties
<1>2. ASSUME NEW s \in Seq(S), \A t \in Seq(S) : size[t] < size[s] => t \in G
      PROVE  s \in G
    <2>1. CASE s # <<>>
        <3>1. Tail(s) \in Seq(S) /\ Len(Tail(s)) = Len(s) - 1 /\ Len(s) \in Nat
            BY <2>1, HeadTailProperties, LenProperties
        <3>2. size[Tail(s)] < size[s]
            BY <3>1
        <3> QED
            BY <1>2, <2>1, <3>1, <3>2
    <2> QED
        BY <2>1
<1>3. InductiveBySize(Seq(S), size, G)
    <2> HIDE DEF size
    <2> QED
        BY <1>1, <1>2 DEF InductiveBySize
<1> QED
    BY <1>3, InductionOnSize

\* No sequences.
LEMMA FlattenNone ==
    FlattenSeq(<<>>) = <<>>
BY EmptySeq DEF FlattenSeq

\* One sequence more.
LEMMA FlattenAppend ==
    ASSUME NEW T, NEW ss \in Seq(Seq(T)), NEW e \in Seq(T)
    PROVE  FlattenSeq(Append(ss, e)) = FlattenSeq(ss) \o e
<1> DEFINE n == Len(ss)
           more == Append(ss, e)
<1>1. /\ n \in Nat /\ more \in Seq(Seq(T)) /\ Len(more) = n + 1
      /\ \A i \in 1 .. n : more[i] = ss[i]
      /\ more[n + 1] = e
    BY AppendProperties, LenProperties
<1> HIDE DEF more
<1>2. PICK f : Joined(more, f) /\ FlattenSeq(more) = f[n + 1]
    <2>1. more \in Seq(Seq(T)) /\ Len(more) > 0 /\ Len(more) = n + 1
        BY <1>1
    <2> HIDE DEF n
    <2>2. \E f : Joined(more, f) /\ FlattenSeq(more) = f[Len(more)]
        BY <2>1, JoinedExists
    <2> QED
        BY <2>1, <2>2
<1>3. \A i \in 1 .. n + 1 : f[i] = IF i = 1 THEN more[i] ELSE f[i - 1] \o more[i]
    BY <1>1, <1>2 DEF Joined
<1>4. CASE n = 0
    <2>1. ss = <<>>
        BY <1>4, EmptySeq
    <2>2. FlattenSeq(ss) = <<>>
        BY <2>1, FlattenNone
    <2>3. FlattenSeq(more) = e
        BY <1>1, <1>2, <1>3, <1>4
    <2> QED
        BY <2>2, <2>3, ConcatEmptySeq DEF more
<1>5. CASE n # 0
    <2>1. PICK g : Joined(ss, g) /\ FlattenSeq(ss) = g[n]
        BY <1>1, <1>5, JoinedExists
    <2>2. \A i \in 1 .. n : g[i] = IF i = 1 THEN ss[i] ELSE g[i - 1] \o ss[i]
        BY <2>1 DEF Joined
    <2> DEFINE size == [i \in 1 .. n |-> i]
               G == {i \in 1 .. n : f[i] = g[i]}
    <2>3. ASSUME NEW i \in 1 .. n, \A j \in 1 .. n : size[j] < size[i] => j \in G
          PROVE  i \in G
        <3>1. i \in 1 .. n + 1
            BY <1>1
        <3>2. CASE i = 1
            BY <1>1, <1>3, <2>2, <3>1, <3>2
        <3>3. CASE i # 1
            <4>1. i - 1 \in 1 .. n /\ size[i - 1] < size[i]
                BY <1>1, <3>3
            <4>2. f[i - 1] = g[i - 1]
                BY <2>3, <4>1
            <4> QED
                BY <1>1, <1>3, <2>2, <3>1, <3>3, <4>2
        <3> QED
            BY <3>2, <3>3
    <2>4. \A i \in 1 .. n : i \in G
        <3>1. size \in [1 .. n -> Nat]
            BY <1>1
        <3>2. InductiveBySize(1 .. n, size, G)
            <4> HIDE DEF size, G
            <4> QED
                BY <2>3, <3>1 DEF InductiveBySize
        <3> DEFINE places == 1 .. n
        <3> HIDE DEF size, G, places
        <3>3. \A i \in places : i \in G
            BY <3>2, InductionOnSize DEF places
        <3> QED
            BY <3>3 DEF places
    <2>5. n \in 1 .. n /\ n + 1 \in 1 .. n + 1 /\ n + 1 # 1 /\ n + 1 - 1 = n
        BY <1>1, <1>5
    <2>6. f[n] = g[n]
        BY <2>4, <2>5
    <2>7. f[n + 1] = f[n] \o e
        <3>1. PICK m \in 1 .. n + 1 : m = n + 1
            BY <2>5
        <3>2. m # 1 /\ m - 1 = n
            BY <1>1, <1>5, <3>1
        <3>3. f[m] = f[m - 1] \o more[m]
            BY <1>3, <3>2
        <3> QED
            BY <1>1, <3>1, <3>2, <3>3
    <2> QED
        BY <1>2, <2>1, <2>6, <2>7 DEF more
<1> QED
    BY <1>4, <1>5

\* A single sequence.
LEMMA FlattenOne ==
    ASSUME NEW T, NEW e \in Seq(T)
    PROVE  FlattenSeq(<<e>>) = e
<1>1. <<>> \in Seq(Seq(T)) /\ Append(<<>>, e) = <<e>>
    OBVIOUS
<1>2. FlattenSeq(Append(<<>>, e)) = FlattenSeq(<<>>) \o e
    BY <1>1, FlattenAppend
<1> QED
    BY <1>1, <1>2, FlattenNone, ConcatEmptySeq

\* What is joined consists of the same elements.
LEMMA FlattenIsSeq ==
    ASSUME NEW T, NEW ss \in Seq(Seq(T))
    PROVE  FlattenSeq(ss) \in Seq(T)
<1>1. CASE Len(ss) = 0
    BY <1>1, EmptySeq, FlattenNone
<1>2. CASE Len(ss) > 0
    BY <1>2, JoinedExists
<1> QED
    BY <1>1, <1>2, LenProperties

\* Three sequences are put together in any order.
LEMMA AnyOrder ==
    ASSUME NEW S
    PROVE  \A p, q, r \in Seq(S) : (p \o q) \o r = p \o (q \o r)
BY ConcatAssociative, SMTT(60)

\* Two sequences of sequences.
LEMMA FlattenConcat ==
    ASSUME NEW T, NEW rr \in Seq(Seq(T)), NEW ss \in Seq(Seq(T))
    PROVE  FlattenSeq(rr \o ss) = FlattenSeq(rr) \o FlattenSeq(ss)
<1> DEFINE S == Seq(T)
           G == {tt \in Seq(S) : FlattenSeq(rr \o tt) = FlattenSeq(rr) \o FlattenSeq(tt)}
<1>0. \A p, q, r \in Seq(T) : (p \o q) \o r = p \o (q \o r)
    BY AnyOrder, SMTT(30)
<1>1. <<>> \in G
    <2>1. rr \o <<>> = rr /\ FlattenSeq(rr) \o <<>> = FlattenSeq(rr)
        BY ConcatEmptySeq, FlattenIsSeq
    <2>2. <<>> \in Seq(S)
        BY EmptySeq
    <2>3. FlattenSeq(rr \o <<>>) = FlattenSeq(rr) \o FlattenSeq(<<>>)
        BY <2>1, FlattenNone
    <2> QED
        BY <2>2, <2>3
<1>2. ASSUME NEW tt \in Seq(S), NEW e \in S, tt \in G
      PROVE  Append(tt, e) \in G
    <2>1. rr \o Append(tt, e) = Append(rr \o tt, e)
        <3>1. /\ Append(tt, e) = tt \o <<e>> /\ <<e>> \in Seq(S)
              /\ rr \o tt \in Seq(S) /\ Append(rr \o tt, e) = (rr \o tt) \o <<e>>
            BY AppendIsConcat, ConcatProperties
        <3>2. (rr \o tt) \o <<e>> = rr \o (tt \o <<e>>)
            <4>1. PICK one \in Seq(S) : one = <<e>>
                BY <3>1
            <4> HIDE DEF S
            <4>2. rr \in Seq(S) /\ tt \in Seq(S)
                BY DEF S
            <4>3. (rr \o tt) \o one = rr \o (tt \o one)
                BY <4>2, ConcatAssociative
            <4> QED
                BY <4>1, <4>3
        <3> QED
            BY <3>1, <3>2
    <2>2. rr \o tt \in Seq(S) /\ Append(tt, e) \in Seq(S)
        BY ConcatProperties, AppendProperties
    <2>3. /\ FlattenSeq(rr) \in Seq(T) /\ FlattenSeq(tt) \in Seq(T)
        BY FlattenIsSeq
    <2>4. FlattenSeq(rr \o Append(tt, e)) = (FlattenSeq(rr) \o FlattenSeq(tt)) \o e
        BY <1>2, <2>1, <2>2, FlattenAppend
    <2>5. FlattenSeq(Append(tt, e)) = FlattenSeq(tt) \o e
        BY FlattenAppend
    <2>6. FlattenSeq(rr \o Append(tt, e)) = FlattenSeq(rr) \o FlattenSeq(Append(tt, e))
        <3>1. PICK p \in Seq(T), q \in Seq(T), last \in Seq(T) :
                 p = FlattenSeq(rr) /\ q = FlattenSeq(tt) /\ last = e
            BY <2>3
        <3>2. (p \o q) \o last = p \o (q \o last)
            BY <1>0
        <3> HIDE DEF S, G
        <3> QED
            BY <2>4, <2>5, <3>1, <3>2
    <2> QED
        BY <2>2, <2>6
<1>3. \A tt \in Seq(S) : tt \in G
    <2> HIDE DEF G, S
    <2> QED
        BY <1>1, <1>2, InductionOnAppend
<1> QED
    BY <1>3

-----------------------------------------------------------------------------
(* What is before and after a place of a sequence.                          *)

Left(s, i) == SubSeq(s, 1, i - 1)
Right(s, i) == SubSeq(s, i + 1, Len(s))

\* A sequence around one of its places.
LEMMA AroundFacts ==
    ASSUME NEW S, NEW s \in Seq(S), NEW i \in 1 .. Len(s)
    PROVE  /\ Left(s, i) \in Seq(S) /\ Len(Left(s, i)) = i - 1
           /\ \A j \in 1 .. i - 1 : Left(s, i)[j] = s[j]
           /\ Right(s, i) \in Seq(S) /\ Len(Right(s, i)) = Len(s) - i
           /\ \A j \in 1 .. Len(s) - i : Right(s, i)[j] = s[i + j]
           /\ s = Left(s, i) \o <<s[i]>> \o Right(s, i)
<1> DEFINE n == Len(s)
           a == Left(s, i)
           b == Right(s, i)
<1>1. n \in Nat /\ i \in 1 .. n /\ \A j \in 1 .. n : s[j] \in S
    BY LenProperties, ElementOfSeq
<1>2. /\ a \in Seq(S) /\ Len(a) = i - 1
      /\ \A j \in 1 .. i - 1 : a[j] = s[j]
    <2>1. /\ a \in Seq(S)
          /\ Len(a) = IF 1 <= i - 1 THEN i - 1 - 1 + 1 ELSE 0
          /\ \A j \in 1 .. i - 1 - 1 + 1 : a[j] = s[1 + j - 1]
        BY <1>1, SubSeqProperties DEF Left
    <2> QED
        BY <1>1, <2>1
<1>3. /\ b \in Seq(S) /\ Len(b) = n - i
      /\ \A j \in 1 .. n - i : b[j] = s[i + j]
    <2>1. /\ b \in Seq(S)
          /\ Len(b) = IF i + 1 <= n THEN n - (i + 1) + 1 ELSE 0
          /\ \A j \in 1 .. n - (i + 1) + 1 : b[j] = s[i + 1 + j - 1]
        BY <1>1, SubSeqProperties DEF Right
    <2> HIDE DEF n, b
    <2>2. n - (i + 1) + 1 = n - i /\ (~(i + 1 <= n) => n - i = 0)
        BY <1>1
    <2>3. \A j \in 1 .. n - i : i + 1 + j - 1 = i + j
        BY <1>1
    <2> QED
        BY <2>1, <2>2, <2>3
<1>5. SubSeq(s, 1, i) = a \o <<s[i]>>
    <2>1. 1 \in 1 .. n
        BY <1>1
    <2> QED
        BY <2>1, SubSeqRecursiveSecond DEF Left
<1>6. SubSeq(s, 1, i) \o SubSeq(s, i + 1, n) = s
    <2>1. 1 \in 1 .. n + 1 /\ i \in 1 - 1 .. n /\ n \in i .. n
        BY <1>1
    <2> QED
        BY <2>1, ConcatAdjacentSubSeq, SubSeqFull
<1>7. s = a \o <<s[i]>> \o b
    BY <1>5, <1>6 DEF Right
<1> QED
    BY <1>2, <1>3, <1>7

\* And the place of what is between two sequences.
LEMMA PlaceBetween ==
    ASSUME NEW S, NEW a \in Seq(S), NEW x \in S, NEW b \in Seq(S)
    PROVE  /\ a \o <<x>> \o b \in Seq(S)
           /\ Len(a \o <<x>> \o b) = Len(a) + 1 + Len(b)
           /\ Len(a) + 1 \in 1 .. Len(a \o <<x>> \o b)
           /\ (a \o <<x>> \o b)[Len(a) + 1] = x
           /\ Left(a \o <<x>> \o b, Len(a) + 1) = a
           /\ Right(a \o <<x>> \o b, Len(a) + 1) = b
<1> DEFINE s == a \o <<x>> \o b
           i == Len(a) + 1
<1>1. Len(a) \in Nat /\ Len(b) \in Nat
    BY LenProperties
<1>2. <<x>> \in Seq(S) /\ Len(<<x>>) = 1 /\ <<x>>[1] = x
    OBVIOUS
<1>3. /\ a \o <<x>> \in Seq(S) /\ Len(a \o <<x>>) = i
      /\ (a \o <<x>>)[i] = x
      /\ \A j \in 1 .. Len(a) : (a \o <<x>>)[j] = a[j]
    <2>1. /\ a \o <<x>> \in Seq(S) /\ Len(a \o <<x>>) = Len(a) + Len(<<x>>)
          /\ \A j \in 1 .. Len(a) + Len(<<x>>) : (a \o <<x>>)[j] =
                IF j <= Len(a) THEN a[j] ELSE <<x>>[j - Len(a)]
        BY <1>2, ConcatProperties
    <2>2. i \in 1 .. Len(a) + Len(<<x>>) /\ ~(i <= Len(a)) /\ i - Len(a) = 1
        BY <1>1, <1>2
    <2> QED
        BY <1>1, <1>2, <2>1, <2>2
<1>4. /\ s \in Seq(S) /\ Len(s) = i + Len(b)
      /\ \A j \in 1 .. i + Len(b) : s[j] = IF j <= i THEN (a \o <<x>>)[j] ELSE b[j - i]
    BY <1>2, <1>3, ConcatProperties
<1> HIDE DEF s
<1>5. i \in 1 .. Len(s) /\ s[i] = x
    BY <1>1, <1>3, <1>4
<1>6. /\ Left(s, i) \in Seq(S) /\ Len(Left(s, i)) = i - 1
      /\ Right(s, i) \in Seq(S) /\ Len(Right(s, i)) = Len(s) - i
      /\ s = Left(s, i) \o <<s[i]>> \o Right(s, i)
    <2>1. PICK k \in 1 .. Len(s) : k = i
        BY <1>5
    <2>2. s \in Seq(S)
        BY <1>4
    <2>3. /\ Left(s, k) \in Seq(S) /\ Len(Left(s, k)) = k - 1
          /\ Right(s, k) \in Seq(S) /\ Len(Right(s, k)) = Len(s) - k
          /\ s = Left(s, k) \o <<s[k]>> \o Right(s, k)
        <3>1. k \in 1 .. Len(s)
            BY <2>1
        <3> HIDE DEF i
        <3> QED
            BY <2>2, <3>1, AroundFacts, ZenonT(60)
    <2> QED
        BY <2>1, <2>3
<1>7. Left(s, i) = a
    <2>1. ASSUME NEW j \in 1 .. Len(a)
          PROVE  Left(s, i)[j] = a[j]
        <3>1. j \in 1 .. i - 1 /\ j \in 1 .. i + Len(b) /\ j <= i
            BY <1>1
        <3>2. Left(s, i)[j] = s[j]
            <4>1. \A k \in 1 .. i - 1 : s[k] \in S
                BY <1>1, <1>4, ElementOfSeq
            <4>2. \A k \in 1 .. i - 1 - 1 + 1 : SubSeq(s, 1, i - 1)[k] = s[1 + k - 1]
                BY <1>1, <4>1, SubSeqProperties
            <4> QED
                BY <1>1, <3>1, <4>2 DEF Left
        <3> QED
            BY <1>3, <1>4, <3>1, <3>2
    <2>2. Len(Left(s, i)) = Len(a)
        BY <1>1, <1>6
    <2> QED
        BY <1>6, <2>1, <2>2, SeqEqual
<1>8. Right(s, i) = b
    <2>1. (a \o <<x>>) \o Right(s, i) = (a \o <<x>>) \o b
        BY <1>5, <1>6, <1>7 DEF s
    <2>2. \A p, q, r \in Seq(S) : p \o q = p \o r => q = r
        BY ConcatSimplifications
    <2> QED
        BY <1>3, <1>6, <2>1, <2>2
<1> QED
    BY <1>1, <1>4, <1>5, <1>7, <1>8 DEF s

-----------------------------------------------------------------------------
(* The values of a function along a sequence.                               *)

Maps(f, S, V) == \A x \in S : f[x] \in V

Along(cs, f) == [i \in DOMAIN cs |-> f[cs[i]]]

\* A value for each element of a sequence.
LEMMA AlongFacts ==
    ASSUME NEW S, NEW V, NEW cs \in Seq(S), NEW f, Maps(f, S, V)
    PROVE  /\ Along(cs, f) \in Seq(V) /\ Len(Along(cs, f)) = Len(cs)
           /\ \A i \in 1 .. Len(cs) : cs[i] \in S /\ Along(cs, f)[i] = f[cs[i]] /\ f[cs[i]] \in V
<1>1. Len(cs) \in Nat /\ DOMAIN cs = 1 .. Len(cs) /\ \A i \in 1 .. Len(cs) : cs[i] \in S
    BY LenProperties, ElementOfSeq
<1>2. Along(cs, f) = [i \in 1 .. Len(cs) |-> f[cs[i]]]
    BY <1>1 DEF Along
<1>3. \A i \in 1 .. Len(cs) : f[cs[i]] \in V
    BY <1>1 DEF Maps
<1> QED
    BY <1>1, <1>2, <1>3

\* A concatenation is known by its elements.
LEMMA ConcatElements ==
    ASSUME NEW S, NEW p \in Seq(S), NEW q \in Seq(S), NEW r \in Seq(S),
           Len(r) = Len(p) + Len(q),
           \A i \in 1 .. Len(p) : r[i] = p[i],
           \A i \in 1 .. Len(q) : r[Len(p) + i] = q[i]
    PROVE  r = p \o q
<1>1. PICK m \in Nat, n \in Nat : m = Len(p) /\ n = Len(q)
    BY LenProperties
<1>2. PICK s \in Seq(S) : s = p \o q
    BY ConcatProperties
<1>3. Len(s) = m + n /\ \A i \in 1 .. m + n : s[i] = IF i <= m THEN p[i] ELSE q[i - m]
    BY <1>1, <1>2, ConcatProperties
<1>4. ASSUME NEW i \in 1 .. m + n
      PROVE  r[i] = s[i]
    <2>1. CASE i <= m
        <3>1. i \in 1 .. m
            BY <1>1, <2>1
        <3> QED
            BY <1>1, <1>3, <2>1, <3>1
    <2>2. CASE ~(i <= m)
        <3>1. PICK j \in 1 .. n : j = i - m
            <4>1. i - m \in 1 .. n
                BY <1>1, <2>2
            <4> QED
                BY <4>1
        <3>2. m + j = i
            BY <1>1, <3>1
        <3>3. r[m + j] = q[j]
            BY <1>1
        <3> QED
            BY <1>3, <2>2, <3>1, <3>2, <3>3
    <2> QED
        BY <2>1, <2>2
<1>5. Len(r) = m + n
    BY <1>1
<1>6. r = s
    BY <1>3, <1>4, <1>5, SeqEqual
<1> QED
    BY <1>2, <1>6

\* The values along a concatenation.
LEMMA AlongConcat ==
    ASSUME NEW S, NEW V, NEW f, Maps(f, S, V)
    PROVE  \A aa, bb \in Seq(S) : Along(aa \o bb, f) = Along(aa, f) \o Along(bb, f)
<1> SUFFICES ASSUME NEW aa \in Seq(S), NEW bb \in Seq(S)
             PROVE  Along(aa \o bb, f) = Along(aa, f) \o Along(bb, f)
    OBVIOUS
<1>1. PICK m \in Nat, n \in Nat : m = Len(aa) /\ n = Len(bb)
    BY LenProperties
<1>2. PICK cs \in Seq(S) : cs = aa \o bb
    BY ConcatProperties
<1>3. Len(cs) = m + n /\ \A i \in 1 .. m + n : cs[i] = IF i <= m THEN aa[i] ELSE bb[i - m]
    BY <1>1, <1>2, ConcatProperties
<1>4. PICK p \in Seq(V) : p = Along(aa, f) /\ Len(p) = m /\ \A i \in 1 .. m : p[i] = f[aa[i]]
    BY <1>1, AlongFacts
<1>5. PICK q \in Seq(V) : q = Along(bb, f) /\ Len(q) = n /\ \A i \in 1 .. n : q[i] = f[bb[i]]
    BY <1>1, AlongFacts
<1>10. Len(cs) = m + n
    BY <1>3
<1>6. PICK r \in Seq(V) : r = Along(cs, f) /\ Len(r) = m + n /\ \A i \in 1 .. m + n : r[i] = f[cs[i]]
    <2>1. /\ Along(cs, f) \in Seq(V) /\ Len(Along(cs, f)) = Len(cs)
          /\ \A i \in 1 .. Len(cs) : Along(cs, f)[i] = f[cs[i]]
        BY AlongFacts
    <2>2. PICK r \in Seq(V) : r = Along(cs, f)
        BY <2>1
    <2>3. Len(r) = m + n /\ \A i \in 1 .. m + n : r[i] = f[cs[i]]
        BY <1>10, <2>1, <2>2
    <2> QED
        BY <2>2, <2>3
<1>7. ASSUME NEW i \in 1 .. m
      PROVE  r[i] = p[i]
    <2>1. i \in 1 .. m + n /\ i <= m
        BY <1>1
    <2>2. cs[i] = aa[i]
        BY <1>3, <2>1
    <2>3. r[i] = f[cs[i]]
        BY <1>6, <2>1
    <2>4. p[i] = f[aa[i]]
        BY <1>4
    <2> QED
        BY <2>2, <2>3, <2>4
<1>8. ASSUME NEW i \in 1 .. n
      PROVE  r[m + i] = q[i]
    <2>1. PICK j \in 1 .. m + n : j = m + i
        BY <1>1
    <2>2. ~(j <= m) /\ j - m = i
        BY <1>1, <2>1
    <2>3. cs[j] = bb[i]
        BY <1>3, <2>2
    <2> QED
        BY <1>5, <1>6, <2>1, <2>3
<1>9. r = p \o q
    <2>1. Len(r) = Len(p) + Len(q)
        BY <1>4, <1>5, <1>6
    <2>2. \A i \in 1 .. Len(p) : r[i] = p[i]
        BY <1>4, <1>7
    <2>3. \A i \in 1 .. Len(q) : r[Len(p) + i] = q[i]
        BY <1>4, <1>5, <1>8
    <2> QED
        BY <2>1, <2>2, <2>3, ConcatElements
<1> QED
    BY <1>2, <1>4, <1>5, <1>6, <1>9

\* Concatenation, for proofs in which the elements do not matter.
Cat(s, t) == s \o t

\* Concatenation is associative.
LEMMA CatFacts ==
    ASSUME NEW S
    PROVE  /\ \A u, v \in Seq(S) : Cat(u, v) \in Seq(S)
           /\ \A u, v, w \in Seq(S) : Cat(Cat(u, v), w) = Cat(u, Cat(v, w))
<1>1. \A u, v \in Seq(S) : u \o v \in Seq(S)
    BY ConcatProperties
<1>2. \A u, v, w \in Seq(S) : (u \o v) \o w = u \o (v \o w)
    BY ConcatAssociative, SMTT(60)
<1> QED
    BY <1>1, <1>2 DEF Cat

\* A sequence in the middle of the middle one of three.
LEMMA Nested ==
    ASSUME NEW S, NEW l \in Seq(S), NEW a \in Seq(S), NEW n \in Seq(S), NEW b \in Seq(S), NEW r \in Seq(S)
    PROVE  l \o (a \o n \o b) \o r = (l \o a) \o n \o (b \o r)
<1>1. Cat(Cat(l, Cat(Cat(a, n), b)), r) = Cat(Cat(Cat(l, a), n), Cat(b, r))
    BY CatFacts
<1> QED
    BY <1>1 DEF Cat

\* An element replaced, in terms of what is around it.
LEMMA ExceptAround ==
    ASSUME NEW S, NEW s \in Seq(S), NEW i \in 1 .. Len(s), NEW e \in S
    PROVE  [s EXCEPT ![i] = e] = Cat(Cat(Left(s, i), <<e>>), Right(s, i))
<1> DEFINE n == Len(s)
           a == Left(s, i)
           b == Right(s, i)
<1>10. n \in Nat /\ i \in 1 .. n /\ \A j \in 1 .. n : s[j] \in S
    BY LenProperties, ElementOfSeq
<1>11. /\ a \in Seq(S) /\ Len(a) = i - 1
       /\ \A j \in 1 .. i - 1 : a[j] = s[j]
    BY AroundFacts
<1>12. /\ b \in Seq(S) /\ Len(b) = n - i
       /\ \A j \in 1 .. n - i : b[j] = s[i + j]
    BY AroundFacts
<1> DEFINE r == [s EXCEPT ![i] = e]
<1>1. /\ r \in Seq(S) /\ Len(r) = n
      /\ \A j \in 1 .. n : r[j] = IF j = i THEN e ELSE s[j]
    BY <1>10, ExceptSeq
<1> HIDE DEF a, b, r
<1>2. <<e>> \in Seq(S) /\ Len(<<e>>) = 1 /\ <<e>>[1] = e
    OBVIOUS
<1>3. /\ a \o <<e>> \in Seq(S) /\ Len(a \o <<e>>) = i
      /\ \A j \in 1 .. i : (a \o <<e>>)[j] = IF j < i THEN s[j] ELSE e
    <2>1. /\ a \o <<e>> \in Seq(S) /\ Len(a \o <<e>>) = Len(a) + Len(<<e>>)
          /\ \A j \in 1 .. Len(a) + Len(<<e>>) : (a \o <<e>>)[j] =
                IF j <= Len(a) THEN a[j] ELSE <<e>>[j - Len(a)]
        BY <1>11, <1>2, ConcatProperties
    <2>2. ASSUME NEW j \in 1 .. i
          PROVE  (a \o <<e>>)[j] = IF j < i THEN s[j] ELSE e
        <3>1. CASE j < i
            BY <1>10, <1>11, <1>2, <2>1, <3>1
        <3>2. CASE j = i
            <4>1. ~(i <= Len(a)) /\ i - Len(a) = 1 /\ i \in 1 .. Len(a) + Len(<<e>>)
                BY <1>10, <1>11, <1>2
            <4> QED
                BY <1>2, <2>1, <3>2, <4>1
        <3>3. j < i \/ j = i
            BY <1>10
        <3> QED
            BY <3>1, <3>2, <3>3
    <2>3. Len(a) + Len(<<e>>) = i
        BY <1>10, <1>11, <1>2
    <2> QED
        BY <2>1, <2>2, <2>3
<1>4. /\ a \o <<e>> \o b \in Seq(S) /\ Len(a \o <<e>> \o b) = n
      /\ \A j \in 1 .. n : (a \o <<e>> \o b)[j] =
            IF j <= i THEN (a \o <<e>>)[j] ELSE b[j - i]
    <2>1. i + (n - i) = n
        BY <1>10
    <2>2. PICK front \in Seq(S) : front = a \o <<e>>
        BY <1>3
    <2>3. /\ front \o b \in Seq(S) /\ Len(front \o b) = Len(front) + Len(b)
          /\ \A j \in 1 .. Len(front) + Len(b) : (front \o b)[j] =
                IF j <= Len(front) THEN front[j] ELSE b[j - Len(front)]
        BY <1>12, ConcatProperties
    <2>4. Len(front) = i /\ Len(front) + Len(b) = n
        BY <1>12, <1>3, <2>1, <2>2
    <2> QED
        BY <2>2, <2>3, <2>4
<1>5. ASSUME NEW j \in 1 .. n
      PROVE  r[j] = (a \o <<e>> \o b)[j]
    <2>1. CASE j <= i
        BY <1>10, <1>1, <1>3, <1>4, <2>1
    <2>2. CASE j > i
        <3>1. j - i \in 1 .. n - i /\ i + (j - i) = j /\ j # i /\ ~(j <= i)
            BY <1>10, <2>2
        <3> QED
            BY <1>12, <1>1, <1>4, <3>1
    <2>3. j <= i \/ j > i
        BY <1>10
    <2> QED
        BY <2>1, <2>2, <2>3
<1>6. r = a \o <<e>> \o b
    BY <1>1, <1>4, <1>5, SeqEqual
<1> QED
    BY <1>6 DEF r, a, b, Cat

\* An element taken out.
LEMMA RemoveAround ==
    ASSUME NEW s, NEW i
    PROVE  RemoveAt(s, i) = Cat(Left(s, i), Right(s, i))
BY DEF RemoveAt, Left, Right, Cat

\* An element put in, before or after another.
LEMMA InsertAround ==
    ASSUME NEW S, NEW s \in Seq(S), NEW i \in 1 .. Len(s), NEW e
    PROVE  /\ InsertAt(s, i, e) = Cat(Cat(Left(s, i), <<e>>), Cat(<<s[i]>>, Right(s, i)))
           /\ InsertAt(s, i + 1, e) = Cat(Cat(Cat(Left(s, i), <<s[i]>>), <<e>>), Right(s, i))
<1>1. Len(s) \in Nat
    BY LenProperties
<1>2. SubSeq(s, i, Len(s)) = <<s[i]>> \o Right(s, i)
    <2>1. Len(s) \in i .. Len(s)
        BY <1>1
    <2> QED
        BY <2>1, SubSeqRecursiveFirst DEF Right
<1>3. SubSeq(s, 1, i) = Left(s, i) \o <<s[i]>>
    <2>1. 1 \in 1 .. Len(s)
        BY <1>1
    <2> QED
        BY <2>1, SubSeqRecursiveSecond DEF Left
<1>4. (i + 1) - 1 = i
    BY <1>1
<1>5. InsertAt(s, i + 1, e) = SubSeq(s, 1, (i + 1) - 1) \o <<e>> \o Right(s, i)
    BY DEF InsertAt, Right
<1>6. InsertAt(s, i + 1, e) = SubSeq(s, 1, i) \o <<e>> \o Right(s, i)
    BY <1>4, <1>5
<1>7. InsertAt(s, i, e) = Left(s, i) \o <<e>> \o (<<s[i]>> \o Right(s, i))
    BY <1>2 DEF InsertAt, Left
<1> QED
    BY <1>3, <1>6, <1>7 DEF Cat

\* A sequence is what is before an element, the element, and what is after it.
LEMMA CatAround ==
    ASSUME NEW S, NEW s \in Seq(S), NEW i \in 1 .. Len(s)
    PROVE  s = Cat(Cat(Left(s, i), <<s[i]>>), Right(s, i))
BY AroundFacts DEF Cat

\* And it is known by these parts where the element is.
LEMMA CatPlace ==
    ASSUME NEW S, NEW a \in Seq(S), NEW x \in S, NEW b \in Seq(S), NEW s, s = Cat(Cat(a, <<x>>), b)
    PROVE  /\ s \in Seq(S) /\ Len(s) = Len(a) + 1 + Len(b)
           /\ Len(a) + 1 \in 1 .. Len(s) /\ s[Len(a) + 1] = x
           /\ Left(s, Len(a) + 1) = a /\ Right(s, Len(a) + 1) = b
<1>1. s = a \o <<x>> \o b
    BY DEF Cat
<1>2. /\ a \o <<x>> \o b \in Seq(S) /\ Len(a \o <<x>> \o b) = Len(a) + 1 + Len(b)
      /\ Len(a) + 1 \in 1 .. Len(a \o <<x>> \o b) /\ (a \o <<x>> \o b)[Len(a) + 1] = x
      /\ Left(a \o <<x>> \o b, Len(a) + 1) = a /\ Right(a \o <<x>> \o b, Len(a) + 1) = b
    BY PlaceBetween
<1> QED
    BY <1>1, <1>2
=============================================================================
