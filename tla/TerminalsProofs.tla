--------------------------- MODULE TerminalsProofs ---------------------------
(***************************************************************************)
(* Theorems about module Terminals, for every set of keys and sizes and    *)
(* every limit, and about what the sessions behind terminals have printed: *)
(* module SessionHistory, for every set of names and every limit.          *)
(***************************************************************************)
EXTENDS Terminals, SessionHistory, ListLemmas

-----------------------------------------------------------------------------
(* The pruning loops: which entries they leave, and how many.               *)

\* The loops keep the sockets Newest(S, limit); the cache of histories keeps
\* the newest of its lines alike.

\* Sockets are numbered.
LEMMA ConnNat == \A c \in Conn : c \in Nat /\ c # NoConn
BY BoundsAssumption DEF Conn, NoConn

\* A set of sockets that is not empty has a greatest element.
LEMMA GreatestExists ==
    ASSUME NEW S \in SUBSET Conn, S # {}
    PROVE  \E x \in S : \A y \in S : y <= x
<1>1. MaxConn \in Nat /\ S \in SUBSET Nat /\ \A y \in S : y <= MaxConn
  BY BoundsAssumption DEF Conn
<1> QED BY <1>1, LargestExists

\* Sets of sockets are finite.
LEMMA ConnFinite ==
    ASSUME NEW S \in SUBSET Conn
    PROVE  IsFiniteSet(S) /\ Cardinality(S) \in Nat
<1>1. IsFiniteSet(Conn)
  BY BoundsAssumption, FS_Interval DEF Conn
<1>2. IsFiniteSet(S)
  BY <1>1, FS_Subset
<1> QED BY <1>2, FS_CardinalityType

\* No more than the limit are kept.
LEMMA NewestIsBounded ==
    ASSUME NEW S \in SUBSET Conn, NEW L \in Nat
    PROVE  Cardinality(Newest(S, L)) <= L
<1> DEFINE K == Newest(S, L)
<1>1. K \in SUBSET S
  BY DEF Newest
<1>2. CASE K = {}
  BY <1>2, FS_EmptySet
<1>3. CASE K # {}
  <2>1. K \in SUBSET Nat /\ S \in SUBSET Nat
    BY <1>1, ConnNat
  <2>2. PICK m \in K : \A d \in K : m <= d
    <3> HIDE DEF K
    <3> QED BY <1>3, <2>1, SmallestExists
  <2> DEFINE A == {e \in S : e > m}
  <2>3. Cardinality(A) < L
    BY <2>2 DEF Newest
  <2>4. m \notin A /\ A \in SUBSET Conn
    <3>1. m \in Nat
      BY <2>1, <2>2
    <3>2. ~ (m > m)
      BY <3>1
    <3> QED BY <3>2
  <2>5. IsFiniteSet(A) /\ Cardinality(A) \in Nat
    BY <2>4, ConnFinite
  <2>6. K \subseteq A \cup {m}
    <3>1. ASSUME NEW d \in K, d # m PROVE d \in A
      <4>1. d \in S /\ d \in Nat /\ m \in Nat /\ m <= d
        BY <1>1, <2>1, <2>2
      <4> QED BY <3>1, <4>1
    <3> QED BY <3>1
  <2>7. IsFiniteSet(A \cup {m}) /\ Cardinality(A \cup {m}) = Cardinality(A) + 1
    BY <2>4, <2>5, FS_AddElement
  <2>8. Cardinality(K) <= Cardinality(A) + 1
    <3> HIDE DEF K, A
    <3> QED BY <2>6, <2>7, FS_Subset
  <2>9. Cardinality(K) \in Nat
    BY <1>1, ConnFinite
  <2> QED BY <2>3, <2>5, <2>8, <2>9
<1> QED BY <1>2, <1>3

\* If one is dropped, as many as the limit are kept.
LEMMA NewestIsFull ==
    ASSUME NEW S \in SUBSET Conn, NEW L \in Nat, S \ Newest(S, L) # {}
    PROVE  Cardinality(Newest(S, L)) >= L
<1> DEFINE K == Newest(S, L)
<1>1. PICK x \in S \ K : \A y \in S \ K : y <= x
  <2>1. S \ K \in SUBSET Conn
    OBVIOUS
  <2> HIDE DEF K
  <2> QED BY <2>1, GreatestExists DEF K
<1> DEFINE A == {e \in S : e > x}
<1>2. ~ (Cardinality(A) < L)
  BY <1>1 DEF Newest
<1>3. A \subseteq K
  <2>1. ASSUME NEW y \in A, y \notin K PROVE FALSE
    <3>1. y \in S /\ y > x /\ y \in Nat /\ x \in Nat
      BY ConnNat
    <3>2. y <= x
      <4> HIDE DEF K, A
      <4> QED BY <1>1, <2>1, <3>1
    <3> QED BY <3>1, <3>2
  <2> QED BY <2>1
<1>4. K \in SUBSET Conn /\ A \in SUBSET Conn
  BY DEF Newest
<1>5. IsFiniteSet(K) /\ Cardinality(K) \in Nat /\ Cardinality(A) \in Nat
  BY <1>4, ConnFinite
<1>6. Cardinality(A) <= Cardinality(K)
  <2> HIDE DEF K, A
  <2> QED BY <1>3, <1>5, FS_Subset
<1> QED BY <1>2, <1>5, <1>6

\* What is kept is newer than what is dropped.
LEMMA NewestIsAbove ==
    ASSUME NEW S \in SUBSET Conn, NEW L \in Nat,
           NEW d \in Newest(S, L), NEW c \in S \ Newest(S, L)
    PROVE  c < d
<1> DEFINE A == {e \in S : e > c}
           B == {e \in S : e > d}
<1>1. Cardinality(B) < L /\ ~ (Cardinality(A) < L)
  BY DEF Newest
<1>2. c \in Nat /\ d \in Nat /\ S \subseteq Nat
  BY ConnNat DEF Newest
<1>3. SUFFICES ASSUME d <= c PROVE FALSE
  BY <1>2
<1>4. A \subseteq B
  <2>1. ASSUME NEW e \in A PROVE e \in S /\ e > d
    <3>1. e \in S /\ e > c /\ e \in Nat
      BY <1>2
    <3> QED BY <1>2, <1>3, <3>1
  <2> QED BY <2>1
<1>5. IsFiniteSet(B) /\ Cardinality(B) \in Nat /\ Cardinality(A) \in Nat
  <2>1. A \in SUBSET Conn /\ B \in SUBSET Conn
    OBVIOUS
  <2> QED BY <2>1, ConnFinite
<1>6. Cardinality(A) <= Cardinality(B)
  <2> HIDE DEF A, B
  <2> QED BY <1>4, <1>5, FS_Subset
<1> QED BY <1>1, <1>5, <1>6

\* The holders of a map without its oldest entries are its newest holders.
LEMMA HoldersOfPruned ==
    ASSUME NEW m \in [Id -> Conn \cup {NoConn}], NEW L \in Nat
    PROVE  /\ Holders(m) \in SUBSET Conn
           /\ Holders(Without(m, Oldest(m, L))) = Newest(Holders(m), L)
<1>1. Holders(m) \in SUBSET Conn
  BY DEF Holders
<1> DEFINE H == Holders(m)
           w == Without(m, Oldest(m, L))
<1>2. \A i \in Id : i \in Oldest(m, L) <=>
          m[i] # NoConn /\ Cardinality({d \in H : d > m[i]}) >= L
  BY DEF Oldest
<1>3. w \in [Id -> Conn \cup {NoConn}]
      /\ \A i \in Id : w[i] = IF i \in Oldest(m, L) THEN NoConn ELSE m[i]
  BY DEF Without
<1>4. \A d \in H : Cardinality({e \in H : e > d}) \in Nat
  <2> TAKE d \in H
  <2>1. {e \in H : e > d} \in SUBSET Conn
    BY <1>1
  <2> QED BY <2>1, ConnFinite
<1>5. ASSUME NEW d \in Holders(w) PROVE d \in Newest(H, L)
  <2>1. PICK i \in Id : w[i] = d /\ d # NoConn
    BY <1>3 DEF Holders
  <2>2. d = m[i] /\ i \notin Oldest(m, L)
    BY <1>3, <2>1
  <2>3. d \in H
    BY <2>1, <2>2 DEF Holders
  <2> HIDE DEF H
  <2> QED BY <1>2, <1>4, <2>1, <2>2, <2>3 DEF Newest
<1>6. ASSUME NEW d \in Newest(H, L) PROVE d \in Holders(w)
  <2>1. d \in H /\ Cardinality({e \in H : e > d}) < L
    BY DEF Newest
  <2>2. PICK i \in Id : m[i] = d /\ d # NoConn
    BY <2>1 DEF Holders
  <2>3. i \notin Oldest(m, L)
    <3> HIDE DEF H
    <3> QED BY <1>2, <1>4, <2>1, <2>2
  <2> QED BY <1>3, <2>2, <2>3 DEF Holders
<1> QED BY <1>1, <1>5, <1>6

\* A map that only lost entries has no more holders than before.
LEMMA HoldersShrink ==
    ASSUME NEW m \in [Id -> Conn \cup {NoConn}], NEW n \in [Id -> Conn \cup {NoConn}],
           \A i \in Id : n[i] \in {m[i], NoConn}
    PROVE  Cardinality(Holders(n)) <= Cardinality(Holders(m))
<1>1. Holders(m) \in SUBSET Conn /\ Holders(n) \subseteq Holders(m)
  BY DEF Holders
<1>2. IsFiniteSet(Holders(m))
  BY <1>1, ConnFinite
<1> QED BY <1>1, <1>2, FS_Subset

\* The newest entry of a map is not among those a loop drops.
LEMMA NewestIsKept ==
    ASSUME NEW m \in [Id -> Conn \cup {NoConn}], NEW L \in Nat \ {0}, NEW i \in Id,
           \A j \in Id : m[j] <= m[i]
    PROVE  i \notin Oldest(m, L)
<1>1. CASE m[i] = NoConn
  BY <1>1 DEF Oldest
<1>2. CASE m[i] # NoConn
  <2> DEFINE A == {d \in Holders(m) : d > m[i]}
  <2>1. ASSUME NEW d \in A PROVE FALSE
    <3>1. PICK j \in Id : d = m[j] /\ d # NoConn /\ d > m[i]
      BY DEF Holders
    <3>2. d \in Nat /\ m[i] \in Nat
      BY <3>1, <1>2, ConnNat
    <3> QED BY <3>1, <3>2
  <2>2. Cardinality(A) = 0
    BY <2>1, FS_EmptySet
  <2> QED BY <2>2 DEF Oldest
<1> QED BY <1>1, <1>2

-----------------------------------------------------------------------------
(* The inductive invariant.                                                 *)

PtyState == {"none", "running", "dead", "killed", "exited"}

\* The invariant holds at the start.
LEMMA InitInd == Init => IndInv
<1> SUFFICES ASSUME Init PROVE IndInv
  OBVIOUS
<1> USE DEF Init
<1>1. TypeOK
  BY BoundsAssumption DEF TypeOK
<1>2. Holders(active) = {} /\ Holders(panes) = {}
  BY DEF Holders
<1>3. LimitsHold
  BY <1>2, FS_EmptySet, LimitsAssumption DEF LimitsHold
<1>4. ArrivalsInOrder /\ NewerPanesAreRegistered /\ PendingResizeIsNew
  BY DEF ArrivalsInOrder, NewerPanesAreRegistered, PendingResizeIsNew
<1>5. RegistryHoldsLiveTerminals /\ LiveTerminalIsTracked /\ NoPaneOutlivesItsTerminal
  BY DEF RegistryHoldsLiveTerminals, LiveTerminalIsTracked, NoPaneOutlivesItsTerminal
<1> QED BY <1>1, <1>3, <1>4, <1>5 DEF IndInv

\* A terminal ends: whatever its PTY and its socket become, its id is dropped
\* from the registry, the panes and the timers.
LEMMA EndInd ==
    ASSUME IndInv, NEW c \in Conn, Accepted(c), NEW p \in [Conn -> PtyState],
           \A x \in Conn : x # c => p[x] = pty[x],
           p[c] = "running" => pty[c] = "running",
           socket' \in [Conn -> {"none", "open", "closing", "closed"}],
           \A x \in Conn : x # c => socket'[x] = socket[x],
           RemovePanes({tid[c]}), KillTerminals(p, {tid[c]}),
           UNCHANGED <<now, opened, tid>>
    PROVE  IndInv'
<1> DEFINE e == tid[c]
<1>1. /\ e \in Id
      /\ ~ (c > opened)
  BY DEF IndInv, ArrivalsInOrder, Accepted
<1>t. TypeOK
  BY DEF IndInv
<1>2. /\ active' \in [Id -> Conn \cup {NoConn}]
      /\ \A i \in Id : active'[i] = IF i = e THEN NoConn ELSE active[i]
  BY <1>t DEF TypeOK, KillTerminals, Without
<1>3. /\ panes' \in [Id -> Conn \cup {NoConn}]
      /\ \A i \in Id : panes'[i] = IF i = e THEN NoConn ELSE panes[i]
  BY <1>t DEF TypeOK, RemovePanes, Without
<1>4. /\ resizeTimers' \in [Id -> Size \cup {NoSize}]
      /\ \A i \in Id : resizeTimers'[i] = IF i = e THEN NoSize ELSE resizeTimers[i]
  BY <1>t DEF TypeOK, KillTerminals
<1>5. /\ lastSize' \in [Conn -> Size \cup {NoSize}]
      /\ \A x \in Conn : lastSize'[x] \in {lastSize[x], NoSize}
  BY <1>t DEF TypeOK, KillTerminals, Forgotten
<1>6. /\ pty' \in [Conn -> PtyState]
      /\ \A x \in Conn : pty'[x] = IF x = active[e] /\ p[x] = "running" THEN "killed" ELSE p[x]
  BY DEF KillTerminals, Signalled, PtyState
<1>7. TypeOK'
  BY <1>t, <1>2, <1>3, <1>4, <1>5, <1>6 DEF TypeOK, PtyState
<1>8. ArrivalsInOrder'
  BY <1>1, <1>6, <1>t DEF IndInv, ArrivalsInOrder, TypeOK
<1>r. RegistryHoldsLiveTerminals
  BY DEF IndInv
<1>9. RegistryHoldsLiveTerminals'
  <2>1. ASSUME NEW x \in Conn, pty'[x] = "running"
        PROVE  tid'[x] \in Id /\ active'[tid'[x]] = x
    <3>1. pty[x] = "running" /\ x # active[e]
      BY <1>6, <2>1
    <3>2. tid[x] \in Id /\ active[tid[x]] = x
      BY <3>1, <1>r DEF RegistryHoldsLiveTerminals
    <3> QED BY <3>1, <3>2, <1>2
  <2>2. ASSUME NEW i \in Id, active'[i] # NoConn
        PROVE  /\ tid'[active'[i]] = i
               /\ pty'[active'[i]] \in {"running", "dead"}
               /\ socket'[active'[i]] \in {"open", "closing"}
    <3>1. i # e /\ active'[i] = active[i] /\ active[i] # NoConn
      BY <1>2, <2>2
    <3>2. active[i] \in Conn
      BY <3>1, <1>t DEF TypeOK
    <3>3. /\ tid[active[i]] = i
          /\ pty[active[i]] \in {"running", "dead"}
          /\ socket[active[i]] \in {"open", "closing"}
      BY <3>1, <1>r DEF RegistryHoldsLiveTerminals
    <3>4. active[i] # c
      BY <3>1, <3>3
    <3>5. active[i] # active[e]
      BY <3>1, <3>3, <1>1, <1>r DEF RegistryHoldsLiveTerminals
    <3> QED BY <3>1, <3>2, <3>3, <3>4, <3>5, <1>6
  <2> QED BY <2>1, <2>2 DEF RegistryHoldsLiveTerminals
<1>10. LiveTerminalIsTracked' /\ NewerPanesAreRegistered'
  BY <1>2, <1>3 DEF IndInv, LiveTerminalIsTracked, NewerPanesAreRegistered
<1>11. NoPaneOutlivesItsTerminal'
  <2> SUFFICES ASSUME NEW i \in Id, panes'[i] # NoConn
               PROVE  /\ tid'[panes'[i]] = i
                      /\ socket'[panes'[i]] \in {"open", "closing"}
                      /\ pty'[panes'[i]] \in {"running", "dead", "killed"}
    BY DEF NoPaneOutlivesItsTerminal
  <2>1. i # e /\ panes'[i] = panes[i] /\ panes[i] # NoConn
    BY <1>3
  <2>2. panes[i] \in Conn
    BY <2>1, <1>t DEF TypeOK
  <2>3. /\ tid[panes[i]] = i
        /\ socket[panes[i]] \in {"open", "closing"}
        /\ pty[panes[i]] \in {"running", "dead", "killed"}
    BY <2>1 DEF IndInv, NoPaneOutlivesItsTerminal
  <2>4. panes[i] # c
    BY <2>1, <2>3
  <2> QED BY <2>1, <2>2, <2>3, <2>4, <1>6
<1>12. PendingResizeIsNew'
  <2> SUFFICES ASSUME NEW i \in Id, resizeTimers'[i] # NoSize
               PROVE  active'[i] # NoConn /\ lastSize'[active'[i]] # resizeTimers'[i]
    BY DEF PendingResizeIsNew
  <2>1. i # e /\ resizeTimers'[i] = resizeTimers[i] /\ resizeTimers[i] # NoSize
    BY <1>4
  <2>2. active[i] # NoConn /\ lastSize[active[i]] # resizeTimers[i]
    BY <2>1 DEF IndInv, PendingResizeIsNew
  <2>3. active'[i] = active[i] /\ active[i] \in Conn
    BY <2>1, <2>2, <1>2, <1>t DEF TypeOK
  <2> QED BY <2>1, <2>2, <2>3, <1>5
<1>13. LimitsHold'
  <2>1. Cardinality(Holders(active')) <= Cardinality(Holders(active))
    BY <1>2, <1>t, HoldersShrink DEF TypeOK
  <2>2. Cardinality(Holders(panes')) <= Cardinality(Holders(panes))
    BY <1>3, <1>t, HoldersShrink DEF TypeOK
  <2>3. /\ Cardinality(Holders(active)) \in Nat /\ Cardinality(Holders(active')) \in Nat
        /\ Cardinality(Holders(panes)) \in Nat /\ Cardinality(Holders(panes')) \in Nat
    <3>1. /\ Holders(active) \in SUBSET Conn /\ Holders(active') \in SUBSET Conn
          /\ Holders(panes) \in SUBSET Conn /\ Holders(panes') \in SUBSET Conn
      BY <1>2, <1>3, <1>t DEF TypeOK, Holders
    <3> QED BY <3>1, ConnFinite
  <2>4. Cardinality(Holders(active)) <= MaxActive /\ Cardinality(Holders(panes)) <= MaxPanes
    BY DEF IndInv, LimitsHold
  <2> QED BY <2>1, <2>2, <2>3, <2>4, LimitsAssumption DEF LimitsHold
<1> QED BY <1>7, <1>8, <1>9, <1>10, <1>11, <1>12, <1>13 DEF IndInv

\* The two maps as Accept leaves them, k being the key of the new terminal.
Entries(k) == [active EXCEPT ![<<k, now>>] = opened + 1]
Tracked(k) == [panes EXCEPT ![<<k, now>>] = opened + 1]
Killed(k) == {active[j] : j \in Oldest(Entries(k), MaxActive) \cup {<<k, now>>}}

\* What the new socket and its id are, and what the maps hold before the
\* pruning loops run.
LEMMA AcceptFacts ==
    ASSUME IndInv, NEW k \in Key, Accept(k)
    PROVE  /\ opened + 1 \in Conn /\ <<k, now>> \in Id
           /\ Entries(k) \in [Id -> Conn \cup {NoConn}]
           /\ Tracked(k) \in [Id -> Conn \cup {NoConn}]
           /\ pty[opened + 1] = "none" /\ socket[opened + 1] = "none"
           /\ \A j \in Id : active[j] <= opened /\ panes[j] <= opened
           /\ opened \in Nat
           /\ <<k, now>> \notin Oldest(Entries(k), MaxActive)
           /\ <<k, now>> \notin Oldest(Tracked(k), MaxPanes)
<1> DEFINE c == opened + 1
           i == <<k, now>>
<1>t. TypeOK
  BY DEF IndInv
<1>1. c \in Conn /\ opened \in Nat
  BY <1>t, BoundsAssumption DEF TypeOK, Accept, Conn
<1>2. i \in Id
  BY <1>t DEF TypeOK, Id
<1>3. /\ Entries(k) \in [Id -> Conn \cup {NoConn}]
      /\ Tracked(k) \in [Id -> Conn \cup {NoConn}]
  BY <1>1, <1>2, <1>t DEF TypeOK, Entries, Tracked
<1>4. \A x \in Conn : pty[x] # "none" => x <= opened
  BY <1>1, ConnNat DEF IndInv, ArrivalsInOrder
<1>5. pty[c] = "none" /\ socket[c] = "none"
  BY <1>1 DEF IndInv, ArrivalsInOrder
<1>6. ASSUME NEW j \in Id PROVE active[j] <= opened /\ panes[j] <= opened
  <2>1. active[j] # NoConn => active[j] \in Conn /\ pty[active[j]] # "none"
    BY <1>t DEF TypeOK, IndInv, RegistryHoldsLiveTerminals
  <2>2. panes[j] # NoConn => panes[j] \in Conn /\ pty[panes[j]] # "none"
    BY <1>t DEF TypeOK, IndInv, NoPaneOutlivesItsTerminal
  <2> QED BY <2>1, <2>2, <1>1, <1>4 DEF NoConn
<1>7. \A j \in Id : Entries(k)[j] <= Entries(k)[i] /\ Tracked(k)[j] <= Tracked(k)[i]
  <2> TAKE j \in Id
  <2>1. Entries(k)[i] = c /\ Tracked(k)[i] = c
    BY <1>2, <1>t DEF Entries, Tracked, TypeOK
  <2>2. Entries(k)[j] \in {c, active[j]} /\ Tracked(k)[j] \in {c, panes[j]}
    BY <1>2, <1>t DEF Entries, Tracked, TypeOK
  <2>3. active[j] \in Nat /\ panes[j] \in Nat
    BY <1>t, ConnNat DEF TypeOK, NoConn
  <2> QED BY <2>1, <2>2, <2>3, <1>6, <1>1
<1>8. MaxActive \in Nat \ {0} /\ MaxPanes \in Nat \ {0}
  BY LimitsAssumption
<1> HIDE DEF i
<1>9. i \notin Oldest(Entries(k), MaxActive) /\ i \notin Oldest(Tracked(k), MaxPanes)
  BY <1>2, <1>3, <1>7, <1>8, NewestIsKept
<1> QED BY <1>1, <1>2, <1>3, <1>5, <1>6, <1>9 DEF i

\* The loops agree: whatever is newer than a registered terminal and tracked is
\* registered, so that an entry the registry keeps has fewer than MaxActive
\* panes before it, and the engine keeps it too.
LEMMA LoopsAgree ==
    ASSUME IndInv, NEW k \in Key, Accept(k), NEW j \in Id,
           Entries(k)[j] # NoConn, j \notin Oldest(Entries(k), MaxActive)
    PROVE  /\ Tracked(k)[j] = Entries(k)[j]
           /\ j \notin Oldest(Tracked(k), MaxPanes)
           /\ \A m \in Id : Tracked(k)[m] # NoConn /\ Tracked(k)[m] > Entries(k)[j]
                 => /\ Entries(k)[m] = Tracked(k)[m]
                    /\ m \notin Oldest(Entries(k), MaxActive)
<1> DEFINE E == Entries(k)
           T == Tracked(k)
           i == <<k, now>>
           c == opened + 1
<1>t. TypeOK
  BY DEF IndInv
<1>1. /\ i \in Id /\ c \in Conn /\ opened \in Nat
      /\ E \in [Id -> Conn \cup {NoConn}] /\ T \in [Id -> Conn \cup {NoConn}]
      /\ \A m \in Id : active[m] <= opened /\ panes[m] <= opened
  BY AcceptFacts
<1>2. \A m \in Id : /\ E[m] = IF m = i THEN c ELSE active[m]
                    /\ T[m] = IF m = i THEN c ELSE panes[m]
  BY <1>1, <1>t DEF TypeOK, Entries, Tracked
<1>3. T[j] = E[j]
  BY <1>2 DEF IndInv, LiveTerminalIsTracked
<1>4. E[j] \in Conn /\ E[j] \in Nat
  BY <1>1, ConnNat
<1>5. ASSUME NEW m \in Id, T[m] # NoConn, T[m] > E[j] PROVE E[m] = T[m]
  <2>1. CASE m = i
    BY <2>1, <1>2
  <2>2. CASE m # i
    <3>1. T[m] = panes[m] /\ panes[m] # NoConn /\ T[m] <= opened
      BY <2>2, <1>5, <1>2, <1>1
    <3>2. j # i
      <4>1. T[m] \in Nat
        BY <1>5, <1>1, ConnNat
      <4> QED BY <4>1, <3>1, <1>5, <1>1, <1>2
    <3>3. E[j] = active[j] /\ active[j] # NoConn
      BY <3>2, <1>2
    <3>4. active[m] = panes[m]
      BY <3>1, <3>3, <1>5 DEF IndInv, NewerPanesAreRegistered
    <3> QED BY <3>1, <3>4, <2>2, <1>2
  <2> QED BY <2>1, <2>2
<1> DEFINE Above(S, n) == {d \in S : d > n}
<1>6. Cardinality(Above(Holders(E), E[j])) < MaxActive
  <2>1. Above(Holders(E), E[j]) \in SUBSET Conn
    BY <1>1 DEF Holders
  <2>2. Cardinality(Above(Holders(E), E[j])) \in Nat
    BY <2>1, ConnFinite
  <2>3. ~ (Cardinality(Above(Holders(E), E[j])) >= MaxActive)
    BY <1>1 DEF Oldest
  <2> QED BY <2>2, <2>3, LimitsAssumption
<1>7. Above(Holders(T), T[j]) \subseteq Above(Holders(E), E[j])
  <2>1. ASSUME NEW d \in Above(Holders(T), T[j]) PROVE d \in Holders(E) /\ d > E[j]
    <3>1. PICK m \in Id : T[m] = d /\ d # NoConn /\ d > E[j]
      BY <1>1, <1>3 DEF Holders
    <3>2. E[m] = d
      BY <3>1, <1>5
    <3> QED BY <3>1, <3>2, <1>1 DEF Holders
  <2> QED BY <2>1
<1>8. j \notin Oldest(T, MaxPanes)
  <2>1. Above(Holders(E), E[j]) \in SUBSET Conn
    BY <1>1 DEF Holders
  <2>2. /\ IsFiniteSet(Above(Holders(E), E[j]))
        /\ Cardinality(Above(Holders(E), E[j])) \in Nat
    BY <2>1, ConnFinite
  <2>3. /\ Cardinality(Above(Holders(T), T[j])) <= Cardinality(Above(Holders(E), E[j]))
        /\ Cardinality(Above(Holders(T), T[j])) \in Nat
    <3> HIDE DEF Above
    <3> QED BY <1>7, <2>2, FS_Subset, FS_CardinalityType
  <2>4. ~ (Cardinality(Above(Holders(T), T[j])) >= MaxPanes)
    BY <1>6, <2>2, <2>3, LimitsAssumption
  <2> QED BY <2>4 DEF Oldest
<1>9. ASSUME NEW m \in Id, T[m] # NoConn, T[m] > E[j]
      PROVE  m \notin Oldest(E, MaxActive)
  <2>1. E[m] = T[m] /\ E[m] \in Nat
    BY <1>9, <1>5, <1>1, ConnNat
  <2>2. Above(Holders(E), E[m]) \subseteq Above(Holders(E), E[j])
    <3>1. ASSUME NEW d \in Holders(E), d > E[m] PROVE d > E[j]
      <4>1. d \in Nat
        BY <1>1, ConnNat DEF Holders
      <4> QED BY <4>1, <3>1, <2>1, <1>9, <1>4
    <3> QED BY <3>1
  <2>3. Above(Holders(E), E[j]) \in SUBSET Conn
    BY <1>1 DEF Holders
  <2>4. /\ IsFiniteSet(Above(Holders(E), E[j]))
        /\ Cardinality(Above(Holders(E), E[j])) \in Nat
    BY <2>3, ConnFinite
  <2>5. /\ Cardinality(Above(Holders(E), E[m])) <= Cardinality(Above(Holders(E), E[j]))
        /\ Cardinality(Above(Holders(E), E[m])) \in Nat
    <3> HIDE DEF Above
    <3> QED BY <2>2, <2>4, FS_Subset, FS_CardinalityType
  <2>6. ~ (Cardinality(Above(Holders(E), E[m])) >= MaxActive)
    BY <1>6, <2>4, <2>5, LimitsAssumption
  <2> QED BY <2>6 DEF Oldest
<1> QED BY <1>3, <1>5, <1>8, <1>9

\* A terminal is accepted.
LEMMA AcceptInd ==
    ASSUME IndInv, NEW k \in Key, Accept(k)
    PROVE  IndInv'
<1> DEFINE c == opened + 1
           i == <<k, now>>
           pruned == Oldest(Entries(k), MaxActive)
           dropped == Oldest(Tracked(k), MaxPanes)
<1>t. TypeOK
  BY DEF IndInv
<1>r. RegistryHoldsLiveTerminals
  BY DEF IndInv
<1>1. /\ c \in Conn /\ i \in Id /\ opened \in Nat
      /\ Entries(k) \in [Id -> Conn \cup {NoConn}]
      /\ Tracked(k) \in [Id -> Conn \cup {NoConn}]
      /\ pty[c] = "none" /\ socket[c] = "none"
      /\ \A j \in Id : active[j] <= opened /\ panes[j] <= opened
      /\ i \notin pruned /\ i \notin dropped
  BY AcceptFacts
<1>2. /\ opened' = c /\ now' = now
      /\ socket' = [socket EXCEPT ![c] = "open"]
      /\ tid' = [tid EXCEPT ![c] = i]
  BY DEF Accept
<1>3. /\ active' = Without(Entries(k), pruned)
      /\ active' \in [Id -> Conn \cup {NoConn}]
      /\ \A j \in Id : active'[j] = IF j \in pruned THEN NoConn
                                   ELSE IF j = i THEN c ELSE active[j]
  <2>1. active' = Without(Entries(k), pruned)
    BY DEF Accept, Entries
  <2> QED BY <2>1, <1>1, <1>t DEF Without, Entries, TypeOK
<1>4. /\ panes' = Without(Tracked(k), dropped)
      /\ panes' \in [Id -> Conn \cup {NoConn}]
      /\ \A j \in Id : panes'[j] = IF j \in dropped THEN NoConn
                                  ELSE IF j = i THEN c ELSE panes[j]
  <2>1. panes' = Without(Tracked(k), dropped)
    BY DEF Accept, Tracked
  <2> QED BY <2>1, <1>1, <1>t DEF Without, Tracked, TypeOK
<1>5. /\ resizeTimers' \in [Id -> Size \cup {NoSize}]
      /\ \A j \in Id : resizeTimers'[j] =
             IF j \in pruned \cup {i} THEN NoSize ELSE resizeTimers[j]
  BY <1>t DEF Accept, TypeOK, Entries
<1>6. /\ lastSize' \in [Conn -> Size \cup {NoSize}]
      /\ \A x \in Conn : lastSize'[x] \in {lastSize[x], NoSize}
  BY <1>t DEF Accept, TypeOK, Forgotten
<1>7. pty' = [Signalled(pty, Killed(k)) EXCEPT ![c] = "running"]
  BY DEF Accept, Killed, Entries
<1>8. /\ pty' \in [Conn -> PtyState]
      /\ pty'[c] = "running"
      /\ \A x \in Conn : x # c =>
             pty'[x] = IF x \in Killed(k) /\ pty[x] = "running" THEN "killed" ELSE pty[x]
  BY <1>7, <1>1, <1>t DEF TypeOK, PtyState, Signalled
<1>9. \A j \in Id : active[j] # NoConn => active[j] \in Conn /\ active[j] # c
  BY <1>1, <1>t, ConnNat DEF TypeOK
<1>10. \A j \in Id : panes[j] # NoConn => panes[j] \in Conn /\ panes[j] # c
  BY <1>1, <1>t, ConnNat DEF TypeOK
<1>11. TypeOK'
  <2>1. opened' \in 0 .. MaxConn
    BY <1>2, <1>1 DEF Conn
  <2>2. socket' \in [Conn -> {"none", "open", "closing", "closed"}]
        /\ tid' \in [Conn -> Id \cup {NoId}] /\ now' \in 0 .. MaxMs
    BY <1>2, <1>1, <1>t DEF TypeOK
  <2> QED BY <2>1, <2>2, <1>3, <1>4, <1>5, <1>6, <1>8 DEF TypeOK, PtyState
<1>12. ArrivalsInOrder'
  <2> SUFFICES ASSUME NEW x \in Conn
               PROVE  /\ x > opened' => socket'[x] = "none" /\ pty'[x] = "none"
                      /\ pty'[x] # "none" => tid'[x] \in Id
    BY DEF ArrivalsInOrder
  <2>1. CASE x = c
    BY <2>1, <1>1, <1>2, <1>t, ConnNat DEF TypeOK
  <2>2. CASE x # c
    <3>1. x > opened' => x > opened
      BY <1>1, <1>2, ConnNat
    <3>2. /\ socket'[x] = socket[x] /\ tid'[x] = tid[x]
          /\ pty'[x] = "none" <=> pty[x] = "none"
      BY <2>2, <1>1, <1>2, <1>8, <1>t DEF TypeOK
    <3> QED BY <3>1, <3>2 DEF IndInv, ArrivalsInOrder
  <2> QED BY <2>1, <2>2
<1>13. RegistryHoldsLiveTerminals'
  <2>1. ASSUME NEW x \in Conn, pty'[x] = "running"
        PROVE  tid'[x] \in Id /\ active'[tid'[x]] = x
    <3>1. CASE x = c
      BY <3>1, <1>1, <1>2, <1>3, <1>t DEF TypeOK
    <3>2. CASE x # c
      <4>1. pty[x] = "running" /\ x \notin Killed(k)
        BY <3>2, <2>1, <1>8
      <4>2. tid[x] \in Id /\ active[tid[x]] = x
        BY <4>1, <1>r DEF RegistryHoldsLiveTerminals
      <4>3. tid[x] \notin pruned /\ tid[x] # i
        BY <4>1, <4>2 DEF Killed
      <4>4. tid'[x] = tid[x]
        BY <3>2, <1>2, <1>t DEF TypeOK
      <4> QED BY <4>2, <4>3, <4>4, <1>3
    <3> QED BY <3>1, <3>2
  <2>2. ASSUME NEW j \in Id, active'[j] # NoConn
        PROVE  /\ tid'[active'[j]] = j
               /\ pty'[active'[j]] \in {"running", "dead"}
               /\ socket'[active'[j]] \in {"open", "closing"}
    <3>1. j \notin pruned
      BY <2>2, <1>3
    <3>2. CASE j = i
      <4>1. active'[j] = c
        BY <3>1, <3>2, <1>3
      <4>2. tid'[c] = i /\ pty'[c] = "running" /\ socket'[c] = "open"
        BY <1>1, <1>2, <1>8, <1>t DEF TypeOK
      <4> QED BY <4>1, <4>2, <3>2
    <3>3. CASE j # i
      <4>1. active'[j] = active[j] /\ active[j] \in Conn /\ active[j] # c
        BY <3>1, <3>3, <2>2, <1>3, <1>9
      <4>2. /\ tid[active[j]] = j
            /\ pty[active[j]] \in {"running", "dead"}
            /\ socket[active[j]] \in {"open", "closing"}
        BY <4>1, <2>2, <1>r DEF RegistryHoldsLiveTerminals
      <4>3. active[j] \notin Killed(k)
        <5> SUFFICES ASSUME NEW m \in pruned \cup {i}, active[m] = active[j]
                     PROVE  FALSE
          BY DEF Killed
        <5>1. m \in Id
          BY <1>1 DEF Oldest
        <5>2. m = j
          BY <5>1, <4>1, <4>2, <2>2, <1>r DEF RegistryHoldsLiveTerminals
        <5> QED BY <5>2, <3>1, <3>3
      <4>4. tid'[active[j]] = tid[active[j]] /\ socket'[active[j]] = socket[active[j]]
        BY <4>1, <1>2, <1>t DEF TypeOK
      <4> QED BY <4>1, <4>2, <4>3, <4>4, <1>8
    <3> QED BY <3>2, <3>3
  <2> QED BY <2>1, <2>2 DEF RegistryHoldsLiveTerminals
<1>e. \A j \in Id : /\ Entries(k)[j] = IF j = i THEN c ELSE active[j]
                    /\ Tracked(k)[j] = IF j = i THEN c ELSE panes[j]
  BY <1>1, <1>t DEF TypeOK, Entries, Tracked
<1>14. LiveTerminalIsTracked'
  <2> SUFFICES ASSUME NEW j \in Id, active'[j] # NoConn PROVE panes'[j] = active'[j]
    BY DEF LiveTerminalIsTracked
  <2>1. j \notin pruned /\ Entries(k)[j] = active'[j]
    BY <1>3, <1>e
  <2>2. j \notin dropped /\ Tracked(k)[j] = Entries(k)[j]
    BY <2>1, LoopsAgree
  <2> QED BY <2>1, <2>2, <1>4, <1>e
<1>15. NewerPanesAreRegistered'
  <2> SUFFICES ASSUME NEW j \in Id, NEW m \in Id, active'[j] # NoConn,
                      panes'[m] # NoConn, panes'[m] > active'[j]
               PROVE  active'[m] = panes'[m]
    BY DEF NewerPanesAreRegistered
  <2>1. j \notin pruned /\ Entries(k)[j] = active'[j] /\ Tracked(k)[m] = panes'[m]
    BY <1>3, <1>4, <1>e
  <2>2. Entries(k)[m] = Tracked(k)[m] /\ m \notin pruned
    BY <2>1, LoopsAgree
  <2> QED BY <2>1, <2>2, <1>3, <1>e
<1>16. NoPaneOutlivesItsTerminal'
  <2> SUFFICES ASSUME NEW j \in Id, panes'[j] # NoConn
               PROVE  /\ tid'[panes'[j]] = j
                      /\ socket'[panes'[j]] \in {"open", "closing"}
                      /\ pty'[panes'[j]] \in {"running", "dead", "killed"}
    BY DEF NoPaneOutlivesItsTerminal
  <2>1. CASE j = i
    <3>1. panes'[j] = c
      BY <2>1, <1>1, <1>4
    <3> QED BY <3>1, <2>1, <1>1, <1>2, <1>8, <1>t DEF TypeOK
  <2>2. CASE j # i
    <3>1. panes'[j] = panes[j] /\ panes[j] \in Conn /\ panes[j] # c
      BY <2>2, <1>4, <1>10
    <3>2. /\ tid[panes[j]] = j
          /\ socket[panes[j]] \in {"open", "closing"}
          /\ pty[panes[j]] \in {"running", "dead", "killed"}
      BY <3>1 DEF IndInv, NoPaneOutlivesItsTerminal
    <3>3. tid'[panes[j]] = tid[panes[j]] /\ socket'[panes[j]] = socket[panes[j]]
      BY <3>1, <1>2, <1>t DEF TypeOK
    <3> QED BY <3>1, <3>2, <3>3, <1>8
  <2> QED BY <2>1, <2>2
<1>17. PendingResizeIsNew'
  <2> SUFFICES ASSUME NEW j \in Id, resizeTimers'[j] # NoSize
               PROVE  active'[j] # NoConn /\ lastSize'[active'[j]] # resizeTimers'[j]
    BY DEF PendingResizeIsNew
  <2>1. j \notin pruned /\ j # i /\ resizeTimers'[j] = resizeTimers[j]
    BY <1>5
  <2>2. active[j] # NoConn /\ lastSize[active[j]] # resizeTimers[j]
    BY <2>1 DEF IndInv, PendingResizeIsNew
  <2>3. active'[j] = active[j] /\ active[j] \in Conn
    BY <2>1, <2>2, <1>3, <1>9
  <2> QED BY <2>1, <2>2, <2>3, <1>6
<1>18. LimitsHold'
  <2>1. /\ Holders(active') = Newest(Holders(Entries(k)), MaxActive)
        /\ Holders(panes') = Newest(Holders(Tracked(k)), MaxPanes)
        /\ Holders(Entries(k)) \in SUBSET Conn /\ Holders(Tracked(k)) \in SUBSET Conn
    BY <1>1, <1>3, <1>4, HoldersOfPruned, LimitsAssumption
  <2> QED BY <2>1, NewestIsBounded, LimitsAssumption DEF LimitsHold
<1> QED BY <1>11, <1>12, <1>13, <1>14, <1>15, <1>16, <1>17, <1>18 DEF IndInv

\* Every step preserves the invariant.
LEMMA NextInd == IndInv /\ [Next]_vars => IndInv'
<1> SUFFICES ASSUME IndInv, [Next]_vars PROVE IndInv'
  OBVIOUS
<1>t. TypeOK
  BY DEF IndInv
<1> USE DEF PtyState
<1>1. ASSUME Tick PROVE IndInv'
  <2>1. now' \in 0 .. MaxMs /\ UNCHANGED <<opened, socket, pty, tid, active, panes, resizeTimers, lastSize>>
    BY <1>1, <1>t, BoundsAssumption DEF Tick, TypeOK
  <2> QED BY <2>1 DEF IndInv, TypeOK, ArrivalsInOrder, RegistryHoldsLiveTerminals,
        LiveTerminalIsTracked, NoPaneOutlivesItsTerminal, NewerPanesAreRegistered,
        PendingResizeIsNew, LimitsHold, Holders
<1>2. ASSUME NEW k \in Key, Accept(k) PROVE IndInv'
  BY <1>2, AcceptInd
<1>3. ASSUME Reject PROVE IndInv'
  <2>1. /\ opened + 1 \in Conn /\ opened' = opened + 1 /\ opened \in Nat
        /\ opened' \in 0 .. MaxConn
        /\ UNCHANGED <<now, pty, tid, active, panes, resizeTimers, lastSize>>
    BY <1>3, <1>t, BoundsAssumption DEF Reject, TypeOK, Conn
  <2>2. /\ socket' \in [Conn -> {"none", "open", "closing", "closed"}]
        /\ \A x \in Conn : socket'[x] = IF x = opened + 1 THEN "closing" ELSE socket[x]
    BY <1>3, <1>t DEF Reject, TypeOK
  <2>3. \A x \in Conn : x > opened' => x > opened /\ x # opened + 1
    BY <2>1, ConnNat
  <2>4. pty[opened + 1] = "none"
    BY <2>1 DEF IndInv, ArrivalsInOrder
  <2>5. TypeOK' /\ ArrivalsInOrder'
    BY <2>1, <2>2, <2>3, <1>t DEF IndInv, TypeOK, ArrivalsInOrder
  <2>6. RegistryHoldsLiveTerminals'
    BY <2>1, <2>2, <2>4, <1>t DEF IndInv, TypeOK, RegistryHoldsLiveTerminals
  <2>7. NoPaneOutlivesItsTerminal'
    BY <2>1, <2>2, <2>4, <1>t DEF IndInv, TypeOK, NoPaneOutlivesItsTerminal
  <2> QED BY <2>1, <2>5, <2>6, <2>7 DEF IndInv, LiveTerminalIsTracked,
        NewerPanesAreRegistered, PendingResizeIsNew, LimitsHold, Holders
<1>4. ASSUME NEW c \in Conn, PtyDies(c) PROVE IndInv'
  <2>1. /\ UNCHANGED <<now, opened, socket, tid, active, panes, resizeTimers, lastSize>>
        /\ pty[c] = "running" /\ pty' \in [Conn -> PtyState]
        /\ \A x \in Conn : pty'[x] = IF x = c THEN "dead" ELSE pty[x]
    BY <1>4, <1>t DEF PtyDies, TypeOK
  <2>2. TypeOK' /\ ArrivalsInOrder'
    BY <2>1, <1>t DEF IndInv, TypeOK, ArrivalsInOrder
  <2>3. RegistryHoldsLiveTerminals' /\ NoPaneOutlivesItsTerminal'
    BY <2>1, <1>t DEF IndInv, TypeOK, RegistryHoldsLiveTerminals, NoPaneOutlivesItsTerminal
  <2> QED BY <2>1, <2>2, <2>3 DEF IndInv, LiveTerminalIsTracked,
        NewerPanesAreRegistered, PendingResizeIsNew, LimitsHold, Holders
<1>5. ASSUME NEW c \in Conn, PtyExit(c) PROVE IndInv'
  <2> DEFINE p == [pty EXCEPT ![c] = "exited"]
  <2>1. /\ p \in [Conn -> PtyState] /\ p[c] = "exited"
        /\ \A x \in Conn : x # c => p[x] = pty[x]
        /\ socket' \in [Conn -> {"none", "open", "closing", "closed"}]
        /\ \A x \in Conn : x # c => socket'[x] = socket[x]
    BY <1>5, <1>t DEF PtyExit, TypeOK
  <2>2. Accepted(c) /\ RemovePanes({tid[c]}) /\ KillTerminals(p, {tid[c]})
        /\ UNCHANGED <<now, opened, tid>>
    BY <1>5 DEF PtyExit, Accepted
  <2> HIDE DEF p
  <2> QED BY <2>1, <2>2, EndInd
<1>6. ASSUME NEW c \in Conn, NEW s \in Size, Resize(c, s) PROVE IndInv'
  <2>1. /\ UNCHANGED <<now, opened, socket, pty, tid, active, panes, lastSize>>
        /\ tid[c] \in Id /\ active[tid[c]] # NoConn /\ lastSize[active[tid[c]]] # s
        /\ resizeTimers' \in [Id -> Size \cup {NoSize}]
        /\ \A i \in Id : resizeTimers'[i] = IF i = tid[c] THEN s ELSE resizeTimers[i]
    BY <1>6, <1>t DEF Resize, Accepted, TypeOK, IndInv, ArrivalsInOrder
  <2>2. PendingResizeIsNew'
    BY <2>1 DEF IndInv, PendingResizeIsNew
  <2> QED BY <2>1, <2>2 DEF IndInv, TypeOK, ArrivalsInOrder, RegistryHoldsLiveTerminals,
        LiveTerminalIsTracked, NoPaneOutlivesItsTerminal, NewerPanesAreRegistered,
        LimitsHold, Holders
<1>7. ASSUME NEW c \in Conn, MessageTooLarge(c) PROVE IndInv'
  <2>1. /\ UNCHANGED <<now, opened, pty, tid, active, panes, resizeTimers, lastSize>>
        /\ socket[c] = "open"
        /\ socket' \in [Conn -> {"none", "open", "closing", "closed"}]
        /\ \A x \in Conn : socket'[x] = IF x = c THEN "closing" ELSE socket[x]
    BY <1>7, <1>t DEF MessageTooLarge, TypeOK
  <2>2. TypeOK' /\ ArrivalsInOrder'
    BY <2>1, <1>t DEF IndInv, TypeOK, ArrivalsInOrder
  <2>3. RegistryHoldsLiveTerminals' /\ NoPaneOutlivesItsTerminal'
    BY <2>1, <1>t DEF IndInv, TypeOK, RegistryHoldsLiveTerminals, NoPaneOutlivesItsTerminal
  <2> QED BY <2>1, <2>2, <2>3 DEF IndInv, LiveTerminalIsTracked,
        NewerPanesAreRegistered, PendingResizeIsNew, LimitsHold, Holders
<1>8. ASSUME NEW c \in Conn, NEW state \in {"closing", "closed"}, SocketEnds(c, state)
      PROVE  IndInv'
  <2>1. /\ UNCHANGED <<now, opened, tid>>
        /\ socket[c] \in {"open", "closing"}
        /\ socket' \in [Conn -> {"none", "open", "closing", "closed"}]
        /\ \A x \in Conn : socket'[x] = IF x = c THEN state ELSE socket[x]
    BY <1>8, <1>t DEF SocketEnds, Up, TypeOK
  <2>2. CASE Accepted(c)
    <3>1. RemovePanes({tid[c]}) /\ KillTerminals(pty, {tid[c]}) /\ pty \in [Conn -> PtyState]
      BY <1>8, <2>2, <1>t DEF SocketEnds, TypeOK
    <3> QED BY <2>1, <2>2, <3>1, EndInd
  <2>3. CASE ~ Accepted(c)
    <3>1. pty[c] = "none" /\ UNCHANGED <<pty, active, panes, resizeTimers, lastSize>>
      BY <1>8, <2>3 DEF SocketEnds, Accepted
    <3>2. TypeOK' /\ ArrivalsInOrder'
      BY <2>1, <3>1, <1>t DEF IndInv, TypeOK, ArrivalsInOrder
    <3>3. RegistryHoldsLiveTerminals' /\ NoPaneOutlivesItsTerminal'
      BY <2>1, <3>1, <1>t DEF IndInv, TypeOK, RegistryHoldsLiveTerminals,
          NoPaneOutlivesItsTerminal
    <3> QED BY <2>1, <3>1, <3>2, <3>3 DEF IndInv, LiveTerminalIsTracked,
          NewerPanesAreRegistered, PendingResizeIsNew, LimitsHold, Holders
  <2> QED BY <2>2, <2>3
<1>9. ASSUME NEW i \in Id, ResizeFires(i) PROVE IndInv'
  <2>1. /\ UNCHANGED <<now, opened, socket, pty, tid, active, panes>>
        /\ resizeTimers[i] # NoSize
        /\ resizeTimers' \in [Id -> Size \cup {NoSize}]
        /\ \A j \in Id : resizeTimers'[j] = IF j = i THEN NoSize ELSE resizeTimers[j]
        /\ lastSize' \in [Conn -> Size \cup {NoSize}]
        /\ \A x \in Conn : lastSize'[x] # lastSize[x] => x = active[i]
    BY <1>9, <1>t DEF ResizeFires, TypeOK
  <2>2. \A j \in Id : j # i /\ active[j] # NoConn => active[j] # active[i]
    BY DEF IndInv, RegistryHoldsLiveTerminals
  <2>3. PendingResizeIsNew'
    <3> SUFFICES ASSUME NEW j \in Id, resizeTimers'[j] # NoSize
                 PROVE  active'[j] # NoConn /\ lastSize'[active'[j]] # resizeTimers'[j]
      BY DEF PendingResizeIsNew
    <3>1. j # i /\ resizeTimers'[j] = resizeTimers[j] /\ resizeTimers[j] # NoSize
      BY <2>1
    <3>2. active[j] # NoConn /\ lastSize[active[j]] # resizeTimers[j]
      BY <3>1 DEF IndInv, PendingResizeIsNew
    <3>3. active[j] \in Conn
      BY <3>2, <1>t DEF TypeOK
    <3> QED BY <3>1, <3>2, <3>3, <2>1, <2>2
  <2> QED BY <2>1, <2>3, <1>t DEF IndInv, TypeOK, ArrivalsInOrder, RegistryHoldsLiveTerminals,
        LiveTerminalIsTracked, NoPaneOutlivesItsTerminal, NewerPanesAreRegistered,
        LimitsHold, Holders
<1>10. ASSUME UNCHANGED vars PROVE IndInv'
  BY <1>10 DEF vars, IndInv, TypeOK, ArrivalsInOrder, RegistryHoldsLiveTerminals,
      LiveTerminalIsTracked, NoPaneOutlivesItsTerminal, NewerPanesAreRegistered,
      PendingResizeIsNew, LimitsHold, Holders
<1> QED
  BY <1>1, <1>2, <1>3, <1>4, <1>5, <1>6, <1>7, <1>8, <1>9, <1>10
  DEF Next, SocketClosed, SocketError

-----------------------------------------------------------------------------
(* The theorems.                                                            *)

\* The inductive invariant holds in every state.
THEOREM Inductive == Spec => []IndInv
BY InitInd, NextInd, PTL DEF Spec

\* Every variable keeps to its type (the state of routes/terminal-ws.js,
\* services/terminal.js and the pane map of services/status-engine.js).
THEOREM TypeCorrect == Spec => []TypeOK
BY Inductive, PTL DEF IndInv

\* activePTYs holds the running terminals and nothing that has ended.
THEOREM RegistryIsLive == Spec => []RegistryHoldsLiveTerminals
BY Inductive, PTL DEF IndInv

\* The engine never drops the pane of a registered terminal, for every pair of
\* limits with MAX_ACTIVE_TERMINALS no greater than maxPanes.
THEOREM RegisteredIsTracked == Spec => []LiveTerminalIsTracked
BY Inductive, PTL DEF IndInv

\* The engine keeps no pane of a terminal that has ended.
THEOREM PanesEnd == Spec => []NoPaneOutlivesItsTerminal
BY Inductive, PTL DEF IndInv

\* Neither map exceeds its limit.
THEOREM LimitsAreKept == Spec => []LimitsHold
BY Inductive, PTL DEF IndInv

\* The PTY is never resized to the size it has, and no timer is left over.
THEOREM ResizeIsNew == Spec => []PendingResizeIsNew
BY Inductive, PTL DEF IndInv

-----------------------------------------------------------------------------
(* The registry implements the abstract pool.                               *)

\* A terminal's end is the end of its name.
LEMMA EndRefines ==
    ASSUME IndInv, NEW c \in Conn, Accepted(c), NEW p \in [Conn -> PtyState],
           KillTerminals(p, {tid[c]}), UNCHANGED <<opened, tid>>
    PROVE  Pool!End(tid[c])
<1> DEFINE e == tid[c]
<1>1. active \in [Id -> Conn \cup {NoConn}]
  BY DEF IndInv, TypeOK
<1>2. /\ active' \in [Id -> Conn \cup {NoConn}]
      /\ \A i \in Id : active'[i] = IF i = e THEN NoConn ELSE active[i]
  BY <1>1 DEF KillTerminals, Without
<1>3. \A i \in Id : active[i] # NoConn => tid[active[i]] = i
  BY DEF IndInv, RegistryHoldsLiveTerminals
<1>4. Holders(active') = {d \in Holders(active) : tid[d] # e}
  BY <1>1, <1>2, <1>3 DEF Holders
<1> QED BY <1>4 DEF Pool!End, Pool!Others

\* An accepted terminal is admitted to the pool.
LEMMA AcceptRefines ==
    ASSUME IndInv, NEW k \in Key, Accept(k)
    PROVE  Pool!Admit(<<k, now>>)
<1> DEFINE c == opened + 1
           i == <<k, now>>
           S == Holders(Entries(k))
           K == Newest(S, MaxActive)
<1>t. active \in [Id -> Conn \cup {NoConn}] /\ tid \in [Conn -> Id \cup {NoId}]
  BY DEF IndInv, TypeOK
<1>1. /\ c \in Conn /\ i \in Id /\ Entries(k) \in [Id -> Conn \cup {NoConn}]
      /\ \A j \in Id : active[j] <= opened
      /\ opened \in Nat
      /\ i \notin Oldest(Entries(k), MaxActive)
  BY AcceptFacts
<1>2. \A j \in Id : Entries(k)[j] = IF j = i THEN c ELSE active[j]
  BY <1>1, <1>t DEF Entries
<1>3. active' = Without(Entries(k), Oldest(Entries(k), MaxActive))
  BY DEF Accept, Entries
<1>4. Holders(active') = K /\ S \in SUBSET Conn
  BY <1>1, <1>3, HoldersOfPruned, LimitsAssumption
<1>5. S = Pool!Others(i) \cup {c}
  <2>1. \A j \in Id : active[j] # NoConn => tid[active[j]] = j
    BY DEF IndInv, RegistryHoldsLiveTerminals
  <2>2. c # NoConn
    BY <1>1, ConnNat
  <2> QED BY <1>1, <1>2, <1>t, <2>1, <2>2 DEF Pool!Others, Holders
<1>6. c \in K
  <2>1. active'[i] = c
    BY <1>1, <1>2, <1>3 DEF Without
  <2>2. DOMAIN active' = Id /\ c # NoConn
    BY <1>1, <1>3, ConnNat DEF Without
  <2>3. c \in Holders(active')
    BY <1>1, <2>1, <2>2 DEF Holders
  <2> QED BY <2>3, <1>4
<1>7. K \subseteq Pool!Others(i) \cup {c}
  BY <1>5 DEF Newest
<1>8. Cardinality(K) <= MaxActive
  BY <1>4, NewestIsBounded, LimitsAssumption
<1>9. ASSUME NEW d \in Pool!Others(i) \ K
      PROVE  /\ \A x \in K : d < x
             /\ Cardinality(K) = MaxActive
  <2>1. d \in S \ K
    BY <1>5, <1>9
  <2>2. \A x \in K : d < x
    BY <1>4, <2>1, NewestIsAbove, LimitsAssumption
  <2>3. Cardinality(K) >= MaxActive
    BY <1>4, <2>1, NewestIsFull, LimitsAssumption
  <2>4. Cardinality(K) \in Nat
    <3>1. K \in SUBSET Conn
      BY <1>4 DEF Newest
    <3> QED BY <3>1, ConnFinite
  <2> QED BY <2>2, <2>3, <2>4, <1>8, LimitsAssumption
<1>10. opened < MaxConn /\ opened' = c /\ tid' = [tid EXCEPT ![c] = i]
  BY DEF Accept
<1> HIDE DEF K
<1>11. Pool!Cardinality(K) = Cardinality(K)
  BY DEF Pool!Cardinality, Cardinality, Pool!IsFiniteSet, IsFiniteSet
<1> QED BY <1>4, <1>6, <1>7, <1>8, <1>9, <1>10, <1>11 DEF Pool!Admit

\* Each step of the terminals is a step of the pool or leaves it as it is.
LEMMA StepRefines == IndInv /\ [Next]_vars => [Pool!PoolNext]_(Pool!poolVars)
<1> SUFFICES ASSUME IndInv, [Next]_vars PROVE [Pool!PoolNext]_(Pool!poolVars)
  OBVIOUS
<1>t. TypeOK
  BY DEF IndInv
<1> DEFINE Stutter == UNCHANGED <<Holders(active), opened, tid>>
<1>s. UNCHANGED <<opened, tid, active>> => Stutter
  BY DEF Holders
<1>e. ASSUME NEW c \in Conn, Accepted(c), NEW p \in [Conn -> PtyState],
             KillTerminals(p, {tid[c]}), UNCHANGED <<opened, tid>>
      PROVE  Pool!PoolNext
  <2>1. tid[c] \in Id
    BY <1>e DEF Accepted, IndInv, ArrivalsInOrder
  <2> QED BY <1>e, <2>1, EndRefines DEF Pool!PoolNext
<1>1. ASSUME NEW k \in Key, Accept(k) PROVE Pool!PoolNext
  <2>1. <<k, now>> \in Id
    BY <1>1, AcceptFacts
  <2> QED BY <1>1, <2>1, AcceptRefines DEF Pool!PoolNext
<1>2. ASSUME Reject PROVE Pool!PoolNext
  BY <1>2, <1>s DEF Reject, Pool!PoolNext, Pool!Refuse
<1>3. ASSUME NEW c \in Conn, PtyExit(c) PROVE Pool!PoolNext
  <2>1. Accepted(c) /\ [pty EXCEPT ![c] = "exited"] \in [Conn -> PtyState]
    BY <1>3, <1>t DEF PtyExit, Accepted, TypeOK, PtyState
  <2> QED BY <1>3, <2>1, <1>e DEF PtyExit
<1>4. ASSUME NEW c \in Conn, NEW state \in {"closing", "closed"}, SocketEnds(c, state)
      PROVE  Pool!PoolNext \/ Stutter
  <2>1. CASE Accepted(c)
    <3>1. pty \in [Conn -> PtyState]
      BY <1>t DEF TypeOK, PtyState
    <3> QED BY <1>4, <2>1, <3>1, <1>e DEF SocketEnds
  <2>2. CASE ~ Accepted(c)
    BY <1>4, <2>2, <1>s DEF SocketEnds
  <2> QED BY <2>1, <2>2
<1>5. ASSUME \/ Tick
             \/ \E c \in Conn : PtyDies(c) \/ MessageTooLarge(c)
             \/ \E c \in Conn, s \in Size : Resize(c, s)
             \/ \E i \in Id : ResizeFires(i)
             \/ UNCHANGED vars
      PROVE  Stutter
  BY <1>5, <1>s DEF Tick, PtyDies, MessageTooLarge, Resize, ResizeFires, vars
<1> HIDE DEF Stutter
<1>6. Pool!PoolNext \/ Stutter
  BY <1>1, <1>2, <1>3, <1>4, <1>5 DEF Next, SocketClosed, SocketError
<1> QED BY <1>6 DEF Stutter, Pool!poolVars

\* The terminals implement the pool.
THEOREM TerminalsImplementPool == Spec => ImplementsPool
<1>1. Init => Pool!PoolInit
  <2>1. Init => Holders(active) = {}
    BY DEF Init, Holders
  <2> QED BY <2>1 DEF Init, Pool!PoolInit, Conn
<1> QED BY <1>1, StepRefines, Inductive, PTL DEF Spec, ImplementsPool, Pool!PoolSpec

-----------------------------------------------------------------------------
(* Numbers that follow on each other, and their lines.                      *)

\* How many numbers follow on each other from a to b.
LEMMA CountOfInterval ==
    ASSUME NEW a \in Int, NEW b \in Int, a <= b + 1
    PROVE  IsFiniteSet(a .. b) /\ Cardinality(a .. b) = b - a + 1
<1>1. IsFiniteSet(a .. b) /\ Cardinality(a .. b) = IF a > b THEN 0 ELSE b - a + 1
    BY FS_Interval
<1> QED
    BY <1>1

\* The highest k of them follow on each other up to b.
LEMMA NewestOfInterval ==
    ASSUME NEW a \in Nat, NEW b \in Int, a <= b + 1, NEW k \in Nat \ {0}
    PROVE  \E c \in a .. b + 1 : /\ Newest(a .. b, k) = c .. b
                                 /\ c = a \/ c = b - k + 1
                                 /\ c = b + 1 <=> a = b + 1
<1>1. ASSUME NEW i \in a .. b
      PROVE  Cardinality({j \in a .. b : j > i}) = b - i
    <2>1. {j \in a .. b : j > i} = i + 1 .. b
        OBVIOUS
    <2>2. i + 1 \in Int /\ i + 1 <= b + 1 /\ b - (i + 1) + 1 = b - i
        OBVIOUS
    <2>3. Cardinality(i + 1 .. b) = b - (i + 1) + 1
        BY <2>2, CountOfInterval
    <2> QED
        BY <2>1, <2>2, <2>3
<1>2. Newest(a .. b, k) = {i \in a .. b : b - i < k}
    BY <1>1 DEF Newest
<1>3. CASE b - k + 1 >= a
    <2>1. {i \in a .. b : b - i < k} = b - k + 1 .. b
        BY <1>3
    <2>2. b - k + 1 \in a .. b + 1 /\ (b - k + 1 = b + 1 <=> a = b + 1)
        BY <1>3
    <2> QED
        BY <1>2, <2>1, <2>2
<1>4. CASE b - k + 1 < a
    <2>1. {i \in a .. b : b - i < k} = a .. b
        BY <1>4
    <2>2. a \in a .. b + 1
        OBVIOUS
    <2> QED
        BY <1>2, <2>1, <2>2
<1> QED
    BY <1>3, <1>4

\* The p-th of them.
LEMMA NthOfInterval ==
    ASSUME NEW a \in Nat, NEW b \in Int, a <= b + 1, NEW p \in 1 .. b - a + 1
    PROVE  Nth(a .. b, p) = a + p - 1
<1>1. ASSUME NEW i \in a .. b
      PROVE  Cardinality({j \in a .. b : j <= i}) = i - a + 1
    <2>1. {j \in a .. b : j <= i} = a .. i
        OBVIOUS
    <2>2. i \in Int /\ a <= i + 1
        OBVIOUS
    <2>3. Cardinality(a .. i) = i - a + 1
        BY <2>2, CountOfInterval
    <2> QED
        BY <2>1, <2>3
<1>2. a + p - 1 \in a .. b
    OBVIOUS
<1>3. \A i \in a .. b : i - a + 1 = p <=> i = a + p - 1
    OBVIOUS
<1> QED
    BY <1>1, <1>2, <1>3 DEF Nth

\* A line as it is shown.
ShownLine(table, no) == [no |-> no, text |-> table[no]]

\* The lines of numbers that follow on each other.
LEMMA LinesOfInterval ==
    ASSUME NEW table, NEW a \in Nat, NEW b \in Int, a <= b + 1
    PROVE  /\ Lines(table, a .. b) = [p \in 1 .. b - a + 1 |-> ShownLine(table, a + p - 1)]
           /\ Lines(table, a .. b) \in Seq({ShownLine(table, no) : no \in Nat})
           /\ Len(Lines(table, a .. b)) = b - a + 1
<1>1. Cardinality(a .. b) = b - a + 1 /\ b - a + 1 \in Nat
    BY CountOfInterval
<1>2. \A p \in 1 .. b - a + 1 : Nth(a .. b, p) = a + p - 1
    BY NthOfInterval
<1>3. Lines(table, a .. b) = [p \in 1 .. b - a + 1 |-> ShownLine(table, a + p - 1)]
    BY <1>1, <1>2 DEF Lines, ShownLine
<1>4. \A p \in 1 .. b - a + 1 : ShownLine(table, a + p - 1) \in {ShownLine(table, no) : no \in Nat}
    OBVIOUS
<1>5. PICK m \in Nat : m = b - a + 1
    BY <1>1
<1>6. [p \in 1 .. m |-> ShownLine(table, a + p - 1)] \in Seq({ShownLine(table, no) : no \in Nat})
    BY <1>4, <1>5, SMTT(60)
<1> QED
    BY <1>3, <1>5, <1>6

\* The same, for every table.
LEMMA LinesOfAnyInterval ==
    \A table : \A x \in Nat, y \in Int : x <= y + 1 =>
        /\ Lines(table, x .. y) = [p \in 1 .. y - x + 1 |-> ShownLine(table, x + p - 1)]
        /\ Len(Lines(table, x .. y)) = y - x + 1
BY LinesOfInterval, ZenonT(60)

\* Lines up to c and from c on make up those from a to b.
LEMMA LinesJoined ==
    ASSUME NEW table, NEW a \in Nat, NEW c \in Nat, NEW b \in Int, a <= c, c <= b + 1
    PROVE  Lines(table, a .. c - 1) \o Lines(table, c .. b) = Lines(table, a .. b)
<1> DEFINE S == {ShownLine(table, no) : no \in Nat}
<1>1. PICK p \in Seq(S), q \in Seq(S), r \in Seq(S) :
         p = Lines(table, a .. c - 1) /\ q = Lines(table, c .. b) /\ r = Lines(table, a .. b)
    <2>1. c - 1 \in Int /\ a <= (c - 1) + 1 /\ a <= b + 1
        OBVIOUS
    <2>2. Lines(table, a .. c - 1) \in Seq(S)
        BY <2>1, LinesOfInterval
    <2>3. Lines(table, c .. b) \in Seq(S)
        BY LinesOfInterval
    <2>4. Lines(table, a .. b) \in Seq(S)
        BY <2>1, LinesOfInterval
    <2> QED
        BY <2>2, <2>3, <2>4
<1>2. Len(p) = c - a /\ \A i \in 1 .. c - a : p[i] = ShownLine(table, a + i - 1)
    <2>1. c - 1 \in Int /\ a <= (c - 1) + 1 /\ (c - 1) - a + 1 = c - a
        OBVIOUS
    <2>2. PICK d \in Int : d = c - 1
        BY <2>1
    <2>3. /\ Lines(table, a .. d) = [i \in 1 .. d - a + 1 |-> ShownLine(table, a + i - 1)]
          /\ Len(Lines(table, a .. d)) = d - a + 1
        <3>1. d \in Int /\ a <= d + 1
            BY <2>2
        <3> QED
            BY <3>1, LinesOfAnyInterval
    <2>4. p = Lines(table, a .. d)
        BY <1>1, <2>2
    <2> QED
        BY <2>1, <2>2, <2>3, <2>4
<1>3. Len(q) = b - c + 1 /\ \A i \in 1 .. b - c + 1 : q[i] = ShownLine(table, c + i - 1)
    <2>1. q = [i \in 1 .. b - c + 1 |-> ShownLine(table, c + i - 1)] /\ Len(q) = b - c + 1
        BY <1>1, LinesOfInterval, ZenonT(60)
    <2> QED
        BY <2>1
<1>4. Len(r) = b - a + 1 /\ \A i \in 1 .. b - a + 1 : r[i] = ShownLine(table, a + i - 1)
    <2>0. a <= b + 1
        OBVIOUS
    <2>1. r = [i \in 1 .. b - a + 1 |-> ShownLine(table, a + i - 1)] /\ Len(r) = b - a + 1
        BY <1>1, <2>0, LinesOfInterval
    <2> QED
        BY <2>1
<1>5. Len(r) = Len(p) + Len(q)
    BY <1>2, <1>3, <1>4
<1>6. \A i \in 1 .. Len(p) : r[i] = p[i]
    BY <1>2, <1>4
<1>7. \A i \in 1 .. Len(q) : r[Len(p) + i] = q[i]
    <2> SUFFICES ASSUME NEW i \in 1 .. b - c + 1
                 PROVE  r[c - a + i] = q[i]
        BY <1>2, <1>3
    <2>1. c - a + i \in 1 .. b - a + 1 /\ a + (c - a + i) - 1 = c + i - 1
        OBVIOUS
    <2> QED
        BY <1>3, <1>4, <2>1
<1> HIDE DEF S
<1>8. r = p \o q
    BY <1>5, <1>6, <1>7, ConcatElements
<1> QED
    BY <1>1, <1>8

\* The same, for every table.
LEMMA AnyLinesJoined ==
    \A table : \A x \in Nat, y \in Nat, z \in Int : x <= y /\ y <= z + 1 =>
        Lines(table, x .. y - 1) \o Lines(table, y .. z) = Lines(table, x .. z)
BY LinesJoined, ZenonT(60)

-----------------------------------------------------------------------------
(* Paging: every page is a stretch of the numbers.                          *)

\* What a viewer has that has read back to number c.
Seen(n, a, c, b) == [lines |-> Lines(rows[n], c .. b), nextBefore |-> IF c = a THEN 0 ELSE c]

\* A page is a stretch of lines that ends where it should; there is a next
\* page unless it begins with the first line.
LEMMA PageFacts ==
    ASSUME NEW n, NEW a \in Nat \ {0}, NEW b \in Int, NEW e \in Int, a <= e + 1, e <= b,
           DOMAIN rows[n] = a .. b,
           NEW before \in Nat, Earlier(n, before) = a .. e
    PROVE  \E c \in a .. e + 1 : /\ Page(n, before) = Seen(n, a, c, e)
                                 /\ c = a \/ c <= e
<1>1. PICK c \in a .. e + 1 : /\ Newest(a .. e, PageLimit) = c .. e
                              /\ c = a \/ c = e - PageLimit + 1
                              /\ c = e + 1 <=> a = e + 1
    <2>1. PageLimit \in Nat \ {0}
        BY HistoryAssumption
    <2> QED
        BY <2>1, NewestOfInterval
<1>2. c \in Nat /\ c <= e + 1 /\ (c = a \/ c <= e)
    BY <1>1
<1>3. PICK lines : lines = Lines(rows[n], c .. e)
    OBVIOUS
<1>4. lines = [p \in 1 .. e - c + 1 |-> ShownLine(rows[n], c + p - 1)] /\ Len(lines) = e - c + 1
    <2>1. /\ Lines(rows[n], c .. e) = [p \in 1 .. e - c + 1 |-> ShownLine(rows[n], c + p - 1)]
          /\ Len(Lines(rows[n], c .. e)) = e - c + 1
        BY <1>2, LinesOfAnyInterval
    <2> QED
        BY <1>3, <2>1
<1>5. CASE c = e + 1
    <2>1. lines = <<>> /\ c = a
        BY <1>1, <1>4, <1>5
    <2>2. Page(n, before) = [lines |-> lines, nextBefore |-> 0]
        BY <1>1, <1>3, <2>1 DEF Page
    <2> QED
        BY <1>3, <2>1, <2>2 DEF Seen
<1>6. CASE c <= e
    <2>1. 1 \in 1 .. e - c + 1 /\ c + 1 - 1 = c
        BY <1>2, <1>6
    <2>2. lines # <<>> /\ lines[1].no = c
        BY <1>4, <2>1 DEF ShownLine
    <2>3. Earlier(n, c) # {} <=> c # a
        <3>1. Earlier(n, c) = {no \in a .. b : no < c}
            BY DEF Earlier
        <3>2. c \in a .. b
            BY <1>2, <1>6
        <3>3. c # a => a \in {no \in a .. b : no < c}
            BY <3>2
        <3>4. c = a => {no \in a .. b : no < c} = {}
            OBVIOUS
        <3> QED
            BY <3>1, <3>3, <3>4
    <2>4. Page(n, before) = [lines |-> lines, nextBefore |-> IF Earlier(n, c) # {} THEN c ELSE 0]
        BY <1>1, <1>3, <2>2 DEF Page
    <2>5. Page(n, before) = Seen(n, a, c, e)
        BY <1>3, <2>3, <2>4 DEF Seen
    <2> QED
        BY <1>2, <2>5
<1> QED
    BY <1>2, <1>5, <1>6

\* A table of what the viewer of n has after each of k pages.
NextView(n, v) ==
    LET page == Page(n, v.nextBefore)
    IN  IF v.nextBefore = 0 THEN v
        ELSE [lines |-> page.lines \o v.lines, nextBefore |-> page.nextBefore]
Views(f, n, k) ==
    f = [i \in 0 .. k |-> IF i = 0 THEN Page(n, meta[n] + 1) ELSE NextView(n, f[i - 1])]

\* What a viewer has, page by page.
LEMMA ViewedFacts ==
    ASSUME NEW n, Cardinality(DOMAIN rows[n]) \in Nat
    PROVE  /\ Viewed(n)[0] = Page(n, meta[n] + 1)
           /\ \A k \in 1 .. Cardinality(DOMAIN rows[n]) : Viewed(n)[k] = NextView(n, Viewed(n)[k - 1])
<1> DEFINE G == {k \in Nat : \E f : Views(f, n, k)}
<1>1. 0 \in G
    <2> DEFINE f == [i \in 0 .. 0 |-> Page(n, meta[n] + 1)]
    <2>1. Views(f, n, 0)
        BY DEF Views
    <2> QED
        BY <2>1
<1>2. ASSUME NEW k \in Nat, k \in G
      PROVE  k + 1 \in G
    <2>1. PICK f : Views(f, n, k)
        BY <1>2
    <2> DEFINE g == [i \in 0 .. k + 1 |-> IF i <= k THEN f[i] ELSE NextView(n, f[k])]
    <2>2. \A i \in 0 .. k : g[i] = IF i = 0 THEN Page(n, meta[n] + 1) ELSE NextView(n, f[i - 1])
        BY <2>1 DEF Views
    <2>3. \A i \in 0 .. k + 1 : g[i] = IF i = 0 THEN Page(n, meta[n] + 1) ELSE NextView(n, g[i - 1])
        <3> SUFFICES ASSUME NEW i \in 0 .. k + 1
                     PROVE  g[i] = IF i = 0 THEN Page(n, meta[n] + 1) ELSE NextView(n, g[i - 1])
            OBVIOUS
        <3>1. CASE i = 0
            <4>1. 0 \in 0 .. k
                OBVIOUS
            <4>2. g[0] = Page(n, meta[n] + 1)
                BY <2>2, <4>1
            <4> QED
                BY <3>1, <4>2
        <3>2. CASE i \in 1 .. k
            <4>1. i \in 0 .. k /\ i # 0 /\ i - 1 \in 0 .. k + 1 /\ i - 1 <= k
                BY <3>2
            <4>2. g[i - 1] = f[i - 1]
                BY <4>1
            <4> QED
                BY <2>2, <4>1, <4>2
        <3>3. CASE i = k + 1
            <4>1. g[i] = NextView(n, f[k]) /\ g[k] = f[k] /\ i - 1 = k /\ i # 0
                BY <3>3
            <4> QED
                BY <3>3, <4>1
        <3> QED
            BY <3>1, <3>2, <3>3
    <2> HIDE DEF g
    <2>4. g = [i \in 0 .. k + 1 |-> g[i]]
        BY DEF g
    <2>5. Views(g, n, k + 1)
        BY <2>3, <2>4 DEF Views
    <2> QED
        BY <2>5
<1> HIDE DEF G
<1>3. PICK count \in Nat : count = Cardinality(DOMAIN rows[n])
    OBVIOUS
<1>4. count \in G
    BY <1>1, <1>2, InductionOnNumbers
<1>5. PICK f : Views(f, n, count)
    BY <1>4 DEF G
<1>6. f = [i \in 0 .. count |-> IF i = 0 THEN Page(n, meta[n] + 1) ELSE NextView(n, f[i - 1])]
    BY <1>5 DEF Views
<1>7. Viewed(n) = CHOOSE v : v = [i \in 0 .. count |->
                     IF i = 0 THEN Page(n, meta[n] + 1) ELSE NextView(n, v[i - 1])]
    BY <1>3 DEF Viewed, NextView
<1>8. Viewed(n) = [i \in 0 .. count |->
                     IF i = 0 THEN Page(n, meta[n] + 1) ELSE NextView(n, Viewed(n)[i - 1])]
    BY <1>6, <1>7
<1>9. 0 \in 0 .. count /\ \A k \in 1 .. count : k \in 0 .. count /\ k # 0
    OBVIOUS
<1> QED
    BY <1>3, <1>8, <1>9

\* Who pages through the history of n reads the lines back from the last one,
\* a line with every page at least.
LEMMA ViewReadsBack ==
    ASSUME NEW n, NEW a \in Nat \ {0}, NEW b \in Int, a <= b + 1, DOMAIN rows[n] = a .. b,
           meta[n] \in Nat, meta[n] >= b
    PROVE  Viewed(n)[Cardinality(a .. b)] = Seen(n, a, a, b)
<1> DEFINE count == b - a + 1
           G == {k \in Nat : k <= count => \E c \in a .. b + 1 : /\ Viewed(n)[k] = Seen(n, a, c, b)
                                                                 /\ c = a \/ c <= b - k}
<1>1. Cardinality(a .. b) = count /\ count \in Nat
    BY CountOfInterval
<1>2. /\ Viewed(n)[0] = Page(n, meta[n] + 1)
      /\ \A k \in 1 .. count : Viewed(n)[k] = NextView(n, Viewed(n)[k - 1])
    BY <1>1, ViewedFacts
<1>3. 0 \in G
    <2>1. Earlier(n, meta[n] + 1) = a .. b /\ meta[n] + 1 \in Nat
        BY DEF Earlier
    <2>2. PICK c \in a .. b + 1 : Page(n, meta[n] + 1) = Seen(n, a, c, b) /\ (c = a \/ c <= b)
        <3>1. b <= b /\ a \in Nat \ {0} /\ b \in Int /\ a <= b + 1 /\ DOMAIN rows[n] = a .. b
            OBVIOUS
        <3>2. PICK before \in Nat : before = meta[n] + 1
            BY <2>1
        <3>3. Earlier(n, before) = a .. b
            BY <2>1, <3>2
        <3>4. \E c \in a .. b + 1 : Page(n, before) = Seen(n, a, c, b) /\ (c = a \/ c <= b)
            BY <3>1, <3>3, PageFacts
        <3> QED
            BY <3>2, <3>4
    <2>3. c = a \/ c <= b - 0
        BY <2>2
    <2> QED
        BY <1>2, <2>2, <2>3
<1>4. ASSUME NEW k \in Nat, k \in G
      PROVE  k + 1 \in G
    <2> SUFFICES ASSUME k + 1 <= count
                 PROVE  \E c \in a .. b + 1 : /\ Viewed(n)[k + 1] = Seen(n, a, c, b)
                                              /\ c = a \/ c <= b - (k + 1)
        OBVIOUS
    <2>1. PICK c \in a .. b + 1 : Viewed(n)[k] = Seen(n, a, c, b) /\ (c = a \/ c <= b - k)
        BY <1>1, <1>4
    <2>2. k + 1 \in 1 .. count /\ (k + 1) - 1 = k
        BY <1>1
    <2>3. Viewed(n)[k + 1] = NextView(n, Seen(n, a, c, b))
        BY <1>2, <2>1, <2>2
    <2>4. CASE c = a
        <3>1. NextView(n, Seen(n, a, c, b)) = Seen(n, a, a, b)
            BY <2>4 DEF NextView, Seen
        <3> QED
            BY <2>3, <3>1
    <2>5. CASE c # a
        <3>1. c \in Nat /\ c - 1 \in Int /\ a <= (c - 1) + 1 /\ c - 1 <= b /\ c <= b - k
            BY <2>1, <2>5
        <3>2. Earlier(n, c) = a .. c - 1
            BY <2>1, <3>1 DEF Earlier
        <3>3. PICK d \in a .. (c - 1) + 1 : Page(n, c) = Seen(n, a, d, c - 1) /\ (d = a \/ d <= c - 1)
            BY <3>1, <3>2, PageFacts
        <3>4. d \in Nat /\ d <= c /\ c <= b + 1 /\ d \in a .. b + 1 /\ (d = a \/ d <= b - (k + 1))
            BY <3>1, <3>3
        <3>5. Lines(rows[n], d .. c - 1) \o Lines(rows[n], c .. b) = Lines(rows[n], d .. b)
            <4>1. \A x \in Nat, y \in Nat, z \in Int : x <= y /\ y <= z + 1 =>
                      Lines(rows[n], x .. y - 1) \o Lines(rows[n], y .. z) = Lines(rows[n], x .. z)
                BY AnyLinesJoined
            <4>2. d \in Nat /\ c \in Nat /\ b \in Int /\ d <= c /\ c <= b + 1
                BY <3>1, <3>4
            <4> QED
                BY ONLY <4>1, <4>2
        <3>6. NextView(n, Seen(n, a, c, b)) = [lines |-> Page(n, c).lines \o Lines(rows[n], c .. b),
                                               nextBefore |-> Page(n, c).nextBefore]
            <4>1. Seen(n, a, c, b).nextBefore = c /\ Seen(n, a, c, b).lines = Lines(rows[n], c .. b)
                BY <2>5 DEF Seen
            <4>2. c # 0
                BY <3>1
            <4> QED
                BY <4>1, <4>2 DEF NextView
        <3>7. NextView(n, Seen(n, a, c, b)) = Seen(n, a, d, b)
            <4>1. Page(n, c).lines = Lines(rows[n], d .. c - 1)
                BY <3>3 DEF Seen
            <4>2. Page(n, c).nextBefore = IF d = a THEN 0 ELSE d
                BY <3>3 DEF Seen
            <4> QED
                BY <3>5, <3>6, <4>1, <4>2 DEF Seen
        <3> QED
            BY <2>3, <3>4, <3>7
    <2> QED
        BY <2>4, <2>5
<1> HIDE DEF G
<1>5. count \in G
    BY <1>1, <1>3, <1>4, InductionOnNumbers
<1>6. PICK c \in a .. b + 1 : Viewed(n)[count] = Seen(n, a, c, b) /\ (c = a \/ c <= b - count)
    BY <1>1, <1>5 DEF G
<1>7. c = a
    BY <1>6
<1> QED
    BY <1>1, <1>6, <1>7

-----------------------------------------------------------------------------
(* The inductive invariant, until a sync overtakes a command or histories   *)
(* merge.                                                                   *)

Calm == ~raced /\ ~collided

Text == Nat \X Nat

Names(command) == {command.from, command.to}

\* Renames on their way from one name to another, and deletions.
Renaming(n, m) == n # m /\ \E i \in DOMAIN commands : commands[i].from = n /\ commands[i].to = m
Commanded(n, m, id) ==
    \E i \in DOMAIN commands : commands[i].from = n /\ commands[i].to = m /\ commands[i].id = id
RenamingOf(n, m, id) == n # m /\ Commanded(n, m, id)
DeletingOf(n, id) == Commanded(n, n, id)

\* The sessions whose lines are in a capture.
IdsOf(lines) == {lines[k][1] : k \in DOMAIN lines} \ {0}

Known(lines) == \A id \in IdsOf(lines) : id <= created

SessionTypes ==
    /\ created \in 0 .. MaxSessions
    /\ live \in [Name -> 0 .. created]
    /\ killed \in SUBSET (1 .. created)
    /\ printed \in [Ids -> Nat]

TableTypes ==
    /\ meta \in [Name -> Nat]
    /\ rows = [n \in Name |-> rows[n]]
    /\ \A n \in Name : \A no \in DOMAIN rows[n] : rows[n][no] \in Text
    /\ \A n \in Name : \A id \in IdsIn(rows[n]) : id <= created

FlightTypes ==
    /\ syncs \in Seq([name : Name, lines : Seq(Text)])
    /\ \A i \in DOMAIN syncs : Known(syncs[i].lines)
    /\ commands \in Seq([from : Name, to : Name, id : Nat])

\* A session is called by one name, and not after it was killed.
OneNameEach ==
    \A n \in Name : live[n] # NoSessionId =>
        live[n] \notin killed /\ \A m \in Name \ {n} : live[m] # live[n]

\* The rows of a name follow on each other up to the next number.
Contiguous(table, next) ==
    \E first \in Nat \ {0} : (next # 0 => first <= next) /\ DOMAIN table = first .. next - 1
AllContiguous == \A n \in Name : Contiguous(rows[n], meta[n])

\* Nobody else is at a name that a command is about.
Undisturbed ==
    /\ \A i \in DOMAIN commands, j \in DOMAIN syncs : syncs[j].name \notin Names(commands[i])
    /\ \A i \in DOMAIN commands, j \in DOMAIN commands :
           i # j => Names(commands[i]) \cap Names(commands[j]) = {}

\* A capture is of the session that has the name, or had it until it ended.
CapturesAreOfTheirName ==
    \A i \in DOMAIN syncs : \A id \in IdsOf(syncs[i].lines) :
        id \notin killed /\ \A m \in Name \ {syncs[i].name} : live[m] # id

\* Lines of a session are elsewhere only while its rename is on its way, or once
\* a rename of it was reported as failed.
LinesFollow ==
    \A n \in Name, m \in Name :
        n # m /\ live[n] \in IdsIn(rows[m]) /\ live[n] \notin untold => RenamingOf(m, n, live[n])
NotYetThere ==
    \A n \in Name, m \in Name : Renaming(n, m) => live[n] \notin IdsIn(rows[n])
KilledLinesGo ==
    \A n \in Name, id \in killed \ untold : id \in IdsIn(rows[n]) => DeletingOf(n, id)

HistoryTypes == SessionTypes /\ TableTypes /\ FlightTypes
Attended == OneNameEach /\ Undisturbed /\ CapturesAreOfTheirName
Followed == LinesFollow /\ NotYetThere /\ KilledLinesGo
CalmInv == HistoryTypes /\ AllContiguous /\ Attended /\ Followed

HistoryInv == Calm => CalmInv

-----------------------------------------------------------------------------
(* What a stored capture adds.                                              *)

\* The end of the cache that is compared is a list.
LEMMA TailIsSeq ==
    ASSUME NEW n, NEW a \in Nat, NEW b \in Int, a <= b + 1, DOMAIN rows[n] = a .. b
    PROVE  Len(CachedTailLines(n)) \in Nat
<1>1. OverlapScanLines \in Nat \ {0}
    BY HistoryAssumption
<1>2. PICK c \in a .. b + 1 : Newest(a .. b, OverlapScanLines) = c .. b
    BY <1>1, NewestOfInterval
<1>3. c \in Nat /\ c <= b + 1
    BY <1>2
<1>4. Cardinality(c .. b) \in Nat
    <2>1. \A x \in Int : x <= b + 1 => Cardinality(x .. b) = b - x + 1
        BY CountOfInterval
    <2>2. b - c + 1 \in Nat
        BY <1>3
    <2> QED
        BY <1>3, <2>1, <2>2
<1>5. PICK count \in Nat : count = Cardinality(c .. b)
    BY <1>4
<1>6. PICK table : table = Lines(rows[n], c .. b)
    OBVIOUS
<1>7. DOMAIN table = 1 .. count
    BY <1>5, <1>6 DEF Lines
<1>8. CachedTailLines(n) = [p \in 1 .. count |-> table[p].text]
    BY <1>2, <1>6, <1>7 DEF CachedTailLines
<1> QED
    BY <1>8

\* The ends in the capture of the last k lines of the cache, and the k that
\* there are.
Ends(tail, lines, k) ==
    {e \in k .. Len(lines) : SubSeq(lines, e - k + 1, e) = SubSeq(tail, Len(tail) - k + 1, Len(tail))}
Overlaps(tail, lines) == {k \in 1 .. Len(tail) : Ends(tail, lines, k) # {}}

\* A capture adds lines of its own and the boundary, whatever the cache has.
LEMMA NewLinesAre ==
    ASSUME NEW T, Blank \in T, Boundary \in T, NEW tail, Len(tail) \in Nat, NEW lines \in Seq(T)
    PROVE  NewLinesAfterOverlap(tail, lines) \in Seq(T)
<1>1. NewLinesAfterOverlap(tail, lines) =
          IF tail = <<>> THEN lines
          ELSE IF Overlaps(tail, lines) = {} THEN <<Blank, Boundary, Blank>> \o lines
          ELSE SubSeq(lines, Min(Ends(tail, lines, Max(Overlaps(tail, lines)))) + 1, Len(lines))
    BY DEF NewLinesAfterOverlap, Ends, Overlaps
<1>2. <<Blank, Boundary, Blank>> \o lines \in Seq(T)
    <2>1. <<Blank, Boundary, Blank>> \in Seq(T)
        OBVIOUS
    <2>2. \A p \in Seq(T), q \in Seq(T) : p \o q \in Seq(T)
        OBVIOUS
    <2> QED
        BY <2>1, <2>2
<1>3. ASSUME Overlaps(tail, lines) # {}
      PROVE  SubSeq(lines, Min(Ends(tail, lines, Max(Overlaps(tail, lines)))) + 1, Len(lines)) \in Seq(T)
    <2>1. Overlaps(tail, lines) \in SUBSET Nat /\ \A k \in Overlaps(tail, lines) : k <= Len(tail)
        BY DEF Overlaps
    <2>2. Max(Overlaps(tail, lines)) \in Overlaps(tail, lines)
        BY <1>3, <2>1, MaxFacts
    <2>3. PICK k \in 1 .. Len(tail) : k = Max(Overlaps(tail, lines)) /\ Ends(tail, lines, k) # {}
        BY <2>2 DEF Overlaps
    <2>4. Ends(tail, lines, k) \in SUBSET Nat
        BY <2>3 DEF Ends
    <2>5. Min(Ends(tail, lines, k)) \in Ends(tail, lines, k)
        BY <2>3, <2>4, MinFacts
    <2>6. PICK e \in Nat : e = Min(Ends(tail, lines, k)) /\ e <= Len(lines)
        <3>1. \A e \in Ends(tail, lines, k) : e \in Nat /\ e <= Len(lines)
            BY <2>3, <2>4 DEF Ends
        <3> QED
            BY <2>5, <3>1
    <2>7. SubSeq(lines, e + 1, Len(lines)) \in Seq(T)
        OBVIOUS
    <2> QED
        BY <2>3, <2>6, <2>7
<1> QED
    BY <1>1, <1>2, <1>3

\* Inserted lines follow on the old ones, and pruning cuts off the oldest.
LEMMA InsertedFacts ==
    ASSUME NEW T, NEW old, NEW first \in Nat \ {0}, NEW next \in Nat, first <= next,
           DOMAIN old = first .. next - 1, \A no \in DOMAIN old : old[no] \in T,
           NEW lines \in Seq(T)
    PROVE  /\ Contiguous(Inserted(old, next, lines), next + Len(lines))
           /\ \A no \in DOMAIN Inserted(old, next, lines) : Inserted(old, next, lines)[no] \in T
<1>1. PICK m \in Nat : m = Len(lines)
    OBVIOUS
<1> DEFINE new == [no \in next .. next + m - 1 |-> lines[no - next + 1]]
           all == Merged(old, new)
           e == next + m - 1
<1>2. DOMAIN all = first .. e
    <2>1. DOMAIN all = (first .. next - 1) \cup (next .. e)
        BY DEF Merged
    <2>2. (first .. next - 1) \cup (next .. next + m - 1) = first .. next + m - 1
        OBVIOUS
    <2> QED
        BY ONLY <2>1, <2>2 DEF e
<1>3. \A no \in DOMAIN all : all[no] \in T
    <2> SUFFICES ASSUME NEW no \in first .. e
                 PROVE  all[no] \in T
        BY <1>2
    <2>1. all[no] = IF no \in DOMAIN old THEN old[no] ELSE new[no]
        BY <1>2 DEF Merged
    <2>2. CASE no \in DOMAIN old
        BY <2>1, <2>2
    <2>3. CASE no \notin DOMAIN old
        <3>1. no \in next .. e /\ no - next + 1 \in 1 .. m
            BY <2>3
        <3>2. new[no] = lines[no - next + 1]
            BY <3>1
        <3>3. lines[no - next + 1] \in T
            BY <1>1, <3>1
        <3> QED
            BY <2>1, <2>3, <3>2, <3>3
    <2> QED
        BY <2>2, <2>3
<1>4. PICK c \in first .. e + 1 : Newest(first .. e, MaxCachedLines) = c .. e
    <2>1. MaxCachedLines \in Nat \ {0}
        BY HistoryAssumption
    <2>2. first \in Nat /\ e \in Int /\ first <= e + 1
        BY <1>1
    <2> HIDE DEF e
    <2> QED
        BY <2>1, <2>2, NewestOfInterval
<1>5. Inserted(old, next, lines) = Restrict(all, c .. e)
    BY <1>1, <1>2, <1>4 DEF Inserted
<1>6. Inserted(old, next, lines) = [no \in c .. e |-> all[no]]
    BY <1>5 DEF Restrict
<1>7. c \in Nat \ {0} /\ c <= next + m /\ c .. e \subseteq first .. e
    BY <1>1, <1>4
<1> HIDE DEF all
<1>8. \A no \in c .. e : all[no] \in T
    BY <1>2, <1>3, <1>7
<1>9. Contiguous(Inserted(old, next, lines), next + m)
    BY <1>6, <1>7 DEF Contiguous
<1> QED
    BY <1>1, <1>6, <1>8, <1>9

\* A capture has lines of its session only, and blank ones.
LEMMA CaptureFacts ==
    ASSUME NEW id \in Nat, printed[id] \in Nat
    PROVE  /\ Captured(id) \in Seq(Text)
           /\ IdsOf(Captured(id)) \subseteq {id}
<1> DEFINE T == {x \in Text : x[1] \in {0, id}}
<1>1. Banner \in T /\ Blank \in T
    BY DEF Banner, Blank, Text
<1>2. PICK m \in Nat : m = printed[id]
    OBVIOUS
<1>3. \A k \in 1 .. m : <<id, k>> \in T
    BY DEF Text
<1> HIDE DEF T
<1>4. [k \in 1 .. m |-> <<id, k>>] \in Seq(T)
    BY <1>3
<1>5. <<Banner>> \in Seq(T) /\ <<Blank>> \in Seq(T)
    BY <1>1
<1>6. \A p \in Seq(T), q \in Seq(T), r \in Seq(T) : p \o q \o r \in Seq(T)
    OBVIOUS
<1>7. Captured(id) \in Seq(T)
    BY <1>2, <1>4, <1>5, <1>6 DEF Captured
<1>8. PICK s \in Seq(T) : s = Captured(id)
    BY <1>7
<1>9. \A k \in DOMAIN s : s[k] \in T
    OBVIOUS
<1>10. \A k \in DOMAIN s : s[k] \in Text /\ s[k][1] \in {0, id}
    BY <1>9 DEF T
<1>11. s \in Seq(Text)
    BY <1>10
<1> QED
    BY <1>8, <1>10, <1>11 DEF IdsOf

-----------------------------------------------------------------------------
(* What happens to sessions in tmux.                                        *)

\* What is in flight is of names.
LEMMA FlightFacts ==
    ASSUME FlightTypes
    PROVE  /\ \A i \in DOMAIN syncs : syncs[i].name \in Name /\ syncs[i].lines \in Seq(Text)
           /\ \A i \in DOMAIN syncs : \A id \in IdsOf(syncs[i].lines) : id \in Nat
           /\ \A i \in DOMAIN commands : commands[i].from \in Name /\ commands[i].to \in Name
<1>0. \A S : \A s \in Seq(S) : \A i \in DOMAIN s : s[i] \in S
    OBVIOUS
<1>1. \A i \in DOMAIN syncs : syncs[i] \in [name : Name, lines : Seq(Text)]
    BY <1>0, Zenon DEF FlightTypes
<1>2. \A i \in DOMAIN syncs : syncs[i].name \in Name /\ syncs[i].lines \in Seq(Text)
    BY <1>1
<1>3. \A i \in DOMAIN commands : commands[i] \in [from : Name, to : Name, id : Nat]
    BY <1>0, Zenon DEF FlightTypes
<1>4. \A i \in DOMAIN commands : commands[i].from \in Name /\ commands[i].to \in Name
    BY <1>3
<1>5. ASSUME NEW s \in Seq(Text), NEW id \in IdsOf(s)
      PROVE  id \in Nat
    <2>1. PICK k \in DOMAIN s : id = s[k][1]
        BY DEF IdsOf
    <2>2. s[k] \in Text
        OBVIOUS
    <2> QED
        BY <2>1, <2>2 DEF Text
<1> QED
    BY <1>2, <1>4, <1>5

\* A new session has no lines anywhere.
LEMMA CreateFacts ==
    ASSUME CalmInv, NEW n \in Name, CreateSession(n)
    PROVE  CalmInv'
<1>1. created \in Nat /\ created' = created + 1 /\ created' \in 0 .. MaxSessions
    BY HistoryAssumption DEF CalmInv, HistoryTypes, SessionTypes, CreateSession
<1>2. live \in [Name -> 0 .. created] /\ live' = [live EXCEPT ![n] = created']
    BY DEF CalmInv, HistoryTypes, SessionTypes, CreateSession
<1>3. live'[n] = created' /\ \A m \in Name : m # n => live'[m] = live[m]
    BY <1>2
<1>4. UNCHANGED <<printed, rows, meta, syncs, commands, killed, untold>>
    BY DEF CreateSession, cacheVars
<1>5. \A m \in Name : live[m] # created' /\ live[m] \in 0 .. created
    BY <1>1, <1>2
<1>6. HistoryTypes'
    <2>1. live' \in [Name -> 0 .. created']
        BY <1>1, <1>2
    <2>2. SessionTypes'
        <3>1. 1 .. created \subseteq 1 .. created'
            BY <1>1
        <3> QED
            BY <1>1, <1>4, <2>1, <3>1 DEF CalmInv, HistoryTypes, SessionTypes
    <2>3. TableTypes'
        <3>1. \A m \in Name : \A id \in IdsIn(rows[m]) : id <= created /\ id \in Nat
            BY DEF CalmInv, HistoryTypes, TableTypes, IdsIn, Text
        <3>2. \A m \in Name : \A id \in IdsIn(rows[m]) : id <= created'
            BY <1>1, <3>1
        <3>3. \A m \in Name : \A no \in DOMAIN rows[m] : rows[m][no] \in Text
            BY DEF CalmInv, HistoryTypes, TableTypes
        <3>4. meta \in [Name -> Nat] /\ rows = [m \in Name |-> rows[m]]
            BY DEF CalmInv, HistoryTypes, TableTypes
        <3> QED
            BY <1>4, <3>2, <3>3, <3>4 DEF TableTypes, IdsIn
    <2>4. FlightTypes'
        <3>1. \A i \in DOMAIN syncs : \A id \in IdsOf(syncs[i].lines) : id <= created /\ id \in Nat
            BY FlightFacts DEF CalmInv, HistoryTypes, FlightTypes, Known
        <3>2. \A i \in DOMAIN syncs : \A id \in IdsOf(syncs[i].lines) : id <= created'
            BY <1>1, <3>1
        <3> QED
            BY <1>4, <3>2 DEF CalmInv, HistoryTypes, FlightTypes, Known, IdsOf
    <2> QED
        BY <2>2, <2>3, <2>4 DEF HistoryTypes
<1>7. Attended'
    <2>1. OneNameEach'
        <3>1. created' \notin killed
            BY <1>1 DEF CalmInv, HistoryTypes, SessionTypes
        <3>2. OneNameEach
            BY DEF CalmInv, Attended
        <3> QED
            BY <1>3, <1>4, <1>5, <3>1, <3>2 DEF OneNameEach
    <2>2. Undisturbed'
        BY <1>4 DEF CalmInv, Attended, Undisturbed, Names
    <2>3. CapturesAreOfTheirName'
        <3>1. \A i \in DOMAIN syncs : \A id \in IdsOf(syncs[i].lines) : id # created'
            <4>1. \A i \in DOMAIN syncs : \A id \in IdsOf(syncs[i].lines) : id <= created
                BY DEF CalmInv, HistoryTypes, FlightTypes, Known
            <4>2. ~(created' <= created)
                BY <1>1
            <4> QED
                BY <4>1, <4>2
        <3>2. CapturesAreOfTheirName
            BY DEF CalmInv, Attended
        <3> QED
            BY <1>3, <1>4, <3>1, <3>2 DEF CapturesAreOfTheirName, IdsOf
    <2> QED
        BY <2>1, <2>2, <2>3 DEF Attended
<1>8. Followed'
    <2>1. \A m \in Name : created' \notin IdsIn(rows[m])
        <3>1. \A m \in Name : \A id \in IdsIn(rows[m]) : id <= created
            BY DEF CalmInv, HistoryTypes, TableTypes
        <3>2. ~(created' <= created)
            BY <1>1
        <3> QED
            BY <3>1, <3>2
    <2>2. LinesFollow /\ NotYetThere /\ KilledLinesGo
        BY DEF CalmInv, Followed
    <2>3. LinesFollow'
        BY <1>3, <1>4, <2>1, <2>2 DEF LinesFollow, RenamingOf, Commanded, IdsIn
    <2>4. NotYetThere'
        BY <1>3, <1>4, <2>1, <2>2 DEF NotYetThere, Renaming, IdsIn
    <2>5. KilledLinesGo'
        BY <1>4, <2>2 DEF KilledLinesGo, DeletingOf, Commanded, IdsIn
    <2> QED
        BY <2>3, <2>4, <2>5 DEF Followed
<1>9. AllContiguous'
    BY <1>4 DEF CalmInv, AllContiguous, Contiguous
<1> QED
    BY <1>6, <1>7, <1>8, <1>9 DEF CalmInv

\* What is printed is not in the cache yet.
LEMMA PrintFacts ==
    ASSUME CalmInv, NEW n \in Name, SessionPrints(n)
    PROVE  CalmInv'
<1>1. UNCHANGED <<created, live, rows, meta, syncs, commands, killed, untold>>
    BY DEF SessionPrints, cacheVars
<1>2. printed' \in [Ids -> Nat]
    <2>1. live \in [Name -> 0 .. created] /\ created \in 0 .. MaxSessions /\ printed \in [Ids -> Nat]
        BY DEF CalmInv, HistoryTypes, SessionTypes
    <2>2. live[n] \in 0 .. created /\ live[n] # 0
        BY <2>1 DEF SessionPrints, NoSessionId
    <2>3. live[n] \in Ids
        BY <2>1, <2>2, HistoryAssumption DEF Ids
    <2>4. printed' = [printed EXCEPT ![live[n]] = printed[live[n]] + 1]
        BY DEF SessionPrints
    <2>5. printed[live[n]] + 1 \in Nat
        BY <2>1, <2>3
    <2> QED
        BY <2>1, <2>4, <2>5
<1>3. HistoryTypes'
    <2>1. SessionTypes'
        BY <1>1, <1>2 DEF CalmInv, HistoryTypes, SessionTypes
    <2>2. TableTypes'
        BY <1>1 DEF CalmInv, HistoryTypes, TableTypes, IdsIn
    <2>3. FlightTypes'
        BY <1>1 DEF CalmInv, HistoryTypes, FlightTypes, Known, IdsOf
    <2> QED
        BY <2>1, <2>2, <2>3 DEF HistoryTypes
<1>4. Attended'
    BY <1>1 DEF CalmInv, Attended, OneNameEach, Undisturbed, Names, CapturesAreOfTheirName, IdsOf
<1>5. Followed'
    BY <1>1 DEF CalmInv, Followed, LinesFollow, NotYetThere, KilledLinesGo, Renaming, Commanded, RenamingOf, DeletingOf, IdsIn
<1>6. AllContiguous'
    BY <1>1 DEF CalmInv, AllContiguous, Contiguous
<1> QED
    BY <1>3, <1>4, <1>5, <1>6 DEF CalmInv

\* A session that ends leaves its name and its history.
LEMMA EndFacts ==
    ASSUME CalmInv, NEW n \in Name, SessionEnds(n)
    PROVE  CalmInv'
<1>1. UNCHANGED <<created, printed, rows, meta, syncs, commands, killed, untold>>
    BY DEF SessionEnds, cacheVars
<1>2. live \in [Name -> 0 .. created] /\ live' = [live EXCEPT ![n] = 0] /\ created \in Nat
    BY DEF CalmInv, HistoryTypes, SessionTypes, SessionEnds, NoSessionId
<1>3. live'[n] = 0 /\ \A m \in Name : m # n => live'[m] = live[m]
    BY <1>2
<1>4. HistoryTypes'
    <2>1. SessionTypes'
        BY <1>1, <1>2 DEF CalmInv, HistoryTypes, SessionTypes
    <2>2. TableTypes'
        BY <1>1 DEF CalmInv, HistoryTypes, TableTypes, IdsIn
    <2>3. FlightTypes'
        BY <1>1 DEF CalmInv, HistoryTypes, FlightTypes, Known, IdsOf
    <2> QED
        BY <2>1, <2>2, <2>3 DEF HistoryTypes
<1>5. Attended'
    <2>1. OneNameEach /\ Undisturbed /\ CapturesAreOfTheirName
        BY DEF CalmInv, Attended
    <2>2. OneNameEach'
        BY <1>1, <1>3, <2>1 DEF OneNameEach, NoSessionId
    <2>3. Undisturbed'
        BY <1>1, <2>1 DEF Undisturbed, Names
    <2>4. CapturesAreOfTheirName'
        BY <1>1, <1>3, <2>1 DEF CapturesAreOfTheirName, IdsOf
    <2> QED
        BY <2>2, <2>3, <2>4 DEF Attended
<1>6. Followed'
    <2>1. LinesFollow /\ NotYetThere /\ KilledLinesGo
        BY DEF CalmInv, Followed
    <2>2. \A m \in Name : 0 \notin IdsIn(rows[m])
        BY DEF IdsIn
    <2>3. LinesFollow'
        BY <1>1, <1>3, <2>1, <2>2 DEF LinesFollow, RenamingOf, Commanded, IdsIn
    <2>4. NotYetThere'
        BY <1>1, <1>3, <2>1, <2>2 DEF NotYetThere, Renaming, IdsIn
    <2>5. KilledLinesGo'
        BY <1>1, <2>1 DEF KilledLinesGo, DeletingOf, Commanded, IdsIn
    <2> QED
        BY <2>3, <2>4, <2>5 DEF Followed
<1>7. AllContiguous'
    BY <1>1 DEF CalmInv, AllContiguous, Contiguous
<1> QED
    BY <1>4, <1>5, <1>6, <1>7 DEF CalmInv

-----------------------------------------------------------------------------
(* Flights that begin and end.                                              *)

\* One flight more.
LEMMA Appended ==
    ASSUME NEW S, NEW q \in Seq(S), NEW e \in S
    PROVE  /\ Append(q, e) \in Seq(S)
           /\ \E x : /\ x \notin DOMAIN q /\ DOMAIN Append(q, e) = DOMAIN q \cup {x}
                     /\ Append(q, e)[x] = e
                     /\ \A j \in DOMAIN q : Append(q, e)[j] = q[j]
<1>1. PICK m \in Nat : m = Len(q) /\ DOMAIN q = 1 .. m
    OBVIOUS
<1>2. Append(q, e) \in Seq(S) /\ Len(Append(q, e)) = m + 1
    BY <1>1
<1>3. DOMAIN Append(q, e) = DOMAIN q \cup {m + 1} /\ m + 1 \notin DOMAIN q
    BY <1>1, <1>2
<1>4. Append(q, e)[m + 1] = e /\ \A j \in DOMAIN q : Append(q, e)[j] = q[j]
    BY <1>1
<1> QED
    BY <1>2, <1>3, <1>4

\* One flight less.
LEMMA Removed ==
    ASSUME NEW S, NEW q \in Seq(S), NEW i \in DOMAIN q
    PROVE  /\ RemoveAt(q, i) \in Seq(S)
           /\ \A x \in DOMAIN RemoveAt(q, i) :
                  InWhole(i, x) \in DOMAIN q /\ InWhole(i, x) # i /\ RemoveAt(q, i)[x] = q[InWhole(i, x)]
           /\ \A x \in DOMAIN RemoveAt(q, i), y \in DOMAIN RemoveAt(q, i) :
                  InWhole(i, x) = InWhole(i, y) => x = y
           /\ \A j \in DOMAIN q : j # i => \E x \in DOMAIN RemoveAt(q, i) : RemoveAt(q, i)[x] = q[j]
<1>1. PICK m \in Nat : m = Len(q) /\ DOMAIN q = 1 .. m
    OBVIOUS
<1>2. RemoveAt(q, i) \in Seq(S) /\ Len(RemoveAt(q, i)) = m - 1
    BY <1>1, RemoveAtFacts
<1>3. DOMAIN RemoveAt(q, i) = 1 .. m - 1
    BY <1>2
<1>4. \A x \in 1 .. m - 1 :
          InWhole(i, x) \in 1 .. m /\ InWhole(i, x) # i /\ RemoveAt(q, i)[x] = q[InWhole(i, x)]
    BY <1>1, RemoveAtFacts, SMTT(60)
<1>5. \A x \in 1 .. m - 1, y \in 1 .. m - 1 : InWhole(i, x) = InWhole(i, y) => x = y
    BY <1>1 DEF InWhole
<1>6. \A j \in 1 .. m : j # i => \E x \in 1 .. m - 1 : RemoveAt(q, i)[x] = q[j]
    <2>1. \A j \in 1 .. m : j # i => \E x \in 1 .. m - 1 : InWhole(i, x) = j
        <3>1. i \in 1 .. m
            BY <1>1
        <3> QED
            BY ONLY <1>1, <3>1, BeforeFacts
    <2> QED
        BY <1>4, <2>1
<1> QED
    BY <1>1, <1>2, <1>3, <1>4, <1>5, <1>6

\* A session that is killed, unless a sync is under way, leaves lines only
\* where the deletion finds them.
LEMMA DeleteFacts ==
    ASSUME CalmInv, NEW n \in Name, DeleteSession(n), Calm'
    PROVE  CalmInv'
<1>1. UNCHANGED <<created, printed, rows, meta, syncs, untold>>
    BY DEF DeleteSession, cacheVars
<1>2. live \in [Name -> 0 .. created] /\ live' = [live EXCEPT ![n] = 0] /\ created \in Nat /\ live[n] # 0
    BY DEF CalmInv, HistoryTypes, SessionTypes, DeleteSession, NoSessionId
<1>3. live'[n] = 0 /\ \A m \in Name : m # n => live'[m] = live[m]
    BY <1>2
<1>4. ~Syncing(n) /\ ~Touched(n)
    BY DEF Calm, DeleteSession
<1>5. killed' = killed \cup {live[n]} /\ commands' = Append(commands, [from |-> n, to |-> n, id |-> live[n]])
    BY DEF DeleteSession
<1>6. commands' \in Seq([from : Name, to : Name, id : Nat])
    <2>1. [from |-> n, to |-> n, id |-> live[n]] \in [from : Name, to : Name, id : Nat]
        BY <1>2
    <2> QED
        BY <1>5, <2>1 DEF CalmInv, HistoryTypes, FlightTypes
<1>7. PICK x : /\ x \notin DOMAIN commands /\ DOMAIN commands' = DOMAIN commands \cup {x}
               /\ commands'[x].from = n /\ commands'[x].to = n /\ commands'[x].id = live[n]
               /\ \A j \in DOMAIN commands : commands'[j] = commands[j]
    <2>1. commands \in Seq([from : Name, to : Name, id : Nat])
        BY DEF CalmInv, HistoryTypes, FlightTypes
    <2>2. [from |-> n, to |-> n, id |-> live[n]] \in [from : Name, to : Name, id : Nat]
        BY <1>2
    <2> QED
        BY <1>5, <2>1, <2>2, Appended
<1>8. HistoryTypes'
    <2>1. SessionTypes'
        <3>1. live[n] \in 1 .. created /\ live' \in [Name -> 0 .. created]
            BY <1>2
        <3>2. killed' \in SUBSET (1 .. created)
            BY <1>5, <3>1 DEF CalmInv, HistoryTypes, SessionTypes
        <3> QED
            BY <1>1, <3>1, <3>2 DEF CalmInv, HistoryTypes, SessionTypes
    <2>2. TableTypes'
        BY <1>1 DEF CalmInv, HistoryTypes, TableTypes, IdsIn
    <2>3. FlightTypes'
        BY <1>1, <1>6 DEF CalmInv, HistoryTypes, FlightTypes, Known, IdsOf
    <2> QED
        BY <2>1, <2>2, <2>3 DEF HistoryTypes
<1>9. Attended'
    <2>1. OneNameEach /\ Undisturbed /\ CapturesAreOfTheirName
        BY DEF CalmInv, Attended
    <2>2. OneNameEach'
        BY <1>2, <1>3, <1>5, <2>1 DEF OneNameEach, NoSessionId
    <2>3. Undisturbed'
        <3>1. \A j \in DOMAIN syncs : syncs[j].name # n
            BY <1>4 DEF Syncing
        <3>2. \A j \in DOMAIN commands : n \notin Names(commands[j])
            BY <1>4 DEF Touched, Names
        <3>3. Names(commands'[x]) = {n}
            BY <1>7 DEF Names
        <3>4. \A i \in DOMAIN commands', j \in DOMAIN syncs : syncs[j].name \notin Names(commands'[i])
            BY <1>7, <2>1, <3>1, <3>3 DEF Undisturbed
        <3>5. \A i \in DOMAIN commands', j \in DOMAIN commands' :
                  i # j => Names(commands'[i]) \cap Names(commands'[j]) = {}
            BY <1>7, <2>1, <3>2, <3>3 DEF Undisturbed
        <3> QED
            BY <1>1, <3>4, <3>5 DEF Undisturbed, Names
    <2>4. CapturesAreOfTheirName'
        <3>1. \A j \in DOMAIN syncs : syncs[j].name # n
            BY <1>4 DEF Syncing
        <3>2. \A i \in DOMAIN syncs : \A id \in IdsOf(syncs[i].lines) : id # live[n] /\ id # 0
            BY <2>1, <3>1 DEF CapturesAreOfTheirName, IdsOf
        <3>3. \A i \in DOMAIN syncs : \A id \in IdsOf(syncs[i].lines) :
                  id \notin killed' /\ \A m \in Name \ {syncs[i].name} : live'[m] # id
            <4> SUFFICES ASSUME NEW i \in DOMAIN syncs, NEW id \in IdsOf(syncs[i].lines)
                         PROVE  id \notin killed' /\ \A m \in Name \ {syncs[i].name} : live'[m] # id
                OBVIOUS
            <4>1. id \notin killed /\ \A m \in Name \ {syncs[i].name} : live[m] # id
                BY <2>1 DEF CapturesAreOfTheirName
            <4>2. id # live[n] /\ id # 0
                BY <3>2
            <4> QED
                BY <1>3, <1>5, <4>1, <4>2
        <3> QED
            BY <1>1, <3>3 DEF CapturesAreOfTheirName, IdsOf
    <2> QED
        BY <2>2, <2>3, <2>4 DEF Attended
<1>10. Followed'
    <2>1. LinesFollow /\ NotYetThere /\ KilledLinesGo
        BY DEF CalmInv, Followed
    <2>2. \A m \in Name : 0 \notin IdsIn(rows[m])
        BY DEF IdsIn
    <2>3. \A a, b : Renaming(a, b)' <=> Renaming(a, b)
        BY <1>7 DEF Renaming
    <2>4. \A a, b, id : Commanded(a, b, id) => Commanded(a, b, id)'
        BY <1>7 DEF Commanded
    <2>8. PICK killedId : killedId = live[n] /\ DeletingOf(n, killedId)'
        <3>1. \E i \in DOMAIN commands' :
                  commands'[i].from = n /\ commands'[i].to = n /\ commands'[i].id = live[n]
            BY <1>7
        <3> QED
            BY <3>1 DEF DeletingOf, Commanded
    <2>5. LinesFollow'
        <3>1. ASSUME NEW a \in Name, NEW b \in Name, NEW id, id = live'[a], a # b,
                     id \in IdsIn(rows[b]), id \notin untold
              PROVE  RenamingOf(b, a, id)'
            <4>1. a # n /\ id = live[a]
                BY <1>3, <2>2, <3>1
            <4>2. RenamingOf(b, a, id)
                BY <2>1, <3>1, <4>1 DEF LinesFollow
            <4> QED
                BY <2>4, <4>2 DEF RenamingOf
        <3> QED
            BY <1>1, <3>1 DEF LinesFollow, RenamingOf, Commanded, IdsIn
    <2>6. NotYetThere'
        BY <1>1, <1>3, <2>1, <2>2, <2>3 DEF NotYetThere, IdsIn
    <2>7. KilledLinesGo'
        <3>1. \A m \in Name : m # n /\ live[n] \notin untold => live[n] \notin IdsIn(rows[m])
            <4>1. \A m, id : ~RenamingOf(m, n, id)
                BY <1>4 DEF Touched, RenamingOf, Commanded
            <4> QED
                BY <2>1, <4>1 DEF LinesFollow
        <3>2. ASSUME NEW a \in Name, NEW id \in killed' \ untold, id \in IdsIn(rows[a])
              PROVE  DeletingOf(a, id)'
            <4>1. CASE id = live[n]
                BY <2>8, <3>1, <3>2, <4>1
            <4>2. CASE id # live[n]
                <5>1. DeletingOf(a, id)
                    BY <1>5, <2>1, <3>2, <4>2 DEF KilledLinesGo
                <5> QED
                    BY <2>4, <5>1 DEF DeletingOf
            <4> QED
                BY <4>1, <4>2
        <3> QED
            BY <1>1, <3>2 DEF KilledLinesGo, IdsIn
    <2> QED
        BY <2>5, <2>6, <2>7 DEF Followed
<1>11. AllContiguous'
    BY <1>1 DEF CalmInv, AllContiguous, Contiguous
<1> QED
    BY <1>8, <1>9, <1>10, <1>11 DEF CalmInv

\* A session that is renamed, unless a sync is under way, leaves its lines
\* where the rename finds them.
LEMMA RenameFacts ==
    ASSUME CalmInv, NEW n \in Name, NEW m \in Name, RenameSession(n, m), Calm'
    PROVE  CalmInv'
<1>1. UNCHANGED <<created, printed, rows, meta, syncs, killed, untold>>
    BY DEF RenameSession, cacheVars
<1>2. /\ live \in [Name -> 0 .. created] /\ created \in Nat
      /\ live[n] # 0 /\ live[m] = 0 /\ n # m
      /\ live' = [live EXCEPT ![n] = 0, ![m] = live[n]]
    BY DEF CalmInv, HistoryTypes, SessionTypes, RenameSession, NoSessionId
<1>3. /\ live'[n] = 0 /\ live'[m] = live[n]
      /\ \A k \in Name : k # n /\ k # m => live'[k] = live[k]
    BY <1>2
<1>4. ~Syncing(n) /\ ~Touched(n) /\ ~Syncing(m) /\ ~Touched(m)
    BY DEF Calm, RenameSession
<1>5. commands' = Append(commands, [from |-> n, to |-> m, id |-> live[n]])
    BY DEF RenameSession
<1>6. /\ commands' \in Seq([from : Name, to : Name, id : Nat])
      /\ \E x : /\ x \notin DOMAIN commands /\ DOMAIN commands' = DOMAIN commands \cup {x}
                /\ commands'[x].from = n /\ commands'[x].to = m /\ commands'[x].id = live[n]
                /\ \A j \in DOMAIN commands : commands'[j] = commands[j]
    <2>1. commands \in Seq([from : Name, to : Name, id : Nat])
        BY DEF CalmInv, HistoryTypes, FlightTypes
    <2>2. [from |-> n, to |-> m, id |-> live[n]] \in [from : Name, to : Name, id : Nat]
        BY <1>2
    <2> QED
        BY <1>5, <2>1, <2>2, Appended
<1>7. PICK x : /\ x \notin DOMAIN commands /\ DOMAIN commands' = DOMAIN commands \cup {x}
               /\ commands'[x].from = n /\ commands'[x].to = m /\ commands'[x].id = live[n]
               /\ \A j \in DOMAIN commands : commands'[j] = commands[j]
    BY <1>6
<1>8. HistoryTypes'
    <2>1. SessionTypes'
        <3>1. live' \in [Name -> 0 .. created]
            BY <1>2
        <3> QED
            BY <1>1, <3>1 DEF CalmInv, HistoryTypes, SessionTypes
    <2>2. TableTypes'
        BY <1>1 DEF CalmInv, HistoryTypes, TableTypes, IdsIn
    <2>3. FlightTypes'
        BY <1>1, <1>6 DEF CalmInv, HistoryTypes, FlightTypes, Known, IdsOf
    <2> QED
        BY <2>1, <2>2, <2>3 DEF HistoryTypes
<1>9. Attended'
    <2>1. OneNameEach /\ Undisturbed /\ CapturesAreOfTheirName
        BY DEF CalmInv, Attended
    <2>2. OneNameEach'
        <3>1. \A k \in Name : live[k] # 0 =>
                  live[k] \notin killed /\ \A l \in Name : l # k => live[l] # live[k]
            BY <2>1 DEF OneNameEach, NoSessionId
        <3>2. ASSUME NEW k \in Name, live'[k] # 0
              PROVE  live'[k] \notin killed /\ \A l \in Name : l # k => live'[l] # live'[k]
            <4>1. CASE k = m
                BY <1>2, <1>3, <3>1, <4>1
            <4>2. CASE k # m
                <5>1. k # n /\ live'[k] = live[k]
                    BY <1>3, <3>2, <4>2
                <5> QED
                    BY <1>2, <1>3, <3>1, <3>2, <4>2, <5>1
            <4> QED
                BY <4>1, <4>2
        <3> QED
            BY <1>1, <3>2 DEF OneNameEach, NoSessionId
    <2>3. Undisturbed'
        <3>1. \A j \in DOMAIN syncs : syncs[j].name \notin {n, m}
            BY <1>4 DEF Syncing
        <3>2. \A j \in DOMAIN commands : Names(commands[j]) \cap {n, m} = {}
            BY <1>4 DEF Touched, Names
        <3>3. Names(commands'[x]) = {n, m}
            BY <1>7 DEF Names
        <3>4. \A i \in DOMAIN commands', j \in DOMAIN syncs : syncs[j].name \notin Names(commands'[i])
            BY <1>7, <2>1, <3>1, <3>3 DEF Undisturbed
        <3>5. \A i \in DOMAIN commands', j \in DOMAIN commands' :
                  i # j => Names(commands'[i]) \cap Names(commands'[j]) = {}
            BY <1>7, <2>1, <3>2, <3>3 DEF Undisturbed
        <3> QED
            BY <1>1, <3>4, <3>5 DEF Undisturbed, Names
    <2>4. CapturesAreOfTheirName'
        <3>1. ASSUME NEW i \in DOMAIN syncs, NEW id \in IdsOf(syncs[i].lines)
              PROVE  id \notin killed /\ \A k \in Name \ {syncs[i].name} : live'[k] # id
            <4>1. id \notin killed /\ \A k \in Name \ {syncs[i].name} : live[k] # id
                BY <2>1 DEF CapturesAreOfTheirName
            <4>2. syncs[i].name # n /\ id # 0
                BY <1>4 DEF Syncing, IdsOf
            <4> QED
                BY <1>3, <4>1, <4>2
        <3> QED
            BY <1>1, <3>1 DEF CapturesAreOfTheirName, IdsOf
    <2> QED
        BY <2>2, <2>3, <2>4 DEF Attended
<1>10. Followed'
    <2>1. LinesFollow /\ NotYetThere /\ KilledLinesGo
        BY DEF CalmInv, Followed
    <2>2. \A k \in Name : 0 \notin IdsIn(rows[k])
        BY DEF IdsIn
    <2>3. \A a, b : Renaming(a, b)' <=> (Renaming(a, b) \/ (a = n /\ b = m))
        BY <1>2, <1>7 DEF Renaming
    <2>4. \A a, b, id : Commanded(a, b, id) => Commanded(a, b, id)'
        BY <1>7 DEF Commanded
    <2>9. PICK renamed : renamed = live[n] /\ RenamingOf(n, m, renamed)'
        <3>1. \E i \in DOMAIN commands' :
                  commands'[i].from = n /\ commands'[i].to = m /\ commands'[i].id = live[n]
            BY <1>7
        <3> QED
            BY <1>2, <3>1 DEF RenamingOf, Commanded
    <2>10. \A a, id : ~RenamingOf(a, n, id) /\ ~RenamingOf(a, m, id)
        BY <1>4 DEF Touched, RenamingOf, Commanded
    <2>5. \A a : ~Renaming(a, n) /\ ~Renaming(n, a) /\ ~Renaming(a, m) /\ ~Renaming(m, a)
        BY <1>4 DEF Touched, Renaming
    <2>6. LinesFollow'
        <3>1. ASSUME NEW a \in Name, NEW b \in Name, NEW id, id = live'[a], a # b,
                     id \in IdsIn(rows[b]), id \notin untold
              PROVE  RenamingOf(b, a, id)'
            <4>1. CASE a = m
                <5>1. id = live[n]
                    BY <1>3, <3>1, <4>1
                <5>2. b = n
                    BY <2>1, <2>10, <3>1, <5>1 DEF LinesFollow
                <5> QED
                    BY <2>9, <4>1, <5>1, <5>2
            <4>2. CASE a # m
                <5>1. a # n /\ id = live[a]
                    BY <1>3, <2>2, <3>1, <4>2
                <5>2. RenamingOf(b, a, id)
                    BY <2>1, <3>1, <5>1 DEF LinesFollow
                <5> QED
                    BY <2>4, <5>2 DEF RenamingOf
            <4> QED
                BY <4>1, <4>2
        <3> QED
            BY <1>1, <3>1 DEF LinesFollow, RenamingOf, Commanded, IdsIn
    <2>7. NotYetThere'
        <3>1. ASSUME NEW a \in Name, NEW b \in Name, Renaming(a, b)'
              PROVE  live'[a] \notin IdsIn(rows[a])
            <4>1. CASE a = n
                BY <1>3, <2>2, <4>1
            <4>2. CASE a # n
                BY <1>3, <2>1, <2>3, <2>5, <3>1, <4>2 DEF NotYetThere
            <4> QED
                BY <4>1, <4>2
        <3> QED
            BY <1>1, <3>1 DEF NotYetThere, IdsIn
    <2>8. KilledLinesGo'
        BY <1>1, <2>1, <2>4 DEF KilledLinesGo, DeletingOf, IdsIn
    <2> QED
        BY <2>6, <2>7, <2>8 DEF Followed
<1>11. AllContiguous'
    BY <1>1 DEF CalmInv, AllContiguous, Contiguous
<1> QED
    BY <1>8, <1>9, <1>10, <1>11 DEF CalmInv

\* A capture is of the session that has the name.
LEMMA CaptureSessionFacts ==
    ASSUME CalmInv, NEW n \in Name, CaptureSession(n), Calm'
    PROVE  CalmInv'
<1>1. UNCHANGED <<created, live, printed, rows, meta, commands, killed, untold>>
    BY DEF CaptureSession, tmuxVars, cacheVars
<1>2. live[n] \in Ids /\ live[n] \in Nat /\ live[n] <= created /\ live[n] # 0
    <2>1. live \in [Name -> 0 .. created] /\ created \in 0 .. MaxSessions
        BY DEF CalmInv, HistoryTypes, SessionTypes
    <2>2. live[n] \in 0 .. created /\ live[n] # 0
        BY <2>1 DEF CaptureSession, NoSessionId
    <2> QED
        BY <2>1, <2>2, HistoryAssumption DEF Ids
<1>3. PICK lines \in Seq(Text) : lines = Captured(live[n]) /\ IdsOf(lines) \subseteq {live[n]}
    <2>1. printed[live[n]] \in Nat
        BY <1>2 DEF CalmInv, HistoryTypes, SessionTypes
    <2> QED
        BY <1>2, <2>1, CaptureFacts
<1>4. /\ syncs' \in Seq([name : Name, lines : Seq(Text)])
      /\ \E x : /\ x \notin DOMAIN syncs /\ DOMAIN syncs' = DOMAIN syncs \cup {x}
                /\ syncs'[x].name = n /\ syncs'[x].lines = lines
                /\ \A j \in DOMAIN syncs : syncs'[j] = syncs[j]
    <2>1. syncs \in Seq([name : Name, lines : Seq(Text)])
        BY DEF CalmInv, HistoryTypes, FlightTypes
    <2>2. PICK e \in [name : Name, lines : Seq(Text)] : e = [name |-> n, lines |-> lines]
        OBVIOUS
    <2>3. syncs' = Append(syncs, e) /\ e.name = n /\ e.lines = lines
        BY <1>3, <2>2 DEF CaptureSession
    <2>4. Append(syncs, e) \in Seq([name : Name, lines : Seq(Text)])
        BY <2>1, <2>2, Appended
    <2>5. PICK x : /\ x \notin DOMAIN syncs /\ DOMAIN Append(syncs, e) = DOMAIN syncs \cup {x}
                   /\ Append(syncs, e)[x] = e
                   /\ \A j \in DOMAIN syncs : Append(syncs, e)[j] = syncs[j]
        <3>1. PICK R : R = [name : Name, lines : Seq(Text)]
            OBVIOUS
        <3>2. syncs \in Seq(R) /\ e \in R
            BY <2>1, <2>2, <3>1
        <3> QED
            BY ONLY <3>2, Appended
    <2> QED
        BY <2>3, <2>4, <2>5
<1>5. PICK x : /\ x \notin DOMAIN syncs /\ DOMAIN syncs' = DOMAIN syncs \cup {x}
               /\ syncs'[x].name = n /\ syncs'[x].lines = lines
               /\ \A j \in DOMAIN syncs : syncs'[j] = syncs[j]
    BY <1>4
<1>6. HistoryTypes'
    <2>1. SessionTypes'
        BY <1>1 DEF CalmInv, HistoryTypes, SessionTypes
    <2>2. TableTypes'
        BY <1>1 DEF CalmInv, HistoryTypes, TableTypes, IdsIn
    <2>3. \A i \in DOMAIN syncs' : \A id \in IdsOf(syncs'[i].lines) : id <= created
        BY <1>2, <1>3, <1>5 DEF CalmInv, HistoryTypes, FlightTypes, Known
    <2>4. commands \in Seq([from : Name, to : Name, id : Nat])
        BY DEF CalmInv, HistoryTypes, FlightTypes
    <2>5. FlightTypes'
        BY <1>1, <1>4, <2>3, <2>4 DEF FlightTypes, Known, IdsOf
    <2> QED
        BY <2>1, <2>2, <2>5 DEF HistoryTypes
<1>7. Attended'
    <2>1. OneNameEach /\ Undisturbed /\ CapturesAreOfTheirName
        BY DEF CalmInv, Attended
    <2>2. OneNameEach'
        BY <1>1, <2>1 DEF OneNameEach
    <2>3. Undisturbed'
        <3>1. \A j \in DOMAIN commands : n \notin Names(commands[j])
            BY DEF CaptureSession, Calm, Touched, Names
        <3>2. \A i \in DOMAIN commands, j \in DOMAIN syncs' : syncs'[j].name \notin Names(commands[i])
            BY <1>5, <2>1, <3>1 DEF Undisturbed
        <3> QED
            BY <1>1, <2>1, <3>2 DEF Undisturbed, Names
    <2>4. CapturesAreOfTheirName'
        <3>1. ASSUME NEW i \in DOMAIN syncs', NEW id \in IdsOf(syncs'[i].lines)
              PROVE  id \notin killed /\ \A k \in Name \ {syncs'[i].name} : live[k] # id
            <4>1. CASE i = x
                <5>1. id = live[n] /\ syncs'[i].name = n
                    BY <1>3, <1>5, <3>1, <4>1
                <5> QED
                    BY <1>2, <2>1, <5>1 DEF OneNameEach, NoSessionId
            <4>2. CASE i \in DOMAIN syncs
                <5>1. syncs'[i] = syncs[i]
                    BY <1>5, <4>2
                <5> QED
                    BY <2>1, <3>1, <4>2, <5>1 DEF CapturesAreOfTheirName
            <4> QED
                BY <1>5, <4>1, <4>2
        <3> QED
            BY <1>1, <3>1 DEF CapturesAreOfTheirName, IdsOf
    <2> QED
        BY <2>2, <2>3, <2>4 DEF Attended
<1>8. Followed'
    BY <1>1 DEF CalmInv, Followed, LinesFollow, NotYetThere, KilledLinesGo, Renaming, Commanded, RenamingOf, DeletingOf, IdsIn
<1>9. AllContiguous'
    BY <1>1 DEF CalmInv, AllContiguous, Contiguous
<1> QED
    BY <1>6, <1>7, <1>8, <1>9 DEF CalmInv

\* One sync less.
LEMMA SyncEnds ==
    ASSUME CalmInv, NEW i \in DOMAIN syncs, syncs' = RemoveAt(syncs, i),
           UNCHANGED <<created, live, commands, killed, untold>>
    PROVE  FlightTypes' /\ Attended'
<1>1. FlightTypes /\ OneNameEach /\ Undisturbed /\ CapturesAreOfTheirName
    BY DEF CalmInv, HistoryTypes, Attended
<1>2. /\ syncs' \in Seq([name : Name, lines : Seq(Text)])
      /\ \A x \in DOMAIN syncs' : \E j \in DOMAIN syncs : syncs'[x] = syncs[j]
    <2>1. PICK R : R = [name : Name, lines : Seq(Text)]
        OBVIOUS
    <2>2. syncs \in Seq(R)
        BY <1>1, <2>1 DEF FlightTypes
    <2>3. /\ syncs' \in Seq(R)
          /\ \A x \in DOMAIN syncs' : InWhole(i, x) \in DOMAIN syncs /\ syncs'[x] = syncs[InWhole(i, x)]
        BY <2>2, Removed
    <2> QED
        BY <2>1, <2>3
<1>3. FlightTypes'
    <2>1. \A x \in DOMAIN syncs' : \A id \in IdsOf(syncs'[x].lines) : id <= created
        BY <1>1, <1>2 DEF FlightTypes, Known
    <2>2. commands \in Seq([from : Name, to : Name, id : Nat])
        BY <1>1 DEF FlightTypes
    <2> QED
        BY <1>2, <2>1, <2>2 DEF FlightTypes, Known, IdsOf
<1>4. OneNameEach'
    BY <1>1 DEF OneNameEach
<1>5. Undisturbed'
    <2>1. \A k \in DOMAIN commands, x \in DOMAIN syncs' : syncs'[x].name \notin Names(commands[k])
        BY <1>1, <1>2 DEF Undisturbed
    <2> QED
        BY <1>1, <2>1 DEF Undisturbed, Names
<1>6. CapturesAreOfTheirName'
    <2>1. \A x \in DOMAIN syncs' : \A id \in IdsOf(syncs'[x].lines) :
              id \notin killed /\ \A m \in Name \ {syncs'[x].name} : live[m] # id
        <3> SUFFICES ASSUME NEW x \in DOMAIN syncs', NEW id \in IdsOf(syncs'[x].lines)
                     PROVE  id \notin killed /\ \A m \in Name \ {syncs'[x].name} : live[m] # id
            OBVIOUS
        <3>1. PICK j \in DOMAIN syncs : syncs'[x] = syncs[j]
            BY <1>2
        <3> QED
            BY <1>1, <3>1 DEF CapturesAreOfTheirName
    <2> QED
        BY <2>1 DEF CapturesAreOfTheirName, IdsOf
<1> QED
    BY <1>3, <1>4, <1>5, <1>6 DEF Attended

\* A capture that fails leaves all as it is.
LEMMA CaptureFailsFacts ==
    ASSUME CalmInv, NEW i \in DOMAIN syncs, CaptureFails(i)
    PROVE  CalmInv'
<1>1. /\ UNCHANGED <<created, live, printed, rows, meta, commands, killed, untold>>
      /\ syncs' = RemoveAt(syncs, i)
    BY DEF CaptureFails, tmuxVars, cacheVars
<1>2. FlightTypes' /\ Attended'
    BY <1>1, SyncEnds
<1>3. SessionTypes' /\ TableTypes'
    BY <1>1 DEF CalmInv, HistoryTypes, SessionTypes, TableTypes, IdsIn
<1>4. Followed'
    BY <1>1 DEF CalmInv, Followed, LinesFollow, NotYetThere, KilledLinesGo, Renaming, Commanded, RenamingOf, DeletingOf, IdsIn
<1>5. AllContiguous'
    BY <1>1 DEF CalmInv, AllContiguous, Contiguous
<1> QED
    BY <1>2, <1>3, <1>4, <1>5 DEF CalmInv, HistoryTypes

\* What StoreCapture does to the tables: the name has lines of before and of
\* the capture, on numbers that follow on each other.
LEMMA StoredFacts ==
    ASSUME CalmInv, NEW i \in DOMAIN syncs, StoreCapture(i), NEW n, n = syncs[i].name
    PROVE  /\ rows' = [rows EXCEPT ![n] = rows'[n]]
           /\ meta' \in [Name -> Nat] /\ \A m \in Name : m # n => meta'[m] = meta[m]
           /\ Contiguous(rows'[n], meta'[n])
           /\ \A no \in DOMAIN rows'[n] : rows'[n][no] \in Text
           /\ IdsIn(rows'[n]) \subseteq IdsIn(rows[n]) \cup IdsOf(syncs[i].lines)
<1>1. n \in Name /\ syncs[i].lines \in Seq(Text)
    BY FlightFacts DEF CalmInv, HistoryTypes
<1>2. /\ meta \in [Name -> Nat] /\ rows = [m \in Name |-> rows[m]]
      /\ \A no \in DOMAIN rows[n] : rows[n][no] \in Text
    BY <1>1 DEF CalmInv, HistoryTypes, TableTypes
<1>3. PICK next \in Nat \ {0} : next = IF meta[n] = NoMeta THEN 1 ELSE meta[n]
    BY <1>1, <1>2 DEF NoMeta
<1>4. PICK first \in Nat \ {0} : first <= next /\ DOMAIN rows[n] = first .. next - 1
    <2>1. PICK first \in Nat \ {0} : /\ meta[n] # 0 => first <= meta[n]
                                     /\ DOMAIN rows[n] = first .. meta[n] - 1
        BY <1>1 DEF CalmInv, AllContiguous, Contiguous
    <2>2. CASE meta[n] = 0
        <3>1. next = 1 /\ DOMAIN rows[n] = 1 .. 0
            BY <1>3, <2>1, <2>2 DEF NoMeta
        <3> QED
            BY <3>1
    <2>3. CASE meta[n] # 0
        BY <1>3, <2>1, <2>3 DEF NoMeta
    <2> QED
        BY <2>2, <2>3
<1>5. PICK old, s : old = rows[n] /\ s = syncs[i].lines
    OBVIOUS
<1> DEFINE T == {Blank, Boundary} \cup {old[no] : no \in DOMAIN old} \cup {s[k] : k \in DOMAIN s}
<1>6. s \in Seq(T)
    <2>1. s \in Seq(Text)
        BY <1>1, <1>5
    <2>2. PICK m \in Nat : DOMAIN s = 1 .. m /\ s = [k \in 1 .. m |-> s[k]]
        BY <2>1
    <2>3. \A k \in 1 .. m : s[k] \in T
        BY <2>2
    <2> HIDE DEF T
    <2>4. [k \in 1 .. m |-> s[k]] \in Seq(T)
        BY <2>3
    <2> QED
        BY <2>2, <2>4
<1>7. \A x \in T : x \in Text /\ x[1] \in {0} \cup IdsIn(old) \cup IdsOf(s)
    <2>1. Blank \in Text /\ Boundary \in Text /\ Blank[1] = 0 /\ Boundary[1] = 0
        BY DEF Blank, Boundary, Text
    <2>2. \A no \in DOMAIN old : old[no] \in Text /\ old[no][1] \in {0} \cup IdsIn(old)
        BY <1>2, <1>5 DEF IdsIn
    <2>3. \A k \in DOMAIN s : s[k] \in Text /\ s[k][1] \in {0} \cup IdsOf(s)
        <3>1. s \in Seq(Text)
            BY <1>1, <1>5
        <3> QED
            BY <3>1 DEF IdsOf
    <2> QED
        BY <2>1, <2>2, <2>3
<1>8. Blank \in T /\ Boundary \in T /\ \A no \in DOMAIN old : old[no] \in T
    OBVIOUS
<1> HIDE DEF T
<1>9. Len(CachedTailLines(n)) \in Nat
    <2>1. first \in Nat /\ next - 1 \in Int /\ first <= (next - 1) + 1
        BY <1>4
    <2>2. PICK b \in Int : b = next - 1
        BY <2>1
    <2>3. first <= b + 1 /\ DOMAIN rows[n] = first .. b
        BY <1>4, <2>1, <2>2
    <2> QED
        BY <2>1, <2>3, TailIsSeq
<1>10. PICK lines \in Seq(T) : lines = NewLinesAfterOverlap(CachedTailLines(n), s)
    <2>1. PICK tail : tail = CachedTailLines(n)
        OBVIOUS
    <2>2. Len(tail) \in Nat
        BY <1>9, <2>1
    <2>3. NewLinesAfterOverlap(tail, s) \in Seq(T)
        BY <1>6, <1>8, <2>2, NewLinesAre
    <2> QED
        BY <2>1, <2>3
<1>11. /\ rows' = [rows EXCEPT ![n] = Inserted(old, next, lines)]
       /\ meta' = [meta EXCEPT ![n] = next + Len(lines)]
    BY <1>3, <1>5, <1>10 DEF StoreCapture
<1>12. PICK new : new = Inserted(old, next, lines)
    OBVIOUS
<1>13. Contiguous(new, next + Len(lines)) /\ \A no \in DOMAIN new : new[no] \in T
    <2>1. DOMAIN old = first .. next - 1 /\ first <= next
        BY <1>4, <1>5
    <2> QED
        BY <1>8, <1>12, <2>1, InsertedFacts
<1>14. rows'[n] = new /\ meta'[n] = next + Len(lines)
    BY <1>1, <1>2, <1>11, <1>12
<1>15. \A no \in DOMAIN new : new[no] \in Text
    BY <1>7, <1>13
<1>16. IdsIn(new) \subseteq IdsIn(old) \cup IdsOf(s)
    BY <1>7, <1>13 DEF IdsIn
<1>17. meta' \in [Name -> Nat] /\ \A m \in Name : m # n => meta'[m] = meta[m]
    <2>1. next + Len(lines) \in Nat
        OBVIOUS
    <2> QED
        BY <1>1, <1>2, <1>11, <2>1
<1> QED
    BY <1>5, <1>11, <1>12, <1>13, <1>14, <1>15, <1>16, <1>17

\* A capture is stored under the name that its session has.
LEMMA StoreCaptureFacts ==
    ASSUME CalmInv, NEW i \in DOMAIN syncs, StoreCapture(i)
    PROVE  CalmInv'
<1>1. /\ UNCHANGED <<created, live, printed, commands, killed, untold>>
      /\ syncs' = RemoveAt(syncs, i)
    BY DEF StoreCapture, tmuxVars
<1>2. PICK n \in Name : n = syncs[i].name
    BY FlightFacts DEF CalmInv, HistoryTypes
<1>3. /\ rows' = [rows EXCEPT ![n] = rows'[n]]
      /\ meta' \in [Name -> Nat] /\ \A m \in Name : m # n => meta'[m] = meta[m]
      /\ Contiguous(rows'[n], meta'[n])
      /\ \A no \in DOMAIN rows'[n] : rows'[n][no] \in Text
      /\ IdsIn(rows'[n]) \subseteq IdsIn(rows[n]) \cup IdsOf(syncs[i].lines)
    BY <1>2, StoredFacts
<1>4. /\ DOMAIN rows = Name /\ rows = [m \in Name |-> rows[m]]
      /\ \A m \in Name : \A no \in DOMAIN rows[m] : rows[m][no] \in Text
      /\ \A m \in Name : \A id \in IdsIn(rows[m]) : id <= created
    BY DEF CalmInv, HistoryTypes, TableTypes
<1>5. rows' = [m \in Name |-> rows'[m]] /\ \A m \in Name : m # n => rows'[m] = rows[m]
    BY <1>3, <1>4
<1>6. \A id \in IdsOf(syncs[i].lines) :
          /\ id <= created /\ id \notin killed
          /\ \A m \in Name : m # n => live[m] # id
    BY <1>2 DEF CalmInv, HistoryTypes, FlightTypes, Known, Attended, CapturesAreOfTheirName
<1>7. \A k \in DOMAIN commands : n \notin Names(commands[k])
    BY <1>2 DEF CalmInv, Attended, Undisturbed
<1>8. FlightTypes' /\ Attended'
    BY <1>1, SyncEnds
<1>9. SessionTypes'
    BY <1>1 DEF CalmInv, HistoryTypes, SessionTypes
<1>10. TableTypes'
    <2>1. \A m \in Name : \A no \in DOMAIN rows'[m] : rows'[m][no] \in Text
        BY <1>3, <1>4, <1>5
    <2>2. \A m \in Name : \A id \in IdsIn(rows'[m]) : id <= created
        BY <1>3, <1>4, <1>5, <1>6
    <2> QED
        BY <1>1, <1>3, <1>5, <2>1, <2>2 DEF TableTypes, IdsIn
<1>11. AllContiguous'
    <2>1. \A m \in Name : Contiguous(rows'[m], meta'[m])
        BY <1>3, <1>5 DEF CalmInv, AllContiguous
    <2> QED
        BY <2>1 DEF AllContiguous, Contiguous
<1>12. Followed'
    <2>1. LinesFollow /\ NotYetThere /\ KilledLinesGo
        BY DEF CalmInv, Followed
    <2>2. LinesFollow'
        <3>1. ASSUME NEW a \in Name, NEW b \in Name, a # b, live[a] \in IdsIn(rows'[b]), live[a] \notin untold
              PROVE  RenamingOf(b, a, live[a])
            <4>1. live[a] \in IdsIn(rows[b])
                BY <1>3, <1>5, <1>6, <3>1
            <4> QED
                BY <2>1, <3>1, <4>1 DEF LinesFollow
        <3> QED
            BY <1>1, <3>1 DEF LinesFollow, RenamingOf, Commanded, IdsIn
    <2>3. NotYetThere'
        <3>1. \A a \in Name, b \in Name : Renaming(a, b) => a # n
            BY <1>7 DEF Renaming, Names
        <3>2. \A a \in Name, b \in Name : Renaming(a, b) => live[a] \notin IdsIn(rows'[a])
            BY <1>5, <2>1, <3>1 DEF NotYetThere
        <3> QED
            BY <1>1, <3>2 DEF NotYetThere, Renaming, IdsIn
    <2>4. KilledLinesGo'
        <3>1. \A a \in Name, id \in killed : id \in IdsIn(rows'[a]) => id \in IdsIn(rows[a])
            BY <1>3, <1>5, <1>6
        <3>2. \A a \in Name, id \in killed \ untold : id \in IdsIn(rows'[a]) => DeletingOf(a, id)
            BY <2>1, <3>1 DEF KilledLinesGo
        <3> QED
            BY <1>1, <3>2 DEF KilledLinesGo, DeletingOf, Commanded, IdsIn
    <2> QED
        BY <2>2, <2>3, <2>4 DEF Followed
<1> QED
    BY <1>8, <1>9, <1>10, <1>11, <1>12 DEF CalmInv, HistoryTypes

\* One command less.
LEMMA CommandIsDone ==
    ASSUME CalmInv, NEW i \in DOMAIN commands, commands' = RemoveAt(commands, i),
           UNCHANGED <<created, live, syncs, killed>>
    PROVE  /\ FlightTypes' /\ Attended'
           /\ \A a, b : Renaming(a, b)' => \E j \in DOMAIN commands :
                  j # i /\ a # b /\ commands[j].from = a /\ commands[j].to = b
           /\ \A j \in DOMAIN commands : j # i =>
                  \E x \in DOMAIN commands' : commands'[x] = commands[j]
<1>1. FlightTypes /\ OneNameEach /\ Undisturbed /\ CapturesAreOfTheirName
    BY DEF CalmInv, HistoryTypes, Attended
<1>2. /\ commands' \in Seq([from : Name, to : Name, id : Nat])
      /\ \A x \in DOMAIN commands' : /\ InWhole(i, x) \in DOMAIN commands /\ InWhole(i, x) # i
                                     /\ commands'[x] = commands[InWhole(i, x)]
      /\ \A x \in DOMAIN commands', y \in DOMAIN commands' : InWhole(i, x) = InWhole(i, y) => x = y
      /\ \A j \in DOMAIN commands : j # i => \E x \in DOMAIN commands' : commands'[x] = commands[j]
    <2>1. PICK R : R = [from : Name, to : Name, id : Nat]
        OBVIOUS
    <2>2. commands \in Seq(R)
        BY <1>1, <2>1 DEF FlightTypes
    <2>3. /\ RemoveAt(commands, i) \in Seq(R)
          /\ \A x \in DOMAIN RemoveAt(commands, i) :
                 /\ InWhole(i, x) \in DOMAIN commands /\ InWhole(i, x) # i
                 /\ RemoveAt(commands, i)[x] = commands[InWhole(i, x)]
          /\ \A x \in DOMAIN RemoveAt(commands, i), y \in DOMAIN RemoveAt(commands, i) :
                 InWhole(i, x) = InWhole(i, y) => x = y
          /\ \A j \in DOMAIN commands : j # i =>
                 \E x \in DOMAIN RemoveAt(commands, i) : RemoveAt(commands, i)[x] = commands[j]
        BY <2>2, Removed
    <2> QED
        BY <2>1, <2>3
<1>3. FlightTypes'
    BY <1>1, <1>2 DEF FlightTypes, Known, IdsOf
<1>4. OneNameEach' /\ CapturesAreOfTheirName'
    BY <1>1 DEF OneNameEach, CapturesAreOfTheirName, IdsOf
<1>5. Undisturbed'
    <2>1. \A x \in DOMAIN commands', j \in DOMAIN syncs : syncs[j].name \notin Names(commands'[x])
        BY <1>1, <1>2 DEF Undisturbed
    <2>2. \A x \in DOMAIN commands', y \in DOMAIN commands' :
              x # y => Names(commands'[x]) \cap Names(commands'[y]) = {}
        BY <1>1, <1>2 DEF Undisturbed
    <2> QED
        BY <2>1, <2>2 DEF Undisturbed, Names
<1>6. \A a, b : Renaming(a, b)' => \E j \in DOMAIN commands :
          j # i /\ a # b /\ commands[j].from = a /\ commands[j].to = b
    BY <1>2 DEF Renaming
<1> QED
    BY <1>2, <1>3, <1>4, <1>5, <1>6 DEF Attended

\* A command that is reported as failed leaves lines where they were, and its
\* session is known for it.
LEMMA CommandFailsFacts ==
    ASSUME CalmInv, NEW i \in DOMAIN commands, CommandFails(i)
    PROVE  CalmInv'
<1>1. /\ UNCHANGED <<created, live, printed, rows, meta, syncs, killed>>
      /\ commands' = RemoveAt(commands, i) /\ untold' = untold \cup {commands[i].id}
    BY DEF CommandFails, tmuxVars, cacheVars
<1>2. /\ FlightTypes' /\ Attended'
      /\ \A a, b : Renaming(a, b)' => \E j \in DOMAIN commands :
             j # i /\ a # b /\ commands[j].from = a /\ commands[j].to = b
      /\ \A j \in DOMAIN commands : j # i =>
             \E x \in DOMAIN commands' : commands'[x] = commands[j]
    BY <1>1, CommandIsDone
<1>3. ASSUME NEW a, NEW b, NEW id, id \notin untold', Commanded(a, b, id)
      PROVE  Commanded(a, b, id)'
    <2>1. PICK j \in DOMAIN commands :
              commands[j].from = a /\ commands[j].to = b /\ commands[j].id = id
        BY <1>3 DEF Commanded
    <2>2. PICK x \in DOMAIN commands' : commands'[x] = commands[j]
        BY <1>1, <1>2, <1>3, <2>1
    <2> QED
        BY <2>1, <2>2 DEF Commanded
<1>4. SessionTypes' /\ TableTypes'
    BY <1>1 DEF CalmInv, HistoryTypes, SessionTypes, TableTypes, IdsIn
<1>5. LinesFollow /\ NotYetThere /\ KilledLinesGo
    BY DEF CalmInv, Followed
<1>6. LinesFollow'
    <2>1. ASSUME NEW a \in Name, NEW b \in Name, a # b, live[a] \in IdsIn(rows[b]), live[a] \notin untold'
          PROVE  RenamingOf(b, a, live[a])'
        <3>1. RenamingOf(b, a, live[a])
            BY <1>1, <1>5, <2>1 DEF LinesFollow
        <3>2. Commanded(b, a, live[a])'
            <4>1. PICK id : id = live[a]
                OBVIOUS
            <4>2. Commanded(b, a, id)'
                BY <1>3, <2>1, <3>1, <4>1 DEF RenamingOf
            <4> QED
                BY <1>1, <4>1, <4>2
        <3> QED
            BY <2>1, <3>2 DEF RenamingOf
    <2> QED
        BY <1>1, <2>1 DEF LinesFollow, IdsIn
<1>7. NotYetThere'
    <2>1. \A a, b : Renaming(a, b)' => Renaming(a, b)
        BY <1>2 DEF Renaming
    <2> QED
        BY <1>1, <1>5, <2>1 DEF NotYetThere, IdsIn
<1>8. KilledLinesGo'
    <2>1. ASSUME NEW a \in Name, NEW id \in killed \ untold', id \in IdsIn(rows[a])
          PROVE  DeletingOf(a, id)'
        <3>1. DeletingOf(a, id)
            BY <1>1, <1>5, <2>1 DEF KilledLinesGo
        <3> QED
            BY <1>3, <2>1, <3>1 DEF DeletingOf
    <2> QED
        BY <1>1, <2>1 DEF KilledLinesGo, IdsIn
<1>9. AllContiguous'
    BY <1>1 DEF CalmInv, AllContiguous, Contiguous
<1> QED
    BY <1>2, <1>4, <1>6, <1>7, <1>8, <1>9 DEF CalmInv, HistoryTypes, Followed

\* A deletion goes through.
LEMMA FinishDeletion ==
    ASSUME CalmInv, NEW i \in DOMAIN commands, FinishCommand(i), NEW n \in Name,
           commands[i].from = n, commands[i].to = n
    PROVE  CalmInv'
<1>1. /\ UNCHANGED <<created, live, printed, syncs, killed, untold>>
      /\ commands' = RemoveAt(commands, i)
    BY DEF FinishCommand, tmuxVars
<1>2. rows' = [rows EXCEPT ![n] = <<>>] /\ meta' = [meta EXCEPT ![n] = 0]
    BY DEF FinishCommand, NoMeta
<1>3. /\ meta \in [Name -> Nat] /\ DOMAIN rows = Name /\ rows = [m \in Name |-> rows[m]]
      /\ \A m \in Name : \A no \in DOMAIN rows[m] : rows[m][no] \in Text
      /\ \A m \in Name : \A id \in IdsIn(rows[m]) : id <= created
    BY DEF CalmInv, HistoryTypes, TableTypes
<1>4. /\ rows' = [m \in Name |-> rows'[m]] /\ rows'[n] = <<>>
      /\ \A m \in Name : m # n => rows'[m] = rows[m]
    BY <1>2, <1>3
<1>5. /\ meta' \in [Name -> Nat] /\ meta'[n] = 0
      /\ \A m \in Name : m # n => meta'[m] = meta[m]
    BY <1>2, <1>3
<1>6. DOMAIN rows'[n] = {} /\ IdsIn(rows'[n]) = {}
    BY <1>4 DEF IdsIn
<1>7. /\ FlightTypes' /\ Attended'
      /\ \A a, b : Renaming(a, b)' => \E j \in DOMAIN commands :
             j # i /\ a # b /\ commands[j].from = a /\ commands[j].to = b
      /\ \A j \in DOMAIN commands : j # i =>
             \E x \in DOMAIN commands' : commands'[x] = commands[j]
    BY <1>1, CommandIsDone
<1>8. SessionTypes'
    BY <1>1 DEF CalmInv, HistoryTypes, SessionTypes
<1>9. TableTypes'
    <2>1. \A m \in Name : \A no \in DOMAIN rows'[m] : rows'[m][no] \in Text
        BY <1>3, <1>4, <1>6
    <2>2. \A m \in Name : \A id \in IdsIn(rows'[m]) : id <= created
        BY <1>3, <1>4, <1>6
    <2> QED
        BY <1>1, <1>4, <1>5, <2>1, <2>2 DEF TableTypes, IdsIn
<1>10. AllContiguous'
    <2>1. Contiguous(rows'[n], meta'[n])
        <3>1. 1 \in Nat \ {0} /\ 1 .. 0 - 1 = {}
            OBVIOUS
        <3> QED
            BY <1>5, <1>6, <3>1 DEF Contiguous
    <2>2. \A m \in Name : Contiguous(rows'[m], meta'[m])
        BY <1>4, <1>5, <2>1 DEF CalmInv, AllContiguous
    <2> QED
        BY <2>2 DEF AllContiguous, Contiguous
<1>11. Followed'
    <2>1. LinesFollow /\ NotYetThere /\ KilledLinesGo
        BY DEF CalmInv, Followed
    <2>2. \A a, b, id : Commanded(a, b, id) /\ ~(a = n /\ b = n) => Commanded(a, b, id)'
        <3> SUFFICES ASSUME NEW a, NEW b, NEW id, Commanded(a, b, id), ~(a = n /\ b = n)
                     PROVE  Commanded(a, b, id)'
            OBVIOUS
        <3>1. PICK j \in DOMAIN commands :
                  commands[j].from = a /\ commands[j].to = b /\ commands[j].id = id
            BY DEF Commanded
        <3>2. PICK x \in DOMAIN commands' : commands'[x] = commands[j]
            BY <1>7, <3>1
        <3> QED
            BY <3>1, <3>2 DEF Commanded
    <2>3. \A a, b : Renaming(a, b)' => Renaming(a, b)
        BY <1>7 DEF Renaming
    <2>5. LinesFollow'
        <3>1. ASSUME NEW a \in Name, NEW b \in Name, a # b, live[a] \in IdsIn(rows'[b]), live[a] \notin untold
              PROVE  RenamingOf(b, a, live[a])'
            <4>1. RenamingOf(b, a, live[a])
                BY <1>4, <1>6, <2>1, <3>1 DEF LinesFollow
            <4>2. PICK id : id = live[a] /\ id = live'[a]
                BY <1>1
            <4>3. Commanded(b, a, id)'
                BY <2>2, <3>1, <4>1, <4>2 DEF RenamingOf
            <4> QED
                BY <3>1, <4>2, <4>3 DEF RenamingOf
        <3> QED
            BY <1>1, <3>1 DEF LinesFollow, IdsIn
    <2>6. NotYetThere'
        <3>1. \A a \in Name, b \in Name : Renaming(a, b)' => live[a] \notin IdsIn(rows'[a])
            BY <1>4, <1>6, <2>1, <2>3 DEF NotYetThere
        <3> QED
            BY <1>1, <3>1 DEF NotYetThere, IdsIn
    <2>7. KilledLinesGo'
        <3>1. ASSUME NEW a \in Name, NEW id \in killed \ untold, id \in IdsIn(rows'[a])
              PROVE  DeletingOf(a, id)'
            <4>1. a # n
                BY <1>6, <3>1
            <4>2. DeletingOf(a, id)
                BY <1>4, <2>1, <3>1, <4>1 DEF KilledLinesGo
            <4> QED
                BY <2>2, <4>1, <4>2 DEF DeletingOf
        <3> QED
            BY <1>1, <3>1 DEF KilledLinesGo, IdsIn
    <2> QED
        BY <2>5, <2>6, <2>7 DEF Followed
<1> QED
    BY <1>7, <1>8, <1>9, <1>10, <1>11 DEF CalmInv, HistoryTypes

\* A rename goes through, to a name without a history.
LEMMA FinishRename ==
    ASSUME CalmInv, NEW i \in DOMAIN commands, FinishCommand(i), Calm',
           NEW n \in Name, NEW m \in Name, n # m, commands[i].from = n, commands[i].to = m
    PROVE  CalmInv'
<1>1. /\ UNCHANGED <<created, live, printed, syncs, killed, untold>>
      /\ commands' = RemoveAt(commands, i)
    BY DEF FinishCommand, tmuxVars
<1>2. meta[m] = 0
    BY DEF FinishCommand, NoMeta, Calm
<1>3. rows' = RenamedRows(n, m) /\ meta' = [meta EXCEPT ![n] = 0, ![m] = meta[n]]
    BY <1>2 DEF FinishCommand, NoMeta
<1>4. /\ meta \in [Name -> Nat] /\ DOMAIN rows = Name /\ rows = [k \in Name |-> rows[k]]
      /\ \A k \in Name : \A no \in DOMAIN rows[k] : rows[k][no] \in Text
      /\ \A k \in Name : \A id \in IdsIn(rows[k]) : id <= created
    BY DEF CalmInv, HistoryTypes, TableTypes
<1>5. DOMAIN rows[m] = {}
    <2>1. PICK first \in Nat \ {0} : DOMAIN rows[m] = first .. 0 - 1
        BY <1>2 DEF CalmInv, AllContiguous, Contiguous
    <2>2. first .. 0 - 1 = {}
        OBVIOUS
    <2> QED
        BY <2>1, <2>2
<1>6. rows' = [rows EXCEPT ![n] = Restrict(rows[n], {}), ![m] = Merged(rows[m], rows[n])]
    <2>1. DOMAIN rows[n] \cap DOMAIN rows[m] = {}
        BY <1>5
    <2> QED
        BY <1>3, <2>1 DEF RenamedRows
<1>7. /\ rows' = [k \in Name |-> rows'[k]]
      /\ rows'[n] = Restrict(rows[n], {}) /\ rows'[m] = Merged(rows[m], rows[n])
      /\ \A k \in Name : k # n /\ k # m => rows'[k] = rows[k]
    BY <1>4, <1>6
<1>8. /\ meta' \in [Name -> Nat] /\ meta'[n] = 0 /\ meta'[m] = meta[n]
      /\ \A k \in Name : k # n /\ k # m => meta'[k] = meta[k]
    BY <1>3, <1>4
<1>9. DOMAIN rows'[n] = {} /\ IdsIn(rows'[n]) = {}
    BY <1>7 DEF Restrict, IdsIn
<1>10. DOMAIN rows'[m] = DOMAIN rows[n] /\ \A no \in DOMAIN rows[n] : rows'[m][no] = rows[n][no]
    BY <1>5, <1>7 DEF Merged
<1>11. IdsIn(rows'[m]) = IdsIn(rows[n])
    BY <1>10 DEF IdsIn
<1>12. /\ FlightTypes' /\ Attended'
       /\ \A a, b : Renaming(a, b)' => \E j \in DOMAIN commands :
              j # i /\ a # b /\ commands[j].from = a /\ commands[j].to = b
       /\ \A j \in DOMAIN commands : j # i =>
              \E x \in DOMAIN commands' : commands'[x] = commands[j]
    BY <1>1, CommandIsDone
<1>13. \A j \in DOMAIN commands : j # i =>
           commands[j].from \notin {n, m} /\ commands[j].to \notin {n, m}
    <2>1. \A j \in DOMAIN commands : j # i => Names(commands[i]) \cap Names(commands[j]) = {}
        BY DEF CalmInv, Attended, Undisturbed
    <2> QED
        BY <2>1 DEF Names
<1>14. SessionTypes'
    BY <1>1 DEF CalmInv, HistoryTypes, SessionTypes
<1>15. TableTypes'
    <2>1. \A k \in Name : \A no \in DOMAIN rows'[k] : rows'[k][no] \in Text
        BY <1>4, <1>7, <1>9, <1>10
    <2>2. \A k \in Name : \A id \in IdsIn(rows'[k]) : id <= created
        BY <1>4, <1>7, <1>9, <1>11
    <2> QED
        BY <1>1, <1>7, <1>8, <2>1, <2>2 DEF TableTypes, IdsIn
<1>16. AllContiguous'
    <2>1. Contiguous(rows'[n], meta'[n])
        <3>1. 1 \in Nat \ {0} /\ 1 .. 0 - 1 = {}
            OBVIOUS
        <3> QED
            BY <1>8, <1>9, <3>1 DEF Contiguous
    <2>2. Contiguous(rows'[m], meta'[m])
        BY <1>8, <1>10 DEF CalmInv, AllContiguous, Contiguous
    <2>3. \A k \in Name : Contiguous(rows'[k], meta'[k])
        BY <1>7, <1>8, <2>1, <2>2 DEF CalmInv, AllContiguous
    <2> QED
        BY <2>3 DEF AllContiguous, Contiguous
<1>17. LinesFollow /\ NotYetThere /\ KilledLinesGo
    BY DEF CalmInv, Followed
<1>18. LinesFollow'
    <2>1. ASSUME NEW a \in Name, NEW b \in Name, a # b, live[a] \in IdsIn(rows'[b]), live[a] \notin untold
          PROVE  RenamingOf(b, a, live[a])'
        <3>1. b # n
            BY <1>9, <2>1
        <3>2. CASE b = m
            <4>1. live[a] \in IdsIn(rows[n])
                BY <1>11, <2>1, <3>2
            <4>2. a # n
                <5>1. Renaming(n, m)
                    BY DEF Renaming
                <5> QED
                    BY <1>17, <4>1, <5>1 DEF NotYetThere
            <4>3. RenamingOf(n, a, live[a])
                BY <1>17, <2>1, <4>1, <4>2 DEF LinesFollow
            <4>4. PICK j \in DOMAIN commands : commands[j].from = n /\ commands[j].to = a
                BY <4>3 DEF RenamingOf, Commanded
            <4>5. j # i
                BY <2>1, <3>2, <4>4
            <4> QED
                BY <1>13, <4>4, <4>5
        <3>3. CASE b # m
            <4>1. RenamingOf(b, a, live[a])
                BY <1>7, <1>17, <2>1, <3>1, <3>3 DEF LinesFollow
            <4>2. PICK j \in DOMAIN commands :
                      commands[j].from = b /\ commands[j].to = a /\ commands[j].id = live[a]
                BY <4>1 DEF RenamingOf, Commanded
            <4>3. j # i
                BY <3>1, <4>2
            <4>4. PICK x \in DOMAIN commands' : commands'[x] = commands[j]
                BY <1>12, <4>3
            <4> QED
                BY <1>1, <2>1, <4>2, <4>4 DEF RenamingOf, Commanded
        <3> QED
            BY <3>2, <3>3
    <2> QED
        BY <1>1, <2>1 DEF LinesFollow, IdsIn
<1>19. NotYetThere'
    <2>1. ASSUME NEW a \in Name, NEW b \in Name, Renaming(a, b)'
          PROVE  live[a] \notin IdsIn(rows'[a])
        <3>1. PICK j \in DOMAIN commands : j # i /\ a # b /\ commands[j].from = a /\ commands[j].to = b
            BY <1>12, <2>1
        <3>2. a # n /\ a # m /\ Renaming(a, b)
            BY <1>13, <3>1 DEF Renaming
        <3> QED
            BY <1>7, <1>17, <3>2 DEF NotYetThere
    <2> QED
        BY <1>1, <2>1 DEF NotYetThere, IdsIn
<1>20. KilledLinesGo'
    <2>1. ASSUME NEW a \in Name, NEW id \in killed \ untold, id \in IdsIn(rows'[a])
          PROVE  DeletingOf(a, id)'
        <3>1. a # n
            BY <1>9, <2>1
        <3>2. CASE a = m
            <4>1. DeletingOf(n, id)
                BY <1>11, <1>17, <2>1, <3>2 DEF KilledLinesGo
            <4>2. PICK j \in DOMAIN commands : commands[j].from = n /\ commands[j].to = n
                BY <4>1 DEF DeletingOf, Commanded
            <4>3. j # i
                BY <4>2
            <4> QED
                BY <1>13, <4>2, <4>3
        <3>3. CASE a # m
            <4>1. DeletingOf(a, id)
                BY <1>7, <1>17, <2>1, <3>1, <3>3 DEF KilledLinesGo
            <4>2. PICK j \in DOMAIN commands :
                      commands[j].from = a /\ commands[j].to = a /\ commands[j].id = id
                BY <4>1 DEF DeletingOf, Commanded
            <4>3. j # i
                BY <3>1, <4>2
            <4>4. PICK x \in DOMAIN commands' : commands'[x] = commands[j]
                BY <1>12, <4>3
            <4> QED
                BY <4>2, <4>4 DEF DeletingOf, Commanded
        <3> QED
            BY <3>2, <3>3
    <2> QED
        BY <1>1, <2>1 DEF KilledLinesGo, IdsIn
<1>21. Followed'
    BY <1>18, <1>19, <1>20 DEF Followed
<1> QED
    BY <1>12, <1>14, <1>15, <1>16, <1>21 DEF CalmInv, HistoryTypes

\* The invariant holds at the start.
LEMMA HistoryInvStarts == HistoryInit => HistoryInv
<1> SUFFICES ASSUME HistoryInit
             PROVE  CalmInv
    BY DEF HistoryInv
<1>1. /\ created = 0 /\ live = [n \in Name |-> 0] /\ printed = [id \in Ids |-> 0]
      /\ rows = [n \in Name |-> <<>>] /\ meta = [n \in Name |-> 0]
      /\ syncs = <<>> /\ commands = <<>> /\ killed = {}
    BY DEF HistoryInit, NoSessionId, NoMeta
<1>2. \A n \in Name : DOMAIN rows[n] = {} /\ IdsIn(rows[n]) = {}
    BY <1>1 DEF IdsIn
<1>3. SessionTypes
    BY <1>1, HistoryAssumption DEF SessionTypes
<1>4. TableTypes
    BY <1>1, <1>2 DEF TableTypes
<1>5. FlightTypes /\ Attended
    BY <1>1 DEF FlightTypes, Attended, OneNameEach, Undisturbed, CapturesAreOfTheirName, NoSessionId
<1>6. Followed
    BY <1>1, <1>2 DEF Followed, LinesFollow, NotYetThere, KilledLinesGo, Renaming
<1>7. AllContiguous
    <2>1. 1 \in Nat \ {0} /\ 1 .. 0 - 1 = {}
        OBVIOUS
    <2> QED
        BY <1>1, <1>2, <2>1 DEF AllContiguous, Contiguous
<1> QED
    BY <1>3, <1>4, <1>5, <1>6, <1>7 DEF CalmInv, HistoryTypes

\* Every step keeps it.
LEMMA HistoryInvHolds == HistoryInv /\ [HistoryNext]_historyVars => HistoryInv'
<1> SUFFICES ASSUME HistoryInv, [HistoryNext]_historyVars, Calm'
             PROVE  CalmInv'
    BY DEF HistoryInv
<1>1. CASE UNCHANGED historyVars
    <2>1. UNCHANGED <<created, live, printed, rows, meta, syncs, commands, killed, untold, raced, collided>>
        BY <1>1 DEF historyVars, tmuxVars, cacheVars
    <2>2. CalmInv
        BY <2>1 DEF HistoryInv, Calm
    <2>3. HistoryTypes'
        BY <2>1, <2>2 DEF CalmInv, HistoryTypes, SessionTypes, TableTypes, FlightTypes, Known, IdsOf, IdsIn
    <2>4. Attended'
        BY <2>1, <2>2 DEF CalmInv, Attended, OneNameEach, Undisturbed, Names, CapturesAreOfTheirName, IdsOf
    <2>5. Followed'
        BY <2>1, <2>2
            DEF CalmInv, Followed, LinesFollow, NotYetThere, KilledLinesGo, Renaming, Commanded, RenamingOf, DeletingOf, IdsIn
    <2>6. AllContiguous'
        BY <2>1, <2>2 DEF CalmInv, AllContiguous, Contiguous
    <2> QED
        BY <2>3, <2>4, <2>5, <2>6 DEF CalmInv
<1>2. CASE HistoryNext
    <2>0. CalmInv
        <3>1. (raced => raced') /\ (collided => collided')
            <4>1. ASSUME NEW n, CreateSession(n)
                  PROVE  (raced => raced') /\ (collided => collided')
                BY <4>1 DEF CreateSession
            <4>2. ASSUME NEW n, SessionPrints(n)
                  PROVE  (raced => raced') /\ (collided => collided')
                BY <4>2 DEF SessionPrints
            <4>3. ASSUME NEW n, SessionEnds(n)
                  PROVE  (raced => raced') /\ (collided => collided')
                BY <4>3 DEF SessionEnds
            <4>4. ASSUME NEW n, DeleteSession(n)
                  PROVE  (raced => raced') /\ (collided => collided')
                BY <4>4 DEF DeleteSession
            <4>5. ASSUME NEW n, CaptureSession(n)
                  PROVE  (raced => raced') /\ (collided => collided')
                BY <4>5 DEF CaptureSession
            <4>6. ASSUME NEW n, NEW m, RenameSession(n, m)
                  PROVE  (raced => raced') /\ (collided => collided')
                BY <4>6 DEF RenameSession
            <4>7. ASSUME NEW i, StoreCapture(i)
                  PROVE  (raced => raced') /\ (collided => collided')
                BY <4>7 DEF StoreCapture
            <4>8. ASSUME NEW i, CaptureFails(i)
                  PROVE  (raced => raced') /\ (collided => collided')
                BY <4>8 DEF CaptureFails
            <4>9. ASSUME NEW i, FinishCommand(i)
                  PROVE  (raced => raced') /\ (collided => collided')
                BY <4>9 DEF FinishCommand
            <4>10. ASSUME NEW i, CommandFails(i)
                   PROVE  (raced => raced') /\ (collided => collided')
                BY <4>10 DEF CommandFails
            <4> QED
                BY <1>2, <4>1, <4>2, <4>3, <4>4, <4>5, <4>6, <4>7, <4>8, <4>9, <4>10 DEF HistoryNext
        <3> QED
            BY <3>1 DEF HistoryInv, Calm
    <2>1. CASE \E n \in Name : CreateSession(n)
        <3>1. PICK n \in Name : CreateSession(n)
            BY <2>1
        <3> QED
            BY <2>0, <3>1, CreateFacts
    <2>2. CASE \E n \in Name : SessionPrints(n)
        <3>1. PICK n \in Name : SessionPrints(n)
            BY <2>2
        <3> QED
            BY <2>0, <3>1, PrintFacts
    <2>3. CASE \E n \in Name : SessionEnds(n)
        <3>1. PICK n \in Name : SessionEnds(n)
            BY <2>3
        <3> QED
            BY <2>0, <3>1, EndFacts
    <2>4. CASE \E n \in Name : DeleteSession(n)
        <3>1. PICK n \in Name : DeleteSession(n)
            BY <2>4
        <3> QED
            BY <2>0, <3>1, DeleteFacts
    <2>5. CASE \E n \in Name : CaptureSession(n)
        <3>1. PICK n \in Name : CaptureSession(n)
            BY <2>5
        <3> QED
            BY <2>0, <3>1, CaptureSessionFacts
    <2>6. CASE \E n \in Name : \E m \in Name : RenameSession(n, m)
        <3>1. PICK n \in Name, m \in Name : RenameSession(n, m)
            BY <2>6
        <3> QED
            BY <2>0, <3>1, RenameFacts
    <2>7. CASE \E i \in DOMAIN syncs : StoreCapture(i)
        <3>1. PICK i \in DOMAIN syncs : StoreCapture(i)
            BY <2>7
        <3> QED
            BY <2>0, <3>1, StoreCaptureFacts
    <2>8. CASE \E i \in DOMAIN syncs : CaptureFails(i)
        <3>1. PICK i \in DOMAIN syncs : CaptureFails(i)
            BY <2>8
        <3> QED
            BY <2>0, <3>1, CaptureFailsFacts
    <2>9. CASE \E i \in DOMAIN commands : FinishCommand(i)
        <3>1. PICK i \in DOMAIN commands : FinishCommand(i)
            BY <2>9
        <3>2. commands[i].from \in Name /\ commands[i].to \in Name
            BY <2>0, <3>1, FlightFacts DEF CalmInv, HistoryTypes
        <3> QED
            BY <2>0, <3>1, <3>2, FinishDeletion, FinishRename
    <2>10. CASE \E i \in DOMAIN commands : CommandFails(i)
        <3>1. PICK i \in DOMAIN commands : CommandFails(i)
            BY <2>10
        <3> QED
            BY <2>0, <3>1, CommandFailsFacts
    <2> QED
        BY <1>2, <2>1, <2>2, <2>3, <2>4, <2>5, <2>6, <2>7, <2>8, <2>9, <2>10 DEF HistoryNext
<1> QED
    BY <1>1, <1>2

\* What the invariant says when nothing is on its way.
LEMMA HistoryFollows == HistoryInv => HistoryFollowsSession
<1> SUFFICES ASSUME HistoryInv, commands = <<>>, ~raced, ~collided, NEW n \in Name
             PROVE  /\ live[n] \notin untold => \A m \in Name \ {n} : live[n] \notin IdsIn(rows[m])
                    /\ (killed \ untold) \cap IdsIn(rows[n]) = {}
                    /\ DOMAIN rows[n] = meta[n] - Cardinality(DOMAIN rows[n]) .. meta[n] - 1
                    /\ Viewed(n)[Cardinality(DOMAIN rows[n])] =
                           [lines |-> Lines(rows[n], DOMAIN rows[n]), nextBefore |-> 0]
    BY DEF HistoryFollowsSession
<1>1. CalmInv
    BY DEF HistoryInv, Calm
<1>2. \A a, b, id : ~RenamingOf(a, b, id) /\ ~DeletingOf(a, id)
    BY DEF RenamingOf, DeletingOf, Commanded
<1>3. live[n] \notin untold => \A m \in Name \ {n} : live[n] \notin IdsIn(rows[m])
    BY <1>1, <1>2 DEF CalmInv, Followed, LinesFollow
<1>4. (killed \ untold) \cap IdsIn(rows[n]) = {}
    BY <1>1, <1>2 DEF CalmInv, Followed, KilledLinesGo
<1>5. PICK next \in Nat : next = meta[n]
    BY <1>1 DEF CalmInv, HistoryTypes, TableTypes
<1>6. PICK first \in Nat \ {0} : (next # 0 => first <= next) /\ DOMAIN rows[n] = first .. next - 1
    BY <1>1, <1>5 DEF CalmInv, AllContiguous, Contiguous
<1>7. PICK a \in Nat \ {0}, b \in Int :
         a <= b + 1 /\ DOMAIN rows[n] = a .. b /\ b <= next /\ a .. b = next - (b - a + 1) .. next - 1
    <2>1. CASE next = 0
        <3>1. DOMAIN rows[n] = 1 .. 0 /\ 1 .. 0 = next - (0 - 1 + 1) .. next - 1
            BY <1>6, <2>1
        <3>2. 1 \in Nat \ {0} /\ 0 \in Int /\ 1 <= 0 + 1 /\ 0 <= next
            BY <2>1
        <3> QED
            BY <3>1, <3>2
    <2>2. CASE next # 0
        <3>1. next - 1 \in Int /\ first <= (next - 1) + 1 /\ next - 1 <= next
            BY <1>6, <2>2
        <3>2. next - ((next - 1) - first + 1) = first
            OBVIOUS
        <3>3. first .. next - 1 = next - ((next - 1) - first + 1) .. next - 1
            BY <3>2
        <3> QED
            BY <1>6, <3>1, <3>3
    <2> QED
        BY <2>1, <2>2
<1>8. Cardinality(DOMAIN rows[n]) = b - a + 1
    <2>1. a \in Int /\ b \in Int /\ a <= b + 1
        BY <1>7
    <2>2. Cardinality(a .. b) = b - a + 1
        BY ONLY <2>1, CountOfInterval
    <2> QED
        BY <1>7, <2>2
<1>9. DOMAIN rows[n] = meta[n] - Cardinality(DOMAIN rows[n]) .. meta[n] - 1
    BY <1>5, <1>7, <1>8
<1>10. Viewed(n)[Cardinality(a .. b)] = Seen(n, a, a, b)
    <2>1. meta[n] \in Nat /\ meta[n] >= b
        BY <1>5, <1>7
    <2> QED
        BY <1>7, <2>1, ViewReadsBack
<1>11. Seen(n, a, a, b) = [lines |-> Lines(rows[n], a .. b), nextBefore |-> 0]
    BY DEF Seen
<1> QED
    BY <1>3, <1>4, <1>7, <1>9, <1>10, <1>11

\* When nothing is on its way, no sync overtook a command and no histories
\* merged, the history of a name is that of its session, whole and in order, and
\* no other has it, but for sessions whose rename or end was reported as failed
\* though tmux had done it (session-history-cache.js, routes/sessions.js).
THEOREM HistoryFollowsSessionAlways == HistorySpec => []HistoryFollowsSession
<1> QED
    BY HistoryInvStarts, HistoryInvHolds, HistoryFollows, PTL DEF HistorySpec
=============================================================================
