-------------------------- MODULE WorkspaceStoreProofs --------------------------
(***************************************************************************)
(* The workspace store and its saves, for every number of workspaces, of   *)
(* requests in flight and of layout commits that wait, and for every set   *)
(* of sessions and shapes.                                                 *)
(***************************************************************************)
EXTENDS WorkspaceStore, ListLemmas

\* A save of w in flight.
IsSave(r, w) == r.kind = "put" /\ r.ws = w

\* The list has every workspace once.
ListMatches ==
    /\ \A i, j \in 1 .. Len(order) : order[i] = order[j] => i = j
    /\ \A w \in Ws : w \in Listed(local) <=> \E i \in 1 .. Len(order) : order[i] = w

\* The client knows ids the server has given out.
IdsWereGiven ==
    /\ \A w \in Listed(local) : w <= created
    /\ saveTimer.ws <= created
    /\ \A i \in 1 .. Len(requests) :
          requests[i].kind \in {"put", "created"} => requests[i].ws <= created

\* Until the answer to a creation comes, nobody but the server knows of the
\* row, and nobody but DELETE can have changed it.
CreatedIsNew ==
    \A i \in 1 .. Len(requests) : requests[i].kind = "created" =>
        /\ requests[i].ws \in Ws
        /\ local[requests[i].ws] = NoLayout
        /\ saveTimer.ws # requests[i].ws
        /\ stored[requests[i].ws] \in {NoLayout, requests[i].layout}
        /\ \A j \in 1 .. Len(requests) :
              j # i /\ requests[j].kind \in {"put", "created"} => requests[j].ws # requests[i].ws

\* A save that has been overtaken was sent before every one that has not.
OvertakenAreEarlier ==
    \A i, j \in 1 .. Len(requests) : \A w \in Ws :
        i < j /\ IsSave(requests[i], w) /\ IsSave(requests[j], w) /\ requests[j].stale =>
            requests[i].stale

\* Unless an edit was lost or waits for its timer, the saves in flight end with
\* one of the layout the workspace has now.
SavesCatchUp ==
    \A w \in Listed(local) : lost[w] = "not lost" /\ saveTimer.ws # w =>
        \A i \in 1 .. Len(requests) : IsSave(requests[i], w) /\ ~requests[i].stale =>
            \E j \in i .. Len(requests) :
                IsSave(requests[j], w) /\ requests[j].layout = local[w]

\* UnsavedEditIsAccountedFor, by a save that has not been overtaken.
UnsavedEditIsOnItsWay ==
    \A w \in Listed(local) \cap Listed(stored) :
        local[w] # stored[w] /\ saveTimer.ws # w /\ lost[w] = "not lost" =>
            \E i \in 1 .. Len(requests) :
                IsSave(requests[i], w) /\ ~requests[i].stale /\ requests[i].layout = local[w]

StoreInv ==
    /\ TypeOK
    /\ ListMatches
    /\ ScreenFollowsStore
    /\ IdsWereGiven
    /\ CreatedIsNew
    /\ PendingSaveIsCurrent
    /\ OvertakenAreEarlier
    /\ SavesCatchUp
    /\ UnsavedEditIsOnItsWay

-----------------------------------------------------------------------------
(* The operators.                                                           *)

\* A layout is not the mark of a workspace that is not there.
LEMMA NoLayoutIsNone == NoLayout \notin Layout
BY DEF NoLayout, Layout

\* What the kind of a request tells of its other fields.
LEMMA RequestFacts ==
    ASSUME NEW r \in Request
    PROVE  /\ r.kind \in {"put", "post", "created", "delete", "deleted"}
           /\ r.kind = "put" =>
                /\ r \in [kind : {"put"}, ws : Ws, layout : Layout, stale : BOOLEAN]
                /\ r.ws \in Ws /\ r.layout \in Layout /\ r.stale \in BOOLEAN
           /\ r.kind \in {"post", "created"} =>
                /\ r \in [kind : {"post", "created"}, ws : Ws \cup {NoWs}, layout : Layout]
                /\ r.ws \in Ws \cup {NoWs} /\ r.layout \in Layout
           /\ r.kind \in {"delete", "deleted"} =>
                /\ r \in [kind : {"delete", "deleted"}, ws : Ws]
                /\ r.ws \in Ws
BY DEF Request

\* The last of the list among some that are in it is one of them
\* (stores/workspaces.js renameSessionInWorkspaces).
LEMMA LastOfFacts ==
    ASSUME TypeOK, ListMatches, NEW ids \in SUBSET Listed(local), ids # {}
    PROVE  LastOf(ids) \in ids
<1> DEFINE places == {i \in 1 .. Len(order) : order[i] \in ids}
<1>1. DOMAIN order = 1 .. Len(order) /\ Len(order) \in Nat
    BY LenProperties DEF TypeOK
<1>2. \E i \in places : \A j \in places : j <= i
    <2>1. places # {}
        BY DEF ListMatches, TypeOK, Listed
    <2>2. places \in SUBSET Nat /\ \A j \in places : j <= Len(order)
        BY <1>1
    <2> HIDE DEF places
    <2> QED
        BY <1>1, <2>1, <2>2, LargestExists
<1>3. PICK i \in DOMAIN order :
          order[i] \in ids /\ \A j \in DOMAIN order : order[j] \in ids => j <= i
    BY <1>1, <1>2
<1> QED
    BY <1>3 DEF LastOf

\* The list without one workspace has the others once (stores/workspaces.js
\* deleteWorkspace).
LEMMA WithoutFacts ==
    ASSUME TypeOK, ListMatches, NEW w \in Ws
    PROVE  /\ Without(order, w) \in Seq(Ws)
           /\ \A i, j \in 1 .. Len(Without(order, w)) :
                Without(order, w)[i] = Without(order, w)[j] => i = j
           /\ \A v \in Ws : (\E i \in 1 .. Len(Without(order, w)) : Without(order, w)[i] = v)
                                <=> v \in Listed(local) /\ v # w
<1> DEFINE t == Without(order, w)
<1>1. DOMAIN order = 1 .. Len(order) /\ Len(order) \in Nat /\ order \in Seq(Ws)
    BY LenProperties DEF TypeOK
<1>2. CASE \E i \in DOMAIN order : order[i] = w
    <2>1. PICK i \in 1 .. Len(order) : order[i] = w /\ t = RemoveAt(order, i)
        BY <1>1, <1>2 DEF Without
    <2>2. /\ t \in Seq(Ws) /\ Len(t) = Len(order) - 1
          /\ \A j \in 1 .. Len(t) : /\ InWhole(i, j) \in 1 .. Len(order) /\ InWhole(i, j) # i
                                    /\ t[j] = order[InWhole(i, j)]
          /\ \A k \in 1 .. Len(order) : k # i => \E j \in 1 .. Len(t) : InWhole(i, j) = k
        <3>1. /\ RemoveAt(order, i) \in Seq(Ws) /\ Len(RemoveAt(order, i)) = Len(order) - 1
              /\ \A j \in 1 .. Len(order) - 1 :
                    /\ InWhole(i, j) \in 1 .. Len(order) /\ InWhole(i, j) # i
                    /\ RemoveAt(order, i)[j] = order[InWhole(i, j)]
              /\ \A k \in 1 .. Len(order) : k # i =>
                    \E j \in 1 .. Len(order) - 1 : InWhole(i, j) = k
            <4>1. order \in Seq(Ws) /\ i \in 1 .. Len(order)
                BY <1>1
            <4>2. RemoveAt(order, i) \in Seq(Ws) /\ Len(RemoveAt(order, i)) = Len(order) - 1
                BY <4>1, RemoveAtFacts
            <4>3. \A j \in 1 .. Len(order) - 1 :
                      /\ InWhole(i, j) \in 1 .. Len(order) /\ InWhole(i, j) # i
                      /\ RemoveAt(order, i)[j] = order[InWhole(i, j)]
                BY <4>1, RemoveAtFacts
            <4>4. \A k \in 1 .. Len(order) : k # i =>
                      \E j \in 1 .. Len(order) - 1 : InWhole(i, j) = k
                BY <1>1, BeforeFacts
            <4> QED
                BY <4>2, <4>3, <4>4
        <3> HIDE DEF t
        <3> QED
            BY <2>1, <3>1
    <2> HIDE DEF t
    <2>3. \A a, b \in 1 .. Len(t) : t[a] = t[b] => a = b
        <3>1. \A a, b \in 1 .. Len(t) : InWhole(i, a) = InWhole(i, b) => a = b
            BY <1>1, <2>2 DEF InWhole
        <3> QED
            BY <2>2, <3>1, SMTT(20) DEF ListMatches
    <2>4. ASSUME NEW v \in Ws
          PROVE  (\E a \in 1 .. Len(t) : t[a] = v) <=> v \in Listed(local) /\ v # w
        <3>1. ASSUME NEW a \in 1 .. Len(t), t[a] = v
              PROVE  v \in Listed(local) /\ v # w
            BY <2>1, <2>2, <3>1 DEF ListMatches
        <3>2. ASSUME v \in Listed(local), v # w
              PROVE  \E a \in 1 .. Len(t) : t[a] = v
            <4>1. PICK k \in 1 .. Len(order) : order[k] = v
                BY <3>2 DEF ListMatches
            <4> QED
                BY <2>1, <2>2, <3>2, <4>1
        <3> QED
            BY <3>1, <3>2
    <2> QED
        BY <2>2, <2>3, <2>4 DEF t
<1>3. CASE ~\E i \in DOMAIN order : order[i] = w
    <2>1. t = order
        BY <1>3 DEF Without
    <2> QED
        BY <1>1, <1>3, <2>1 DEF ListMatches
<1> QED
    BY <1>2, <1>3

\* The timer is that of a workspace and a layout, or of none.
LEMMA TimerFacts ==
    ASSUME TypeOK
    PROVE  /\ saveTimer.ws \in Ws \cup {NoWs}
           /\ saveTimer # NoSave => saveTimer.ws \in Ws /\ saveTimer.layout \in Layout
           /\ saveTimer = NoSave => saveTimer.ws = NoWs
           /\ NoWs \notin Ws /\ Ws \subseteq Nat
BY WorkspaceBoundsAssumption DEF TypeOK, NoSave, NoWs, Ws

\* The requests are numbered and have their type.
LEMMA RequestsFacts ==
    ASSUME TypeOK
    PROVE  /\ Len(requests) \in Nat /\ DOMAIN requests = 1 .. Len(requests)
           /\ \A i \in 1 .. Len(requests) : requests[i] \in Request
BY LenProperties, ElementOfSeq DEF TypeOK

-----------------------------------------------------------------------------
(* Steps that keep the invariant for the same reason.                       *)

\* What the screen shows or what waits to be committed (setActive,
\* scheduleLayoutCommit, restoreActive).
LEMMA ViewStep ==
    ASSUME StoreInv, TypeOK', ScreenFollowsStore',
           UNCHANGED <<local, order, saveTimer, requests, stored, created, lost>>
    PROVE  StoreInv'
<1>1. Listed(local') = Listed(local) /\ Listed(stored') = Listed(stored)
    OBVIOUS
<1>2. ListMatches' /\ IdsWereGiven' /\ CreatedIsNew'
    BY <1>1 DEF StoreInv, ListMatches, IdsWereGiven, CreatedIsNew, Listed
<1>3. PendingSaveIsCurrent' /\ OvertakenAreEarlier'
    BY <1>1 DEF StoreInv, PendingSaveIsCurrent, OvertakenAreEarlier, IsSave, Listed
<1>4. SavesCatchUp'
    BY <1>1 DEF StoreInv, SavesCatchUp, IsSave, Listed
<1>5. UnsavedEditIsOnItsWay'
    BY <1>1, ZenonT(40) DEF StoreInv, UnsavedEditIsOnItsWay, IsSave, Listed
<1> QED
    BY <1>2, <1>3, <1>4, <1>5 DEF StoreInv

\* Listed workspaces get new layouts and the last of them the timer
\* (stores/workspaces.js debouncedSave and its callers).
LEMMA SaveStep ==
    ASSUME StoreInv, NEW ids \in SUBSET Listed(local), ids # {},
           local' \in [Ws -> Layout \cup {NoLayout}],
           \A w \in ids : local'[w] \in Layout,
           \A w \in Ws \ ids : local'[w] = local[w],
           DebouncedSave(ids, local'), Notify,
           commits' \in Seq([ws : Ws, layout : Layout]),
           UNCHANGED <<order, active, requests, stored, created>>
    PROVE  StoreInv'
<1> DEFINE last == LastOf(ids)
<1>1. last \in ids /\ last \in Ws /\ last # NoWs
    <2>1. last \in ids
        BY LastOfFacts DEF StoreInv
    <2>2. last \in Ws /\ NoWs \notin Ws
        BY <2>1, TimerFacts DEF StoreInv, Listed, TypeOK
    <2> QED
        BY <2>1, <2>2
<1>2. Listed(local') = Listed(local)
    BY NoLayoutIsNone DEF Listed, StoreInv, TypeOK
<1>3. saveTimer' = [ws |-> last, layout |-> local'[last]]
    BY DEF DebouncedSave
<1>4. lost' = [w \in Ws |-> IF w = last THEN "not lost"
                            ELSE IF w \in ids \cup {saveTimer.ws} THEN "superseded"
                            ELSE lost[w]]
    BY DEF DebouncedSave
<1> HIDE DEF last
<1>5. TypeOK'
    BY <1>1, <1>3, <1>4 DEF StoreInv, TypeOK, Reason, Notify
<1>6. ScreenFollowsStore'
    BY <1>2 DEF StoreInv, ScreenFollowsStore, ActiveWorkspaceExists, Notify, Listed
<1>7. ListMatches' /\ OvertakenAreEarlier'
    BY <1>2 DEF StoreInv, ListMatches, OvertakenAreEarlier, IsSave, Listed
<1>8. IdsWereGiven'
    BY <1>1, <1>2, <1>3 DEF StoreInv, IdsWereGiven, Listed
<1>9. CreatedIsNew'
    BY <1>1, <1>3 DEF StoreInv, CreatedIsNew, Listed
<1>10. PendingSaveIsCurrent'
    BY <1>3 DEF PendingSaveIsCurrent
<1>11. ASSUME NEW w \in Listed(local), lost'[w] = "not lost", saveTimer'.ws # w
       PROVE  local'[w] = local[w] /\ lost[w] = "not lost" /\ saveTimer.ws # w
    BY <1>3, <1>4, <1>11 DEF Listed, StoreInv, TypeOK
<1>12. SavesCatchUp'
    <2> SUFFICES ASSUME NEW w \in Listed(local'), lost'[w] = "not lost", saveTimer'.ws # w,
                        NEW i \in 1 .. Len(requests),
                        IsSave(requests[i], w), ~requests[i].stale
                 PROVE  \E j \in i .. Len(requests) :
                            IsSave(requests[j], w) /\ requests[j].layout = local'[w]
        BY DEF SavesCatchUp, IsSave, Listed
    <2> QED
        BY <1>2, <1>11, ZenonT(40) DEF StoreInv, SavesCatchUp
<1>13. UnsavedEditIsOnItsWay'
    <2> SUFFICES ASSUME NEW w \in Listed(local') \cap Listed(stored),
                        local'[w] # stored[w], saveTimer'.ws # w, lost'[w] = "not lost"
                 PROVE  \E i \in 1 .. Len(requests) :
                            /\ IsSave(requests[i], w) /\ ~requests[i].stale
                            /\ requests[i].layout = local'[w]
        BY ZenonT(40) DEF UnsavedEditIsOnItsWay, IsSave, Listed
    <2> QED
        BY <1>2, <1>11, ZenonT(40) DEF StoreInv, UnsavedEditIsOnItsWay
<1> QED
    BY <1>5, <1>6, <1>7, <1>8, <1>9, <1>10, <1>12, <1>13 DEF StoreInv

\* A number from a place to the end.
LEMMA RangeFacts ==
    ASSUME NEW n \in Nat, NEW i \in 1 .. n, NEW j \in i .. n
    PROVE  j \in 1 .. n /\ i <= j /\ j \in i .. n + 1
OBVIOUS

\* The end is at or after every place.
LEMMA LastPlace ==
    ASSUME NEW n \in Nat, NEW i \in 1 .. n + 1
    PROVE  n + 1 \in i .. n + 1
OBVIOUS

\* Of two places one is the earlier.
LEMMA EarlierPlace ==
    ASSUME NEW n \in Nat, NEW i \in 1 .. n, NEW j \in 1 .. n, i <= j, i # j
    PROVE  i < j /\ ~(j < i)
OBVIOUS

\* What keeps the order is not undone by it.
LEMMA OrderFacts ==
    ASSUME NEW m \in Nat, NEW n \in Nat, NEW f \in [1 .. m -> 1 .. n],
           \A j, k \in 1 .. m : j < k => f[j] < f[k],
           NEW i \in 1 .. m, NEW j \in 1 .. m, f[i] <= f[j]
    PROVE  j \in i .. m
<1>1. f[i] \in Nat /\ f[j] \in Nat /\ i \in Nat /\ j \in Nat /\ j <= m
    <2>1. f[i] \in 1 .. n /\ f[j] \in 1 .. n
        OBVIOUS
    <2> QED
        BY <2>1
<1>2. ~(j < i)
    BY <1>1
<1> QED
    BY <1>1, <1>2

\* The saves in flight stay, in their order, f telling where each was; the
\* layouts on both sides stay, or agree, or are of workspaces without saves.
LEMMA SavesStay ==
    ASSUME StoreInv, TypeOK',
           NEW f \in [1 .. Len(requests') -> 1 .. Len(requests)],
           \A j, k \in 1 .. Len(requests') : j < k => f[j] < f[k],
           \A j \in 1 .. Len(requests') :
              requests'[j].kind = "put" => requests'[j] = requests[f[j]],
           \A k \in 1 .. Len(requests) : requests[k].kind = "put" =>
              \E j \in 1 .. Len(requests') : f[j] = k /\ requests'[j] = requests[k],
           saveTimer' = saveTimer, lost' = lost,
           \A w \in Listed(local') :
              \/ w \in Listed(local) /\ local'[w] = local[w]
              \/ \A k \in 1 .. Len(requests) : ~IsSave(requests[k], w),
           \A w \in Listed(local') \cap Listed(stored') : local'[w] # stored'[w] =>
              w \in Listed(local) \cap Listed(stored) /\ local[w] # stored[w]
                /\ local'[w] = local[w]
    PROVE  OvertakenAreEarlier' /\ SavesCatchUp' /\ UnsavedEditIsOnItsWay'
<1>1. Len(requests) \in Nat /\ Len(requests') \in Nat
    BY RequestsFacts, LenProperties DEF StoreInv, TypeOK
<1>2. OvertakenAreEarlier'
    <2> SUFFICES ASSUME NEW i \in 1 .. Len(requests'), NEW j \in 1 .. Len(requests'),
                        NEW w \in Ws, i < j, IsSave(requests'[i], w),
                        IsSave(requests'[j], w), requests'[j].stale
                 PROVE  requests'[i].stale
        BY DEF OvertakenAreEarlier, IsSave
    <2>1. requests'[i] = requests[f[i]] /\ requests'[j] = requests[f[j]] /\ f[i] < f[j]
        BY DEF IsSave
    <2> QED
        BY <2>1 DEF StoreInv, OvertakenAreEarlier
<1>3. SavesCatchUp'
    <2> SUFFICES ASSUME NEW w \in Listed(local'), lost'[w] = "not lost", saveTimer'.ws # w,
                        NEW i \in 1 .. Len(requests'),
                        IsSave(requests'[i], w), ~requests'[i].stale
                 PROVE  \E j \in i .. Len(requests') :
                            IsSave(requests'[j], w) /\ requests'[j].layout = local'[w]
        BY DEF SavesCatchUp, IsSave, Listed
    <2>1. requests'[i] = requests[f[i]]
        BY DEF IsSave
    <2>2. w \in Listed(local) /\ local'[w] = local[w]
        BY <2>1
    <2>3. PICK k \in f[i] .. Len(requests) :
              IsSave(requests[k], w) /\ requests[k].layout = local[w]
        BY <2>1, <2>2, ZenonT(60) DEF StoreInv, SavesCatchUp
    <2>4. f[i] \in 1 .. Len(requests)
        OBVIOUS
    <2>5. k \in 1 .. Len(requests) /\ f[i] <= k
        BY <1>1, <2>4, RangeFacts
    <2>6. requests[k].kind = "put"
        BY <2>3 DEF IsSave
    <2>7. PICK j \in 1 .. Len(requests') : f[j] = k /\ requests'[j] = requests[k]
        BY <2>5, <2>6
    <2>8. j \in i .. Len(requests')
        BY <1>1, <2>5, <2>7, OrderFacts
    <2> QED
        BY <2>2, <2>3, <2>7, <2>8
<1>4. UnsavedEditIsOnItsWay'
    <2> SUFFICES ASSUME NEW w \in Listed(local') \cap Listed(stored'),
                        local'[w] # stored'[w], saveTimer'.ws # w, lost'[w] = "not lost"
                 PROVE  \E i \in 1 .. Len(requests') :
                            /\ IsSave(requests'[i], w) /\ ~requests'[i].stale
                            /\ requests'[i].layout = local'[w]
        BY DEF UnsavedEditIsOnItsWay, IsSave, Listed
    <2>1. w \in Listed(local) \cap Listed(stored) /\ local[w] # stored[w]
              /\ local'[w] = local[w]
        OBVIOUS
    <2>2. PICK k \in 1 .. Len(requests) :
              IsSave(requests[k], w) /\ ~requests[k].stale /\ requests[k].layout = local[w]
        BY <2>1 DEF StoreInv, UnsavedEditIsOnItsWay
    <2>3. requests[k].kind = "put"
        BY <2>2 DEF IsSave
    <2>4. PICK j \in 1 .. Len(requests') : f[j] = k /\ requests'[j] = requests[k]
        BY <2>3
    <2> QED
        BY <2>1, <2>2, <2>4
<1> QED
    BY <1>2, <1>3, <1>4

\* The creations and saves in flight stay, g telling where each was, and no row
\* that is still to be answered is listed by the client or changed other than
\* by DELETE.
LEMMA IdsStay ==
    ASSUME StoreInv, TypeOK',
           NEW g \in [1 .. Len(requests') -> 1 .. Len(requests)],
           \A j, k \in 1 .. Len(requests') : g[j] = g[k] => j = k,
           \A j \in 1 .. Len(requests') : requests'[j].kind \in {"put", "created"} =>
              /\ requests'[j].kind = requests[g[j]].kind
              /\ requests'[j].ws = requests[g[j]].ws
              /\ requests'[j].layout = requests[g[j]].layout,
           saveTimer' = saveTimer, created' = created,
           \A w \in Listed(local') :
              \/ w \in Listed(local)
              \/ \E i \in 1 .. Len(requests) :
                    /\ requests[i].kind = "created" /\ requests[i].ws = w
                    /\ \A j \in 1 .. Len(requests') : g[j] # i,
           \A j \in 1 .. Len(requests') : requests'[j].kind = "created" =>
              stored'[requests'[j].ws] \in {NoLayout, stored[requests'[j].ws]}
    PROVE  IdsWereGiven' /\ CreatedIsNew'
<1>1. IdsWereGiven'
    <2>1. ASSUME NEW w \in Listed(local')
          PROVE  w <= created
        BY DEF StoreInv, IdsWereGiven
    <2>2. ASSUME NEW j \in 1 .. Len(requests'), requests'[j].kind \in {"put", "created"}
          PROVE  requests'[j].ws <= created
        BY <2>2 DEF StoreInv, IdsWereGiven
    <2>3. saveTimer.ws <= created
        BY DEF StoreInv, IdsWereGiven
    <2> QED
        BY <2>1, <2>2, <2>3 DEF IdsWereGiven, Listed
<1>2. ASSUME NEW i \in 1 .. Len(requests'), requests'[i].kind = "created"
      PROVE  /\ requests'[i].ws \in Ws
             /\ local'[requests'[i].ws] = NoLayout
             /\ saveTimer'.ws # requests'[i].ws
             /\ stored'[requests'[i].ws] \in {NoLayout, requests'[i].layout}
             /\ \A j \in 1 .. Len(requests') :
                  j # i /\ requests'[j].kind \in {"put", "created"} =>
                      requests'[j].ws # requests'[i].ws
    <2> DEFINE w == requests'[i].ws
    <2>1. /\ requests[g[i]].kind = "created" /\ requests[g[i]].ws = w
          /\ requests[g[i]].layout = requests'[i].layout
        BY <1>2
    <2>2. /\ w \in Ws /\ w \notin Listed(local) /\ saveTimer.ws # w
          /\ stored[w] \in {NoLayout, requests'[i].layout}
          /\ \A k \in 1 .. Len(requests) :
               k # g[i] /\ requests[k].kind \in {"put", "created"} => requests[k].ws # w
        BY <2>1 DEF StoreInv, CreatedIsNew, Listed
    <2> HIDE DEF w
    <2>3. w \notin Listed(local')
        BY <2>2
    <2>4. local'[w] = NoLayout
        BY <2>2, <2>3 DEF Listed, TypeOK
    <2>5. stored'[w] \in {NoLayout, stored[w]}
        BY <1>2 DEF w
    <2>6. ASSUME NEW j \in 1 .. Len(requests'), j # i,
                 requests'[j].kind \in {"put", "created"}
          PROVE  requests'[j].ws # w
        BY <2>2, <2>6
    <2> QED
        BY <2>2, <2>4, <2>5, <2>6 DEF w
<1> QED
    BY <1>1, <1>2 DEF CreatedIsNew

\* The list and what is shown stay as they are.
LEMMA ListStays ==
    ASSUME StoreInv, UNCHANGED <<local, order, active, shown, commits>>
    PROVE  ListMatches' /\ ScreenFollowsStore'
BY DEF StoreInv, ListMatches, ScreenFollowsStore, ActiveWorkspaceExists, Listed

\* A request other than a save is sent (createWorkspace, deleteWorkspace).
LEMMA SendStep ==
    ASSUME StoreInv, NEW r \in Request, r.kind \in {"post", "delete"}, Send(r),
           UNCHANGED <<local, order, active, shown, saveTimer, commits, stored, created, lost>>
    PROVE  StoreInv'
<1> DEFINE n == Len(requests)
<1>1. /\ requests' \in Seq(Request) /\ Len(requests') = n + 1 /\ n \in Nat
      /\ \A i \in 1 .. n : requests'[i] = requests[i]
      /\ requests'[n + 1] = r
    BY AppendProperties, RequestsFacts DEF Send, StoreInv, TypeOK
<1> HIDE DEF n
<1>2. TypeOK'
    BY <1>1 DEF StoreInv, TypeOK
<1>3. \A i \in 1 .. Len(requests') : requests'[i].kind \in {"put", "created"} =>
          i \in 1 .. n /\ requests'[i] = requests[i]
    BY <1>1
<1>4. n = Len(requests) /\ (\A i \in 1 .. n : i \in 1 .. Len(requests'))
    BY <1>1 DEF n
<1>5. IdsWereGiven' /\ CreatedIsNew'
    BY <1>3, <1>4 DEF StoreInv, IdsWereGiven, CreatedIsNew, Listed
<1>6. OvertakenAreEarlier'
    BY <1>3, <1>4 DEF StoreInv, OvertakenAreEarlier, IsSave
<1>7. SavesCatchUp'
    <2> SUFFICES ASSUME NEW w \in Listed(local'), lost'[w] = "not lost", saveTimer'.ws # w,
                        NEW i \in 1 .. Len(requests'),
                        IsSave(requests'[i], w), ~requests'[i].stale
                 PROVE  \E j \in i .. Len(requests') :
                            IsSave(requests'[j], w) /\ requests'[j].layout = local'[w]
        BY DEF SavesCatchUp, IsSave, Listed
    <2>0. w \in Listed(local) /\ lost[w] = "not lost" /\ saveTimer.ws # w
        BY DEF Listed
    <2>1. i \in 1 .. n /\ requests'[i] = requests[i]
        BY <1>3 DEF IsSave
    <2>2. PICK j \in i .. n : IsSave(requests[j], w) /\ requests[j].layout = local[w]
        BY <1>4, <2>0, <2>1 DEF StoreInv, SavesCatchUp
    <2>3. j \in i .. Len(requests') /\ j \in 1 .. n
        BY <1>1, <2>1, RangeFacts
    <2> QED
        BY <1>1, <2>2, <2>3
<1>8. UnsavedEditIsOnItsWay'
    <2> SUFFICES ASSUME NEW w \in Listed(local) \cap Listed(stored),
                        local[w] # stored[w], saveTimer.ws # w, lost[w] = "not lost"
                 PROVE  \E i \in 1 .. Len(requests') :
                            /\ IsSave(requests'[i], w) /\ ~requests'[i].stale
                            /\ requests'[i].layout = local[w]
        BY ZenonT(60) DEF UnsavedEditIsOnItsWay, IsSave, Listed
    <2>1. PICK i \in 1 .. n :
              IsSave(requests[i], w) /\ ~requests[i].stale /\ requests[i].layout = local[w]
        BY <1>4 DEF StoreInv, UnsavedEditIsOnItsWay
    <2> QED
        BY <1>1, <1>4, <2>1
<1>9. PendingSaveIsCurrent'
    BY DEF StoreInv, PendingSaveIsCurrent, Listed
<1> QED
    BY <1>2, <1>5, <1>6, <1>7, <1>8, <1>9, ListStays DEF StoreInv

\* The timer fires and its save is sent (stores/workspaces.js debouncedSave).
LEMMA SaveTimerStep ==
    ASSUME StoreInv, SaveTimerFires
    PROVE  StoreInv'
<1> DEFINE n == Len(requests)
           r == [kind |-> "put", ws |-> saveTimer.ws, layout |-> saveTimer.layout,
                 stale |-> FALSE]
<1>1. r \in Request /\ saveTimer.ws \in Ws /\ NoWs \notin Ws
    BY TimerFacts DEF SaveTimerFires, Request, StoreInv
<1>2. /\ requests' = Append(requests, r) /\ saveTimer' = NoSave
      /\ UNCHANGED <<local, order, active, shown, commits, stored, created, lost>>
    BY DEF SaveTimerFires, Send
<1>3. r.kind = "put" /\ r.ws = saveTimer.ws /\ r.layout = saveTimer.layout /\ ~r.stale
    OBVIOUS
<1> HIDE DEF r
<1>4. /\ requests' \in Seq(Request) /\ Len(requests') = n + 1 /\ n \in Nat
      /\ \A i \in 1 .. n : requests'[i] = requests[i]
      /\ requests'[n + 1] = r
    BY <1>1, <1>2, AppendProperties, RequestsFacts DEF StoreInv, TypeOK
<1> HIDE DEF n
<1>5. n = Len(requests) /\ (\A i \in 1 .. n : i \in 1 .. Len(requests'))
          /\ n + 1 \in 1 .. Len(requests')
          /\ \A i \in 1 .. Len(requests') : i # n + 1 =>
                i \in 1 .. n /\ i < n + 1 /\ requests'[i] = requests[i]
    BY <1>4 DEF n
<1>6. TypeOK'
    BY <1>2, <1>4 DEF StoreInv, TypeOK
<1>7. IdsWereGiven'
    <2>1. \A i \in 1 .. Len(requests') : requests'[i].kind \in {"put", "created"} =>
              requests'[i].ws <= created
        BY <1>3, <1>4, <1>5 DEF StoreInv, IdsWereGiven
    <2>2. NoSave.ws <= created
        BY DEF StoreInv, TypeOK, NoSave, NoWs
    <2> QED
        BY <1>2, <2>1, <2>2 DEF StoreInv, IdsWereGiven, Listed
<1>8. CreatedIsNew'
    <2> SUFFICES ASSUME NEW i \in 1 .. Len(requests'), requests'[i].kind = "created"
                 PROVE  /\ requests'[i].ws \in Ws
                        /\ local[requests'[i].ws] = NoLayout
                        /\ NoSave.ws # requests'[i].ws
                        /\ stored[requests'[i].ws] \in {NoLayout, requests'[i].layout}
                        /\ \A j \in 1 .. Len(requests') :
                             j # i /\ requests'[j].kind \in {"put", "created"} =>
                                 requests'[j].ws # requests'[i].ws
        BY <1>2 DEF CreatedIsNew
    <2>1. i \in 1 .. n /\ requests'[i] = requests[i]
        BY <1>3, <1>4, <1>5
    <2>2. NoSave.ws \notin Ws
        BY <1>1 DEF NoSave
    <2> QED
        BY <1>3, <1>4, <1>5, <2>1, <2>2 DEF StoreInv, CreatedIsNew
<1>9. OvertakenAreEarlier'
    <2> SUFFICES ASSUME NEW i \in 1 .. Len(requests'), NEW j \in 1 .. Len(requests'),
                        NEW w \in Ws, i < j, IsSave(requests'[i], w),
                        IsSave(requests'[j], w), requests'[j].stale
                 PROVE  requests'[i].stale
        BY DEF OvertakenAreEarlier, IsSave
    <2>1. j \in 1 .. n /\ i \in 1 .. n
        BY <1>3, <1>4, <1>5
    <2> QED
        BY <1>4, <1>5, <2>1 DEF StoreInv, OvertakenAreEarlier
<1>10. ASSUME NEW w \in Listed(local), w = saveTimer.ws
       PROVE  IsSave(requests'[n + 1], w) /\ requests'[n + 1].layout = local[w]
    BY <1>3, <1>4, <1>10 DEF StoreInv, PendingSaveIsCurrent, IsSave
<1>11. SavesCatchUp'
    <2> SUFFICES ASSUME NEW w \in Listed(local'), lost'[w] = "not lost", saveTimer'.ws # w,
                        NEW i \in 1 .. Len(requests'),
                        IsSave(requests'[i], w), ~requests'[i].stale
                 PROVE  \E j \in i .. Len(requests') :
                            IsSave(requests'[j], w) /\ requests'[j].layout = local'[w]
        BY DEF SavesCatchUp, IsSave, Listed
    <2>0. w \in Listed(local) /\ lost[w] = "not lost" /\ local'[w] = local[w]
        BY <1>2 DEF Listed
    <2>1. CASE w = saveTimer.ws
        <3>1. n + 1 \in i .. Len(requests')
            BY <1>4, LastPlace
        <3> QED
            BY <1>10, <2>0, <2>1, <3>1
    <2>2. CASE w # saveTimer.ws
        <3>1. i \in 1 .. n /\ requests'[i] = requests[i]
            BY <1>3, <1>4, <1>5, <2>2 DEF IsSave
        <3>2. PICK j \in i .. n : IsSave(requests[j], w) /\ requests[j].layout = local[w]
            BY <1>5, <2>0, <2>2, <3>1 DEF StoreInv, SavesCatchUp
        <3>3. j \in i .. Len(requests') /\ j \in 1 .. n
            BY <1>4, <3>1, RangeFacts
        <3> QED
            BY <1>4, <2>0, <3>2, <3>3
    <2> QED
        BY <2>1, <2>2
<1>12. UnsavedEditIsOnItsWay'
    <2> SUFFICES ASSUME NEW w \in Listed(local') \cap Listed(stored'),
                        local'[w] # stored'[w], saveTimer'.ws # w, lost'[w] = "not lost"
                 PROVE  \E i \in 1 .. Len(requests') :
                            /\ IsSave(requests'[i], w) /\ ~requests'[i].stale
                            /\ requests'[i].layout = local'[w]
        BY DEF UnsavedEditIsOnItsWay, IsSave, Listed
    <2>0. /\ w \in Listed(local) \cap Listed(stored) /\ lost[w] = "not lost"
          /\ local'[w] = local[w] /\ local[w] # stored[w]
        BY <1>2 DEF Listed
    <2>1. CASE w = saveTimer.ws
        BY <1>3, <1>4, <1>5, <1>10, <2>0, <2>1
    <2>2. CASE w # saveTimer.ws
        <3>1. PICK i \in 1 .. n :
                  IsSave(requests[i], w) /\ ~requests[i].stale /\ requests[i].layout = local[w]
            BY <1>5, <2>0, <2>2 DEF StoreInv, UnsavedEditIsOnItsWay
        <3> QED
            BY <1>4, <1>5, <2>0, <3>1
    <2> QED
        BY <2>1, <2>2
<1>13. PendingSaveIsCurrent'
    BY <1>1, <1>2 DEF PendingSaveIsCurrent, NoSave, Listed, StoreInv, TypeOK
<1> QED
    BY <1>2, <1>6, <1>7, <1>8, <1>9, <1>11, <1>12, <1>13, ListStays DEF StoreInv

-----------------------------------------------------------------------------
(* What reaches the server and the client.                                  *)

\* A request or an answer that is not a save leaves the requests in flight
\* (routes/workspaces.js, stores/workspaces.js).
LEMMA TakenOut ==
    ASSUME TypeOK, NEW i \in 1 .. Len(requests), requests' = RemoveAt(requests, i)
    PROVE  \E f \in [1 .. Len(requests') -> 1 .. Len(requests)] :
              /\ requests' \in Seq(Request)
              /\ \A j, k \in 1 .. Len(requests') : j < k => f[j] < f[k]
              /\ \A j, k \in 1 .. Len(requests') : f[j] = f[k] => j = k
              /\ \A j \in 1 .. Len(requests') : f[j] # i /\ requests'[j] = requests[f[j]]
              /\ \A k \in 1 .. Len(requests) : k # i =>
                    \E j \in 1 .. Len(requests') : f[j] = k
<1> DEFINE f == [j \in 1 .. Len(requests') |-> InWhole(i, j)]
<1>1. requests \in Seq(Request)
    BY DEF TypeOK
<1>2. /\ requests' \in Seq(Request) /\ Len(requests') = Len(requests) - 1
      /\ \A j \in 1 .. Len(requests') :
            /\ InWhole(i, j) \in 1 .. Len(requests) /\ InWhole(i, j) # i
            /\ requests'[j] = requests[InWhole(i, j)]
      /\ \A k \in 1 .. Len(requests) : k # i =>
            \E j \in 1 .. Len(requests') : InWhole(i, j) = k
    <2>1. /\ RemoveAt(requests, i) \in Seq(Request)
          /\ Len(RemoveAt(requests, i)) = Len(requests) - 1
        BY <1>1, RemoveAtFacts
    <2>2. \A j \in 1 .. Len(requests) - 1 :
              /\ InWhole(i, j) \in 1 .. Len(requests) /\ InWhole(i, j) # i
              /\ RemoveAt(requests, i)[j] = requests[InWhole(i, j)]
        BY <1>1, RemoveAtFacts
    <2>3. \A k \in 1 .. Len(requests) : k # i =>
              \E j \in 1 .. Len(requests) - 1 : InWhole(i, j) = k
        BY RequestsFacts, BeforeFacts
    <2> QED
        BY <2>1, <2>2, <2>3
<1>3. f \in [1 .. Len(requests') -> 1 .. Len(requests)]
    BY <1>2
<1>4. \A j, k \in 1 .. Len(requests') : j < k => InWhole(i, j) < InWhole(i, k)
    BY RequestsFacts, <1>2 DEF InWhole
<1>5. \A j, k \in 1 .. Len(requests') : InWhole(i, j) = InWhole(i, k) => j = k
    BY RequestsFacts, <1>2 DEF InWhole
<1>6. \A j \in 1 .. Len(requests') : f[j] = InWhole(i, j)
    OBVIOUS
<1> HIDE DEF f
<1>7. \A j, k \in 1 .. Len(requests') : j < k => f[j] < f[k]
    BY <1>4, <1>6
<1>10. \A j, k \in 1 .. Len(requests') : f[j] = f[k] => j = k
    BY <1>5, <1>6
<1>8. \A j \in 1 .. Len(requests') : f[j] # i /\ requests'[j] = requests[f[j]]
    BY <1>2, <1>6
<1>9. \A k \in 1 .. Len(requests) : k # i => \E j \in 1 .. Len(requests') : f[j] = k
    <2> TAKE k \in 1 .. Len(requests)
    <2> HAVE k # i
    <2>1. PICK j \in 1 .. Len(requests') : InWhole(i, j) = k
        BY <1>2
    <2> QED
        BY <1>6, <2>1
<1>11. requests' \in Seq(Request)
    BY <1>2
<1> WITNESS f \in [1 .. Len(requests') -> 1 .. Len(requests)]
<1> QED
    BY <1>7, <1>8, <1>9, <1>10, <1>11

\* A save is lost, or something else is (a request that fails).
LEMMA FailStep ==
    ASSUME StoreInv, NEW i \in 1 .. Len(requests), RequestFails(i)
    PROVE  StoreInv'
<1>1. /\ requests' = RemoveAt(requests, i)
      /\ lost' = IF requests[i].kind = "put" /\ ~requests[i].stale
                 THEN [lost EXCEPT ![requests[i].ws] = "failed"] ELSE lost
      /\ UNCHANGED <<local, order, active, shown, saveTimer, commits, stored, created>>
    BY DEF RequestFails
<1>2. PICK f \in [1 .. Len(requests') -> 1 .. Len(requests)] :
          /\ requests' \in Seq(Request)
          /\ \A j, k \in 1 .. Len(requests') : j < k => f[j] < f[k]
          /\ \A j, k \in 1 .. Len(requests') : f[j] = f[k] => j = k
          /\ \A j \in 1 .. Len(requests') : f[j] # i /\ requests'[j] = requests[f[j]]
          /\ \A k \in 1 .. Len(requests) : k # i =>
                \E j \in 1 .. Len(requests') : f[j] = k
    BY <1>1, TakenOut DEF StoreInv
<1>3. requests[i] \in Request
    BY RequestsFacts DEF StoreInv
<1>4. /\ requests[i].kind = "put" => requests[i].ws \in Ws
      /\ lost' \in [Ws -> Reason]
      /\ \A w \in Ws : lost'[w] = "not lost" =>
            lost[w] = "not lost" /\ ~(IsSave(requests[i], w) /\ ~requests[i].stale)
    BY <1>1, <1>3, RequestFacts DEF StoreInv, TypeOK, Reason, IsSave
<1>5. TypeOK'
    BY <1>1, <1>2, <1>4 DEF StoreInv, TypeOK
<1>6. IdsWereGiven' /\ CreatedIsNew'
    <2>1. Listed(local') = Listed(local)
        BY <1>1
    <2> QED
        BY <1>1, <1>2, <1>5, <2>1, IdsStay
<1>7. Len(requests) \in Nat /\ Len(requests') \in Nat
    BY <1>5, RequestsFacts, LenProperties DEF StoreInv, TypeOK
<1>8. OvertakenAreEarlier'
    <2> SUFFICES ASSUME NEW a \in 1 .. Len(requests'), NEW b \in 1 .. Len(requests'),
                        NEW w \in Ws, a < b, IsSave(requests'[a], w),
                        IsSave(requests'[b], w), requests'[b].stale
                 PROVE  requests'[a].stale
        BY DEF OvertakenAreEarlier, IsSave
    <2>1. /\ f[a] \in 1 .. Len(requests) /\ f[b] \in 1 .. Len(requests) /\ f[a] < f[b]
          /\ requests'[a] = requests[f[a]] /\ requests'[b] = requests[f[b]]
        BY <1>2
    <2> QED
        BY <2>1 DEF StoreInv, OvertakenAreEarlier
<1>9. SavesCatchUp'
    <2> SUFFICES ASSUME NEW w \in Listed(local'), lost'[w] = "not lost", saveTimer'.ws # w,
                        NEW a \in 1 .. Len(requests'),
                        IsSave(requests'[a], w), ~requests'[a].stale
                 PROVE  \E j \in a .. Len(requests') :
                            IsSave(requests'[j], w) /\ requests'[j].layout = local'[w]
        BY DEF SavesCatchUp, IsSave, Listed
    <2>1. /\ w \in Listed(local) /\ w \in Ws /\ local'[w] = local[w] /\ saveTimer.ws # w
          /\ lost[w] = "not lost" /\ ~(IsSave(requests[i], w) /\ ~requests[i].stale)
        BY <1>1, <1>4 DEF Listed, StoreInv, TypeOK
    <2>2. f[a] \in 1 .. Len(requests) /\ requests'[a] = requests[f[a]]
        BY <1>2
    <2>3. PICK k \in f[a] .. Len(requests) :
              IsSave(requests[k], w) /\ requests[k].layout = local[w]
        BY <2>1, <2>2 DEF StoreInv, SavesCatchUp
    <2>4. k \in 1 .. Len(requests) /\ f[a] <= k
        BY <1>7, <2>2, RangeFacts
    <2>5. k # i
        <3>1. SUFFICES ASSUME k = i PROVE FALSE
            OBVIOUS
        <3>2. requests[k].stale
            BY <2>1, <2>3, <3>1
        <3>3. f[a] # k /\ f[a] < k
            <4>1. f[a] # k
                BY <2>2, <3>2
            <4> QED
                BY <1>7, <2>2, <2>4, <4>1, EarlierPlace
        <3>4. requests[f[a]].stale
            BY <2>1, <2>2, <2>3, <2>4, <3>2, <3>3 DEF StoreInv, OvertakenAreEarlier
        <3> QED
            BY <2>2, <3>4
    <2>6. PICK j \in 1 .. Len(requests') : f[j] = k /\ requests'[j] = requests[k]
        <3>1. PICK j \in 1 .. Len(requests') : f[j] = k
            BY <1>2, <2>4, <2>5
        <3> QED
            BY <1>2, <3>1
    <2>7. j \in a .. Len(requests')
        BY <1>2, <1>7, <2>4, <2>6, OrderFacts
    <2> QED
        BY <2>1, <2>3, <2>6, <2>7
<1>10. UnsavedEditIsOnItsWay'
    <2> SUFFICES ASSUME NEW w \in Listed(local') \cap Listed(stored'),
                        local'[w] # stored'[w], saveTimer'.ws # w, lost'[w] = "not lost"
                 PROVE  \E a \in 1 .. Len(requests') :
                            /\ IsSave(requests'[a], w) /\ ~requests'[a].stale
                            /\ requests'[a].layout = local'[w]
        BY DEF UnsavedEditIsOnItsWay, IsSave, Listed
    <2>1. /\ w \in Listed(local) \cap Listed(stored) /\ w \in Ws /\ local'[w] = local[w]
          /\ local[w] # stored[w] /\ saveTimer.ws # w
          /\ lost[w] = "not lost" /\ ~(IsSave(requests[i], w) /\ ~requests[i].stale)
        BY <1>1, <1>4 DEF Listed, StoreInv, TypeOK
    <2>2. PICK k \in 1 .. Len(requests) :
              IsSave(requests[k], w) /\ ~requests[k].stale /\ requests[k].layout = local[w]
        BY <2>1 DEF StoreInv, UnsavedEditIsOnItsWay
    <2>3. PICK j \in 1 .. Len(requests') : f[j] = k /\ requests'[j] = requests[k]
        <3>1. PICK j \in 1 .. Len(requests') : f[j] = k
            BY <1>2, <2>1, <2>2
        <3> QED
            BY <1>2, <3>1
    <2> QED
        BY <2>1, <2>2, <2>3
<1>11. PendingSaveIsCurrent'
    BY <1>1 DEF StoreInv, PendingSaveIsCurrent, Listed
<1> QED
    BY <1>1, <1>5, <1>6, <1>8, <1>9, <1>10, <1>11, ListStays DEF StoreInv

\* A request or answer that is no save is taken out, and the rest follows from
\* what the step does to the two sides (routes/workspaces.js, api-client.js).
LEMMA AnswerStep ==
    ASSUME StoreInv, NEW i \in 1 .. Len(requests), requests[i].kind # "put",
           requests' = RemoveAt(requests, i),
           UNCHANGED <<saveTimer, commits, created, lost>>,
           local' \in [Ws -> Layout \cup {NoLayout}],
           stored' \in [Ws -> Layout \cup {NoLayout}],
           order' \in Seq(Ws), active' \in Ws \cup {NoWs}, shown' \in Ws \cup {NoWs},
           ListMatches', ScreenFollowsStore', PendingSaveIsCurrent',
           \A w \in Listed(local') :
              \/ w \in Listed(local) /\ local'[w] = local[w]
              \/ requests[i].kind = "created" /\ requests[i].ws = w,
           \A w \in Ws : stored'[w] \in {NoLayout, stored[w]},
           \A w \in Listed(local') \cap Listed(stored') : local'[w] # stored'[w] =>
              w \in Listed(local) \cap Listed(stored) /\ local[w] # stored[w]
                /\ local'[w] = local[w]
    PROVE  StoreInv'
<1>1. PICK f \in [1 .. Len(requests') -> 1 .. Len(requests)] :
          /\ requests' \in Seq(Request)
          /\ \A j, k \in 1 .. Len(requests') : j < k => f[j] < f[k]
          /\ \A j, k \in 1 .. Len(requests') : f[j] = f[k] => j = k
          /\ \A j \in 1 .. Len(requests') : f[j] # i /\ requests'[j] = requests[f[j]]
          /\ \A k \in 1 .. Len(requests) : k # i =>
                \E j \in 1 .. Len(requests') : f[j] = k
    BY TakenOut DEF StoreInv
<1>2. TypeOK'
    BY <1>1 DEF StoreInv, TypeOK
<1>3. IdsWereGiven' /\ CreatedIsNew'
    <2>1. \A j \in 1 .. Len(requests') : requests'[j].kind \in {"put", "created"} =>
              /\ requests'[j].kind = requests[f[j]].kind
              /\ requests'[j].ws = requests[f[j]].ws
              /\ requests'[j].layout = requests[f[j]].layout
        BY <1>1
    <2>2. \A w \in Listed(local') :
              \/ w \in Listed(local)
              \/ \E k \in 1 .. Len(requests) :
                    /\ requests[k].kind = "created" /\ requests[k].ws = w
                    /\ \A j \in 1 .. Len(requests') : f[j] # k
        BY <1>1
    <2>3. ASSUME NEW j \in 1 .. Len(requests'), requests'[j].kind = "created"
          PROVE  stored'[requests'[j].ws] \in {NoLayout, stored[requests'[j].ws]}
        <3>1. requests[f[j]].kind = "created" /\ requests'[j].ws = requests[f[j]].ws
            BY <1>1, <2>3
        <3>2. requests'[j].ws \in Ws
            BY <3>1 DEF StoreInv, CreatedIsNew
        <3> QED
            BY <3>2
    <2> QED
        BY <1>1, <1>2, <2>1, <2>2, <2>3, IdsStay
<1>4. OvertakenAreEarlier' /\ SavesCatchUp' /\ UnsavedEditIsOnItsWay'
    <2>1. \A k \in 1 .. Len(requests) : requests[k].kind = "put" =>
              \E j \in 1 .. Len(requests') : f[j] = k /\ requests'[j] = requests[k]
        <3> TAKE k \in 1 .. Len(requests)
        <3> HAVE requests[k].kind = "put"
        <3>1. PICK j \in 1 .. Len(requests') : f[j] = k
            BY <1>1
        <3> QED
            BY <1>1, <3>1
    <2>2. \A w \in Listed(local') :
              \/ w \in Listed(local) /\ local'[w] = local[w]
              \/ \A k \in 1 .. Len(requests) : ~IsSave(requests[k], w)
        BY DEF StoreInv, CreatedIsNew, IsSave
    <2>3. /\ \A j, k \in 1 .. Len(requests') : j < k => f[j] < f[k]
          /\ \A j \in 1 .. Len(requests') :
                requests'[j].kind = "put" => requests'[j] = requests[f[j]]
        BY <1>1
    <2> QED
        BY <1>2, <2>1, <2>2, <2>3, SavesStay, SMTT(30)
<1> QED
    BY <1>2, <1>3, <1>4 DEF StoreInv

\* A creation is answered (stores/workspaces.js createWorkspace).
LEMMA CreatedAnswerStep ==
    ASSUME StoreInv, NEW i \in 1 .. Len(requests), CreatedAnswer(i)
    PROVE  StoreInv'
<1> DEFINE w == requests[i].ws
<1>1. /\ requests[i].kind = "created" /\ requests' = RemoveAt(requests, i)
      /\ local' = [local EXCEPT ![w] = requests[i].layout]
      /\ order' = Append(order, w) /\ active' = w /\ shown' = w
      /\ UNCHANGED <<saveTimer, commits, stored, created, lost>>
    BY DEF CreatedAnswer, Notify
<1>2. /\ w \in Ws /\ requests[i].layout \in Layout /\ local[w] = NoLayout
      /\ saveTimer.ws # w /\ stored[w] \in {NoLayout, requests[i].layout}
    <2>1. requests[i] \in Request
        BY RequestsFacts DEF StoreInv
    <2> QED
        BY <1>1, <2>1, RequestFacts DEF StoreInv, CreatedIsNew
<1> HIDE DEF w
<1>3. local' \in [Ws -> Layout \cup {NoLayout}]
    BY <1>1, <1>2 DEF StoreInv, TypeOK
<1>4. /\ local'[w] = requests[i].layout
      /\ \A v \in Ws : v # w => local'[v] = local[v]
    BY <1>1, <1>2 DEF StoreInv, TypeOK
<1>5. \A v \in Ws : v \in Listed(local') <=> v \in Listed(local) \/ v = w
    BY <1>2, <1>3, <1>4, NoLayoutIsNone DEF Listed, StoreInv, TypeOK
<1>6. /\ order' \in Seq(Ws) /\ Len(order') = Len(order) + 1 /\ Len(order) \in Nat
      /\ \A j \in 1 .. Len(order) : order'[j] = order[j]
      /\ order'[Len(order) + 1] = w
    BY <1>1, <1>2, AppendProperties, LenProperties DEF StoreInv, TypeOK
<1>7. w \notin Listed(local)
    BY <1>2 DEF Listed
<1>8. ListMatches'
    <2>1. \A a \in 1 .. Len(order') :
              \/ a \in 1 .. Len(order) /\ order'[a] = order[a] /\ order[a] \in Ws
              \/ a = Len(order) + 1 /\ order'[a] = w
        BY <1>6, ElementOfSeq DEF StoreInv, TypeOK
    <2>2. \A a \in 1 .. Len(order) : order[a] # w
        BY <1>2, <1>7 DEF StoreInv, ListMatches
    <2>3. ASSUME NEW a \in 1 .. Len(order'), NEW b \in 1 .. Len(order'), order'[a] = order'[b]
          PROVE  a = b
        BY <2>1, <2>2, <2>3 DEF StoreInv, ListMatches
    <2>4. ASSUME NEW v \in Ws
          PROVE  v \in Listed(local') <=> \E a \in 1 .. Len(order') : order'[a] = v
        <3>1. CASE v = w
            BY <1>2, <1>5, <1>6, <3>1
        <3>2. CASE v # w
            <4>1. (\E a \in 1 .. Len(order') : order'[a] = v)
                      <=> \E a \in 1 .. Len(order) : order[a] = v
                BY <1>6, <2>1, <3>2
            <4> QED
                BY <1>5, <3>2, <4>1 DEF StoreInv, ListMatches
        <3> QED
            BY <3>1, <3>2
    <2> QED
        BY <2>3, <2>4 DEF ListMatches, Listed
<1>9. ScreenFollowsStore'
    <2>1. w \in Listed(local') /\ Listed(local') # {}
        BY <1>2, <1>5
    <2> QED
        BY <1>1, <2>1 DEF ScreenFollowsStore, ActiveWorkspaceExists, Listed
<1>10. PendingSaveIsCurrent'
    <2>1. ASSUME saveTimer.ws \in Listed(local')
          PROVE  saveTimer.layout = local'[saveTimer.ws]
        <3>1. saveTimer.ws \in Ws
            BY <1>3, <2>1 DEF Listed
        <3> QED
            BY <1>2, <1>4, <1>5, <2>1, <3>1 DEF StoreInv, PendingSaveIsCurrent
    <2> QED
        BY <1>1, <2>1 DEF PendingSaveIsCurrent, Listed
<1>11. \A v \in Listed(local') : v \in Ws /\ (v # w => v \in Listed(local) /\ local'[v] = local[v])
    BY <1>3, <1>4, <1>5 DEF Listed
<1>12. ASSUME NEW v \in Listed(local') \cap Listed(stored'), local'[v] # stored'[v]
       PROVE  /\ v \in Listed(local) \cap Listed(stored) /\ local[v] # stored[v]
              /\ local'[v] = local[v]
    <2>1. v # w
        BY <1>1, <1>2, <1>4, <1>12 DEF Listed
    <2> QED
        BY <1>1, <1>11, <1>12, <2>1 DEF Listed
<1>13. \A v \in Listed(local') :
          \/ v \in Listed(local) /\ local'[v] = local[v]
          \/ requests[i].kind = "created" /\ requests[i].ws = v
    BY <1>1, <1>11 DEF w
<1>14. stored' \in [Ws -> Layout \cup {NoLayout}] /\ \A v \in Ws : stored'[v] \in {NoLayout, stored[v]}
    BY <1>1 DEF StoreInv, TypeOK
<1> QED
    BY <1>1, <1>2, <1>3, <1>6, <1>8, <1>9, <1>10, <1>12, <1>13, <1>14, AnswerStep

\* A deletion is answered (stores/workspaces.js deleteWorkspace).
LEMMA DeletedAnswerStep ==
    ASSUME StoreInv, NEW i \in 1 .. Len(requests), DeletedAnswer(i)
    PROVE  StoreInv'
<1> DEFINE w == requests[i].ws
<1>1. /\ requests[i].kind = "deleted" /\ requests' = RemoveAt(requests, i)
      /\ local' = [local EXCEPT ![w] = NoLayout]
      /\ order' = Without(order, w)
      /\ active' = (IF active = w THEN First(order') ELSE active) /\ shown' = active'
      /\ UNCHANGED <<saveTimer, commits, stored, created, lost>>
    BY DEF DeletedAnswer, Notify
<1>2. w \in Ws
    <2>1. requests[i] \in Request
        BY RequestsFacts DEF StoreInv
    <2> QED
        BY <1>1, <2>1, RequestFacts
<1> HIDE DEF w
<1>3. local' \in [Ws -> Layout \cup {NoLayout}]
    BY <1>1 DEF StoreInv, TypeOK
<1>4. \A v \in Ws : v \in Listed(local') <=> v \in Listed(local) /\ v # w
    BY <1>1, <1>2 DEF Listed, StoreInv, TypeOK
<1>5. \A v \in Listed(local') : v \in Ws /\ v \in Listed(local) /\ local'[v] = local[v]
    BY <1>1, <1>3, <1>4 DEF Listed, StoreInv, TypeOK
<1>6. /\ order' \in Seq(Ws)
      /\ \A a, b \in 1 .. Len(order') : order'[a] = order'[b] => a = b
      /\ \A v \in Ws : (\E a \in 1 .. Len(order') : order'[a] = v)
                          <=> v \in Listed(local) /\ v # w
    <2> DEFINE t == Without(order, w)
    <2>1. t \in Seq(Ws) /\ (\A a, b \in 1 .. Len(t) : t[a] = t[b] => a = b)
        BY <1>2, WithoutFacts DEF StoreInv
    <2>2. \A v \in Ws : (\E a \in 1 .. Len(t) : t[a] = v) <=> v \in Listed(local) /\ v # w
        BY <1>2, WithoutFacts DEF StoreInv
    <2>3. order' = t
        BY <1>1
    <2> HIDE DEF t
    <2> QED
        BY <2>1, <2>2, <2>3
<1>7. ListMatches'
    BY <1>4, <1>6 DEF ListMatches, Listed
<1>8. active' \in Ws \cup {NoWs} /\ ActiveWorkspaceExists'
    <2>1. NoWs \notin Ws
        BY TimerFacts DEF StoreInv
    <2>2. CASE active = w /\ order' # <<>>
        <3>1. active' = order'[1] /\ 1 \in 1 .. Len(order') /\ order'[1] \in Ws
            BY <1>1, <1>6, <2>2, HeadTailProperties, LenProperties, EmptySeq, ElementOfSeq
            DEF First
        <3>2. active' \in Listed(local')
            BY <1>4, <1>6, <3>1
        <3> QED
            BY <3>1, <3>2 DEF ActiveWorkspaceExists, Listed
    <2>3. CASE active = w /\ order' = <<>>
        <3>1. active' = NoWs
            BY <1>1, <2>3 DEF First
        <3>2. Listed(local') = {}
            <4>1. Len(order') = 0
                BY <2>3, EmptySeq
            <4> QED
                BY <1>4, <1>5, <1>6, <4>1
        <3> QED
            BY <3>1, <3>2 DEF ActiveWorkspaceExists, Listed
    <2>4. CASE active # w
        <3>1. active' = active
            BY <1>1, <2>4
        <3>2. CASE Listed(local) = {}
            <4>1. active = NoWs /\ Listed(local') = {}
                BY <1>5, <3>2 DEF StoreInv, ScreenFollowsStore, ActiveWorkspaceExists
            <4> QED
                BY <3>1, <4>1 DEF ActiveWorkspaceExists, Listed
        <3>3. CASE Listed(local) # {}
            <4>1. active \in Listed(local) /\ active \in Ws
                BY <3>3 DEF StoreInv, ScreenFollowsStore, ActiveWorkspaceExists, Listed, TypeOK
            <4>2. active \in Listed(local')
                BY <1>4, <2>4, <4>1
            <4> QED
                BY <3>1, <4>1, <4>2 DEF ActiveWorkspaceExists, Listed
        <3> QED
            BY <3>2, <3>3
    <2> QED
        BY <2>2, <2>3, <2>4
<1>9. ScreenFollowsStore'
    BY <1>1, <1>8 DEF ScreenFollowsStore
<1>10. PendingSaveIsCurrent'
    <2>1. ASSUME saveTimer.ws \in Listed(local')
          PROVE  saveTimer.layout = local'[saveTimer.ws]
        BY <1>5, <2>1 DEF StoreInv, PendingSaveIsCurrent
    <2> QED
        BY <1>1, <2>1 DEF PendingSaveIsCurrent, Listed
<1>11. ASSUME NEW v \in Listed(local') \cap Listed(stored'), local'[v] # stored'[v]
       PROVE  /\ v \in Listed(local) \cap Listed(stored) /\ local[v] # stored[v]
              /\ local'[v] = local[v]
    BY <1>1, <1>5, <1>11 DEF Listed
<1>12. stored' \in [Ws -> Layout \cup {NoLayout}] /\ \A v \in Ws : stored'[v] \in {NoLayout, stored[v]}
    BY <1>1 DEF StoreInv, TypeOK
<1> QED
    BY <1>1, <1>3, <1>5, <1>6, <1>7, <1>8, <1>9, <1>10, <1>11, <1>12, AnswerStep

\* A deletion is handled: the row is gone, the client does not know yet
\* (routes/workspaces.js).
LEMMA DeleteArrivesStep ==
    ASSUME StoreInv, NEW i \in 1 .. Len(requests), DeleteArrives(i)
    PROVE  StoreInv'
<1> DEFINE w == requests[i].ws
<1>1. /\ requests[i].kind = "delete"
      /\ stored' = [stored EXCEPT ![w] = NoLayout]
      /\ \/ requests' = [requests EXCEPT ![i].kind = "deleted"]
         \/ requests' = RemoveAt(requests, i)
      /\ UNCHANGED <<local, order, active, shown, saveTimer, commits, created, lost>>
    BY DEF DeleteArrives
<1>2. requests[i] \in Request /\ w \in Ws
    <2>1. requests[i] \in Request
        BY RequestsFacts DEF StoreInv
    <2> QED
        BY <1>1, <2>1, RequestFacts
<1> HIDE DEF w
<1>3. /\ stored' \in [Ws -> Layout \cup {NoLayout}]
      /\ \A v \in Ws : stored'[v] \in {NoLayout, stored[v]}
      /\ \A v \in Listed(stored') : v \in Listed(stored) /\ stored'[v] = stored[v]
    BY <1>1, <1>2 DEF StoreInv, TypeOK, Listed
<1>4. Listed(local') = Listed(local)
    BY <1>1
<1>5. ListMatches' /\ ScreenFollowsStore'
    BY <1>1, ListStays
<1>6. PendingSaveIsCurrent'
    BY <1>1 DEF StoreInv, PendingSaveIsCurrent, Listed
<1>7. CASE requests' = RemoveAt(requests, i)
    <2>1. \A v \in Listed(local') \cap Listed(stored') : local'[v] # stored'[v] =>
              v \in Listed(local) \cap Listed(stored) /\ local[v] # stored[v]
                /\ local'[v] = local[v]
        BY <1>1, <1>3, <1>4
    <2>2. \A v \in Listed(local') : v \in Listed(local) /\ local'[v] = local[v]
        BY <1>1, <1>4
    <2>3. /\ local' \in [Ws -> Layout \cup {NoLayout}] /\ order' \in Seq(Ws)
          /\ active' \in Ws \cup {NoWs} /\ shown' \in Ws \cup {NoWs}
        BY <1>1 DEF StoreInv, TypeOK
    <2> QED
        BY <1>1, <1>3, <1>5, <1>6, <1>7, <2>1, <2>2, <2>3, AnswerStep
<1>8. CASE requests' = [requests EXCEPT ![i].kind = "deleted"]
    <2>1. [requests[i] EXCEPT !.kind = "deleted"] \in Request
        BY <1>1, <1>2, RequestFacts DEF Request
    <2>2. requests' = [requests EXCEPT ![i] = [requests[i] EXCEPT !.kind = "deleted"]]
        BY <1>8
    <2>3. /\ requests' \in Seq(Request) /\ Len(requests') = Len(requests)
          /\ \A j \in 1 .. Len(requests) : j # i => requests'[j] = requests[j]
          /\ requests'[i].kind = "deleted"
        <3>1. /\ requests' \in Seq(Request) /\ Len(requests') = Len(requests)
              /\ \A j \in 1 .. Len(requests) :
                    requests'[j] = IF j = i THEN [requests[i] EXCEPT !.kind = "deleted"]
                                   ELSE requests[j]
            BY <2>1, <2>2, ExceptSeq DEF StoreInv, TypeOK
        <3>2. [requests[i] EXCEPT !.kind = "deleted"].kind = "deleted"
            BY <1>1, <1>2, RequestFacts
        <3> QED
            BY <3>1, <3>2
    <2>4. TypeOK'
        BY <1>1, <1>3, <2>3 DEF StoreInv, TypeOK
    <2> DEFINE f == [j \in 1 .. Len(requests') |-> j]
    <2>5. f \in [1 .. Len(requests') -> 1 .. Len(requests)]
        BY <2>3
    <2>6. \A j \in 1 .. Len(requests') : f[j] = j
        OBVIOUS
    <2>7. \A j \in 1 .. Len(requests') : requests'[j].kind \in {"put", "created"} =>
              j # i /\ requests'[j] = requests[j]
        BY <2>3
    <2> HIDE DEF f
    <2>8. IdsWereGiven' /\ CreatedIsNew'
        <3>1. \A j \in 1 .. Len(requests') : requests'[j].kind \in {"put", "created"} =>
                  /\ requests'[j].kind = requests[f[j]].kind
                  /\ requests'[j].ws = requests[f[j]].ws
                  /\ requests'[j].layout = requests[f[j]].layout
            BY <2>6, <2>7
        <3>2. ASSUME NEW j \in 1 .. Len(requests'), requests'[j].kind = "created"
              PROVE  stored'[requests'[j].ws] \in {NoLayout, stored[requests'[j].ws]}
            <4>1. requests'[j].ws \in Ws
                BY <2>3, <2>7, <3>2 DEF StoreInv, CreatedIsNew
            <4> QED
                BY <1>3, <4>1
        <3>3. \A j, k \in 1 .. Len(requests') : f[j] = f[k] => j = k
            BY <2>6
        <3> QED
            BY <1>1, <1>4, <2>4, <2>5, <3>1, <3>2, <3>3, IdsStay
    <2>9. OvertakenAreEarlier' /\ SavesCatchUp' /\ UnsavedEditIsOnItsWay'
        <3>1. \A k \in 1 .. Len(requests) : requests[k].kind = "put" =>
                  \E j \in 1 .. Len(requests') : f[j] = k /\ requests'[j] = requests[k]
            BY <1>1, <2>3, <2>6
        <3>2. \A j, k \in 1 .. Len(requests') : j < k => f[j] < f[k]
            BY <2>6
        <3>3. \A j \in 1 .. Len(requests') :
                  requests'[j].kind = "put" => requests'[j] = requests[f[j]]
            BY <2>6, <2>7
        <3>4. \A v \in Listed(local') \cap Listed(stored') : local'[v] # stored'[v] =>
                  v \in Listed(local) \cap Listed(stored) /\ local[v] # stored[v]
                    /\ local'[v] = local[v]
            BY <1>1, <1>3, <1>4
        <3>5. \A v \in Listed(local') :
                  \/ v \in Listed(local) /\ local'[v] = local[v]
                  \/ \A k \in 1 .. Len(requests) : ~IsSave(requests[k], v)
            BY <1>1, <1>4
        <3> QED
            BY <1>1, <2>4, <2>5, <3>1, <3>2, <3>3, <3>4, <3>5, SavesStay
    <2> QED
        BY <1>5, <1>6, <2>4, <2>8, <2>9 DEF StoreInv
<1> QED
    BY <1>1, <1>7, <1>8

\* The answer to a creation has its layout and the id of the row.
LEMMA AnswerFacts ==
    ASSUME NEW r \in [kind : {"post", "created"}, ws : Ws \cup {NoWs}, layout : Layout], NEW w
    PROVE  [[r EXCEPT !.kind = "created"] EXCEPT !.ws = w]
               = [kind |-> "created", ws |-> w, layout |-> r.layout]
<1> DEFINE t == [r EXCEPT !.kind = "created"]
<1>1. r = [kind |-> r.kind, ws |-> r.ws, layout |-> r.layout]
    OBVIOUS
<1>2. t = [kind |-> "created", ws |-> r.ws, layout |-> r.layout]
    BY <1>1
<1> HIDE DEF t
<1>3. [t EXCEPT !.ws = w] = [kind |-> "created", ws |-> w, layout |-> r.layout]
    BY <1>2
<1> QED
    BY <1>3 DEF t

\* A creation is handled: a row that the client does not know yet
\* (routes/workspaces.js).
LEMMA PostArrivesStep ==
    ASSUME StoreInv, NEW i \in 1 .. Len(requests), PostArrives(i)
    PROVE  StoreInv'
<1> DEFINE r == requests[i]
           w == created + 1
           answer == [kind |-> "created", ws |-> w, layout |-> r.layout]
<1>1. /\ r.kind = "post" /\ created < MaxWs /\ created' = w
      /\ stored' = [stored EXCEPT ![w] = r.layout]
      /\ requests' = [requests EXCEPT ![i].kind = "created", ![i].ws = w]
      /\ UNCHANGED <<local, order, active, shown, saveTimer, commits, lost>>
    BY DEF PostArrives
<1>2. r \in Request /\ r.layout \in Layout
      /\ r \in [kind : {"post", "created"}, ws : Ws \cup {NoWs}, layout : Layout]
    <2>1. r \in Request
        BY RequestsFacts DEF StoreInv
    <2> QED
        BY <1>1, <2>1, RequestFacts
<1>3. created \in Nat /\ w \in Ws /\ w \in 0 .. MaxWs
    BY <1>1, WorkspaceBoundsAssumption DEF Ws, StoreInv, TypeOK
<1>4. answer \in Request
    BY <1>2, <1>3 DEF Request
<1>5. requests' = [requests EXCEPT ![i] = answer]
    <2>1. [[r EXCEPT !.kind = "created"] EXCEPT !.ws = w] = answer
        BY <1>2, AnswerFacts
    <2>2. DOMAIN requests = 1 .. Len(requests)
        BY RequestsFacts DEF StoreInv
    <2> QED
        BY <1>1, <2>1, <2>2
<1>6. answer.kind = "created" /\ answer.ws = w /\ answer.layout = r.layout
    OBVIOUS
<1> HIDE DEF answer
<1>7. /\ requests' \in Seq(Request) /\ Len(requests') = Len(requests)
      /\ \A j \in 1 .. Len(requests) : requests'[j] = IF j = i THEN answer ELSE requests[j]
    BY <1>4, <1>5, ExceptSeq DEF StoreInv, TypeOK
<1>8. stored' \in [Ws -> Layout \cup {NoLayout}] /\ stored'[w] = r.layout
          /\ \A v \in Ws : v # w => stored'[v] = stored[v]
    BY <1>1, <1>2, <1>3 DEF StoreInv, TypeOK
<1> HIDE DEF r, w
<1>9. TypeOK'
    BY <1>1, <1>3, <1>7, <1>8 DEF StoreInv, TypeOK
<1>10. ListMatches' /\ ScreenFollowsStore'
    BY <1>1, ListStays
<1>11. PendingSaveIsCurrent'
    BY <1>1 DEF StoreInv, PendingSaveIsCurrent, Listed
<1>12. w = created + 1 /\ \A v : v <= created => v # w
    BY <1>3 DEF w
<1>13. /\ w \notin Listed(local) /\ saveTimer.ws # w
       /\ \A j \in 1 .. Len(requests) :
             requests[j].kind \in {"put", "created"} => requests[j].ws # w
    BY <1>12 DEF StoreInv, IdsWereGiven
<1>14. IdsWereGiven'
    <2>1. \A v \in Ws : v <= created => v <= created'
        BY <1>1, <1>3, <1>12 DEF Ws
    <2>2. \A v \in Listed(local') : v <= created'
        BY <1>1, <2>1 DEF StoreInv, IdsWereGiven, Listed, TypeOK
    <2>3. saveTimer'.ws <= created'
        <3>1. CASE saveTimer.ws \in Ws
            BY <1>1, <2>1, <3>1 DEF StoreInv, IdsWereGiven
        <3>2. CASE saveTimer.ws = NoWs
            BY <1>1, <1>3, <1>12, <3>2 DEF NoWs
        <3> QED
            BY <3>1, <3>2, TimerFacts DEF StoreInv
    <2>4. ASSUME NEW j \in 1 .. Len(requests'), requests'[j].kind \in {"put", "created"}
          PROVE  requests'[j].ws <= created'
        <3>1. CASE j = i
            BY <1>1, <1>3, <1>6, <1>7, <3>1
        <3>2. CASE j # i
            <4>1. requests'[j] = requests[j] /\ j \in 1 .. Len(requests)
                BY <1>7, <3>2
            <4>2. requests[j].ws \in Ws
                BY <2>4, <4>1, RequestsFacts, RequestFacts DEF StoreInv, CreatedIsNew
            <4> QED
                BY <2>1, <2>4, <4>1, <4>2 DEF StoreInv, IdsWereGiven
        <3> QED
            BY <3>1, <3>2
    <2> QED
        BY <2>2, <2>3, <2>4 DEF IdsWereGiven, Listed
<1>15. ASSUME NEW k \in 1 .. Len(requests'), requests'[k].kind = "created"
       PROVE  /\ requests'[k].ws \in Ws
              /\ local'[requests'[k].ws] = NoLayout
              /\ saveTimer'.ws # requests'[k].ws
              /\ stored'[requests'[k].ws] \in {NoLayout, requests'[k].layout}
              /\ \A j \in 1 .. Len(requests') :
                   j # k /\ requests'[j].kind \in {"put", "created"} =>
                       requests'[j].ws # requests'[k].ws
    <2>1. CASE k = i
        <3>1. requests'[k].ws = w /\ requests'[k].layout = r.layout
            BY <1>6, <1>7, <2>1
        <3>2. local'[w] = NoLayout
            BY <1>1, <1>3, <1>13 DEF Listed, StoreInv, TypeOK
        <3>3. \A j \in 1 .. Len(requests') : j # k /\ requests'[j].kind \in {"put", "created"} =>
                  requests'[j].ws # w
            BY <1>7, <1>13, <2>1
        <3> QED
            BY <1>1, <1>3, <1>8, <1>13, <3>1, <3>2, <3>3
    <2>2. CASE k # i
        <3>1. requests'[k] = requests[k] /\ k \in 1 .. Len(requests)
            BY <1>7, <2>2
        <3>2. /\ requests[k].ws \in Ws /\ local[requests[k].ws] = NoLayout
              /\ saveTimer.ws # requests[k].ws
              /\ stored[requests[k].ws] \in {NoLayout, requests[k].layout}
              /\ \A j \in 1 .. Len(requests) :
                   j # k /\ requests[j].kind \in {"put", "created"} =>
                       requests[j].ws # requests[k].ws
            BY <1>15, <3>1 DEF StoreInv, CreatedIsNew
        <3>3. requests[k].ws # w
            BY <1>13, <1>15, <3>1
        <3>4. \A j \in 1 .. Len(requests') : j # k /\ requests'[j].kind \in {"put", "created"} =>
                  requests'[j].ws # requests[k].ws
            BY <1>6, <1>7, <3>2, <3>3
        <3> QED
            BY <1>1, <1>8, <3>1, <3>2, <3>3, <3>4
    <2> QED
        BY <2>1, <2>2
<1>16. OvertakenAreEarlier' /\ SavesCatchUp' /\ UnsavedEditIsOnItsWay'
    <2> DEFINE f == [j \in 1 .. Len(requests') |-> j]
    <2>1. f \in [1 .. Len(requests') -> 1 .. Len(requests)]
        BY <1>7
    <2>2. \A j \in 1 .. Len(requests') : f[j] = j
        OBVIOUS
    <2> HIDE DEF f
    <2>3. \A k \in 1 .. Len(requests) : requests[k].kind = "put" =>
              \E j \in 1 .. Len(requests') : f[j] = k /\ requests'[j] = requests[k]
        BY <1>1, <1>7, <2>2 DEF r
    <2>4. \A j, k \in 1 .. Len(requests') : j < k => f[j] < f[k]
        BY <2>2
    <2>5. \A j \in 1 .. Len(requests') :
              requests'[j].kind = "put" => requests'[j] = requests[f[j]]
        BY <1>6, <1>7, <2>2
    <2>6. Listed(local') = Listed(local)
        BY <1>1
    <2>7. \A v \in Listed(local') \cap Listed(stored') : local'[v] # stored'[v] =>
              v \in Listed(local) \cap Listed(stored) /\ local[v] # stored[v]
                /\ local'[v] = local[v]
        <3> TAKE v \in Listed(local') \cap Listed(stored')
        <3>1. v \in Ws /\ v # w /\ v \in Listed(local)
            BY <1>13, <2>6 DEF Listed, StoreInv, TypeOK
        <3>2. stored'[v] = stored[v] /\ v \in Listed(stored)
            BY <1>8, <3>1 DEF Listed, StoreInv, TypeOK
        <3> QED
            BY <1>1, <3>1, <3>2
    <2>8. \A v \in Listed(local') :
              \/ v \in Listed(local) /\ local'[v] = local[v]
              \/ \A k \in 1 .. Len(requests) : ~IsSave(requests[k], v)
        BY <1>1, <2>6
    <2> QED
        BY <1>1, <1>9, <2>1, <2>3, <2>4, <2>5, <2>7, <2>8, SavesStay
<1> QED
    BY <1>9, <1>10, <1>11, <1>14, <1>15, <1>16 DEF StoreInv, CreatedIsNew

\* A save arrives: its row is updated if it is there, and the saves sent
\* before it are overtaken (routes/workspaces.js).
LEMMA PutArrivesStep ==
    ASSUME StoreInv, NEW i \in 1 .. Len(requests), PutArrives(i)
    PROVE  StoreInv'
<1> DEFINE r == requests[i]
           n == Len(requests)
           marked == [j \in DOMAIN requests |->
                        IF j < i /\ requests[j].kind = "put" /\ requests[j].ws = r.ws
                        THEN [requests[j] EXCEPT !.stale = TRUE] ELSE requests[j]]
<1>1. /\ r.kind = "put" /\ requests' = RemoveAt(marked, i)
      /\ stored' = IF r.ws \in Listed(stored) THEN [stored EXCEPT ![r.ws] = r.layout] ELSE stored
      /\ lost' = IF r.stale THEN [lost EXCEPT ![r.ws] = "overtaken"] ELSE lost
      /\ UNCHANGED <<local, order, active, shown, saveTimer, commits, created>>
    BY DEF PutArrives
<1>2. r \in Request /\ r.ws \in Ws /\ r.layout \in Layout
    <2>1. r \in Request
        BY RequestsFacts DEF StoreInv
    <2> QED
        BY <1>1, <2>1, RequestFacts
<1>3. n \in Nat /\ DOMAIN requests = 1 .. n
    BY RequestsFacts DEF StoreInv
\* Marking a save changes nothing else of it.
<1>4. ASSUME NEW j \in 1 .. n
      PROVE  /\ marked[j] \in Request
             /\ marked[j].kind = requests[j].kind
             /\ marked[j].kind \in {"put", "created"} =>
                   marked[j].ws = requests[j].ws /\ marked[j].layout = requests[j].layout
             /\ marked[j].kind = "put" =>
                   (marked[j].stale <=> requests[j].stale \/ (j < i /\ requests[j].ws = r.ws))
    <2>1. requests[j] \in Request
        BY RequestsFacts DEF StoreInv
    <2>2. CASE j < i /\ requests[j].kind = "put" /\ requests[j].ws = r.ws
        <3>1. marked[j] = [requests[j] EXCEPT !.stale = TRUE]
            BY <1>3, <2>2
        <3>2. requests[j] \in [kind : {"put"}, ws : Ws, layout : Layout, stale : BOOLEAN]
            BY <2>1, <2>2, RequestFacts
        <3> HIDE DEF marked, r
        <3> QED
            BY <2>2, <3>1, <3>2 DEF Request
    <2>3. CASE ~(j < i /\ requests[j].kind = "put" /\ requests[j].ws = r.ws)
        <3>1. marked[j] = requests[j]
            BY <1>3, <2>3
        <3> HIDE DEF marked
        <3> QED
            BY <2>1, <2>3, <3>1
    <2> QED
        BY <2>2, <2>3
<1>5. marked \in Seq(Request) /\ Len(marked) = n
    <2>1. marked = [j \in 1 .. n |-> marked[j]]
        BY <1>3
    <2> HIDE DEF marked, n
    <2> QED
        BY <1>3, <1>4, <2>1, IsASeq, LenProperties
<1> HIDE DEF marked
<1> DEFINE f == [j \in 1 .. Len(requests') |-> InWhole(i, j)]
<1>6. /\ requests' \in Seq(Request) /\ Len(requests') = n - 1
      /\ \A j \in 1 .. n - 1 : /\ InWhole(i, j) \in 1 .. n /\ InWhole(i, j) # i
                               /\ requests'[j] = marked[InWhole(i, j)]
    <2>1. /\ RemoveAt(marked, i) \in Seq(Request) /\ Len(RemoveAt(marked, i)) = n - 1
          /\ \A j \in 1 .. n - 1 : /\ InWhole(i, j) \in 1 .. n /\ InWhole(i, j) # i
                                   /\ RemoveAt(marked, i)[j] = marked[InWhole(i, j)]
        BY <1>5, RemoveAtFacts
    <2> QED
        BY <1>1, <2>1
<1> HIDE DEF n, r
<1>7. f \in [1 .. Len(requests') -> 1 .. n]
    BY <1>6
<1>8. /\ \A j, k \in 1 .. Len(requests') : j < k => f[j] < f[k]
      /\ \A j, k \in 1 .. Len(requests') : f[j] = f[k] => j = k
    BY <1>3, <1>6 DEF InWhole
<1>9. \A j \in 1 .. Len(requests') :
          /\ f[j] # i
          /\ requests'[j].kind = requests[f[j]].kind
          /\ requests'[j].kind \in {"put", "created"} =>
                requests'[j].ws = requests[f[j]].ws /\ requests'[j].layout = requests[f[j]].layout
          /\ requests'[j].kind = "put" =>
                (requests'[j].stale <=>
                    requests[f[j]].stale \/ (f[j] < i /\ requests[f[j]].ws = r.ws))
    <2> TAKE j \in 1 .. Len(requests')
    <2>1. f[j] \in 1 .. n /\ f[j] # i /\ requests'[j] = marked[f[j]]
        BY <1>6
    <2> HIDE DEF f
    <2> QED
        BY <1>4, <2>1
<1>10. ASSUME NEW k \in 1 .. n, k # i
       PROVE  \E j \in 1 .. Len(requests') : f[j] = k
    <2>1. PICK j \in 1 .. n - 1 : InWhole(i, j) = k
        BY <1>3, <1>10, BeforeFacts DEF n
    <2> QED
        BY <1>6, <2>1
<1> HIDE DEF f
<1>11. /\ stored' \in [Ws -> Layout \cup {NoLayout}]
       /\ \A w \in Ws : w # r.ws => stored'[w] = stored[w]
       /\ \A w \in Ws : w \in Listed(stored') <=> w \in Listed(stored)
       /\ r.ws \in Listed(stored) => stored'[r.ws] = r.layout
    BY <1>1, <1>2, NoLayoutIsNone DEF StoreInv, TypeOK, Listed
<1>12. /\ lost' \in [Ws -> Reason]
       /\ \A w \in Ws : lost'[w] = "not lost" => lost[w] = "not lost" /\ ~(w = r.ws /\ r.stale)
    BY <1>1, <1>2 DEF StoreInv, TypeOK, Reason
<1>13. TypeOK'
    BY <1>1, <1>6, <1>11, <1>12 DEF StoreInv, TypeOK
<1>14. Listed(local') = Listed(local)
    BY <1>1
<1>15. IdsWereGiven' /\ CreatedIsNew'
    <2>1. ASSUME NEW j \in 1 .. Len(requests'), requests'[j].kind = "created"
          PROVE  stored'[requests'[j].ws] \in {NoLayout, stored[requests'[j].ws]}
        <3>1. f[j] \in 1 .. n /\ f[j] # i /\ requests[f[j]].kind = "created"
                  /\ requests'[j].ws = requests[f[j]].ws
            BY <1>7, <1>9, <2>1
        <3>2. requests[f[j]].ws \in Ws /\ r.ws # requests[f[j]].ws
            BY <1>1, <3>1 DEF StoreInv, CreatedIsNew, r, n
        <3> QED
            BY <1>11, <3>1, <3>2
    <2>2. \A j \in 1 .. Len(requests') : requests'[j].kind \in {"put", "created"} =>
              /\ requests'[j].kind = requests[f[j]].kind
              /\ requests'[j].ws = requests[f[j]].ws
              /\ requests'[j].layout = requests[f[j]].layout
        BY <1>9
    <2>3. f \in [1 .. Len(requests') -> 1 .. Len(requests)]
        BY <1>7 DEF n
    <2> QED
        BY <1>1, <1>8, <1>13, <1>14, <2>1, <2>2, <2>3, IdsStay
<1>16. OvertakenAreEarlier'
    <2> SUFFICES ASSUME NEW a \in 1 .. Len(requests'), NEW b \in 1 .. Len(requests'),
                        NEW w \in Ws, a < b, IsSave(requests'[a], w),
                        IsSave(requests'[b], w), requests'[b].stale
                 PROVE  requests'[a].stale
        BY DEF OvertakenAreEarlier, IsSave
    <2>1. f[a] \in 1 .. n /\ f[b] \in 1 .. n /\ f[a] < f[b]
        BY <1>7, <1>8
    <2>2. IsSave(requests[f[a]], w) /\ IsSave(requests[f[b]], w)
        BY <1>9 DEF IsSave
    <2>3. CASE requests[f[b]].stale
        <3>1. requests[f[a]].stale
            BY <2>1, <2>2, <2>3 DEF StoreInv, OvertakenAreEarlier, n
        <3> QED
            BY <1>9, <3>1 DEF IsSave
    <2>4. CASE f[b] < i /\ requests[f[b]].ws = r.ws
        <3>1. f[a] < i
            BY <1>3, <2>1, <2>4 DEF n
        <3>2. requests[f[a]].ws = r.ws
            BY <2>2, <2>4 DEF IsSave
        <3> QED
            BY <1>9, <3>1, <3>2 DEF IsSave
    <2> QED
        BY <1>9, <2>3, <2>4 DEF IsSave
<1>17. SavesCatchUp'
    <2> SUFFICES ASSUME NEW w \in Listed(local'), lost'[w] = "not lost", saveTimer'.ws # w,
                        NEW a \in 1 .. Len(requests'),
                        IsSave(requests'[a], w), ~requests'[a].stale
                 PROVE  \E j \in a .. Len(requests') :
                            IsSave(requests'[j], w) /\ requests'[j].layout = local'[w]
        BY DEF SavesCatchUp, IsSave, Listed
    <2>1. /\ w \in Listed(local) /\ w \in Ws /\ local'[w] = local[w] /\ saveTimer.ws # w
          /\ lost[w] = "not lost"
        BY <1>1, <1>12 DEF Listed, StoreInv, TypeOK
    <2>2. /\ f[a] \in 1 .. n /\ f[a] # i /\ IsSave(requests[f[a]], w)
          /\ ~requests[f[a]].stale /\ ~(f[a] < i /\ w = r.ws)
        BY <1>7, <1>9 DEF IsSave
    <2>3. PICK k \in f[a] .. n : IsSave(requests[k], w) /\ requests[k].layout = local[w]
        BY <2>1, <2>2 DEF StoreInv, SavesCatchUp, n
    <2>4. k \in 1 .. n /\ f[a] <= k
        BY <1>3, <2>2, RangeFacts DEF n
    <2>5. k # i
        <3>1. SUFFICES ASSUME k = i PROVE FALSE
            OBVIOUS
        <3>2. w = r.ws
            BY <2>3, <3>1 DEF IsSave, r
        <3>3. f[a] < i
            BY <1>3, <2>2, <2>4, <3>1, EarlierPlace DEF n
        <3> QED
            BY <2>2, <3>2, <3>3
    <2>6. PICK j \in 1 .. Len(requests') : f[j] = k
        BY <1>10, <2>4, <2>5
    <2>7. IsSave(requests'[j], w) /\ requests'[j].layout = local[w]
        BY <1>9, <2>3, <2>6 DEF IsSave
    <2>8. j \in a .. Len(requests')
        <3>1. Len(requests') \in Nat
            BY <1>13, LenProperties DEF TypeOK
        <3> QED
            BY <1>3, <1>7, <1>8, <2>4, <2>6, <3>1, OrderFacts DEF n
    <2> QED
        BY <2>1, <2>7, <2>8
<1>18. UnsavedEditIsOnItsWay'
    <2> SUFFICES ASSUME NEW w \in Listed(local') \cap Listed(stored'),
                        local'[w] # stored'[w], saveTimer'.ws # w, lost'[w] = "not lost"
                 PROVE  \E a \in 1 .. Len(requests') :
                            /\ IsSave(requests'[a], w) /\ ~requests'[a].stale
                            /\ requests'[a].layout = local'[w]
        BY DEF UnsavedEditIsOnItsWay, IsSave, Listed
    <2>1. /\ w \in Listed(local) \cap Listed(stored) /\ w \in Ws /\ local'[w] = local[w]
          /\ saveTimer.ws # w /\ lost[w] = "not lost" /\ ~(w = r.ws /\ r.stale)
        BY <1>1, <1>11, <1>12 DEF Listed, StoreInv, TypeOK
    \* The witness is not stale, is not the save that arrives, and is after it
    \* if it is of the same workspace.
    <2>2. PICK k \in 1 .. n :
              /\ IsSave(requests[k], w) /\ ~requests[k].stale
              /\ requests[k].layout = local[w] /\ k # i /\ ~(k < i /\ w = r.ws)
        <3>1. CASE w # r.ws
            <4>1. local[w] # stored[w]
                BY <1>11, <2>1, <3>1
            <4>2. PICK k \in 1 .. n :
                      /\ IsSave(requests[k], w) /\ ~requests[k].stale
                      /\ requests[k].layout = local[w]
                BY <2>1, <4>1 DEF StoreInv, UnsavedEditIsOnItsWay, n
            <4>3. k # i
                BY <3>1, <4>2 DEF IsSave, r
            <4> QED
                BY <3>1, <4>2, <4>3
        <3>2. CASE w = r.ws
            <4>1. IsSave(r, w) /\ ~r.stale /\ r.layout # local[w]
                BY <1>1, <1>11, <2>1, <3>2 DEF IsSave
            <4>2. PICK k \in i .. n : IsSave(requests[k], w) /\ requests[k].layout = local[w]
                BY <2>1, <4>1 DEF StoreInv, SavesCatchUp, n, r
            <4>3. k \in 1 .. n /\ i <= k /\ k # i
                BY <1>3, <4>1, <4>2, RangeFacts DEF n, r
            <4>4. i < k /\ ~(k < i)
                BY <1>3, <4>3, EarlierPlace DEF n
            <4>5. ~requests[k].stale
                BY <2>1, <4>1, <4>2, <4>3, <4>4 DEF StoreInv, OvertakenAreEarlier, n, r
            <4> QED
                BY <4>2, <4>3, <4>4, <4>5
        <3> QED
            BY <3>1, <3>2
    <2>3. PICK j \in 1 .. Len(requests') : f[j] = k
        BY <1>10, <2>2
    <2>4. IsSave(requests'[j], w) /\ ~requests'[j].stale /\ requests'[j].layout = local[w]
        BY <1>9, <2>2, <2>3 DEF IsSave
    <2> QED
        BY <2>1, <2>4
<1>19. PendingSaveIsCurrent'
    BY <1>1 DEF StoreInv, PendingSaveIsCurrent, Listed
<1> QED
    BY <1>1, <1>13, <1>15, <1>16, <1>17, <1>18, <1>19, ListStays DEF StoreInv

-----------------------------------------------------------------------------
(* The theorems.                                                            *)

\* A layout that is edited or committed, and a commit for a workspace that was
\* deleted meanwhile (stores/workspaces.js updateLayout).
LEMMA UpdateStep ==
    ASSUME StoreInv, NEW w \in Listed(local), NEW l \in Layout, UpdateLayout(w, l),
           commits' \in Seq([ws : Ws, layout : Layout]), UNCHANGED <<requests, stored, created>>
    PROVE  StoreInv'
<1>1. w \in Ws /\ local' = [local EXCEPT ![w] = l]
    BY DEF UpdateLayout, Listed, StoreInv, TypeOK
<1>2. /\ local' \in [Ws -> Layout \cup {NoLayout}]
      /\ \A v \in {w} : local'[v] \in Layout
      /\ \A v \in Ws \ {w} : local'[v] = local[v]
    BY <1>1 DEF StoreInv, TypeOK
<1> QED
    BY <1>2, SaveStep DEF UpdateLayout

\* The panes of a renamed session, in every workspace that has some
\* (stores/workspaces.js renameSessionInWorkspaces).
LEMMA RenameStep ==
    ASSUME StoreInv, NEW old \in Session, NEW new \in Session,
           RenameSessionInWorkspaces(old, new)
    PROVE  StoreInv'
<1> DEFINE changed == {w \in Listed(local) : local[w].session = old}
<1>1. /\ local' = [w \in Ws |-> IF w \in changed THEN [local[w] EXCEPT !.session = new]
                                ELSE local[w]]
      /\ IF changed = {} THEN UNCHANGED <<saveTimer, lost>> ELSE DebouncedSave(changed, local')
      /\ UNCHANGED <<order, active, commits, requests, stored, created>>
      /\ Notify
    BY DEF RenameSessionInWorkspaces
<1>2. changed \subseteq Listed(local) /\ changed \subseteq Ws
    BY DEF Listed, StoreInv, TypeOK
<1>3. \A w \in changed : local[w] \in Layout
    BY DEF Listed, StoreInv, TypeOK
<1> HIDE DEF changed
<1>4. \A w \in changed : local'[w] \in Layout
    BY <1>1, <1>2, <1>3 DEF Layout
<1>5. \A w \in Ws \ changed : local'[w] = local[w]
    BY <1>1
<1>6. local' \in [Ws -> Layout \cup {NoLayout}]
    <2>1. \A w \in Ws : local'[w] \in Layout \cup {NoLayout}
        BY <1>4, <1>5 DEF StoreInv, TypeOK
    <2> QED
        BY <1>1, <2>1
<1>7. CASE changed = {}
    <2>1. local' = local
        BY <1>5, <1>6, <1>7 DEF StoreInv, TypeOK
    <2>2. TypeOK'
        BY <1>1, <1>7, <2>1 DEF StoreInv, TypeOK, Notify
    <2>3. ScreenFollowsStore'
        BY <1>1, <2>1 DEF StoreInv, ScreenFollowsStore, ActiveWorkspaceExists, Notify, Listed
    <2> QED
        BY <1>1, <1>7, <2>1, <2>2, <2>3, ViewStep
<1>8. CASE changed # {}
    <2>1. commits' \in Seq([ws : Ws, layout : Layout])
        BY <1>1 DEF StoreInv, TypeOK
    <2> QED
        BY <1>1, <1>2, <1>4, <1>5, <1>6, <1>8, <2>1, SaveStep
<1> QED
    BY <1>7, <1>8

\* Every step of the client, the server and the network.
LEMMA StoreInvStep == StoreInv /\ [Next]_vars => StoreInv'
<1> SUFFICES ASSUME StoreInv, [Next]_vars
             PROVE  StoreInv'
    OBVIOUS
<1>1. ASSUME NEW w \in Ws, SetActive(w)
      PROVE  StoreInv'
    <2>1. TypeOK'
        BY <1>1 DEF SetActive, Notify, StoreInv, TypeOK
    <2>2. ScreenFollowsStore'
        BY <1>1 DEF SetActive, Notify, ScreenFollowsStore, ActiveWorkspaceExists, Listed
    <2> QED
        BY <1>1, <2>1, <2>2, ViewStep DEF SetActive
<1>2. ASSUME NEW w \in Ws, DeleteWorkspace(w)
      PROVE  StoreInv'
    <2> DEFINE r == [kind |-> "delete", ws |-> w]
    <2>1. r \in Request /\ r.kind = "delete"
        BY DEF Request
    <2> HIDE DEF r
    <2>2. /\ Send(r)
          /\ UNCHANGED <<local, order, active, shown, saveTimer, commits, stored, created, lost>>
        BY <1>2 DEF DeleteWorkspace, r
    <2> QED
        BY <2>1, <2>2, SendStep
<1>3. ASSUME NEW l \in Layout, Edit(l)
      PROVE  StoreInv'
    <2>1. commits' \in Seq([ws : Ws, layout : Layout])
        BY <1>3 DEF Edit, StoreInv, TypeOK
    <2> QED
        BY <1>3, <2>1, UpdateStep DEF Edit
<1>4. ASSUME NEW l \in Layout, CreateWorkspace(l)
      PROVE  StoreInv'
    <2> DEFINE r == [kind |-> "post", ws |-> NoWs, layout |-> l]
    <2>1. r \in Request /\ r.kind = "post"
        BY DEF Request
    <2> HIDE DEF r
    <2>2. /\ Send(r)
          /\ UNCHANGED <<local, order, active, shown, saveTimer, commits, stored, created, lost>>
        BY <1>4 DEF CreateWorkspace, r
    <2> QED
        BY <2>1, <2>2, SendStep
<1>5. ASSUME NEW s \in Shape, ScheduleLayoutCommit(s)
      PROVE  StoreInv'
    <2> DEFINE c == [ws |-> shown, layout |-> [session |-> local[active].session, shape |-> s]]
    <2>1. /\ shown # NoWs /\ active \in Listed(local) /\ commits' = Append(commits, c)
          /\ shown' = NoWs
          /\ UNCHANGED <<local, order, active, saveTimer, requests, stored, created, lost>>
        BY <1>5 DEF ScheduleLayoutCommit
    <2>2. c \in [ws : Ws, layout : Layout]
        <3>1. local[active] \in Layout
            BY <2>1 DEF StoreInv, TypeOK, Listed
        <3> QED
            BY <2>1, <3>1 DEF StoreInv, TypeOK, Layout
    <2> HIDE DEF c
    <2>3. commits' \in Seq([ws : Ws, layout : Layout]) /\ commits' # <<>>
        BY <2>1, <2>2, AppendProperties DEF StoreInv, TypeOK
    <2>4. TypeOK'
        BY <2>1, <2>3 DEF StoreInv, TypeOK
    <2>5. ScreenFollowsStore'
        BY <2>1, <2>3 DEF StoreInv, ScreenFollowsStore, ActiveWorkspaceExists, Listed
    <2> QED
        BY <2>1, <2>4, <2>5, ViewStep
<1>6. ASSUME CommitFires
      PROVE  StoreInv'
    <2> DEFINE w == Head(commits).ws
    <2>1. /\ commits # <<>> /\ commits' = Tail(commits)
          /\ UNCHANGED <<requests, stored, created>>
          /\ IF w \in Listed(local) THEN UpdateLayout(w, Head(commits).layout)
             ELSE shown' = w /\ UNCHANGED <<local, order, active, saveTimer, lost>>
        BY <1>6 DEF CommitFires
    <2>2. /\ Head(commits) \in [ws : Ws, layout : Layout]
          /\ commits' \in Seq([ws : Ws, layout : Layout])
        BY <2>1, HeadTailProperties DEF StoreInv, TypeOK
    <2>3. w \in Ws /\ Head(commits).layout \in Layout
        BY <2>2
    <2>4. CASE w \in Listed(local)
        BY <2>1, <2>2, <2>3, <2>4, UpdateStep
    <2>5. CASE w \notin Listed(local)
        <3>1. shown' = w /\ UNCHANGED <<local, order, active, saveTimer, lost>>
            BY <2>1, <2>5
        <3> HIDE DEF w
        <3>2. TypeOK'
            BY <2>1, <2>2, <2>3, <3>1 DEF StoreInv, TypeOK
        <3>3. ScreenFollowsStore'
            BY <2>3, <2>5, <3>1
            DEF StoreInv, ScreenFollowsStore, ActiveWorkspaceExists, Listed
        <3> QED
            BY <2>1, <3>1, <3>2, <3>3, ViewStep
    <2> QED
        BY <2>4, <2>5
<1>7. CASE RenameWorkspace
    <2>1. TypeOK'
        BY <1>7 DEF RenameWorkspace, Notify, StoreInv, TypeOK
    <2>2. ScreenFollowsStore'
        BY <1>7 DEF RenameWorkspace, Notify, StoreInv, ScreenFollowsStore,
                    ActiveWorkspaceExists, Listed
    <2> QED
        BY <1>7, <2>1, <2>2, ViewStep DEF RenameWorkspace
<1>8. CASE SaveTimerFires
    BY <1>8, SaveTimerStep
<1>9. ASSUME NEW i \in DOMAIN requests,
             \/ PutArrives(i) \/ PostArrives(i) \/ DeleteArrives(i)
             \/ RequestFails(i) \/ CreatedAnswer(i) \/ DeletedAnswer(i)
      PROVE  StoreInv'
    <2>1. i \in 1 .. Len(requests)
        BY RequestsFacts DEF StoreInv
    <2> QED
        BY <1>9, <2>1, PutArrivesStep, PostArrivesStep, DeleteArrivesStep, FailStep,
           CreatedAnswerStep, DeletedAnswerStep
<1>10. CASE UNCHANGED vars
    <2>1. TypeOK' /\ ScreenFollowsStore'
        BY <1>10 DEF vars, StoreInv, TypeOK, ScreenFollowsStore, ActiveWorkspaceExists, Listed
    <2> QED
        BY <1>10, <2>1, ViewStep DEF vars
<1> QED
    BY <1>1, <1>2, <1>3, <1>4, <1>5, <1>6, <1>7, <1>8, <1>9, <1>10, RenameStep DEF Next

\* The ids of the rows that have been created.
LEMMA IdFacts ==
    ASSUME NEW c \in 0 .. MaxWs
    PROVE  /\ c \in Nat /\ c <= MaxWs
           /\ 1 .. c \subseteq Ws
           /\ c # 0 => 1 \in Ws
           /\ \A w \in Ws : w \in Nat /\ (w <= c <=> w \in 1 .. c)
BY WorkspaceBoundsAssumption DEF Ws

\* The page has loaded the rows, and nothing waits or is in flight.
LEMMA StoreInvInit == Init => StoreInv
<1> SUFFICES ASSUME Init
             PROVE  StoreInv
    OBVIOUS
<1>1. /\ created \in 0 .. MaxWs /\ local = stored
      /\ local \in [Ws -> Layout \cup {NoLayout}]
      /\ \A w \in Ws : local[w] # NoLayout <=> w <= created
      /\ order = [w \in 1 .. created |-> w]
      /\ active = (IF created = 0 THEN NoWs ELSE 1) /\ shown = active
      /\ saveTimer = NoSave /\ commits = <<>> /\ requests = <<>>
      /\ lost = [w \in Ws |-> "not lost"]
    BY DEF Init
<1>2. /\ created \in Nat /\ 1 .. created \subseteq Ws /\ (created # 0 => 1 \in Ws)
      /\ \A w \in Ws : w <= created <=> w \in 1 .. created
    BY <1>1, IdFacts
<1>3. order \in Seq(Ws) /\ Len(order) = created /\ \A i \in 1 .. created : order[i] = i
    <2>1. \A i \in 1 .. created : i \in Ws
        BY <1>2
    <2> QED
        <3>1. [w \in 1 .. created |-> w] \in Seq(Ws)
            BY <1>2, <2>1
        <3>2. Len([w \in 1 .. created |-> w]) = created
            BY <1>2
        <3> QED
            BY <1>1, <3>1, <3>2
<1>4. \A w \in Ws : w \in Listed(local) <=> w \in 1 .. created
    BY <1>1, <1>2 DEF Listed
<1>5. Len(requests) = 0 /\ commits \in Seq([ws : Ws, layout : Layout])
          /\ requests \in Seq(Request)
    BY <1>1, EmptySeq
<1>6. TypeOK
    BY <1>1, <1>2, <1>3, <1>5 DEF TypeOK, Reason
<1>7. ListMatches
    BY <1>2, <1>3, <1>4 DEF ListMatches
<1>8. ScreenFollowsStore
    <2>1. CASE created = 0
        <3>1. Listed(local) = {}
            <4>1. 1 .. created = {}
                BY <2>1
            <4> QED
                BY <1>1, <1>4, <4>1 DEF Listed
        <3> QED
            BY <1>1, <2>1, <3>1 DEF ScreenFollowsStore, ActiveWorkspaceExists
    <2>2. CASE created # 0
        <3>1. 1 \in Listed(local)
            BY <1>2, <1>4, <2>2
        <3> QED
            BY <1>1, <2>2, <3>1 DEF ScreenFollowsStore, ActiveWorkspaceExists
    <2> QED
        BY <2>1, <2>2
<1>9. IdsWereGiven
    <2>1. \A w \in Listed(local) : w <= created
        BY <1>1 DEF Listed
    <2>2. saveTimer.ws <= created
        <3>1. 0 <= created
            BY <1>2
        <3> QED
            BY <1>1, <3>1 DEF NoSave, NoWs
    <2> QED
        BY <1>5, <2>1, <2>2 DEF IdsWereGiven
<1>10. CreatedIsNew /\ OvertakenAreEarlier /\ SavesCatchUp
    BY <1>5 DEF CreatedIsNew, OvertakenAreEarlier, SavesCatchUp
<1>11. PendingSaveIsCurrent
    <2>1. saveTimer.ws \notin Listed(local)
        BY <1>1, TimerFacts, <1>6 DEF Listed
    <2> QED
        BY <2>1 DEF PendingSaveIsCurrent
<1>12. UnsavedEditIsOnItsWay
    BY <1>1 DEF UnsavedEditIsOnItsWay
<1> QED
    BY <1>6, <1>7, <1>8, <1>9, <1>10, <1>11, <1>12 DEF StoreInv

\* The invariant, in every reachable state.
LEMMA StoreInvHolds == Spec => []StoreInv
BY StoreInvInit, StoreInvStep, PTL DEF Spec

\* Every variable of the client, the server and the network has its type.
THEOREM StoreTypes == Spec => []TypeOK
<1>1. StoreInv => TypeOK
    BY DEF StoreInv
<1> QED
    BY <1>1, StoreInvHolds, PTL

\* An edit is pending, on its way, or lost for one of three reasons, however
\* saves are superseded, fail or overtake each other (stores/workspaces.js
\* debouncedSave, routes/workspaces.js).
THEOREM EditsAreAccountedFor == Spec => []UnsavedEditIsAccountedFor
<1>1. StoreInv => UnsavedEditIsAccountedFor
    <2> SUFFICES ASSUME StoreInv, NEW w \in Listed(local) \cap Listed(stored),
                        local[w] # stored[w], saveTimer.ws # w, lost[w] = "not lost"
                 PROVE  \E i \in DOMAIN requests :
                            /\ requests[i].kind = "put" /\ requests[i].ws = w
                            /\ requests[i].layout = local[w]
        BY DEF UnsavedEditIsAccountedFor
    <2> QED
        BY RequestsFacts DEF StoreInv, UnsavedEditIsOnItsWay, IsSave
<1> QED
    BY <1>1, StoreInvHolds, PTL

\* The save that waits for the timer is of the layout the workspace has now
\* (stores/workspaces.js debouncedSave and its callers).
THEOREM PendingSaveStaysCurrent == Spec => []PendingSaveIsCurrent
<1>1. StoreInv => PendingSaveIsCurrent
    BY DEF StoreInv
<1> QED
    BY <1>1, StoreInvHolds, PTL

\* The active workspace is in the list and on the screen, but for the moments
\* of a commit (stores/workspaces.js notify, workspace-action-utils.js).
THEOREM ScreenKeepsUp == Spec => []ScreenFollowsStore
<1>1. StoreInv => ScreenFollowsStore
    BY DEF StoreInv
<1> QED
    BY <1>1, StoreInvHolds, PTL

\* No step brings a deleted row back: a save writes to a row that is there,
\* and a creation takes an id no row has had (routes/workspaces.js).
THEOREM DeletedRowsStayDeleted == Spec => DeletedStaysDeleted
<1>1. ASSUME StoreInv, [Next]_vars, NEW w \in Ws, w <= created, stored[w] = NoLayout
      PROVE  stored'[w] = NoLayout
    <2>1. ASSUME NEW i \in DOMAIN requests, PutArrives(i)
          PROVE  stored'[w] = NoLayout
        BY <1>1, <2>1 DEF PutArrives, Listed, StoreInv, TypeOK
    <2>2. ASSUME NEW i \in DOMAIN requests, PostArrives(i)
          PROVE  stored'[w] = NoLayout
        <3>1. created \in Nat /\ w \in Nat
            <4>1. created \in 0 .. MaxWs
                BY <1>1 DEF StoreInv, TypeOK
            <4> QED
                BY <4>1, IdFacts
        <3>2. w # created + 1
            BY <1>1, <3>1
        <3> QED
            BY <1>1, <2>2, <3>2 DEF PostArrives, StoreInv, TypeOK
    <2>3. ASSUME NEW i \in DOMAIN requests, DeleteArrives(i)
          PROVE  stored'[w] = NoLayout
        BY <1>1, <2>3 DEF DeleteArrives, StoreInv, TypeOK
    <2>4. CASE stored' = stored
        BY <1>1, <2>4
    <2> QED
        BY <1>1, <2>1, <2>2, <2>3, <2>4
        DEF Next, vars, SetActive, DeleteWorkspace, Edit, CreateWorkspace,
            ScheduleLayoutCommit, CommitFires, RenameSessionInWorkspaces, RenameWorkspace,
            SaveTimerFires, RequestFails, CreatedAnswer, DeletedAnswer
<1>2. StoreInv /\ [Next]_vars =>
          [\A w \in Ws : w <= created /\ stored[w] = NoLayout => stored'[w] = NoLayout]_vars
    BY <1>1
<1> QED
    BY <1>2, StoreInvHolds, PTL DEF Spec, DeletedStaysDeleted
=============================================================================
