---------------------------- MODULE SessionProofs -----------------------------
(***************************************************************************)
(* Statuses, activity and listings of sessions: what the browser has been  *)
(* told, what it marks and what the server answers was true.               *)
(***************************************************************************)
EXTENDS StatusEngine, StatusChannel, ActivityBadges, SessionListing, SessionForms,
        ListLemmas, NaturalsInduction, TLAPS

-----------------------------------------------------------------------------
(***************************************************************************)
(* The statuses of terminals in the browser (StatusChannel), for every     *)
(* number of terminals and of messages on their way.                       *)
(***************************************************************************)

Pane == [key : PaneKey, status : PaneStatus \cup {"unknown"}]
Message == [type : {"snapshot"}, panes : Seq(Pane)]
           \cup [type : {"status"}, key : PaneKey, status : PaneStatus]

Places == 1 .. Len(inbox)

ChannelTypes ==
    /\ panes \in Seq(Pane)
    /\ inbox \in Seq(Message)
    /\ started \in BOOLEAN /\ retrying \in BOOLEAN

\* Only a socket that is open has messages, and a snapshot is the first of all.
SnapshotIsFirst ==
    /\ link # "open" => inbox = <<>>
    /\ \A n \in Places : n # 1 => inbox[n].type = "status"

ChannelIsKept == started => link # "none" \/ retrying

\* What the map has for a key once the message was received.
Tells(m, k, s) ==
    IF m.type = "snapshot" THEN k \in KeysOf(m.panes) /\ StatusIn(m.panes, k) = s
    ELSE m.key = k /\ m.status = s

\* A status of the key follows the n-th message.
Later(n, k) == \E x \in Places : x > n /\ inbox[x].type = "status" /\ inbox[x].key = k

SnapshotWaits == \E n \in Places : inbox[n].type = "snapshot"

HasPane(k, s) == \E i \in DOMAIN panes : panes[i] = [key |-> k, status |-> s]

\* The last word of the messages on a key is true.
LastWordIsTrue ==
    \A n \in Places : \A k \in PaneKey \ left, s \in PaneStatus \cup {"unknown"} :
        Tells(inbox[n], k, s) /\ ~Later(n, k) => HasPane(k, s)

\* So is the map where the messages do not change it.
MapIsTrue ==
    \A k \in DOMAIN statusMap \ left :
        ~SnapshotWaits /\ ~Later(0, k) => HasPane(k, statusMap[k])

\* A terminal that has changed its status is in the map or in a message.
NoneIsUnseen ==
    \A i \in DOMAIN panes : panes[i].status # "unknown" =>
        \/ ~SnapshotWaits /\ panes[i].key \in DOMAIN statusMap
        \/ \E n \in Places : \E s \in PaneStatus \cup {"unknown"} : Tells(inbox[n], panes[i].key, s)

Current == LastWordIsTrue /\ MapIsTrue /\ NoneIsUnseen

ChannelInv == /\ ChannelTypes /\ SnapshotIsFirst /\ ChannelIsKept
              /\ link = "open" => Current

-----------------------------------------------------------------------------
(* Sequences of terminals.                                                  *)

\* The map of a snapshot has for a key the status of one of its terminals
\* (frontend/src/lib/stores/status.js).
LEMMA StatusInFacts ==
    ASSUME NEW ps \in Seq(Pane), NEW k \in KeysOf(ps)
    PROVE  /\ k \in PaneKey
           /\ StatusIn(ps, k) \in PaneStatus \cup {"unknown"}
           /\ \E i \in DOMAIN ps : ps[i] = [key |-> k, status |-> StatusIn(ps, k)]
<1> DEFINE own == {i \in DOMAIN ps : ps[i].key = k}
<1>1. DOMAIN ps = 1 .. Len(ps) /\ Len(ps) \in Nat
    BY LenProperties
<1>2. own # {}
    BY DEF KeysOf
<1>3. own \in SUBSET Nat /\ \A j \in own : j <= Len(ps)
    BY <1>1
<1>4. \E i \in own : \A j \in own : j <= i
    <2> HIDE DEF own
    <2> QED
        BY <1>1, <1>2, <1>3, LargestExists
<1> DEFINE last == CHOOSE i \in DOMAIN ps :
                       ps[i].key = k /\ \A j \in DOMAIN ps : ps[j].key = k => j <= i
<1>5. last \in DOMAIN ps /\ ps[last].key = k
    <2>1. \E i \in DOMAIN ps : ps[i].key = k /\ \A j \in DOMAIN ps : ps[j].key = k => j <= i
        BY <1>4
    <2> QED
        BY <2>1
<1>6. StatusIn(ps, k) = ps[last].status
    BY DEF StatusIn
<1> HIDE DEF last
<1>7. ps[last] \in Pane
    BY <1>1, <1>5, ElementOfSeq
<1>8. ps[last] = [key |-> k, status |-> ps[last].status]
    BY <1>5, <1>7 DEF Pane
<1> QED
    BY <1>5, <1>6, <1>7, <1>8 DEF Pane

-----------------------------------------------------------------------------
(* Steps.                                                                   *)

\* The places of messages (frontend/src/lib/stores/status.js).
LEMMA PlaceFacts ==
    ASSUME ChannelTypes
    PROVE  /\ Len(inbox) \in Nat /\ (Places # {} => inbox # <<>>)
           /\ \A n \in Places : n \in Nat /\ n > 0 /\ inbox[n] \in Message
           /\ DOMAIN panes = 1 .. Len(panes) /\ Len(panes) \in Nat
           /\ \A i \in DOMAIN panes : panes[i] \in Pane
<1>1. Len(inbox) \in Nat /\ DOMAIN panes = 1 .. Len(panes) /\ Len(panes) \in Nat
    BY LenProperties DEF ChannelTypes
<1>2. \A n \in Places : n \in Nat /\ n > 0 /\ inbox[n] \in Message
    BY <1>1, ElementOfSeq DEF ChannelTypes, Places
<1>3. \A i \in DOMAIN panes : panes[i] \in Pane
    BY <1>1, ElementOfSeq DEF ChannelTypes
<1>4. inbox = <<>> => Len(inbox) = 0
    BY EmptySeq
<1>5. Places # {} => inbox # <<>>
    BY <1>4 DEF Places
<1> QED
    BY <1>1, <1>2, <1>3, <1>5

\* What is true of all terminals but some that go stays true: nothing is sent
\* (services/status-engine.js register and remove).
LEMMA QuietStep ==
    ASSUME ChannelInv, UNCHANGED <<inbox, statusMap, link, retrying, started>>,
           left \subseteq left', panes' \in Seq(Pane),
           \A k \in PaneKey \ left', s \in PaneStatus \cup {"unknown"} : HasPane(k, s) => HasPane(k, s)',
           \A i \in DOMAIN panes' : panes'[i].status # "unknown" =>
               \E j \in DOMAIN panes : panes[j] = panes'[i]
    PROVE  ChannelInv'
<1>1. ChannelTypes' /\ SnapshotIsFirst' /\ ChannelIsKept'
    BY DEF ChannelInv, ChannelTypes, SnapshotIsFirst, ChannelIsKept, Places
<1>2. ASSUME link = "open"
      PROVE  LastWordIsTrue'
    BY <1>2 DEF ChannelInv, Current, LastWordIsTrue, Later, Places
<1>3. ASSUME link = "open"
      PROVE  MapIsTrue'
    <2> SUFFICES ASSUME NEW k \in DOMAIN statusMap \ left', ~SnapshotWaits, ~Later(0, k)
                 PROVE  HasPane(k, statusMap[k])'
        BY DEF MapIsTrue, SnapshotWaits, Later, Places
    <2>1. HasPane(k, statusMap[k])
        BY <1>3 DEF ChannelInv, Current, MapIsTrue
    <2>2. k \in PaneKey /\ statusMap[k] \in PaneStatus \cup {"unknown"}
        <3>1. PICK i \in DOMAIN panes : panes[i] = [key |-> k, status |-> statusMap[k]]
            BY <2>1 DEF HasPane
        <3>2. panes[i] \in Pane
            BY PlaceFacts DEF ChannelInv
        <3>3. panes[i].key = k /\ panes[i].status = statusMap[k]
            BY <3>1
        <3> QED
            BY <3>2, <3>3 DEF Pane
    <2> QED
        BY <2>1, <2>2
<1>4. ASSUME link = "open"
      PROVE  NoneIsUnseen'
    BY <1>4 DEF ChannelInv, Current, NoneIsUnseen, SnapshotWaits, Places
<1> QED
    BY <1>1, <1>2, <1>3, <1>4 DEF ChannelInv, Current

\* services/status-engine.js register.
LEMMA RegisterPaneStep ==
    ASSUME ChannelInv, NEW k \in PaneKey, RegisterPane(k)
    PROVE  ChannelInv'
<1> DEFINE added == [key |-> k, status |-> "unknown"]
<1>1. /\ panes' = Append(panes, added)
      /\ UNCHANGED <<inbox, statusMap, link, retrying, started, left>>
    BY DEF RegisterPane, browserVars
<1>2. added \in Pane /\ added.status = "unknown"
    BY DEF Pane
<1> HIDE DEF added
<1>3. /\ panes' \in Seq(Pane) /\ Len(panes') = Len(panes) + 1
      /\ \A i \in 1 .. Len(panes) : panes'[i] = panes[i]
      /\ panes'[Len(panes) + 1] = added
    BY <1>1, <1>2, AppendProperties DEF ChannelInv, ChannelTypes
<1>4. /\ DOMAIN panes = 1 .. Len(panes) /\ Len(panes) \in Nat
      /\ DOMAIN panes' = 1 .. Len(panes')
    BY <1>3, LenProperties, PlaceFacts DEF ChannelInv
<1>5. ASSUME NEW x \in PaneKey, NEW s \in PaneStatus \cup {"unknown"}, HasPane(x, s)
      PROVE  HasPane(x, s)'
    <2>1. PICK i \in DOMAIN panes : panes[i] = [key |-> x, status |-> s]
        BY <1>5 DEF HasPane
    <2>2. i \in DOMAIN panes' /\ panes'[i] = panes[i]
        BY <1>3, <1>4
    <2> QED
        BY <2>1, <2>2 DEF HasPane
<1>6. ASSUME NEW i \in DOMAIN panes', panes'[i].status # "unknown"
      PROVE  \E j \in DOMAIN panes : panes[j] = panes'[i]
    <2>1. i # Len(panes) + 1
        BY <1>2, <1>3, <1>6
    <2>2. i \in DOMAIN panes
        BY <1>3, <1>4, <2>1
    <2> QED
        BY <1>3, <1>4, <2>2
<1> QED
    BY <1>1, <1>3, <1>5, <1>6, QuietStep

\* services/status-engine.js remove.
LEMMA RemovePaneStep ==
    ASSUME ChannelInv, NEW i \in DOMAIN panes, RemovePaneOf(i)
    PROVE  ChannelInv'
<1>1. /\ panes' = RemoveAt(panes, i) /\ left' = left \cup {panes[i].key}
      /\ UNCHANGED <<inbox, statusMap, link, retrying, started>>
    BY DEF RemovePaneOf, browserVars
<1>2. /\ panes' \in Seq(Pane)
      /\ \A x \in 1 .. Len(panes') : \E j \in 1 .. Len(panes) : panes'[x] = panes[j]
      /\ \A j \in 1 .. Len(panes) : j # i => \E x \in 1 .. Len(panes') : panes'[x] = panes[j]
    <2>1. panes \in Seq(Pane) /\ i \in 1 .. Len(panes)
        BY PlaceFacts DEF ChannelInv, ChannelTypes
    <2>2. /\ RemoveAt(panes, i) \in Seq(Pane)
          /\ \A x \in 1 .. Len(RemoveAt(panes, i)) :
                 \E j \in 1 .. Len(panes) : RemoveAt(panes, i)[x] = panes[j]
          /\ \A j \in 1 .. Len(panes) : j # i =>
                 \E x \in 1 .. Len(RemoveAt(panes, i)) : RemoveAt(panes, i)[x] = panes[j]
        BY <2>1, RemoveFacts, ZenonT(60)
    <2> QED
        BY <1>1, <2>2
<1>3. DOMAIN panes = 1 .. Len(panes) /\ DOMAIN panes' = 1 .. Len(panes')
    BY <1>2, LenProperties, PlaceFacts DEF ChannelInv
<1>4. ASSUME NEW k \in PaneKey \ left', NEW s \in PaneStatus \cup {"unknown"}, HasPane(k, s)
      PROVE  HasPane(k, s)'
    <2>1. PICK j \in DOMAIN panes : panes[j] = [key |-> k, status |-> s]
        BY <1>4 DEF HasPane
    <2>2. j # i
        BY <1>1, <2>1
    <2> QED
        BY <1>2, <1>3, <2>1, <2>2 DEF HasPane
<1> QED
    BY <1>1, <1>2, <1>3, <1>4, QuietStep

\* A status that changes is the last word on its key
\* (services/status-engine.js, routes/status-ws.js).
LEMMA PaneChangesStep ==
    ASSUME ChannelInv, NEW i \in DOMAIN panes, NEW s \in PaneStatus, PaneChanges(i, s)
    PROVE  ChannelInv'
<1> PICK key \in PaneKey : key = panes[i].key
    BY PlaceFacts DEF ChannelInv, Pane
<1> DEFINE message == [type |-> "status", key |-> key, status |-> s]
<1>1. /\ panes' = [panes EXCEPT ![i].status = s]
      /\ UNCHANGED <<link, statusMap, retrying, started, left>>
      /\ link = "open" => inbox' = Append(inbox, message)
      /\ link # "open" => inbox' = inbox
    BY DEF PaneChanges
<1>2. /\ panes[i] \in Pane /\ key \in PaneKey /\ i \in 1 .. Len(panes)
      /\ DOMAIN panes = 1 .. Len(panes)
    BY PlaceFacts DEF ChannelInv, Pane
<1>3. [panes[i] EXCEPT !.status = s] = [key |-> key, status |-> s]
          /\ [key |-> key, status |-> s] \in Pane
    BY <1>2 DEF Pane
<1>4. /\ panes' \in Seq(Pane) /\ DOMAIN panes' = DOMAIN panes
      /\ \A j \in DOMAIN panes : j # i => panes'[j] = panes[j]
      /\ panes'[i] = [key |-> key, status |-> s]
    <2>1. panes' = [panes EXCEPT ![i] = [key |-> key, status |-> s]]
        BY <1>1, <1>3
    <2> QED
        BY <1>2, <1>3, <2>1, ExceptSeq DEF ChannelInv, ChannelTypes
<1>5. message \in Message /\ message.type = "status"
    BY <1>2 DEF Message
<1>6. CASE link # "open"
    <2>1. inbox' = inbox /\ link' # "open"
        BY <1>1, <1>6
    <2> QED
        BY <1>1, <1>4, <2>1 DEF ChannelInv, ChannelTypes, SnapshotIsFirst, ChannelIsKept, Places
<1>7. CASE link = "open"
    <2> DEFINE last == Len(inbox) + 1
    <2>1. /\ inbox' \in Seq(Message) /\ Len(inbox') = last
          /\ \A n \in Places : inbox'[n] = inbox[n]
          /\ inbox'[last] = message
        <3> HIDE DEF message
        <3>1. inbox' = Append(inbox, message)
            BY <1>1, <1>7
        <3> QED
            BY <1>5, <3>1, AppendProperties DEF ChannelInv, ChannelTypes, Places
    <2>2. /\ Len(inbox) \in Nat /\ last \in Nat /\ last > 0
          /\ \A n \in Places : n < last /\ n \in Places' /\ n \in Nat
          /\ last \in Places'
          /\ \A n \in Places' : n # last => n \in Places
        <3>1. Len(inbox) \in Nat
            BY PlaceFacts DEF ChannelInv
        <3> QED
            BY <2>1, <3>1 DEF Places
    <2> HIDE DEF message, last
    <2>3. /\ message.type = "status" /\ message.key = key /\ message.status = s
          /\ \A n \in Places' : inbox'[n] = IF n = last THEN message ELSE inbox[n]
        BY <2>1, <2>2 DEF message
    <2>4. ChannelTypes' /\ ChannelIsKept' /\ link' = "open"
        BY <1>1, <1>4, <1>7, <2>1 DEF ChannelInv, ChannelTypes, ChannelIsKept
    <2>5. SnapshotIsFirst'
        BY <2>2, <2>3, <2>4 DEF ChannelInv, SnapshotIsFirst
    <2>6. ASSUME NEW k, NEW x, k # key, HasPane(k, x)
          PROVE  HasPane(k, x)'
        <3>1. PICK j \in DOMAIN panes : panes[j] = [key |-> k, status |-> x]
            BY <2>6 DEF HasPane
        <3>2. j # i
            BY <2>6, <3>1
        <3> QED
            BY <1>4, <3>1, <3>2 DEF HasPane
    <2>7. HasPane(key, s)'
        BY <1>4 DEF HasPane
    <2>8. \A n, k : n < last /\ Later(n, k) => Later(n, k)'
        BY <2>2, <2>3 DEF Later
    <2>9. \A n : n < last => Later(n, key)'
        BY <2>2, <2>3 DEF Later
    <2>10. SnapshotWaits' = SnapshotWaits
        BY <2>2, <2>3 DEF SnapshotWaits
    <2>11. LastWordIsTrue'
        <3> SUFFICES ASSUME NEW n \in Places', NEW k \in PaneKey \ left', NEW x \in PaneStatus \cup {"unknown"},
                            Tells(inbox'[n], k, x), ~Later(n, k)'
                     PROVE  HasPane(k, x)'
            BY DEF LastWordIsTrue, Tells
        <3>1. CASE n = last
            <4>1. k = key /\ x = s
                BY <2>3, <3>1 DEF Tells
            <4> QED
                BY <2>7, <4>1
        <3>2. CASE n # last
            <4>1. n \in Places /\ n < last /\ inbox'[n] = inbox[n]
                BY <2>2, <2>3, <3>2
            <4>2. k # key /\ ~Later(n, k)
                BY <2>8, <2>9, <4>1
            <4>3. HasPane(k, x)
                BY <1>1, <1>7, <4>1, <4>2 DEF ChannelInv, Current, LastWordIsTrue
            <4> QED
                BY <2>6, <4>2, <4>3
        <3> QED
            BY <3>1, <3>2
    <2>12. MapIsTrue'
        <3> SUFFICES ASSUME NEW k \in DOMAIN statusMap \ left, ~SnapshotWaits, ~Later(0, k)'
                     PROVE  HasPane(k, statusMap[k])'
            BY <1>1, <2>10 DEF MapIsTrue
        <3>1. k # key /\ ~Later(0, k)
            BY <2>2, <2>8, <2>9
        <3>2. HasPane(k, statusMap[k])
            BY <1>7, <3>1 DEF ChannelInv, Current, MapIsTrue
        <3>3. \A x : HasPane(k, x) => HasPane(k, x)'
            BY <2>6, <3>1
        <3> QED
            BY <1>1, <3>2, <3>3 DEF HasPane
    <2>13. NoneIsUnseen'
        <3> SUFFICES ASSUME NEW j \in DOMAIN panes', panes'[j].status # "unknown"
                     PROVE  \/ ~SnapshotWaits' /\ panes'[j].key \in DOMAIN statusMap'
                            \/ \E n \in Places' : \E x \in PaneStatus \cup {"unknown"} :
                                   Tells(inbox'[n], panes'[j].key, x)
            BY DEF NoneIsUnseen, Tells
        <3>1. CASE j = i
            <4>1. Tells(inbox'[last], panes'[j].key, s)
                BY <1>4, <2>2, <2>3, <3>1 DEF Tells
            <4> QED
                BY <2>2, <4>1
        <3>2. CASE j # i
            <4>1. panes'[j] = panes[j] /\ j \in DOMAIN panes
                BY <1>4, <3>2
            <4>2. \/ ~SnapshotWaits /\ panes[j].key \in DOMAIN statusMap
                  \/ \E n \in Places : \E x \in PaneStatus \cup {"unknown"} :
                         Tells(inbox[n], panes[j].key, x)
                BY <1>7, <4>1 DEF ChannelInv, Current, NoneIsUnseen
            <4>3. \A n \in Places : n \in Places' /\ inbox'[n] = inbox[n]
                BY <2>1, <2>2
            <4> QED
                BY <1>1, <2>10, <4>1, <4>2, <4>3
        <3> QED
            BY <3>1, <3>2
    <2> QED
        BY <2>4, <2>5, <2>11, <2>12, <2>13 DEF ChannelInv, Current
<1> QED
    BY <1>6, <1>7

\* Snapshot and subscription are one turn (routes/status-ws.js).
LEMMA AcceptChannelStep ==
    ASSUME ChannelInv, AcceptChannel
    PROVE  ChannelInv'
<1>1. /\ link' = "open" /\ inbox' = <<[type |-> "snapshot", panes |-> panes]>> /\ left' = {}
      /\ retrying' = FALSE /\ UNCHANGED <<panes, statusMap, started>>
    BY DEF AcceptChannel, Snapshot
<1> DEFINE message == [type |-> "snapshot", panes |-> panes]
<1>2. message \in Message
    BY DEF ChannelInv, ChannelTypes, Message
<1>3. message.type = "snapshot" /\ message.panes = panes
    OBVIOUS
<1>4. inbox' = <<message>>
    BY <1>1
<1> HIDE DEF message
<1>5. inbox' \in Seq(Message) /\ Places' = {1} /\ inbox'[1] = message
    BY <1>2, <1>4 DEF Places
<1>6. ChannelTypes' /\ SnapshotIsFirst' /\ ChannelIsKept'
    BY <1>1, <1>5 DEF ChannelInv, ChannelTypes, SnapshotIsFirst, ChannelIsKept
<1>7. panes \in Seq(Pane) /\ \A i \in DOMAIN panes : panes[i].key \in KeysOf(panes)
    BY DEF ChannelInv, ChannelTypes, KeysOf
<1>8. LastWordIsTrue'
    <2> SUFFICES ASSUME NEW k \in PaneKey, NEW s \in PaneStatus \cup {"unknown"}, Tells(message, k, s)
                 PROVE  HasPane(k, s)'
        BY <1>1, <1>5 DEF LastWordIsTrue, Tells
    <2>1. k \in KeysOf(panes) /\ StatusIn(panes, k) = s
        BY <1>3 DEF Tells
    <2>2. \E i \in DOMAIN panes : panes[i] = [key |-> k, status |-> StatusIn(panes, k)]
        BY <1>7, <2>1, StatusInFacts
    <2> QED
        BY <1>1, <2>1, <2>2 DEF HasPane
<1>9. MapIsTrue'
    BY <1>3, <1>5 DEF MapIsTrue, SnapshotWaits
<1>10. NoneIsUnseen'
    <2> SUFFICES ASSUME NEW i \in DOMAIN panes
                 PROVE  \E s \in PaneStatus \cup {"unknown"} : Tells(message, panes[i].key, s)
        BY <1>1, <1>5 DEF NoneIsUnseen, Tells
    <2>1. StatusIn(panes, panes[i].key) \in PaneStatus \cup {"unknown"}
        BY <1>7, StatusInFacts
    <2> QED
        BY <1>3, <1>7, <2>1 DEF Tells
<1> QED
    BY <1>6, <1>8, <1>9, <1>10 DEF ChannelInv, Current

\* The first message moves into the map (frontend/src/lib/stores/status.js).
LEMMA ReceiveStep ==
    ASSUME ChannelInv, Receive
    PROVE  ChannelInv'
<1> PICK m : m = Head(inbox)
    OBVIOUS
<1>1. /\ inbox # <<>> /\ inbox' = Tail(inbox)
      /\ statusMap' = IF m.type = "snapshot" THEN RebuiltMap(m.panes) ELSE WithStatus(m.key, m.status)
      /\ UNCHANGED <<panes, link, retrying, started, left>>
    BY DEF Receive
<1>2. link = "open" /\ LastWordIsTrue /\ MapIsTrue /\ NoneIsUnseen
    BY <1>1 DEF ChannelInv, SnapshotIsFirst, Current
<1>3. /\ m \in Message /\ inbox' \in Seq(Message) /\ Len(inbox') = Len(inbox) - 1
      /\ \A n \in 1 .. Len(inbox') : inbox'[n] = inbox[n + 1]
    BY <1>1, HeadTailProperties DEF ChannelInv, ChannelTypes
<1>4. m = inbox[1]
    BY <1>1 DEF ChannelInv, ChannelTypes
<1>5. /\ Len(inbox) \in Nat /\ 1 \in Places
      /\ \A n \in Places' : n + 1 \in Places /\ n + 1 # 1 /\ inbox'[n] = inbox[n + 1] /\ n \in Nat
      /\ \A n \in Places : n # 1 => n - 1 \in Places' /\ (n - 1) + 1 = n /\ n \in Nat
    <2>1. Len(inbox) \in Nat \ {0}
        BY <1>1, EmptySeq DEF ChannelInv, ChannelTypes
    <2> QED
        BY <1>3, <2>1 DEF Places
<1>6. \A n \in Places : n # 1 => inbox[n].type = "status"
    BY DEF ChannelInv, SnapshotIsFirst
<1>7. \A n \in Places' : inbox'[n].type = "status"
    BY <1>5, <1>6
<1>8. ~SnapshotWaits'
    BY <1>7 DEF SnapshotWaits
<1>9. ChannelTypes' /\ SnapshotIsFirst' /\ ChannelIsKept'
    BY <1>1, <1>2, <1>3, <1>7 DEF ChannelInv, ChannelTypes, SnapshotIsFirst, ChannelIsKept
<1>10. \A k : \A n \in Places' : Later(n + 1, k) => Later(n, k)'
    <2> SUFFICES ASSUME NEW k, NEW n \in Places', Later(n + 1, k)
                 PROVE  Later(n, k)'
        OBVIOUS
    <2>1. PICK x \in Places : x > n + 1 /\ inbox[x].type = "status" /\ inbox[x].key = k
        BY DEF Later
    <2>2. n \in Nat /\ x \in Nat /\ x # 1
        BY <1>5, <2>1, PlaceFacts DEF ChannelInv
    <2>3. x - 1 \in Places' /\ inbox'[x - 1] = inbox[x] /\ x - 1 > n
        BY <1>5, <2>1, <2>2
    <2> QED
        BY <2>1, <2>3 DEF Later
<1>11. \A k : Later(1, k) => Later(0, k)'
    <2> SUFFICES ASSUME NEW k, Later(1, k)
                 PROVE  Later(0, k)'
        OBVIOUS
    <2>1. PICK x \in Places : x > 1 /\ inbox[x].type = "status" /\ inbox[x].key = k
        BY DEF Later
    <2>2. x \in Nat
        BY PlaceFacts DEF ChannelInv
    <2>3. x - 1 \in Places' /\ inbox'[x - 1] = inbox[x] /\ x - 1 > 0
        BY <1>5, <2>1, <2>2
    <2> QED
        BY <2>1, <2>3 DEF Later
<1>12. \A k : Later(0, k) => Later(1, k) \/ (m.type = "status" /\ m.key = k)
    BY <1>4, PlaceFacts DEF ChannelInv, Later
<1>13. LastWordIsTrue'
    <2> SUFFICES ASSUME NEW n \in Places', NEW k \in PaneKey \ left, NEW s \in PaneStatus \cup {"unknown"},
                        Tells(inbox'[n], k, s), ~Later(n, k)'
                 PROVE  HasPane(k, s)'
        BY <1>1 DEF LastWordIsTrue, Tells
    <2>1. n + 1 \in Places /\ Tells(inbox[n + 1], k, s) /\ ~Later(n + 1, k)
        BY <1>5, <1>10
    <2>2. HasPane(k, s)
        BY <1>2, <2>1 DEF LastWordIsTrue
    <2> QED
        BY <1>1, <2>2 DEF HasPane
<1>14. \A k \in DOMAIN statusMap' :
           \/ k \in PaneKey /\ statusMap'[k] \in PaneStatus \cup {"unknown"} /\ Tells(m, k, statusMap'[k])
           \/ /\ m.type = "status" /\ m.key # k
              /\ k \in DOMAIN statusMap /\ statusMap'[k] = statusMap[k]
    <2>1. CASE m.type = "snapshot"
        <3>1. statusMap' = [k \in KeysOf(m.panes) |-> StatusIn(m.panes, k)]
            BY <1>1, <2>1 DEF RebuiltMap
        <3>2. m.panes \in Seq(Pane)
            BY <1>3, <2>1 DEF Message
        <3> QED
            BY <2>1, <3>1, <3>2, StatusInFacts DEF Tells
    <2>2. CASE m.type # "snapshot"
        <3>1. statusMap' = [k \in DOMAIN statusMap \cup {m.key} |->
                               IF k = m.key THEN m.status ELSE statusMap[k]]
            BY <1>1, <2>2 DEF WithStatus
        <3>2. m.type = "status" /\ m.key \in PaneKey /\ m.status \in PaneStatus
            BY <1>3, <2>2 DEF Message
        <3> QED
            BY <3>1, <3>2 DEF Tells
    <2> QED
        BY <2>1, <2>2
<1>15. MapIsTrue'
    <2> SUFFICES ASSUME NEW k \in DOMAIN statusMap' \ left, ~Later(0, k)'
                 PROVE  HasPane(k, statusMap[k])'
        BY <1>1 DEF MapIsTrue
    <2>1. ~Later(1, k)
        BY <1>11
    <2>2. CASE k \in PaneKey /\ statusMap'[k] \in PaneStatus \cup {"unknown"} /\ Tells(m, k, statusMap'[k])
        <3>1. HasPane(k, statusMap'[k])
            BY <1>2, <1>4, <1>5, <2>1, <2>2 DEF LastWordIsTrue
        <3> QED
            BY <1>1, <3>1 DEF HasPane
    <2>3. CASE /\ m.type = "status" /\ m.key # k
               /\ k \in DOMAIN statusMap /\ statusMap'[k] = statusMap[k]
        <3>1. ~Later(0, k) /\ ~SnapshotWaits
            BY <1>4, <1>6, <1>12, <2>1, <2>3 DEF SnapshotWaits
        <3>2. HasPane(k, statusMap'[k])
            BY <1>2, <2>3, <3>1 DEF MapIsTrue
        <3> QED
            BY <1>1, <3>2 DEF HasPane
    <2> QED
        BY <1>14, <2>2, <2>3
<1>16. ASSUME NEW k, NEW s, Tells(m, k, s)
       PROVE  k \in DOMAIN statusMap'
    BY <1>1, <1>16 DEF Tells, RebuiltMap, WithStatus
<1>17. NoneIsUnseen'
    <2> SUFFICES ASSUME NEW i \in DOMAIN panes, panes[i].status # "unknown"
                 PROVE  \/ panes[i].key \in DOMAIN statusMap'
                        \/ \E n \in Places' : \E s \in PaneStatus \cup {"unknown"} :
                               Tells(inbox'[n], panes[i].key, s)
        BY <1>1, <1>8, ZenonT(60) DEF NoneIsUnseen, Tells
    <2>1. CASE ~SnapshotWaits /\ panes[i].key \in DOMAIN statusMap
        <3>1. m.type # "snapshot"
            BY <1>4, <1>5, <2>1 DEF SnapshotWaits
        <3> QED
            BY <1>1, <2>1, <3>1 DEF WithStatus
    <2>2. ASSUME NEW n \in Places, NEW s \in PaneStatus \cup {"unknown"}, Tells(inbox[n], panes[i].key, s)
          PROVE  \/ panes[i].key \in DOMAIN statusMap'
                 \/ \E x \in Places' : Tells(inbox'[x], panes[i].key, s)
        <3>1. CASE n = 1
            BY <1>4, <1>16, <2>2, <3>1
        <3>2. CASE n # 1
            <4>1. n - 1 \in Places' /\ inbox'[n - 1] = inbox[n]
                BY <1>5, <3>2
            <4> QED
                BY <2>2, <4>1
        <3> QED
            BY <3>1, <3>2
    <2> QED
        BY <1>2, <2>1, <2>2 DEF NoneIsUnseen
<1> QED
    BY <1>9, <1>13, <1>15, <1>17 DEF ChannelInv, Current

\* What remains of a channel whose messages and map do not change: it begins, or
\* it ends with what was on its way (frontend/src/lib/stores/status.js).
LEMMA LinkStep ==
    ASSUME ChannelInv, MountApp \/ Reconnect \/ ChannelCloses \/ StopStatusConnection \/ UNCHANGED channelVars
    PROVE  ChannelInv'
<1>1. UNCHANGED <<panes, statusMap, left>>
    BY DEF MountApp, Reconnect, ChannelCloses, StopStatusConnection, StartStatusConnection, channelVars, browserVars
<1>2. \/ inbox' = <<>> /\ link' = "none"
      \/ inbox' = inbox /\ link' = link
      \/ inbox' = inbox /\ link = "none" /\ link' = "connecting"
    BY DEF MountApp, Reconnect, ChannelCloses, StopStatusConnection, StartStatusConnection, channelVars, browserVars
<1>3. ChannelTypes'
    BY <1>1, <1>2, EmptySeq
    DEF ChannelInv, ChannelTypes, MountApp, Reconnect, ChannelCloses, StopStatusConnection, channelVars, browserVars
<1>4. ChannelIsKept'
    BY DEF ChannelInv, ChannelTypes, ChannelIsKept, MountApp, Reconnect, ChannelCloses, StopStatusConnection,
           StartStatusConnection, channelVars, browserVars
<1>5. SnapshotIsFirst'
    <2>1. CASE inbox' = <<>>
        <3>1. Places' = {}
            BY <2>1, EmptySeq DEF Places
        <3> QED
            BY <2>1, <3>1 DEF SnapshotIsFirst
    <2>2. CASE inbox' = inbox
        BY <1>2, <2>2 DEF ChannelInv, SnapshotIsFirst, Places
    <2> QED
        BY <1>2, <2>1, <2>2
<1>6. ASSUME link' = "open"
      PROVE  Current'
    <2>1. inbox' = inbox /\ link = "open"
        BY <1>2, <1>6
    <2>2. LastWordIsTrue' /\ MapIsTrue'
        BY <1>1, <2>1 DEF ChannelInv, Current, LastWordIsTrue, MapIsTrue, Later, HasPane, SnapshotWaits, Places
    <2>3. NoneIsUnseen'
        BY <1>1, <2>1 DEF ChannelInv, Current, NoneIsUnseen, SnapshotWaits, Places
    <2> QED
        BY <2>2, <2>3 DEF Current
<1> QED
    BY <1>3, <1>4, <1>5, <1>6 DEF ChannelInv

\* The invariant is kept by every step.
LEMMA ChannelInvStep == ChannelInv /\ [ChannelNext]_channelVars => ChannelInv'
<1> SUFFICES ASSUME ChannelInv, [ChannelNext]_channelVars
             PROVE  ChannelInv'
    OBVIOUS
<1>1. ASSUME NEW k \in PaneKey, RegisterPane(k)
      PROVE  ChannelInv'
    BY <1>1, RegisterPaneStep
<1>2. ASSUME NEW i \in DOMAIN panes, NEW s \in PaneStatus, PaneChanges(i, s)
      PROVE  ChannelInv'
    BY <1>2, PaneChangesStep
<1>3. ASSUME NEW i \in DOMAIN panes, RemovePaneOf(i)
      PROVE  ChannelInv'
    BY <1>3, RemovePaneStep
<1>4. CASE AcceptChannel
    BY <1>4, AcceptChannelStep
<1>5. CASE Receive
    BY <1>5, ReceiveStep
<1>6. CASE MountApp \/ Reconnect \/ ChannelCloses \/ StopStatusConnection \/ UNCHANGED channelVars
    BY <1>6, LinkStep
<1> QED
    BY <1>1, <1>2, <1>3, <1>4, <1>5, <1>6 DEF ChannelNext

-----------------------------------------------------------------------------
(* The theorem.                                                             *)

\* When every message has arrived, the browser shows for a session the status of
\* one of its terminals, and misses none that has changed; and as long as the App
\* is there, so is the channel or the timer to restore it (routes/status-ws.js,
\* frontend/src/lib/stores/status.js).
THEOREM BrowserKnowsStatuses == ChannelSpec => []StatusMapIsCurrent
<1>1. ChannelInit => ChannelInv
    <2> SUFFICES ASSUME ChannelInit
                 PROVE  ChannelInv
        OBVIOUS
    <2>1. Places = {}
        BY EmptySeq DEF ChannelInit, Places
    <2> QED
        BY <2>1, EmptySeq
        DEF ChannelInit, ChannelInv, ChannelTypes, SnapshotIsFirst, ChannelIsKept
<1>2. ChannelInv => StatusMapIsCurrent
    <2> SUFFICES ASSUME ChannelInv
                 PROVE  StatusMapIsCurrent
        OBVIOUS
    <2>1. started => link # "none" \/ retrying
        BY DEF ChannelInv, ChannelIsKept
    <2>2. ASSUME link = "open", inbox = <<>>
          PROVE  /\ \A k \in DOMAIN statusMap \ left :
                        \E i \in DOMAIN panes : panes[i] = [key |-> k, status |-> statusMap[k]]
                 /\ \A i \in DOMAIN panes :
                        panes[i].status # "unknown" => panes[i].key \in DOMAIN statusMap
        <3>1. Places = {}
            BY <2>2, EmptySeq DEF Places
        <3>2. MapIsTrue /\ NoneIsUnseen
            BY <2>2 DEF ChannelInv, Current
        <3>3. \A k : ~SnapshotWaits /\ ~Later(0, k)
            BY <3>1 DEF SnapshotWaits, Later
        <3>4. \A k \in DOMAIN statusMap \ left : HasPane(k, statusMap[k])
            BY <3>2, <3>3 DEF MapIsTrue
        <3>5. \A i \in DOMAIN panes : panes[i].status # "unknown" => panes[i].key \in DOMAIN statusMap
            BY <3>1, <3>2 DEF NoneIsUnseen
        <3> QED
            BY <3>4, <3>5 DEF HasPane
    <2> QED
        BY <2>1, <2>2 DEF StatusMapIsCurrent
<1> QED
    BY <1>1, <1>2, ChannelInvStep, PTL DEF ChannelSpec

-----------------------------------------------------------------------------
(***************************************************************************)
(* The badges of the tabs (ActivityBadges), for every set of tabs and      *)
(* sessions.                                                               *)
(***************************************************************************)

\* The answers to polls: times of some of the sessions.
Answer == UNION {[online -> Nat] : online \in SUBSET Tab}

ActivityTypes ==
    /\ clock \in Nat
    /\ lastActivity \in [Tab -> Nat]
    /\ sessionsOf \in [Workspace -> SUBSET Tab]
    /\ listed \in SUBSET Workspace
    /\ activeWs \in Workspace \cup {NoWorkspace}
    /\ polls \in Seq(Answer)
    /\ serverActivity \in Answer
    /\ lastSeen \in [Tab -> Nat]
    /\ badges \in SUBSET Workspace
    /\ visited \in [Workspace -> Nat]
    /\ leftAt \in [Workspace -> Nat]
    /\ listed \subseteq DOMAIN heardBefore
    /\ \A w \in DOMAIN heardBefore : heardBefore[w] \in Answer

\* No time is in the future.
TimesArePast ==
    /\ \A k \in Tab : lastActivity[k] <= clock /\ lastSeen[k] <= clock
    /\ \A w \in Workspace : visited[w] <= clock

\* What an answer says of a session, the session did, then or earlier.
AnswersArePast ==
    /\ \A i \in DOMAIN polls : \A k \in DOMAIN polls[i] : polls[i][k] <= lastActivity[k]
    /\ \A k \in DOMAIN serverActivity : serverActivity[k] <= lastActivity[k]

\* Who goes to a workspace sees its sessions.
VisitedIsSeen == \A w \in Workspace : \A k \in sessionsOf[w] : visited[w] <= lastSeen[k]

ActivityInv == ActivityTypes /\ TimesArePast /\ AnswersArePast /\ VisitedIsSeen /\ BadgesMatchOutput

-----------------------------------------------------------------------------
\* What is in an answer, in flight or kept.
LEMMA AnswerFacts ==
    ASSUME NEW a \in Answer
    PROVE  /\ DOMAIN a \subseteq Tab /\ \A k \in DOMAIN a : a[k] \in Nat
           /\ \A k : Known(a, k) \in Nat
<1>1. DOMAIN a \subseteq Tab /\ \A k \in DOMAIN a : a[k] \in Nat
    BY DEF Answer
<1> QED
    BY <1>1 DEF Known

\* What is known of an answer and of the panes it tells of.
LEMMA PollFacts ==
    ASSUME ActivityTypes
    PROVE  /\ DOMAIN polls = 1 .. Len(polls) /\ Len(polls) \in Nat
           /\ \A i \in DOMAIN polls : polls[i] \in Answer
BY LenProperties, ElementOfSeq DEF ActivityTypes

\* An answer that was taken out leaves the others in flight.
LEMMA PollTakenOut ==
    ASSUME ActivityTypes, NEW i \in DOMAIN polls, polls' = RemoveAt(polls, i)
    PROVE  /\ polls' \in Seq(Answer)
           /\ \A j \in DOMAIN polls' : \E k \in DOMAIN polls : polls'[j] = polls[k]
<1>1. polls \in Seq(Answer) /\ i \in 1 .. Len(polls) /\ DOMAIN polls = 1 .. Len(polls)
    BY PollFacts DEF ActivityTypes
<1>2. /\ polls' \in Seq(Answer)
      /\ \A x \in 1 .. Len(polls') : \E j \in 1 .. Len(polls) : j # i /\ polls'[x] = polls[j]
    BY <1>1, RemoveFacts
<1>3. DOMAIN polls' = 1 .. Len(polls')
    BY <1>2, LenProperties
<1> QED
    BY <1>1, <1>2, <1>3

\* The workspace's sessions are seen (stores/activity.js markWorkspaceSeen).
LEMMA MarkSeenFacts ==
    ASSUME ActivityTypes, TimesArePast, VisitedIsSeen, NEW w \in Workspace, MarkWorkspaceSeen(w),
           clock' = clock, sessionsOf' = sessionsOf
    PROVE  /\ lastSeen' \in [Tab -> Nat]
           /\ \A k \in Tab : lastSeen[k] <= lastSeen'[k] /\ lastSeen'[k] <= clock
           /\ badges' = badges \ {w}
           /\ visited' \in [Workspace -> Nat] /\ visited'[w] = clock
           /\ \A v \in Workspace : v # w => visited'[v] = visited[v]
           /\ VisitedIsSeen'
<1>1. /\ lastSeen' = [k \in Tab |-> IF k \in sessionsOf[w] THEN clock ELSE lastSeen[k]]
      /\ badges' = badges \ {w}
      /\ visited' = [visited EXCEPT ![w] = clock]
    BY DEF MarkWorkspaceSeen
<1>2. lastSeen' \in [Tab -> Nat] /\ visited' \in [Workspace -> Nat] /\ visited'[w] = clock
          /\ \A v \in Workspace : v # w => visited'[v] = visited[v]
    BY <1>1 DEF ActivityTypes
<1>3. \A k \in Tab : lastSeen[k] <= lastSeen'[k] /\ lastSeen'[k] <= clock
    BY <1>1 DEF ActivityTypes, TimesArePast
<1>4. ASSUME NEW v \in Workspace, NEW k \in sessionsOf[v]
      PROVE  visited'[v] <= lastSeen'[k]
    <2>1. k \in Tab
        BY DEF ActivityTypes
    <2>2. CASE v = w
        BY <1>1, <1>2, <2>1, <2>2 DEF ActivityTypes
    <2>3. CASE v # w
        <3>1. visited'[v] = visited[v] /\ visited[v] <= lastSeen[k] /\ lastSeen[k] <= lastSeen'[k]
            BY <1>2, <1>3, <2>1, <2>3 DEF VisitedIsSeen
        <3>2. visited[v] \in Nat /\ lastSeen[k] \in Nat /\ lastSeen'[k] \in Nat
            BY <1>2, <2>1 DEF ActivityTypes
        <3> QED
            BY <3>1, <3>2
    <2> QED
        BY <2>2, <2>3
<1> QED
    BY <1>1, <1>2, <1>3, <1>4 DEF VisitedIsSeen

-----------------------------------------------------------------------------
\* Time passes, or a session has output.
LEMMA OutputStep ==
    ASSUME ActivityInv, ClockTicks \/ \E k \in Tab : SessionOutputs(k)
    PROVE  ActivityInv'
<1>1. /\ clock' \in Nat /\ clock <= clock'
      /\ lastActivity' \in [Tab -> Nat]
      /\ \A k \in Tab : lastActivity[k] <= lastActivity'[k] /\ lastActivity'[k] <= clock'
      /\ UNCHANGED <<sessionsOf, polls, serverActivity, lastSeen, badges, visited,
                     listed, activeWs, leftAt, heardBefore>>
    <2>0. /\ clock \in Nat /\ lastActivity \in [Tab -> Nat]
          /\ \A k \in Tab : lastActivity[k] <= clock
        BY DEF ActivityInv, ActivityTypes, TimesArePast
    <2>1. CASE ClockTicks
        BY <2>0, <2>1 DEF ClockTicks, storeVars, pageVars
    <2>2. ASSUME NEW s \in Tab, SessionOutputs(s)
          PROVE  /\ clock' \in Nat /\ clock <= clock'
                 /\ lastActivity' \in [Tab -> Nat]
                 /\ \A k \in Tab : lastActivity[k] <= lastActivity'[k] /\ lastActivity'[k] <= clock'
                 /\ UNCHANGED <<sessionsOf, polls, serverActivity, lastSeen, badges, visited,
                                listed, activeWs, leftAt, heardBefore>>
        BY <2>0, <2>2 DEF SessionOutputs, storeVars, pageVars
    <2> QED
        BY <2>1, <2>2
<1>2. ActivityTypes' /\ VisitedIsSeen'
    BY <1>1 DEF ActivityInv, ActivityTypes, VisitedIsSeen
<1>3. TimesArePast'
    BY <1>1 DEF ActivityInv, ActivityTypes, TimesArePast
<1>4. AnswersArePast'
    <2>1. ASSUME NEW i \in DOMAIN polls, NEW k \in DOMAIN polls[i]
          PROVE  polls[i][k] <= lastActivity'[k]
        BY <1>1, PollFacts, AnswerFacts DEF ActivityInv, ActivityTypes, AnswersArePast
    <2>2. ASSUME NEW k \in DOMAIN serverActivity
          PROVE  serverActivity[k] <= lastActivity'[k]
        BY <1>1, AnswerFacts DEF ActivityInv, ActivityTypes, AnswersArePast
    <2> QED
        BY <1>1, <2>1, <2>2 DEF AnswersArePast
<1>5. BadgesMatchOutput'
    <2>1. ASSUME NEW w \in badges
          PROVE  \E k \in sessionsOf[w] : lastActivity'[k] > visited[w]
        <3>0. w \in Workspace
            BY DEF ActivityInv, ActivityTypes
        <3>1. PICK k \in sessionsOf[w] : lastActivity[k] > visited[w]
            BY <2>1 DEF ActivityInv, BadgesMatchOutput
        <3>2. k \in Tab /\ lastActivity[k] <= lastActivity'[k] /\ lastActivity[k] \in Nat
                  /\ lastActivity'[k] \in Nat /\ visited[w] \in Nat
            BY <1>1, <3>0 DEF ActivityInv, ActivityTypes
        <3> QED
            BY <3>1, <3>2
    <2> QED
        BY <1>1, <2>1 DEF ActivityInv, BadgesMatchOutput
<1> QED
    BY <1>2, <1>3, <1>4, <1>5 DEF ActivityInv

\* The server answers a poll (routes/activity.js).
LEMMA PollAnswerStep ==
    ASSUME ActivityInv, ServerAnswersPoll
    PROVE  ActivityInv'
<1>1. PICK online \in SUBSET Tab : polls' = Append(polls, [k \in online |-> lastActivity[k]])
    BY DEF ServerAnswersPoll
<1>2. UNCHANGED <<clock, lastActivity, sessionsOf, serverActivity, lastSeen, badges, visited,
                  listed, activeWs, leftAt, heardBefore>>
    BY DEF ServerAnswersPoll, storeVars, pageVars
<1> DEFINE a == [k \in online |-> lastActivity[k]]
<1>3. a \in Answer /\ \A k \in DOMAIN a : a[k] <= lastActivity[k]
    BY DEF ActivityInv, ActivityTypes, Answer
<1>4. polls' = Append(polls, a)
    BY <1>1
<1> HIDE DEF a
<1>5. /\ polls' \in Seq(Answer)
      /\ \A j \in 1 .. Len(polls') : polls'[j] = a \/ (j \in 1 .. Len(polls) /\ polls'[j] = polls[j])
    BY <1>3, <1>4, AppendFacts DEF ActivityInv, ActivityTypes
<1>6. DOMAIN polls' = 1 .. Len(polls') /\ DOMAIN polls = 1 .. Len(polls)
    BY <1>5, LenProperties DEF ActivityInv, ActivityTypes
<1>7. ActivityTypes' /\ TimesArePast' /\ VisitedIsSeen' /\ BadgesMatchOutput'
    BY <1>2, <1>5 DEF ActivityInv, ActivityTypes, TimesArePast, VisitedIsSeen, BadgesMatchOutput
<1>8. AnswersArePast'
    BY <1>2, <1>3, <1>5, <1>6 DEF ActivityInv, AnswersArePast
<1> QED
    BY <1>7, <1>8 DEF ActivityInv

\* An answer is lost, or polling begins or ends, with nothing to see.
LEMMA ForgottenStep ==
    ASSUME ActivityInv,
           UNCHANGED <<clock, lastActivity, sessionsOf, serverActivity, lastSeen, badges, visited,
                       listed, activeWs, leftAt, heardBefore>>,
           polls' = polls \/ \E i \in DOMAIN polls : polls' = RemoveAt(polls, i)
    PROVE  ActivityInv'
<1>1. /\ polls' \in Seq(Answer)
      /\ \A j \in DOMAIN polls' : \E k \in DOMAIN polls : polls'[j] = polls[k]
    BY PollTakenOut DEF ActivityInv, ActivityTypes
<1>2. ActivityTypes' /\ TimesArePast' /\ VisitedIsSeen' /\ BadgesMatchOutput'
    BY <1>1 DEF ActivityInv, ActivityTypes, TimesArePast, VisitedIsSeen, BadgesMatchOutput
<1>3. AnswersArePast'
    BY <1>1 DEF ActivityInv, AnswersArePast
<1> QED
    BY <1>2, <1>3 DEF ActivityInv

\* An answer arrives (stores/activity.js pollActivity).
LEMMA PollArrivesStep ==
    ASSUME ActivityInv, NEW i \in DOMAIN polls, PollArrives(i)
    PROVE  ActivityInv'
<1>1. /\ serverActivity' = polls[i]
      /\ badges' = badges \cup
            {w \in listed \ {activeWs} : sessionsOf[w] \cap ChangedSessions(polls[i]) # {}}
      /\ polls' = RemoveAt(polls, i)
      /\ UNCHANGED <<clock, lastActivity, sessionsOf, lastSeen, visited,
                     listed, activeWs, leftAt, heardBefore>>
    BY DEF PollArrives, pageVars
<1>2. /\ polls' \in Seq(Answer)
      /\ \A j \in DOMAIN polls' : \E k \in DOMAIN polls : polls'[j] = polls[k]
    BY <1>1, PollTakenOut DEF ActivityInv
<1>3. serverActivity' \in Answer
    BY <1>1, PollFacts DEF ActivityInv
<1>4. ActivityTypes' /\ TimesArePast' /\ VisitedIsSeen'
    BY <1>1, <1>2, <1>3 DEF ActivityInv, ActivityTypes, TimesArePast, VisitedIsSeen
<1>5. AnswersArePast'
    BY <1>1, <1>2 DEF ActivityInv, AnswersArePast
<1>6. ASSUME NEW k \in DOMAIN serverActivity'
      PROVE  /\ k \in Tab /\ serverActivity'[k] \in Nat /\ serverActivity'[k] <= lastActivity[k]
             /\ lastActivity[k] \in Nat /\ lastSeen[k] \in Nat
             /\ serverActivity'[k] = polls[i][k] /\ k \in DOMAIN polls[i]
    BY <1>1, <1>3, <1>5, AnswerFacts DEF ActivityInv, ActivityTypes, AnswersArePast
<1>7. ASSUME NEW w \in badges'
      PROVE  \E k \in sessionsOf[w] : lastActivity[k] > visited[w]
    <2>1. CASE w \in badges
        BY <2>1 DEF ActivityInv, BadgesMatchOutput
    <2>2. CASE w \notin badges
        <3>1. PICK k \in sessionsOf[w] : k \in ChangedSessions(polls[i])
            BY <1>1, <1>7, <2>2
        <3>2. k \in DOMAIN serverActivity' /\ polls[i][k] > lastSeen[k]
            BY <1>1, <3>1 DEF ChangedSessions
        <3>3. visited[w] <= lastSeen[k] /\ visited[w] \in Nat
            BY <1>4 DEF ActivityInv, ActivityTypes, VisitedIsSeen
        <3> QED
            BY <1>6, <3>2, <3>3
    <2> QED
        BY <2>1, <2>2
<1>8. ASSUME NEW w \in listed \ {activeWs},
             NEW k \in sessionsOf[w] \cap DOMAIN serverActivity',
             serverActivity'[k] > leftAt[w], serverActivity'[k] > lastSeen[k],
             serverActivity'[k] > Known(heardBefore[w], k)
      PROVE  w \in badges'
    <2>0. w \in Workspace /\ Known(heardBefore[w], k) \in Nat
        BY AnswerFacts DEF ActivityInv, ActivityTypes
    <2>1. /\ k \in Tab /\ polls[i][k] \in Nat /\ lastSeen[k] \in Nat /\ leftAt[w] \in Nat
          /\ serverActivity'[k] = polls[i][k] /\ k \in DOMAIN polls[i]
        BY <1>6, <2>0 DEF ActivityInv, ActivityTypes
    <2>2. CASE polls[i][k] > Known(serverActivity, k)
        <3>1. k \in ChangedSessions(polls[i])
            BY <1>8, <2>1, <2>2 DEF ChangedSessions
        <3> QED
            BY <1>1, <1>8, <3>1
    <2>3. CASE ~(polls[i][k] > Known(serverActivity, k))
        <3>1. k \in DOMAIN serverActivity /\ Known(serverActivity, k) = serverActivity[k]
            BY <1>8, <2>1, <2>3 DEF Known
        <3>2. serverActivity[k] \in Nat
            BY <3>1, AnswerFacts DEF ActivityInv, ActivityTypes
        <3>3. /\ serverActivity[k] > leftAt[w] /\ serverActivity[k] > lastSeen[k]
              /\ serverActivity[k] > Known(heardBefore[w], k)
            BY <1>8, <2>0, <2>1, <2>3, <3>1, <3>2
        <3>4. w \in badges
            BY <1>8, <3>1, <3>3 DEF ActivityInv, BadgesMatchOutput
        <3> QED
            BY <1>1, <3>4
    <2> QED
        BY <2>2, <2>3
<1>9. BadgesMatchOutput'
    BY <1>1, <1>7, <1>8 DEF BadgesMatchOutput
<1> QED
    BY <1>4, <1>5, <1>9 DEF ActivityInv

\* What was active is left, or was none (App.svelte switchWorkspace, restoreFromHash,
\* stores/workspaces.js createWorkspace).
LEMMA LeavingFacts ==
    ASSUME ActivityTypes, NEW w \in Workspace, MakeActive(w)
    PROVE  /\ activeWs' = w /\ leftAt' \in [Workspace -> Nat]
           /\ \A v \in Workspace \ {w} : \/ v # activeWs /\ leftAt'[v] = leftAt[v]
                                         \/ leftAt'[v] = clock
<1>1. CASE activeWs = NoWorkspace
    BY <1>1, ActivityAssumption DEF MakeActive, ActivityTypes
<1>2. CASE activeWs # NoWorkspace
    <2>1. activeWs \in Workspace /\ leftAt' = [leftAt EXCEPT ![activeWs] = clock] /\ activeWs' = w
        BY <1>2 DEF MakeActive, ActivityTypes
    <2> QED
        BY <2>1 DEF ActivityTypes
<1> QED
    BY <1>1, <1>2

\* The user goes to a workspace, or polling starts in one (App.svelte
\* switchWorkspace, stores/activity.js startActivityPolling).
LEMMA SeenStep ==
    ASSUME ActivityInv, NEW w \in Workspace,
           \/ SwitchWorkspace(w)
           \/ StartActivityPolling /\ activeWs = w /\ w \in listed
    PROVE  ActivityInv'
<1>1. /\ MarkWorkspaceSeen(w) /\ activeWs' = w
      /\ UNCHANGED <<clock, lastActivity, sessionsOf, polls, serverActivity, listed, heardBefore>>
      /\ \/ activeWs = w /\ leftAt' = leftAt
         \/ MakeActive(w)
    BY DEF SwitchWorkspace, StartActivityPolling, MakeActive, pageVars
<1>2. /\ lastSeen' \in [Tab -> Nat]
      /\ \A k \in Tab : lastSeen[k] <= lastSeen'[k] /\ lastSeen'[k] <= clock
      /\ badges' = badges \ {w}
      /\ visited' \in [Workspace -> Nat] /\ visited'[w] = clock
      /\ \A v \in Workspace : v # w => visited'[v] = visited[v]
      /\ VisitedIsSeen'
    BY <1>1, MarkSeenFacts DEF ActivityInv
<1>3. leftAt' \in [Workspace -> Nat]
          /\ \A v \in Workspace : v # w => \/ v # activeWs /\ leftAt'[v] = leftAt[v]
                                         \/ leftAt'[v] = clock
    BY <1>1, LeavingFacts DEF ActivityInv, ActivityTypes
<1>4. ActivityTypes' /\ AnswersArePast'
    BY <1>1, <1>2, <1>3 DEF ActivityInv, ActivityTypes, AnswersArePast
<1>5. TimesArePast'
    <2>0. clock \in Nat /\ \A v \in Workspace : visited[v] <= clock
        BY DEF ActivityInv, ActivityTypes, TimesArePast
    <2>1. \A v \in Workspace : visited'[v] <= clock
        BY <1>2, <2>0
    <2> QED
        BY <1>1, <1>2, <2>1 DEF ActivityInv, TimesArePast
<1>6. ASSUME NEW v \in badges'
      PROVE  \E k \in sessionsOf[v] : lastActivity[k] > visited'[v]
    <2>1. v \in badges /\ v \in Workspace /\ v # w
        BY <1>2 DEF ActivityInv, ActivityTypes
    <2> QED
        BY <1>2, <2>1 DEF ActivityInv, BadgesMatchOutput
<1>7. ASSUME NEW v \in listed \ {w},
             NEW k \in sessionsOf[v] \cap DOMAIN serverActivity,
             serverActivity[k] > leftAt'[v], serverActivity[k] > lastSeen'[k],
             serverActivity[k] > Known(heardBefore[v], k)
      PROVE  v \in badges'
    <2>0. v \in Workspace
        BY DEF ActivityInv, ActivityTypes
    <2>1. /\ k \in Tab /\ serverActivity[k] \in Nat /\ serverActivity[k] <= lastActivity[k]
          /\ lastActivity[k] \in Nat /\ lastActivity[k] <= clock /\ clock \in Nat
          /\ lastSeen[k] \in Nat /\ lastSeen'[k] \in Nat
        BY <1>2, AnswerFacts DEF ActivityInv, ActivityTypes, AnswersArePast, TimesArePast
    <2>2. leftAt'[v] # clock
        BY <1>7, <2>1
    <2>3. v # activeWs /\ serverActivity[k] > leftAt[v]
        BY <1>3, <1>7, <2>0, <2>2
    <2>4. serverActivity[k] > lastSeen[k]
        BY <1>2, <1>7, <2>1
    <2> QED
        BY <1>2, <1>7, <2>3, <2>4 DEF ActivityInv, BadgesMatchOutput
<1>8. BadgesMatchOutput'
    BY <1>1, <1>6, <1>7 DEF BadgesMatchOutput
<1> QED
    BY <1>2, <1>4, <1>5, <1>8 DEF ActivityInv

\* The list of the page stays, or becomes another (stores/workspaces.js loadWorkspaces,
\* createWorkspace, deleteWorkspace; App.svelte restoreFromHash): what has been on it
\* and in the background stays so, and what comes on it has missed what was heard.
LEMMA PageStep ==
    ASSUME ActivityInv,
           UNCHANGED <<clock, lastActivity, sessionsOf, polls, serverActivity, lastSeen, badges, visited>>,
           \/ UNCHANGED <<listed, heardBefore>>
           \/ \E S \in SUBSET Workspace : ListBecomes(S),
           activeWs' \in Workspace \cup {NoWorkspace},
           leftAt' \in [Workspace -> Nat],
           \A v \in listed \cap listed' : v # activeWs' =>
               \/ v # activeWs /\ leftAt'[v] = leftAt[v]
               \/ leftAt'[v] = clock
    PROVE  ActivityInv'
<1>1. /\ listed' \in SUBSET Workspace
      /\ listed' \subseteq DOMAIN heardBefore'
      /\ \A w \in DOMAIN heardBefore' : heardBefore'[w] \in Answer
      /\ \A w \in listed' : IF w \in listed THEN heardBefore'[w] = heardBefore[w]
                            ELSE heardBefore'[w] = serverActivity
    <2>1. CASE UNCHANGED <<listed, heardBefore>>
        BY <2>1 DEF ActivityInv, ActivityTypes
    <2>2. ASSUME NEW S \in SUBSET Workspace, ListBecomes(S)
          PROVE  /\ listed' \in SUBSET Workspace
                 /\ listed' \subseteq DOMAIN heardBefore'
                 /\ \A w \in DOMAIN heardBefore' : heardBefore'[w] \in Answer
                 /\ \A w \in listed' : IF w \in listed THEN heardBefore'[w] = heardBefore[w]
                                       ELSE heardBefore'[w] = serverActivity
        <3>1. <<>> \in Answer
            <4>1. <<>> \in [{} -> Nat]
                OBVIOUS
            <4> QED
                BY <4>1 DEF Answer
        <3>2. /\ listed' = S
              /\ heardBefore' = [w \in S \cup DOMAIN heardBefore |->
                                    IF w \notin S THEN <<>>
                                    ELSE IF w \in listed THEN heardBefore[w] ELSE serverActivity]
            BY <2>2 DEF ListBecomes
        <3>3. listed \subseteq DOMAIN heardBefore /\ serverActivity \in Answer
                  /\ \A w \in DOMAIN heardBefore : heardBefore[w] \in Answer
            BY DEF ActivityInv, ActivityTypes
        <3> QED
            BY <3>1, <3>2, <3>3
    <2> QED
        BY <2>1, <2>2
<1>2. ActivityTypes' /\ TimesArePast' /\ AnswersArePast' /\ VisitedIsSeen'
    BY <1>1 DEF ActivityInv, ActivityTypes, TimesArePast, AnswersArePast, VisitedIsSeen
<1>3. ASSUME NEW v \in listed' \ {activeWs'},
             NEW k \in sessionsOf[v] \cap DOMAIN serverActivity,
             serverActivity[k] > leftAt'[v], serverActivity[k] > lastSeen[k],
             serverActivity[k] > Known(heardBefore'[v], k)
      PROVE  v \in badges
    <2>1. /\ k \in Tab /\ serverActivity[k] \in Nat /\ serverActivity[k] <= lastActivity[k]
          /\ lastActivity[k] \in Nat /\ lastActivity[k] <= clock /\ clock \in Nat
        BY <1>1, AnswerFacts DEF ActivityInv, ActivityTypes, AnswersArePast, TimesArePast
    <2>2. v \in listed
        <3>1. v \notin listed => Known(heardBefore'[v], k) = serverActivity[k]
            BY <1>1 DEF Known
        <3> QED
            BY <1>3, <2>1, <3>1
    <2>3. heardBefore'[v] = heardBefore[v] /\ leftAt'[v] # clock
        BY <1>1, <1>3, <2>1, <2>2
    <2>4. v # activeWs /\ leftAt'[v] = leftAt[v]
        BY <2>2, <2>3
    <2> QED
        BY <1>3, <2>2, <2>3, <2>4 DEF ActivityInv, BadgesMatchOutput
<1>4. BadgesMatchOutput'
    <2>1. \A w \in badges' : \E k \in sessionsOf'[w] : lastActivity'[k] > visited'[w]
        BY DEF ActivityInv, BadgesMatchOutput
    <2> QED
        BY <1>3, <2>1 DEF BadgesMatchOutput
<1> QED
    BY <1>2, <1>4 DEF ActivityInv

\* Every step.
LEMMA ActivityInvStep == ActivityInv /\ [ActivityNext]_activityVars => ActivityInv'
<1> SUFFICES ASSUME ActivityInv, [ActivityNext]_activityVars
             PROVE  ActivityInv'
    OBVIOUS
<1>0. /\ listed \in SUBSET Workspace /\ NoWorkspace \notin Workspace
      /\ activeWs \in Workspace \cup {NoWorkspace} /\ leftAt \in [Workspace -> Nat]
    BY ActivityAssumption DEF ActivityInv, ActivityTypes
<1>1. ASSUME NEW i \in DOMAIN polls, PollFails(i)
      PROVE  ActivityInv'
    BY <1>1, ForgottenStep DEF PollFails, storeVars, pageVars
<1>2. CASE StartActivityPolling
    <2>1. CASE activeWs \in listed
        BY <1>0, <1>2, <2>1, SeenStep
    <2>2. CASE activeWs \notin listed
        <3>1. UNCHANGED <<clock, lastActivity, sessionsOf, polls, serverActivity, lastSeen, badges,
                          visited, listed, activeWs, leftAt, heardBefore>>
            BY <1>2, <2>2 DEF StartActivityPolling, pageVars
        <3> QED
            BY <3>1, ForgottenStep
    <2> QED
        BY <2>1, <2>2
<1>3. CASE StopActivityPolling \/ LoadWorkspacesFails \/ UNCHANGED activityVars
    <2>1. UNCHANGED <<clock, lastActivity, sessionsOf, polls, serverActivity, lastSeen, badges,
                      visited, listed, activeWs, leftAt, heardBefore>>
        BY <1>3 DEF StopActivityPolling, LoadWorkspacesFails, activityVars, storeVars, pageVars
    <2> QED
        BY <2>1, ForgottenStep
<1>4. ASSUME NEW rows \in SUBSET Workspace, LoadWorkspaces(rows)
      PROVE  ActivityInv'
    <2>1. /\ UNCHANGED <<clock, lastActivity, sessionsOf, polls, serverActivity, lastSeen, badges,
                         visited, leftAt>>
          /\ ListBecomes(rows)
          /\ activeWs' = activeWs \/ (activeWs = NoWorkspace /\ activeWs' \in rows)
        BY <1>4 DEF LoadWorkspaces, storeVars
    <2>2. \A v \in listed \cap listed' : v # activeWs' => v # activeWs /\ leftAt'[v] = leftAt[v]
        BY <1>0, <2>1
    <2>3. activeWs' \in Workspace \cup {NoWorkspace} /\ leftAt' \in [Workspace -> Nat]
        BY <1>0, <2>1
    <2>4. UNCHANGED <<listed, heardBefore>> \/ \E S \in SUBSET Workspace : ListBecomes(S)
        BY <2>1
    <2> QED
        BY <2>1, <2>2, <2>3, <2>4, PageStep
<1>5. CASE RestoreFromHash
    <2>1. /\ UNCHANGED <<clock, lastActivity, sessionsOf, polls, serverActivity, lastSeen, badges,
                         visited, listed, heardBefore>>
          /\ UNCHANGED <<activeWs, leftAt>> \/ \E w \in listed \ {activeWs} : MakeActive(w)
        BY <1>5 DEF RestoreFromHash, storeVars
    <2>2. CASE UNCHANGED <<activeWs, leftAt>>
        <3>1. /\ \A v \in listed \cap listed' : v # activeWs' => v # activeWs /\ leftAt'[v] = leftAt[v]
              /\ activeWs' \in Workspace \cup {NoWorkspace} /\ leftAt' \in [Workspace -> Nat]
            BY <1>0, <2>2
        <3> QED
            BY <2>1, <3>1, PageStep
    <2>3. ASSUME NEW w \in listed, MakeActive(w)
          PROVE  ActivityInv'
        <3>1. /\ w \in Workspace /\ activeWs' = w /\ leftAt' \in [Workspace -> Nat]
              /\ \A v \in Workspace \ {w} : \/ v # activeWs /\ leftAt'[v] = leftAt[v]
                                            \/ leftAt'[v] = clock
            BY <1>0, <2>3, LeavingFacts DEF ActivityInv
        <3> QED
            BY <1>0, <2>1, <3>1, PageStep
    <2> QED
        BY <2>1, <2>2, <2>3
<1>6. ASSUME NEW w \in Workspace, CreateWorkspace(w)
      PROVE  ActivityInv'
    <2>1. /\ UNCHANGED <<clock, lastActivity, sessionsOf, polls, serverActivity, lastSeen, badges,
                         visited>>
          /\ ListBecomes(listed \cup {w}) /\ MakeActive(w)
        BY <1>6 DEF CreateWorkspace, storeVars
    <2>2. /\ activeWs' = w /\ leftAt' \in [Workspace -> Nat]
          /\ \A v \in Workspace \ {w} : \/ v # activeWs /\ leftAt'[v] = leftAt[v]
                                        \/ leftAt'[v] = clock
        BY <2>1, LeavingFacts DEF ActivityInv
    <2>3. listed \cup {w} \in SUBSET Workspace
        BY <1>0
    <2> QED
        BY <1>0, <2>1, <2>2, <2>3, PageStep
<1>7. ASSUME NEW w \in Workspace, DeleteWorkspace(w)
      PROVE  ActivityInv'
    <2>1. /\ UNCHANGED <<clock, lastActivity, sessionsOf, polls, serverActivity, lastSeen, badges,
                         visited, leftAt>>
          /\ ListBecomes(listed \ {w})
          /\ activeWs' \in listed \cup {NoWorkspace, activeWs}
          /\ activeWs # w => activeWs' = activeWs
        BY <1>7 DEF DeleteWorkspace, storeVars
    <2>2. listed' = listed \ {w}
        BY <2>1 DEF ListBecomes
    <2>3. \A v \in listed \cap listed' : v # activeWs' => v # activeWs /\ leftAt'[v] = leftAt[v]
        BY <2>1, <2>2
    <2>4. /\ activeWs' \in Workspace \cup {NoWorkspace} /\ leftAt' \in [Workspace -> Nat]
          /\ listed \ {w} \in SUBSET Workspace
        BY <1>0, <2>1
    <2> QED
        BY <2>1, <2>3, <2>4, PageStep
<1> QED
    BY <1>1, <1>2, <1>3, <1>4, <1>5, <1>6, <1>7, OutputStep, PollAnswerStep, PollArrivesStep, SeenStep
    DEF ActivityNext

\* The page was just loaded.
LEMMA ActivityInvInit == ActivityInit => ActivityInv
<1> SUFFICES ASSUME ActivityInit
             PROVE  ActivityInv
    OBVIOUS
<1>1. DOMAIN serverActivity = {} /\ serverActivity \in Answer /\ DOMAIN polls = {}
          /\ polls \in Seq(Answer) /\ DOMAIN heardBefore = {}
    <2>1. serverActivity = <<>> /\ polls = <<>> /\ heardBefore = <<>>
        BY DEF ActivityInit
    <2>2. DOMAIN serverActivity = {} /\ <<>> \in [{} -> Nat]
        BY <2>1
    <2>3. serverActivity \in Answer
        BY <2>1, <2>2 DEF Answer
    <2> QED
        BY <2>1, <2>2, <2>3, EmptySeq
<1>2. ActivityTypes
    BY <1>1 DEF ActivityInit, ActivityTypes
<1> QED
    BY <1>1, <1>2 DEF ActivityInit, ActivityInv, TimesArePast, AnswersArePast, VisitedIsSeen,
                      BadgesMatchOutput, ActivityTypes

\* A badge is for output since the user last went to the workspace, and output that the
\* store has heard of since a workspace was on the list is badged unless the user was there
\* or saw it, in whichever order the answers to polls come (stores/activity.js).
THEOREM BadgesFollowOutput == ActivitySpec => []BadgesMatchOutput
<1>1. ActivityInv => BadgesMatchOutput
    BY DEF ActivityInv
<1> QED
    BY <1>1, ActivityInvInit, ActivityInvStep, PTL DEF ActivitySpec

-----------------------------------------------------------------------------
(***************************************************************************)
(* The answers to listings of sessions (SessionListing), for every finite  *)
(* set of names and every limit of concurrent calls.                       *)
(***************************************************************************)

\* What a mapper knows of a session was true of it.
KnownWasTrue(name, known) ==
    /\ known = [type |-> known.type, workingDir |-> known.workingDir, repoName |-> known.repoName]
    /\ known.type \notin {NotAsked, Terminal} =>
          \E p \in wasTrue : p[1] = name /\ known.type = DetectedType(p[2].commands)
    /\ known.workingDir \notin {NotAsked, Unknown} =>
          \E p \in wasTrue : p[1] = name /\ known.workingDir = p[2].folder
    /\ known.repoName \notin {NotAsked, Unknown} =>
          \/ known.repoName = BaseName(known.workingDir)
          \/ known.repoName = RepoName /\ known.workingDir \in InRepo
    /\ known.repoName # NotAsked => known.workingDir # NotAsked

ListingTypes ==
    /\ DOMAIN tmuxSessions \subseteq ListedName
    /\ listingPhase \in {"idle", "asked", "enriching", "done"}
    /\ parsedNames \in Seq(ListedName)
    /\ nextIndex \in 1 .. Len(parsedNames) + 1
    /\ DOMAIN enriched = 1 .. Len(parsedNames)

\* What is so now is part of what was so.
NowIsRecorded ==
    listingPhase \in {"asked", "enriching"} =>
        \A n \in DOMAIN tmuxSessions : <<n, tmuxSessions[n]>> \in wasTrue

MappersAreInOrder ==
    /\ DOMAIN underWay \subseteq 1 .. nextIndex - 1
    /\ Cardinality(DOMAIN underWay) <= EnrichConcurrency
    /\ listingPhase # "enriching" => DOMAIN underWay = {}
    /\ listingPhase \in {"idle", "asked"} => parsedNames = <<>>
    /\ listingPhase = "done" => nextIndex = Len(parsedNames) + 1
    /\ \A i \in DOMAIN underWay : KnownWasTrue(parsedNames[i], underWay[i])

ResultsWereTrue ==
    \A i \in 1 .. nextIndex - 1 : i \notin DOMAIN underWay =>
        enriched[i].name = parsedNames[i] /\ EntryWasTrue(enriched[i])

ListingInv == ListingTypes /\ NowIsRecorded /\ MappersAreInOrder /\ ResultsWereTrue

-----------------------------------------------------------------------------
\* The rows are read once: what a row of commands means stays the same.
LEMMA TypesStay ==
    ASSUME typeMap' = typeMap, NEW c
    PROVE  DetectedType(c)' = DetectedType(c)
BY DEF DetectedType, SelectInSeq, TypeOfCommand, TYPE_MAP

\* An entry is one of what a mapper that knows all has found.
LEMMA EntryFacts ==
    ASSUME NEW name, NEW known, KnownWasTrue(name, known),
           NotAsked \notin {known.type, known.workingDir, known.repoName}
    PROVE  EntryWasTrue([name |-> name, type |-> known.type,
                         workingDir |-> known.workingDir, repoName |-> known.repoName])
BY DEF KnownWasTrue, EntryWasTrue

\* What was true stays so when more is recorded.
LEMMA TruthGrows ==
    ASSUME typeMap' = typeMap, wasTrue \subseteq wasTrue'
    PROVE  /\ \A name, known : KnownWasTrue(name, known) => KnownWasTrue(name, known)'
           /\ \A entry : EntryWasTrue(entry) => EntryWasTrue(entry)'
<1>1. ASSUME NEW name, NEW known, KnownWasTrue(name, known)
      PROVE  KnownWasTrue(name, known)'
    BY <1>1, TypesStay DEF KnownWasTrue
<1>2. ASSUME NEW entry, EntryWasTrue(entry)
      PROVE  EntryWasTrue(entry)'
    BY <1>2, TypesStay DEF EntryWasTrue
<1> QED
    BY <1>1, <1>2

\* The step of a mapper whose question was answered or failed.
LEMMA ProgressStep ==
    ASSUME ListingInv, NEW i \in DOMAIN underWay, NEW known,
           KnownWasTrue(parsedNames[i], known), Progress(i, known)
    PROVE  ListingInv'
<1>1. /\ listingPhase = "enriching"
      /\ UNCHANGED <<hostWorldVars, typeMap, parsedNames>>
      /\ Len(parsedNames) \in Nat /\ nextIndex \in 1 .. Len(parsedNames) + 1
      /\ i \in 1 .. nextIndex - 1
      /\ DOMAIN enriched = 1 .. Len(parsedNames)
    <2>1. Len(parsedNames) \in Nat
        BY LenProperties DEF ListingInv, ListingTypes
    <2> QED
        BY <2>1 DEF ListingInv, ListingTypes, MappersAreInOrder, Progress
<1>2. /\ \A n, k : KnownWasTrue(n, k) => KnownWasTrue(n, k)'
      /\ \A e : EntryWasTrue(e) => EntryWasTrue(e)'
    BY <1>1, TruthGrows DEF hostWorldVars
<1>3. NowIsRecorded'
    BY <1>1 DEF ListingInv, NowIsRecorded, hostWorldVars
<1>4. IsFiniteSet(DOMAIN underWay)
    <2>1. DOMAIN underWay \subseteq 1 .. nextIndex - 1
        BY DEF ListingInv, MappersAreInOrder
    <2>2. IsFiniteSet(1 .. nextIndex - 1)
        BY <1>1, FS_Interval
    <2> QED
        BY <2>1, <2>2, FS_Subset
<1>5. CASE NotAsked \in {known.type, known.workingDir, known.repoName}
    <2>1. /\ underWay' = [underWay EXCEPT ![i] = known]
          /\ UNCHANGED <<nextIndex, enriched, listingPhase, listingStatus>>
        BY <1>5 DEF Progress
    <2>2. DOMAIN underWay' = DOMAIN underWay
        BY <2>1
    <2>3. ListingTypes'
        BY <1>1, <2>1 DEF ListingInv, ListingTypes, hostWorldVars
    <2>4. \A j \in DOMAIN underWay' : KnownWasTrue(parsedNames[j], underWay'[j])
        BY <2>1, <2>2 DEF ListingInv, MappersAreInOrder
    <2>5. MappersAreInOrder'
        <3>1. (\A j \in DOMAIN underWay : KnownWasTrue(parsedNames[j], underWay[j]))'
            BY <1>1, <2>4, TypesStay DEF KnownWasTrue, hostWorldVars
        <3> QED
            BY <1>1, <2>1, <2>2, <3>1 DEF ListingInv, MappersAreInOrder
    <2>6. ResultsWereTrue'
        BY <1>1, <1>2, <2>1, <2>2 DEF ListingInv, ResultsWereTrue
    <2> QED
        BY <1>3, <2>3, <2>5, <2>6 DEF ListingInv
<1>6. CASE NotAsked \notin {known.type, known.workingDir, known.repoName}
    <2> DEFINE entry == [name |-> parsedNames[i], type |-> known.type,
                         workingDir |-> known.workingDir, repoName |-> known.repoName]
               others == DOMAIN underWay \ {i}
    <2>1. EntryWasTrue(entry)
        BY <1>6, EntryFacts
    <2>2. entry.name = parsedNames[i]
        OBVIOUS
    <2>3. enriched' = [enriched EXCEPT ![i] = entry]
        BY <1>6 DEF Progress, Stored
    <2> HIDE DEF entry
    <2>4. /\ DOMAIN enriched' = 1 .. Len(parsedNames')
          /\ enriched'[i].name = parsedNames'[i] /\ EntryWasTrue(enriched'[i])
          /\ \A j \in 1 .. Len(parsedNames) : j # i => enriched'[j] = enriched[j]
        BY <1>1, <2>1, <2>2, <2>3
    <2>5. /\ i \notin others /\ others \subseteq DOMAIN underWay
          /\ IsFiniteSet(others) /\ Cardinality(others) = Cardinality(DOMAIN underWay) - 1
          /\ Cardinality(others) \in Nat
        BY <1>4, FS_RemoveElement, FS_CardinalityType
    <2>6. /\ nextIndex' \in 1 .. Len(parsedNames') + 1 /\ nextIndex <= nextIndex'
          /\ DOMAIN underWay' \subseteq 1 .. nextIndex' - 1
          /\ Cardinality(DOMAIN underWay') <= Cardinality(DOMAIN underWay)
          /\ \A j \in DOMAIN underWay' : KnownWasTrue(parsedNames[j], underWay'[j])
          /\ \A j \in 1 .. nextIndex' - 1 : j \notin DOMAIN underWay' =>
                j = i \/ (j \in 1 .. nextIndex - 1 /\ j \notin DOMAIN underWay)
          /\ DOMAIN underWay' = {} => nextIndex' = Len(parsedNames') + 1
        <3>1. CASE nextIndex <= Len(parsedNames)
            <4>1. /\ underWay' = [j \in others \cup {nextIndex} |->
                                     IF j = nextIndex THEN NothingKnown ELSE underWay[j]]
                  /\ nextIndex' = nextIndex + 1
                BY <1>6, <3>1 DEF Progress
            <4>2. nextIndex \notin DOMAIN underWay
                BY <1>1 DEF ListingInv, MappersAreInOrder
            <4>3. /\ DOMAIN underWay' = others \cup {nextIndex}
                  /\ \A j \in others : underWay'[j] = underWay[j]
                  /\ underWay'[nextIndex] = NothingKnown
                BY <4>1, <4>2
            <4>4. Cardinality(DOMAIN underWay') = Cardinality(DOMAIN underWay)
                <5>1. nextIndex \notin others
                    BY <2>5, <4>2
                <5>2. Cardinality(others \cup {nextIndex}) = Cardinality(others) + 1
                    BY <2>5, <5>1, FS_AddElement
                <5>3. Cardinality(DOMAIN underWay) \in Nat
                    BY <1>4, FS_CardinalityType
                <5> QED
                    BY <2>5, <4>3, <5>2, <5>3
            <4>5. KnownWasTrue(parsedNames[nextIndex], NothingKnown)
                BY DEF KnownWasTrue, NothingKnown
            <4>6. \A j \in DOMAIN underWay' : KnownWasTrue(parsedNames[j], underWay'[j])
                BY <2>5, <4>3, <4>5 DEF ListingInv, MappersAreInOrder
            <4>7. DOMAIN underWay \subseteq 1 .. nextIndex - 1
                BY DEF ListingInv, MappersAreInOrder
            <4>8. Cardinality(DOMAIN underWay') <= Cardinality(DOMAIN underWay)
                BY <1>4, <4>4, FS_CardinalityType
            <4>9. /\ nextIndex' \in 1 .. Len(parsedNames') + 1 /\ nextIndex <= nextIndex'
                  /\ nextIndex' - 1 = nextIndex /\ 1 .. nextIndex - 1 \subseteq 1 .. nextIndex
                  /\ nextIndex \in 1 .. nextIndex
                  /\ \A j \in 1 .. nextIndex : j \in 1 .. nextIndex - 1 \/ j = nextIndex
                BY <1>1, <3>1, <4>1
            <4>10. DOMAIN underWay' \subseteq 1 .. nextIndex' - 1
                BY <2>5, <4>3, <4>7, <4>9
            <4>11. \A j \in 1 .. nextIndex' - 1 : j \notin DOMAIN underWay' =>
                      j = i \/ (j \in 1 .. nextIndex - 1 /\ j \notin DOMAIN underWay)
                BY <4>3, <4>9
            <4>12. DOMAIN underWay' # {}
                BY <4>3
            <4> QED
                BY <4>6, <4>8, <4>9, <4>10, <4>11, <4>12
        <3>2. CASE ~ (nextIndex <= Len(parsedNames))
            <4>1. underWay' = [j \in others |-> underWay[j]] /\ nextIndex' = nextIndex
                BY <1>6, <3>2 DEF Progress
            <4>2. /\ DOMAIN underWay' = others
                  /\ \A j \in others : underWay'[j] = underWay[j]
                BY <4>1
            <4>3. nextIndex = Len(parsedNames) + 1
                BY <1>1, <3>2
            <4>4. DOMAIN underWay \subseteq 1 .. nextIndex - 1
                BY DEF ListingInv, MappersAreInOrder
            <4>5. \A j \in DOMAIN underWay' : KnownWasTrue(parsedNames[j], underWay'[j])
                BY <2>5, <4>2 DEF ListingInv, MappersAreInOrder
            <4>6. Cardinality(DOMAIN underWay') <= Cardinality(DOMAIN underWay)
                BY <1>4, <2>5, <4>2, FS_CardinalityType
            <4> QED
                BY <1>1, <4>1, <4>2, <4>3, <4>4, <4>5, <4>6
        <3> QED
            BY <3>1, <3>2
    <2>7. \/ DOMAIN underWay' = {} /\ listingPhase' = "done"
          \/ listingPhase' = listingPhase
        BY <1>6 DEF Progress
    <2> HIDE DEF others
    <2>8. ListingTypes'
        BY <1>1, <2>4, <2>6, <2>7 DEF ListingInv, ListingTypes, hostWorldVars
    <2>9. MappersAreInOrder'
        <3>1. (\A j \in DOMAIN underWay : KnownWasTrue(parsedNames[j], underWay[j]))'
            BY <1>1, <2>6, TypesStay DEF KnownWasTrue, hostWorldVars
        <3>2. Cardinality(DOMAIN underWay') <= EnrichConcurrency
            <4>1. IsFiniteSet(DOMAIN underWay')
                <5>1. IsFiniteSet(1 .. nextIndex' - 1)
                    BY <1>1, <2>6, FS_Interval
                <5> QED
                    BY <2>6, <5>1, FS_Subset
            <4> QED
                BY <1>4, <2>6, <4>1, FS_CardinalityType, SessionListingAssumption
                DEF ListingInv, MappersAreInOrder
        <3> QED
            BY <1>1, <2>6, <2>7, <3>1, <3>2 DEF MappersAreInOrder
    <2>10. ResultsWereTrue'
        <3>1. ASSUME NEW j \in 1 .. nextIndex' - 1, j \notin DOMAIN underWay'
              PROVE  (enriched[j].name = parsedNames[j] /\ EntryWasTrue(enriched[j]))'
            <4>1. CASE j = i
                BY <1>1, <2>4, <4>1, TypesStay DEF EntryWasTrue, hostWorldVars
            <4>2. CASE j # i
                <5>1. j \in 1 .. nextIndex - 1 /\ j \notin DOMAIN underWay
                    BY <2>6, <3>1, <4>2
                <5>2. enriched[j].name = parsedNames[j] /\ EntryWasTrue(enriched[j])
                    BY <5>1 DEF ListingInv, ResultsWereTrue
                <5>3. enriched'[j] = enriched[j]
                    BY <1>1, <2>4, <4>2, <5>1
                <5> QED
                    BY <1>1, <5>2, <5>3, TypesStay DEF EntryWasTrue, hostWorldVars
            <4> QED
                BY <4>1, <4>2
        <3> QED
            BY <3>1 DEF ResultsWereTrue
    <2> QED
        BY <1>3, <2>8, <2>9, <2>10 DEF ListingInv
<1> QED
    BY <1>5, <1>6

\* A listing is begun.
LEMMA BeginListingStep ==
    ASSUME ListingInv, BeginListing
    PROVE  ListingInv'
<1>1. /\ wasTrue' = {<<n, tmuxSessions[n]>> : n \in DOMAIN tmuxSessions}
      /\ UNCHANGED <<tmuxSessions, typeMap, parsedNames, nextIndex, underWay, enriched>>
      /\ listingPhase = "idle" /\ listingPhase' = "asked"
    BY DEF BeginListing
<1>2. parsedNames = <<>> /\ nextIndex = 1 /\ DOMAIN underWay = {}
    BY <1>1 DEF ListingInv, ListingTypes, MappersAreInOrder
<1>3. ListingTypes'
    BY <1>1 DEF ListingInv, ListingTypes
<1>4. NowIsRecorded'
    BY <1>1 DEF NowIsRecorded
<1>5. MappersAreInOrder'
    BY <1>1, <1>2 DEF ListingInv, MappersAreInOrder
<1>6. ResultsWereTrue'
    BY <1>1, <1>2 DEF ResultsWereTrue
<1> QED
    BY <1>3, <1>4, <1>5, <1>6 DEF ListingInv

\* tmux has told the names, and the mappers are started.
LEMMA NamesAnsweredStep ==
    ASSUME ListingInv, NamesAnswered
    PROVE  ListingInv'
<1> DEFINE n == Len(parsedNames')
<1>1. /\ parsedNames' = SetToSeq(DOMAIN tmuxSessions) /\ DOMAIN tmuxSessions # {}
      /\ enriched' = [i \in DOMAIN parsedNames' |-> Hole]
      /\ underWay' = [i \in 1 .. Workers |-> NothingKnown]
      /\ nextIndex' = Workers + 1
      /\ listingPhase = "asked" /\ listingPhase' = "enriching"
      /\ UNCHANGED <<hostWorldVars, typeMap>>
    BY DEF NamesAnswered
<1>2. IsFiniteSet(DOMAIN tmuxSessions) /\ DOMAIN tmuxSessions \subseteq ListedName
    BY SessionListingAssumption, FS_Subset DEF ListingInv, ListingTypes
<1>3. /\ parsedNames' \in Seq(ListedName) /\ DOMAIN parsedNames' = 1 .. n
      /\ n \in Nat \ {0}
    <2>1. parsedNames' \in Seq(DOMAIN tmuxSessions) /\ n = Cardinality(DOMAIN tmuxSessions)
        BY <1>1, <1>2, SetToSeqFacts
    <2>2. Cardinality(DOMAIN tmuxSessions) \in Nat \ {0}
        BY <1>1, <1>2, FS_CardinalityType, FS_EmptySet
    <2>3. parsedNames' \in Seq(ListedName)
        BY <1>2, <2>1, SeqMonotonic
    <2>4. DOMAIN parsedNames' = 1 .. n
        BY <2>3, LenProperties
    <2> QED
        BY <2>1, <2>2, <2>3, <2>4
<1>4. Workers \in 1 .. n /\ Workers <= EnrichConcurrency
    <2>1. {EnrichConcurrency, n} \in SUBSET Nat
        BY <1>3, SessionListingAssumption
    <2>2. /\ Workers \in {EnrichConcurrency, n}
          /\ Workers <= EnrichConcurrency /\ Workers <= n
        BY <2>1, MinFacts DEF Workers
    <2>3. EnrichConcurrency \in Nat \ {0} /\ n \in Nat \ {0}
        BY <1>3, SessionListingAssumption
    <2> HIDE DEF n
    <2> QED
        BY <2>2, <2>3
<1> HIDE DEF n
<1>5. ListingTypes'
    BY <1>1, <1>2, <1>3, <1>4 DEF ListingTypes, hostWorldVars, n
<1>6. NowIsRecorded'
    BY <1>1 DEF ListingInv, NowIsRecorded, hostWorldVars
<1>7. DOMAIN underWay' = 1 .. nextIndex' - 1 /\ nextIndex' - 1 = Workers
    BY <1>1, <1>3, <1>4
<1>8. MappersAreInOrder'
    <2>1. Cardinality(DOMAIN underWay') <= EnrichConcurrency
        <3>1. Cardinality(1 .. Workers) = Workers
            BY <1>3, <1>4, FS_Interval
        <3> QED
            BY <1>4, <1>7, <3>1
    <2>2. (\A i \in DOMAIN underWay : KnownWasTrue(parsedNames[i], underWay[i]))'
        BY <1>1 DEF KnownWasTrue, NothingKnown
    <2> QED
        BY <1>1, <1>7, <2>1, <2>2 DEF MappersAreInOrder
<1>9. ResultsWereTrue'
    BY <1>7 DEF ResultsWereTrue
<1> QED
    BY <1>5, <1>6, <1>8, <1>9 DEF ListingInv

\* tmux did not tell the names.
LEMMA NamesFailedStep ==
    ASSUME ListingInv, NamesFailed
    PROVE  ListingInv'
<1>1. /\ listingPhase = "asked" /\ listingPhase' = "done"
      /\ UNCHANGED <<tmuxSessions, wasTrue, typeMap, parsedNames, nextIndex, underWay, enriched>>
    BY DEF NamesFailed, hostWorldVars
<1>2. parsedNames = <<>> /\ nextIndex = 1 /\ DOMAIN underWay = {} /\ Len(parsedNames) = 0
    BY <1>1 DEF ListingInv, ListingTypes, MappersAreInOrder
<1>3. ListingTypes'
    BY <1>1 DEF ListingInv, ListingTypes
<1>4. NowIsRecorded'
    BY <1>1 DEF NowIsRecorded
<1>5. MappersAreInOrder'
    BY <1>1, <1>2 DEF ListingInv, MappersAreInOrder
<1>6. ResultsWereTrue'
    BY <1>1, <1>2 DEF ResultsWereTrue
<1> QED
    BY <1>3, <1>4, <1>5, <1>6 DEF ListingInv

\* Every answer adds to what a mapper knows something that is so now.
LEMMA ListingAnswerStep ==
    ASSUME ListingInv, NEW i \in DOMAIN underWay,
           \/ TypeAnswered(i) \/ TypeFailed(i) \/ PathAnswered(i) \/ PathFailed(i)
           \/ RepoAnswered(i) \/ RepoFailed(i)
    PROVE  ListingInv'
<1> DEFINE name == parsedNames[i]
           k == underWay[i]
<1>1. KnownWasTrue(name, k)
    BY DEF ListingInv, MappersAreInOrder
<1>2. IsThere(i) => <<name, SessionAt(i)>> \in wasTrue
    BY DEF ListingInv, MappersAreInOrder, NowIsRecorded, ListingTypes, IsThere, SessionAt
<1>3. SUFFICES \E known : KnownWasTrue(name, known) /\ Progress(i, known)
    BY ProgressStep
<1> HIDE DEF name, k
<1>4. CASE TypeAnswered(i)
    <2> DEFINE known == [k EXCEPT !.type = DetectedType(SessionAt(i).commands)]
    <2>1. KnownWasTrue(name, known)
        BY <1>1, <1>2, <1>4 DEF KnownWasTrue, TypeAnswered
    <2> QED
        BY <1>4, <2>1 DEF TypeAnswered, k
<1>5. CASE TypeFailed(i)
    <2> DEFINE known == [k EXCEPT !.type = Terminal]
    <2>1. KnownWasTrue(name, known)
        BY <1>1 DEF KnownWasTrue
    <2> QED
        BY <1>5, <2>1 DEF TypeFailed, k
<1>6. CASE PathAnswered(i)
    <2> DEFINE known == [k EXCEPT !.workingDir = SessionAt(i).folder]
    <2>1. k.workingDir = NotAsked
        BY <1>6 DEF PathAnswered, k
    <2>2. KnownWasTrue(name, known)
        BY <1>1, <1>2, <1>6, <2>1 DEF KnownWasTrue, PathAnswered
    <2> QED
        BY <1>6, <2>2 DEF PathAnswered, k
<1>7. CASE PathFailed(i)
    <2> DEFINE known == [k EXCEPT !.workingDir = Unknown, !.repoName = Unknown]
    <2>1. known = [type |-> k.type, workingDir |-> Unknown, repoName |-> Unknown]
        <3>1. k = [type |-> k.type, workingDir |-> k.workingDir, repoName |-> k.repoName]
            BY <1>1 DEF KnownWasTrue
        <3> DEFINE halfWay == [k EXCEPT !.workingDir = Unknown]
        <3>2. halfWay = [type |-> k.type, workingDir |-> Unknown, repoName |-> k.repoName]
            BY <3>1
        <3>3. known = [halfWay EXCEPT !.repoName = Unknown]
            OBVIOUS
        <3> HIDE DEF halfWay, known
        <3> QED
            BY <3>2, <3>3
    <2>2. Unknown # NotAsked
        BY DEF Unknown, NotAsked
    <2> HIDE DEF known
    <2>3. KnownWasTrue(name, known)
        BY <1>1, <2>1, <2>2 DEF KnownWasTrue
    <2> USE DEF known
    <2> QED
        BY <1>7, <2>3 DEF PathFailed, k
<1>8. CASE RepoAnswered(i)
    <2> DEFINE known == [k EXCEPT !.repoName = RepoName]
    <2>1. k.workingDir # NotAsked /\ k.workingDir \in InRepo
        BY <1>8 DEF RepoAnswered, AwaitsRepo, k
    <2>2. KnownWasTrue(name, known)
        BY <1>1, <2>1 DEF KnownWasTrue
    <2> QED
        BY <1>8, <2>2 DEF RepoAnswered, k
<1>9. CASE RepoFailed(i)
    <2> DEFINE known == [k EXCEPT !.repoName = BaseName(k.workingDir)]
    <2>1. k.workingDir # NotAsked
        BY <1>9 DEF RepoFailed, AwaitsRepo, k
    <2>2. KnownWasTrue(name, known)
        BY <1>1, <2>1 DEF KnownWasTrue
    <2> QED
        BY <1>9, <2>2 DEF RepoFailed, k
<1> QED
    BY <1>4, <1>5, <1>6, <1>7, <1>8, <1>9

\* What happens on the host is recorded.
LEMMA OnHostStep ==
    ASSUME ListingInv, OnHost, DOMAIN tmuxSessions' \subseteq ListedName
    PROVE  ListingInv'
<1>1. /\ UNCHANGED <<typeMap, listingPhase, parsedNames, nextIndex, underWay, enriched>>
      /\ wasTrue' = wasTrue \cup TypesOf(DOMAIN tmuxSessions')
    BY DEF OnHost
<1>2. /\ \A n, k : KnownWasTrue(n, k) => KnownWasTrue(n, k)'
      /\ \A e : EntryWasTrue(e) => EntryWasTrue(e)'
    BY <1>1, TruthGrows
<1>3. ListingTypes'
    BY <1>1 DEF ListingInv, ListingTypes
<1>4. NowIsRecorded'
    BY <1>1 DEF NowIsRecorded, TypesOf
<1>5. MappersAreInOrder'
    <2>1. (\A i \in DOMAIN underWay : KnownWasTrue(parsedNames[i], underWay[i]))'
        BY <1>1, TypesStay DEF ListingInv, MappersAreInOrder, KnownWasTrue
    <2> QED
        BY <1>1, <2>1 DEF ListingInv, MappersAreInOrder
<1>6. ResultsWereTrue'
    BY <1>1, TypesStay DEF ListingInv, ResultsWereTrue, EntryWasTrue
<1> QED
    BY <1>3, <1>4, <1>5, <1>6 DEF ListingInv

\* Sessions start, change and end.
LEMMA HostStep ==
    ASSUME ListingInv, ListingNext
    PROVE  \/ BeginListing \/ NamesAnswered \/ NamesFailed
           \/ \E i \in DOMAIN underWay :
                \/ TypeAnswered(i) \/ TypeFailed(i) \/ PathAnswered(i) \/ PathFailed(i)
                \/ RepoAnswered(i) \/ RepoFailed(i)
           \/ OnHost /\ DOMAIN tmuxSessions' \subseteq ListedName
<1>1. DOMAIN tmuxSessions \subseteq ListedName
    BY DEF ListingInv, ListingTypes
<1>2. ASSUME NEW name \in ListedName, NEW command, NEW folder, SessionStarts(name, command, folder)
      PROVE  OnHost /\ DOMAIN tmuxSessions' \subseteq ListedName
    BY <1>1, <1>2 DEF SessionStarts
<1>3. ASSUME NEW name \in DOMAIN tmuxSessions, SessionEnds(name)
      PROVE  OnHost /\ DOMAIN tmuxSessions' \subseteq ListedName
    BY <1>1, <1>3 DEF SessionEnds
<1>4. ASSUME NEW name \in DOMAIN tmuxSessions, NEW newName \in ListedName, SessionIsRenamed(name, newName)
      PROVE  OnHost /\ DOMAIN tmuxSessions' \subseteq ListedName
    BY <1>1, <1>4 DEF SessionIsRenamed
<1>5. ASSUME NEW name \in DOMAIN tmuxSessions, NEW command, PaneOpens(name, command)
      PROVE  OnHost /\ DOMAIN tmuxSessions' \subseteq ListedName
    BY <1>1, <1>5 DEF PaneOpens
<1>6. ASSUME NEW name \in DOMAIN tmuxSessions, NEW folder, FolderChanges(name, folder)
      PROVE  OnHost /\ DOMAIN tmuxSessions' \subseteq ListedName
    BY <1>1, <1>6 DEF FolderChanges
<1> QED
    BY <1>2, <1>3, <1>4, <1>5, <1>6 DEF ListingNext

\* The invariant holds in every state.
LEMMA ListingInvHolds == ListingSpec => []ListingInv
<1>1. ListingInit => ListingInv
    <2>1. SUFFICES ASSUME ListingInit PROVE ListingInv
        OBVIOUS
    <2>2. /\ listingPhase = "idle" /\ parsedNames = <<>> /\ nextIndex = 1
          /\ underWay = <<>> /\ enriched = <<>>
        BY <2>1 DEF ListingInit
    <2>3. Len(parsedNames) = 0 /\ DOMAIN underWay = {} /\ DOMAIN enriched = {}
        BY <2>2
    <2>4. ListingTypes
        <3>1. DOMAIN tmuxSessions \subseteq ListedName
            BY <2>1 DEF ListingInit
        <3>2. parsedNames \in Seq(ListedName)
            BY <2>2
        <3> QED
            BY <2>2, <2>3, <3>1, <3>2 DEF ListingTypes
    <2>5. NowIsRecorded
        BY <2>2 DEF NowIsRecorded
    <2>6. MappersAreInOrder
        <3>1. Cardinality(DOMAIN underWay) = 0
            BY <2>3, FS_EmptySet
        <3> QED
            BY <2>2, <2>3, <3>1, SessionListingAssumption DEF MappersAreInOrder
    <2>7. ResultsWereTrue
        BY <2>2 DEF ResultsWereTrue
    <2> QED
        BY <2>4, <2>5, <2>6, <2>7 DEF ListingInv
<1>2. ListingInv /\ [ListingNext]_listingVars => ListingInv'
    <2>1. ASSUME ListingInv, ListingNext PROVE ListingInv'
        BY <2>1, HostStep, BeginListingStep, NamesAnsweredStep, NamesFailedStep, ListingAnswerStep, OnHostStep
    <2>2. ASSUME ListingInv, UNCHANGED listingVars PROVE ListingInv'
        <3>1. UNCHANGED <<tmuxSessions, typeMap, listingPhase, parsedNames, nextIndex, underWay,
                          enriched, listingStatus, wasTrue>>
            BY <2>2 DEF listingVars
        <3>2. ListingTypes' /\ NowIsRecorded'
            BY <2>2, <3>1 DEF ListingInv, ListingTypes, NowIsRecorded
        <3>3. MappersAreInOrder'
            <4>1. (\A i \in DOMAIN underWay : KnownWasTrue(parsedNames[i], underWay[i]))'
                BY <2>2, <3>1, TypesStay DEF ListingInv, MappersAreInOrder, KnownWasTrue
            <4> QED
                BY <2>2, <3>1, <4>1 DEF ListingInv, MappersAreInOrder
        <3>4. ResultsWereTrue'
            BY <2>2, <3>1, TypesStay DEF ListingInv, ResultsWereTrue, EntryWasTrue
        <3> QED
            BY <3>2, <3>3, <3>4 DEF ListingInv
    <2> QED
        BY <2>1, <2>2
<1> QED
    BY <1>1, <1>2, PTL DEF ListingSpec

\* A listing that ends well has one entry for every session that tmux named, in
\* the order of tmux, each entry was true of its session, and never are more
\* sessions asked about at a time than the limit (services/tmux.js, listSessions;
\* lib/async-utils.js, mapWithConcurrency).
THEOREM ListingsWereTrue == ListingSpec => []ListingWasTrue
<1>1. ListingInv => ListingWasTrue
    <2>1. SUFFICES ASSUME ListingInv PROVE ListingWasTrue
        OBVIOUS
    <2>2. Cardinality(DOMAIN underWay) <= EnrichConcurrency
        BY <2>1 DEF ListingInv, MappersAreInOrder
    <2>3. ASSUME listingPhase = "done"
          PROVE  \A i \in DOMAIN enriched :
                    enriched[i].name = parsedNames[i] /\ EntryWasTrue(enriched[i])
        <3>1. nextIndex = Len(parsedNames) + 1 /\ DOMAIN underWay = {}
            BY <2>1, <2>3 DEF ListingInv, MappersAreInOrder
        <3>2. Len(parsedNames) \in Nat /\ DOMAIN enriched = 1 .. Len(parsedNames)
            BY <2>1, LenProperties DEF ListingInv, ListingTypes
        <3>3. nextIndex - 1 = Len(parsedNames)
            BY <3>1, <3>2
        <3> QED
            BY <2>1, <3>1, <3>2, <3>3 DEF ListingInv, ResultsWereTrue
    <2>4. parsedNames = [i \in DOMAIN enriched |-> parsedNames[i]]
        BY <2>1, LenProperties DEF ListingInv, ListingTypes
    <2>5. ASSUME listingPhase = "done"
          PROVE  [i \in DOMAIN enriched |-> enriched[i].name] = parsedNames
        BY <2>3, <2>4, <2>5
    <2> QED
        BY <2>2, <2>3, <2>5 DEF ListingWasTrue
<1> QED
    BY <1>1, ListingInvHolds, PTL

-----------------------------------------------------------------------------
(***************************************************************************)
(* The forms that create, rename and delete sessions (SessionForms), for   *)
(* every set of names and panes and every number of requests.              *)
(***************************************************************************)

FormFields == {"kind", "name", "newName", "stage", "ident", "found"}

FormsTypes ==
    /\ everMade \in Nat /\ everMade <= MaxSessions
    /\ running \in [DOMAIN running -> 1 .. everMade]
    /\ \A m, n \in DOMAIN running : running[m] = running[n] => m = n
    /\ DOMAIN paneShows = Place /\ DOMAIN paneHas = Place
    /\ \A p \in Place : paneHas[p] \in 1 .. everMade \cup {NoIdent}
    /\ listStale \in BOOLEAN
    /\ \E S : requests \in Seq(S)
    /\ \A i \in DOMAIN requests : FormFields \subseteq DOMAIN requests[i]

\* While nothing has made the list unsure, there is one request at most, and the
\* list is right until tmux has done what was asked, and when it was listed again.
ListFollows ==
    ~listStale =>
        /\ \A i, j \in DOMAIN requests : i = j
        /\ requests = <<>> => shownSessions = running
        /\ \A i \in DOMAIN requests :
              /\ requests[i].stage \in {"sent", "failed"} => shownSessions = running
              /\ requests[i].stage = "listed" => requests[i].found = running

\* The renames of which the browser has not been told.
UntoldAt == {i \in DOMAIN requests : requests[i].kind = "rename" /\ requests[i].stage = "done"}

\* Of a session that has not strayed there is one such rename at most, to the
\* name it has now; its old name was given up by no other, and nobody took it.
UntoldIsKnown ==
    /\ \A i \in UntoldAt : requests[i].ident \in 1 .. everMade
    /\ \A i, j \in UntoldAt :
          /\ requests[i].ident \notin strayed
          /\ requests[i].ident = requests[j].ident \/ requests[i].name = requests[j].name
          => i = j
    /\ \A i \in UntoldAt, n \in DOMAIN running :
          requests[i].ident = running[n] /\ running[n] \notin strayed => requests[i].newName = n
    /\ \A i \in UntoldAt, n \in DOMAIN running :
          requests[i].name = n /\ requests[i].ident # running[n] =>
              requests[i].ident \in strayed /\ running[n] \in strayed

\* A pane has its session's name, or will be told.
PanesFollow ==
    \A p \in Place, n \in DOMAIN running :
        running[n] = paneHas[p] /\ paneHas[p] \notin strayed =>
            \/ paneShows[p] = n
            \/ \E i \in UntoldAt :
                  /\ requests[i].ident = paneHas[p] /\ requests[i].name = paneShows[p]
                  /\ requests[i].newName = n

FormsInv == FormsTypes /\ ListFollows /\ UntoldIsKnown /\ PanesFollow

-----------------------------------------------------------------------------
(* What several steps have in common.                                       *)

\* Nobody is among the sessions.
LEMMA NobodyRuns ==
    ASSUME FormsTypes
    PROVE  NoIdent \notin 1 .. everMade /\ MaxSessions \in Nat
<1>1. NoIdent \notin 1 .. MaxSessions /\ MaxSessions \in Nat
    BY SessionFormsAssumption
<1>2. 1 .. everMade \subseteq 1 .. MaxSessions
    BY <1>1 DEF FormsTypes
<1> QED
    BY <1>1, <1>2

\* Renames of which the browser is not told yet stay as they were, or end; none
\* begins, and names are given up only.
LEMMA UntoldStays ==
    ASSUME UntoldIsKnown, NEW at,
           \A k \in UntoldAt' : at[k] \in UntoldAt /\ requests'[k] = requests[at[k]],
           \A k, m \in UntoldAt' : at[k] = at[m] => k = m,
           everMade' = everMade, strayed \subseteq strayed',
           \A n \in DOMAIN running' : n \in DOMAIN running /\ running'[n] = running[n]
    PROVE  UntoldIsKnown'
<1> DEFINE U == UntoldAt'
<1>1. \A k \in U : /\ at[k] \in UntoldAt /\ requests'[k].ident = requests[at[k]].ident
                   /\ requests'[k].name = requests[at[k]].name
                   /\ requests'[k].newName = requests[at[k]].newName
    OBVIOUS
<1>2. \A k, m \in U : at[k] = at[m] => k = m
    OBVIOUS
<1> HIDE DEF U
<1>3. \A k \in U : requests'[k].ident \in 1 .. everMade
    BY <1>1 DEF UntoldIsKnown
<1>4. ASSUME NEW k \in U, NEW m \in U, requests'[k].ident \notin strayed',
             requests'[k].ident = requests'[m].ident \/ requests'[k].name = requests'[m].name
      PROVE  k = m
    <2>1. at[k] = at[m]
        BY <1>1, <1>4 DEF UntoldIsKnown
    <2> QED
        BY <1>2, <2>1
<1>5. ASSUME NEW k \in U, NEW n \in DOMAIN running'
      PROVE  /\ requests'[k].ident = running'[n] /\ running'[n] \notin strayed' => requests'[k].newName = n
             /\ requests'[k].name = n /\ requests'[k].ident # running'[n] =>
                   requests'[k].ident \in strayed' /\ running'[n] \in strayed'
    BY <1>1, <1>5 DEF UntoldIsKnown
<1> QED
    BY <1>3, <1>4, <1>5 DEF UntoldIsKnown, U

\* The panes stay, and so does what they will be told.
LEMMA PanesStay ==
    ASSUME PanesFollow, UNCHANGED paneVars, strayed \subseteq strayed',
           \A n \in DOMAIN running' : n \in DOMAIN running /\ running'[n] = running[n],
           \A i \in UntoldAt : \/ requests[i].ident \in strayed'
                               \/ \E k \in UntoldAt' : requests'[k] = requests[i]
    PROVE  PanesFollow'
<1> DEFINE U == UntoldAt'
<1>1. \A i \in UntoldAt : \/ requests[i].ident \in strayed'
                          \/ \E k \in U : requests'[k] = requests[i]
    OBVIOUS
<1> HIDE DEF U
<1>2. paneShows' = paneShows /\ paneHas' = paneHas
    BY DEF paneVars
<1>3. ASSUME NEW p \in Place, NEW n \in DOMAIN running', running'[n] = paneHas[p], paneHas[p] \notin strayed'
      PROVE  \/ paneShows[p] = n
             \/ \E k \in U : /\ requests'[k].ident = paneHas[p] /\ requests'[k].name = paneShows[p]
                             /\ requests'[k].newName = n
    <2>1. n \in DOMAIN running /\ running[n] = paneHas[p] /\ paneHas[p] \notin strayed
        BY <1>3
    <2>2. CASE paneShows[p] = n
        BY <2>2
    <2>3. CASE \E i \in UntoldAt : /\ requests[i].ident = paneHas[p] /\ requests[i].name = paneShows[p]
                                   /\ requests[i].newName = n
        <3>1. PICK i \in UntoldAt : /\ requests[i].ident = paneHas[p] /\ requests[i].name = paneShows[p]
                                    /\ requests[i].newName = n
            BY <2>3
        <3>2. PICK k \in U : requests'[k] = requests[i]
            BY <1>1, <1>3, <3>1
        <3> QED
            BY <3>1, <3>2
    <2> QED
        BY <2>1, <2>2, <2>3 DEF PanesFollow
<1> QED
    BY <1>2, <1>3 DEF PanesFollow, U

\* A session has got a name: i is its own rename, if it was one.
LEMMA TakenName ==
    ASSUME FormsTypes, UntoldIsKnown, PanesFollow, UNCHANGED paneVars,
           NEW name, NEW ident, NEW i,
           everMade' \in Nat, everMade <= everMade', everMade' <= MaxSessions, ident \in 1 .. everMade',
           strayed \subseteq strayed',
           \A n \in DOMAIN running' :
               \/ n = name /\ running'[n] = ident
               \/ n # name /\ n \in DOMAIN running /\ running'[n] = running[n] /\ running[n] # ident,
           \A j \in UntoldAt : requests[j].name = name \/ requests[j].ident = ident =>
               ident \in strayed' /\ requests[j].ident \in strayed',
           \A j \in UntoldAt : j \in UntoldAt' /\ requests'[j] = requests[j],
           \A j \in UntoldAt' : \/ j \in UntoldAt
                                \/ /\ j = i /\ requests'[j].ident = ident /\ requests'[j].newName = name
                                   /\ requests'[j].name \in DOMAIN running
                                   /\ running[requests'[j].name] = ident,
           ident \in 1 .. everMade =>
               \/ ident \in strayed'
               \/ \E m \in DOMAIN running : /\ running[m] = ident /\ i \in UntoldAt'
                                            /\ requests'[i].ident = ident /\ requests'[i].name = m
                                            /\ requests'[i].newName = name
    PROVE  UntoldIsKnown' /\ PanesFollow'
<1> DEFINE U == UntoldAt'
           new(j) == /\ j = i /\ requests'[j].ident = ident /\ requests'[j].newName = name
                     /\ requests'[j].name \in DOMAIN running
                     /\ running[requests'[j].name] = ident
<1>1. /\ \A j \in UntoldAt : j \in U /\ requests'[j] = requests[j]
      /\ \A j \in U : j \in UntoldAt \/ new(j)
    OBVIOUS
<1>2. ident \in 1 .. everMade =>
          \/ ident \in strayed'
          \/ \E m \in DOMAIN running : /\ running[m] = ident /\ i \in U
                                       /\ requests'[i].ident = ident /\ requests'[i].name = m
                                       /\ requests'[i].newName = name
    OBVIOUS
<1> HIDE DEF U
<1>3. \A j \in U : requests'[j].ident \in 1 .. everMade'
    <2>1. \A j \in UntoldAt : requests[j].ident \in 1 .. everMade /\ 1 .. everMade \subseteq 1 .. everMade'
        BY DEF UntoldIsKnown, FormsTypes
    <2> QED
        BY <1>1, <2>1
<1>4. ASSUME NEW j \in U, new(j), NEW k \in UntoldAt, requests[k].name = requests'[j].name
      PROVE  requests[k].ident \in strayed' /\ ident \in strayed'
    <2>1. requests[k].ident # ident => requests[k].ident \in strayed /\ ident \in strayed
        BY <1>4 DEF UntoldIsKnown
    <2> QED
        BY <2>1
<1>5. ASSUME NEW j \in U, NEW k \in U, requests'[j].ident \notin strayed',
             requests'[j].ident = requests'[k].ident \/ requests'[j].name = requests'[k].name
      PROVE  j = k
    <2>1. CASE j \in UntoldAt /\ k \in UntoldAt
        BY <1>1, <1>5, <2>1 DEF UntoldIsKnown
    <2>2. CASE new(j) /\ k \in UntoldAt
        BY <1>1, <1>4, <1>5, <2>2
    <2>3. CASE j \in UntoldAt /\ new(k)
        BY <1>1, <1>4, <1>5, <2>3
    <2>4. CASE new(j) /\ new(k)
        BY <2>4
    <2> QED
        BY <1>1, <2>1, <2>2, <2>3, <2>4
<1>6. ASSUME NEW j \in U, NEW n \in DOMAIN running',
             requests'[j].ident = running'[n], running'[n] \notin strayed'
      PROVE  requests'[j].newName = n
    <2>1. CASE n = name
        BY <1>1, <1>6, <2>1
    <2>2. CASE n # name
        <3>1. n \in DOMAIN running /\ running'[n] = running[n] /\ running[n] # ident
            BY <2>2
        <3> QED
            BY <1>1, <1>6, <3>1 DEF UntoldIsKnown
    <2> QED
        BY <2>1, <2>2
<1>7. ASSUME NEW j \in U, NEW n \in DOMAIN running',
             requests'[j].name = n, requests'[j].ident # running'[n]
      PROVE  requests'[j].ident \in strayed' /\ running'[n] \in strayed'
    <2>1. CASE n = name
        BY <1>1, <1>7, <2>1
    <2>2. CASE n # name
        <3>1. n \in DOMAIN running /\ running'[n] = running[n] /\ running[n] # ident
            BY <2>2
        <3> QED
            BY <1>1, <1>7, <3>1 DEF UntoldIsKnown
    <2> QED
        BY <2>1, <2>2
<1>8. UntoldIsKnown'
    BY <1>3, <1>5, <1>6, <1>7 DEF UntoldIsKnown, U
<1>9. ASSUME NEW p \in Place, NEW n \in DOMAIN running', running'[n] = paneHas[p], paneHas[p] \notin strayed'
      PROVE  \/ paneShows[p] = n
             \/ \E k \in U : /\ requests'[k].ident = paneHas[p] /\ requests'[k].name = paneShows[p]
                             /\ requests'[k].newName = n
    <2>1. CASE n # name
        <3>1. n \in DOMAIN running /\ running[n] = paneHas[p] /\ paneHas[p] \notin strayed
            BY <1>9, <2>1
        <3> QED
            BY <1>1, <3>1 DEF PanesFollow
    <2>2. CASE n = name
        <3>1. ident = paneHas[p] /\ ident \notin strayed'
            BY <1>9, <2>2
        <3>2. ident \in 1 .. everMade
            <4>1. 1 .. everMade' \subseteq 1 .. MaxSessions
                BY NobodyRuns
            <4>2. ident # NoIdent
                BY <4>1, SessionFormsAssumption
            <4> QED
                BY <3>1, <4>2 DEF FormsTypes
        <3>3. PICK m \in DOMAIN running : /\ running[m] = ident /\ i \in U
                                          /\ requests'[i].ident = ident /\ requests'[i].name = m
                                          /\ requests'[i].newName = name
            BY <1>2, <3>1, <3>2
        <3>4. paneShows[p] = m
            BY <3>1, <3>3 DEF PanesFollow
        <3> QED
            BY <2>2, <3>1, <3>3, <3>4
    <2> QED
        BY <2>1, <2>2
<1>10. PanesFollow'
    <2>1. paneShows' = paneShows /\ paneHas' = paneHas
        BY DEF paneVars
    <2> QED
        BY <1>9, <2>1 DEF PanesFollow, U
<1> QED
    BY <1>8, <1>10

-----------------------------------------------------------------------------
(* Requests under way.                                                      *)

\* A request of which some fields have been changed.
LEMMA RequestChanged ==
    ASSUME FormsTypes, NEW i \in DOMAIN requests, NEW r, FormFields \subseteq DOMAIN r,
           requests' = [requests EXCEPT ![i] = r]
    PROVE  /\ \E S : requests' \in Seq(S)
           /\ DOMAIN requests' = DOMAIN requests /\ requests'[i] = r
           /\ \A j \in DOMAIN requests : j # i => requests'[j] = requests[j]
           /\ \A j \in DOMAIN requests' : FormFields \subseteq DOMAIN requests'[j]
           /\ requests # <<>> /\ requests' # <<>>
<1>1. PICK S : requests \in Seq(S)
    BY DEF FormsTypes
<1> DEFINE all == S \cup {r}
<1>2. requests \in Seq(all) /\ i \in 1 .. Len(requests) /\ DOMAIN requests = 1 .. Len(requests) /\ r \in all
    BY <1>1, SeqMonotonic, LenProperties
<1> HIDE DEF all
<1>3. [requests EXCEPT ![i] = r] \in Seq(all)
    BY <1>2, ExceptSeq
<1>4. requests' \in Seq(all) /\ DOMAIN requests' = DOMAIN requests /\ requests'[i] = r
      /\ \A j \in DOMAIN requests : j # i => requests'[j] = requests[j]
    BY <1>3
<1>5. \A j \in DOMAIN requests' : FormFields \subseteq DOMAIN requests'[j]
    BY <1>4 DEF FormsTypes
<1>6. requests # <<>> /\ requests' # <<>>
    <2>1. i \in DOMAIN requests' /\ DOMAIN <<>> = {}
        BY <1>4
    <2> QED
        BY <2>1
<1> QED
    BY <1>4, <1>5, <1>6

\* One request more.
LEMMA RequestSent ==
    ASSUME FormsTypes, NEW r, FormFields \subseteq DOMAIN r, requests' = Append(requests, r)
    PROVE  /\ \E S : requests' \in Seq(S)
           /\ \A j \in DOMAIN requests : j \in DOMAIN requests' /\ requests'[j] = requests[j]
           /\ \A j \in DOMAIN requests' : j \in DOMAIN requests \/ (j = Len(requests) + 1 /\ requests'[j] = r)
           /\ \A j \in DOMAIN requests' : FormFields \subseteq DOMAIN requests'[j]
           /\ requests' # <<>>
<1>1. PICK S : requests \in Seq(S)
    BY DEF FormsTypes
<1> DEFINE all == S \cup {r}
<1>2. requests \in Seq(all) /\ r \in all /\ Len(requests) \in Nat /\ DOMAIN requests = 1 .. Len(requests)
    BY <1>1, SeqMonotonic, LenProperties
<1> HIDE DEF all
<1>3. /\ requests' \in Seq(all) /\ Len(requests') = Len(requests) + 1
      /\ requests'[Len(requests) + 1] = r
      /\ \A j \in 1 .. Len(requests) : j \in 1 .. Len(requests') /\ requests'[j] = requests[j]
      /\ \A j \in 1 .. Len(requests') : j \in 1 .. Len(requests) \/ j = Len(requests) + 1
    BY <1>2, AppendFacts
<1>4. DOMAIN requests' = 1 .. Len(requests')
    BY <1>3, LenProperties
<1>5. requests' # <<>>
    BY <1>2, <1>3
<1>6. /\ \A j \in DOMAIN requests : j \in DOMAIN requests' /\ requests'[j] = requests[j]
      /\ \A j \in DOMAIN requests' : j \in DOMAIN requests \/ (j = Len(requests) + 1 /\ requests'[j] = r)
    BY <1>2, <1>3, <1>4
<1>7. \A j \in DOMAIN requests' : FormFields \subseteq DOMAIN requests'[j]
    BY <1>6 DEF FormsTypes
<1>8. \E T : requests' \in Seq(T)
    BY <1>3
<1> QED
    BY <1>5, <1>6, <1>7, <1>8

\* Request i is gone, each of the others is where it came from.
LeftAt(i, at) ==
    /\ \A k \in DOMAIN requests' : at[k] \in DOMAIN requests /\ at[k] # i /\ requests'[k] = requests[at[k]]
    /\ \A k, m \in DOMAIN requests' : at[k] = at[m] => k = m
    /\ \A j \in DOMAIN requests : j # i => \E k \in DOMAIN requests' : requests'[k] = requests[j]

\* A request has been answered.
LEMMA RequestGone ==
    ASSUME FormsTypes, NEW i \in DOMAIN requests, requests' = RemoveAt(requests, i)
    PROVE  /\ \E S : requests' \in Seq(S)
           /\ \E at : LeftAt(i, at)
           /\ \A j \in DOMAIN requests' : FormFields \subseteq DOMAIN requests'[j]
<1>1. PICK S : requests \in Seq(S)
    BY DEF FormsTypes
<1>2. Len(requests) \in Nat /\ DOMAIN requests = 1 .. Len(requests) /\ i \in 1 .. Len(requests)
    BY <1>1, LenProperties
<1> DEFINE n == Len(requests) - 1
           at == [k \in 1 .. n |-> InWhole(i, k)]
<1>3. /\ requests' \in Seq(S) /\ Len(requests') = n
      /\ \A k \in 1 .. n :
            InWhole(i, k) \in 1 .. Len(requests) /\ InWhole(i, k) # i /\ requests'[k] = requests[InWhole(i, k)]
    BY <1>1, <1>2, RemoveAtFacts
<1>4. DOMAIN requests' = 1 .. n
    BY <1>3, LenProperties
<1>5. \A j \in 1 .. Len(requests) : j # i => \E k \in 1 .. n : InWhole(i, k) = j
    BY <1>2, BeforeFacts
<1>6. \A k, m \in 1 .. n : InWhole(i, k) = InWhole(i, m) => k = m
    BY <1>2 DEF InWhole
<1> HIDE DEF n
<1>7. LeftAt(i, at)
    <2>1. \A k \in 1 .. n : at[k] = InWhole(i, k)
        OBVIOUS
    <2> HIDE DEF at
    <2>2. \A k \in 1 .. n : at[k] \in DOMAIN requests /\ at[k] # i /\ requests'[k] = requests[at[k]]
        BY <1>2, <1>3, <2>1
    <2>3. \A k, m \in 1 .. n : at[k] = at[m] => k = m
        BY <1>6, <2>1
    <2>4. ASSUME NEW j \in DOMAIN requests, j # i
          PROVE  \E k \in 1 .. n : requests'[k] = requests[j]
        <3>1. PICK k \in 1 .. n : InWhole(i, k) = j
            BY <1>2, <1>5, <2>4
        <3> QED
            BY <1>3, <3>1
    <2> QED
        BY <1>4, <2>2, <2>3, <2>4 DEF LeftAt
<1>8. \A j \in DOMAIN requests' : FormFields \subseteq DOMAIN requests'[j]
    <2>1. \A k \in DOMAIN requests' : at[k] \in DOMAIN requests /\ requests'[k] = requests[at[k]]
        BY <1>7 DEF LeftAt
    <2>2. \A j \in DOMAIN requests : FormFields \subseteq DOMAIN requests[j]
        BY DEF FormsTypes
    <2> HIDE DEF at
    <2> QED
        BY <2>1, <2>2
<1>9. \E T : requests' \in Seq(T)
    BY <1>3
<1> QED
    BY <1>7, <1>8, <1>9

\* A request moves on.
LEMMA Moved ==
    ASSUME FormsTypes, NEW i \in DOMAIN requests, NEW stage,
           requests' = [requests EXCEPT ![i].stage = stage]
    PROVE  /\ \E S : requests' \in Seq(S)
           /\ DOMAIN requests' = DOMAIN requests
           /\ requests'[i].kind = requests[i].kind /\ requests'[i].name = requests[i].name
           /\ requests'[i].newName = requests[i].newName /\ requests'[i].stage = stage
           /\ requests'[i].ident = requests[i].ident /\ requests'[i].found = requests[i].found
           /\ \A j \in DOMAIN requests : j # i => requests'[j] = requests[j]
           /\ \A j \in DOMAIN requests' : FormFields \subseteq DOMAIN requests'[j]
           /\ requests # <<>> /\ requests' # <<>>
<1> DEFINE old == requests[i]
           new == [old EXCEPT !.stage = stage]
<1>1. requests' = [requests EXCEPT ![i] = new]
    OBVIOUS
<1>2. FormFields \subseteq DOMAIN old
    BY DEF FormsTypes
<1>3. /\ FormFields \subseteq DOMAIN new
      /\ new.kind = old.kind /\ new.name = old.name /\ new.newName = old.newName
      /\ new.stage = stage /\ new.ident = old.ident /\ new.found = old.found
    <2> HIDE DEF old
    <2> QED
        BY <1>2 DEF FormFields
<1> HIDE DEF new
<1>4. /\ \E S : requests' \in Seq(S)
      /\ DOMAIN requests' = DOMAIN requests /\ requests'[i] = new
      /\ \A j \in DOMAIN requests : j # i => requests'[j] = requests[j]
      /\ \A j \in DOMAIN requests' : FormFields \subseteq DOMAIN requests'[j]
      /\ requests # <<>> /\ requests' # <<>>
    BY <1>1, <1>3, RequestChanged
<1> QED
    BY <1>3, <1>4

\* A request moves on, with the session it is about.
MovesAs(i, stage, ident) == requests' = [requests EXCEPT ![i].stage = stage, ![i].ident = ident]

\* A request goes on to its next stage.
LEMMA MovedAsOne ==
    ASSUME FormsTypes, NEW i \in DOMAIN requests, NEW stage, NEW ident, MovesAs(i, stage, ident)
    PROVE  /\ \E S : requests' \in Seq(S)
           /\ DOMAIN requests' = DOMAIN requests
           /\ requests'[i].kind = requests[i].kind /\ requests'[i].name = requests[i].name
           /\ requests'[i].newName = requests[i].newName /\ requests'[i].stage = stage
           /\ requests'[i].ident = ident /\ requests'[i].found = requests[i].found
           /\ \A j \in DOMAIN requests : j # i => requests'[j] = requests[j]
           /\ \A j \in DOMAIN requests' : FormFields \subseteq DOMAIN requests'[j]
           /\ requests # <<>> /\ requests' # <<>>
<1> DEFINE old == requests[i]
           new == [old EXCEPT !.stage = stage, !.ident = ident]
<1>1. requests' = [requests EXCEPT ![i] = new]
    BY DEF MovesAs
<1>2. FormFields \subseteq DOMAIN old
    BY DEF FormsTypes
<1>3. /\ FormFields \subseteq DOMAIN new
      /\ new.kind = old.kind /\ new.name = old.name /\ new.newName = old.newName
      /\ new.stage = stage /\ new.ident = ident /\ new.found = old.found
    <2> HIDE DEF old
    <2> QED
        BY <1>2 DEF FormFields
<1> HIDE DEF new
<1>4. /\ \E S : requests' \in Seq(S)
      /\ DOMAIN requests' = DOMAIN requests /\ requests'[i] = new
      /\ \A j \in DOMAIN requests : j # i => requests'[j] = requests[j]
      /\ \A j \in DOMAIN requests' : FormFields \subseteq DOMAIN requests'[j]
      /\ requests # <<>> /\ requests' # <<>>
    BY <1>1, <1>3, RequestChanged
<1> QED
    BY <1>3, <1>4

\* One request has changed, which is none of the renames the browser is not told of.
LEMMA UntoldUnchanged ==
    ASSUME FormsTypes, UntoldIsKnown, PanesFollow, NEW i \in DOMAIN requests,
           DOMAIN requests' = DOMAIN requests,
           \A j \in DOMAIN requests : j # i => requests'[j] = requests[j],
           i \notin UntoldAt, i \notin UntoldAt',
           everMade' = everMade, strayed' = strayed,
           \A n \in DOMAIN running' : n \in DOMAIN running /\ running'[n] = running[n]
    PROVE  UntoldIsKnown' /\ (UNCHANGED paneVars => PanesFollow')
<1> DEFINE at == [k \in DOMAIN requests |-> k]
<1>1. UntoldAt' = UntoldAt /\ \A k \in UntoldAt : k # i /\ requests'[k] = requests[k]
    BY DEF UntoldAt
<1>2. /\ \A k \in UntoldAt' : at[k] \in UntoldAt /\ requests'[k] = requests[at[k]]
      /\ \A k, m \in UntoldAt' : at[k] = at[m] => k = m
    BY <1>1 DEF UntoldAt
<1> HIDE DEF at
<1>3. UntoldIsKnown'
    BY <1>2, UntoldStays
<1>4. \A j \in UntoldAt : \E k \in UntoldAt' : requests'[k] = requests[j]
    BY <1>1
<1>5. UNCHANGED paneVars => PanesFollow'
    BY <1>4, PanesStay
<1> QED
    BY <1>3, <1>5

\* The only request there was has changed.
LEMMA ListOfOne ==
    ASSUME NEW i \in DOMAIN requests, DOMAIN requests' = DOMAIN requests, requests' # <<>>,
           ~listStale' => /\ \A j, k \in DOMAIN requests : j = k
                          /\ requests'[i].stage \in {"sent", "failed"} => shownSessions' = running'
                          /\ requests'[i].stage = "listed" => requests'[i].found = running'
    PROVE  ListFollows'
<1>1. ASSUME ~listStale', NEW j \in DOMAIN requests'
      PROVE  j = i
    BY <1>1
<1> QED
    BY <1>1 DEF ListFollows

-----------------------------------------------------------------------------
(* Steps of the forms.                                                      *)

\* A form is sent, or the list asked for.
LEMMA SendStep ==
    ASSUME FormsInv, NEW kind, NEW name, NEW newName, NEW stage \in {"sent", "listing"},
           Send(kind, name, newName, stage)
    PROVE  FormsInv'
<1> DEFINE r == [kind |-> kind, name |-> name, newName |-> newName, stage |-> stage,
                 ident |-> NoIdent, found |-> <<>>]
<1>1. FormsTypes /\ ListFollows /\ UntoldIsKnown /\ PanesFollow
    BY DEF FormsInv
<1>2. /\ requests' = Append(requests, r) /\ listStale' = (listStale \/ requests # <<>>)
      /\ UNCHANGED <<running, everMade, shownSessions, paneVars, strayed>>
    BY DEF Send, tmuxVars
<1>3. FormFields \subseteq DOMAIN r /\ r.stage = stage
    BY DEF FormFields
<1> HIDE DEF r
<1>4. /\ \E S : requests' \in Seq(S)
      /\ \A j \in DOMAIN requests : j \in DOMAIN requests' /\ requests'[j] = requests[j]
      /\ \A j \in DOMAIN requests' : j \in DOMAIN requests \/ (j = Len(requests) + 1 /\ requests'[j] = r)
      /\ \A j \in DOMAIN requests' : FormFields \subseteq DOMAIN requests'[j]
      /\ requests' # <<>>
    BY <1>1, <1>2, <1>3, RequestSent
<1>5. FormsTypes'
    BY <1>1, <1>2, <1>4 DEF FormsTypes, paneVars
<1>6. ListFollows'
    <2>1. ASSUME ~listStale'
          PROVE  requests = <<>> /\ DOMAIN requests = {} /\ shownSessions = running
        <3>1. ~listStale /\ requests = <<>>
            BY <1>2, <2>1
        <3> QED
            BY <1>1, <3>1 DEF ListFollows
    <2> QED
        BY <1>2, <1>3, <1>4, <2>1 DEF ListFollows
<1>7. UntoldAt' = UntoldAt /\ \A k \in UntoldAt : requests'[k] = requests[k]
    BY <1>3, <1>4 DEF UntoldAt
<1>8. UntoldIsKnown' /\ PanesFollow'
    <2> DEFINE at == [k \in DOMAIN requests |-> k]
    <2>1. /\ \A k \in UntoldAt' : at[k] \in UntoldAt /\ requests'[k] = requests[at[k]]
          /\ \A k, m \in UntoldAt' : at[k] = at[m] => k = m
          /\ \A j \in UntoldAt : \E k \in UntoldAt' : requests'[k] = requests[j]
        BY <1>7 DEF UntoldAt
    <2> HIDE DEF at
    <2>2. UntoldIsKnown'
        BY <1>1, <1>2, <2>1, UntoldStays
    <2>3. PanesFollow'
        BY <1>1, <1>2, <2>1, PanesStay
    <2> QED
        BY <2>2, <2>3
<1> QED
    BY <1>5, <1>6, <1>8 DEF FormsInv

\* A pane gets a session by its name.
LEMMA ShowsKeeps ==
    ASSUME FormsTypes, PanesFollow, NEW p \in Place, NEW name, NEW ident, Shows(p, name, ident),
           UNCHANGED <<running, everMade, strayed>>,
           \A i \in UntoldAt : \E k \in UntoldAt' : requests'[k] = requests[i]
    PROVE  /\ PanesFollow'
           /\ DOMAIN paneShows' = Place /\ DOMAIN paneHas' = Place
           /\ \A q \in Place : paneHas'[q] \in 1 .. everMade \cup {NoIdent}
<1> DEFINE U == UntoldAt'
           has == IF IdentOf(name) = ident THEN ident ELSE NoIdent
<1>1. paneShows' = [paneShows EXCEPT ![p] = name] /\ paneHas' = [paneHas EXCEPT ![p] = has]
    BY DEF Shows
<1>2. has # NoIdent => name \in DOMAIN running /\ running[name] = has
    BY DEF IdentOf
<1>3. \A i \in UntoldAt : \E k \in U : requests'[k] = requests[i]
    OBVIOUS
<1> HIDE DEF U, has
<1>4. /\ DOMAIN paneShows' = Place /\ DOMAIN paneHas' = Place
      /\ paneShows'[p] = name /\ paneHas'[p] = has
      /\ \A q \in Place : q # p => paneShows'[q] = paneShows[q] /\ paneHas'[q] = paneHas[q]
    BY <1>1 DEF FormsTypes
<1>5. has \in 1 .. everMade \cup {NoIdent}
    BY <1>2 DEF FormsTypes
<1>6. \A q \in Place : paneHas'[q] \in 1 .. everMade \cup {NoIdent}
    BY <1>4, <1>5 DEF FormsTypes
<1>7. ASSUME NEW q \in Place, NEW n \in DOMAIN running, running[n] = paneHas'[q], paneHas'[q] \notin strayed
      PROVE  \/ paneShows'[q] = n
             \/ \E k \in U : /\ requests'[k].ident = paneHas'[q] /\ requests'[k].name = paneShows'[q]
                             /\ requests'[k].newName = n
    <2>1. CASE q = p
        <3>1. running[n] = has /\ running[n] \in 1 .. everMade
            BY <1>4, <1>7, <2>1 DEF FormsTypes
        <3>2. has # NoIdent
            BY <3>1, NobodyRuns
        <3>3. n = name
            BY <1>2, <3>1, <3>2 DEF FormsTypes
        <3> QED
            BY <1>4, <2>1, <3>3
    <2>2. CASE q # p
        BY <1>3, <1>4, <1>7, <2>2 DEF PanesFollow
    <2> QED
        BY <2>1, <2>2
<1>8. PanesFollow'
    BY <1>7 DEF PanesFollow, U
<1> QED
    BY <1>4, <1>6, <1>8

\* A dialog is opened or closed.
LEMMA ClickStep ==
    ASSUME FormsInv, UNCHANGED <<tmuxVars, shownSessions, requests, listStale, strayed, paneVars>>
    PROVE  FormsInv'
BY DEF FormsInv, FormsTypes, ListFollows, UntoldIsKnown, PanesFollow, UntoldAt, tmuxVars, paneVars

\* A session is picked for a form.
LEMMA PickStep ==
    ASSUME FormsInv, NEW p \in Place, NEW name, PickSession(p, name)
    PROVE  FormsInv'
<1>1. /\ Shows(p, name, shownSessions[name])
      /\ UNCHANGED <<running, everMade, shownSessions, requests, listStale, strayed>>
    BY DEF PickSession, Clicked, tmuxVars
<1>2. UntoldAt' = UntoldAt
    BY <1>1 DEF UntoldAt
<1>3. \A i \in UntoldAt : \E k \in UntoldAt' : requests'[k] = requests[i]
    BY <1>1, <1>2
<1>4. /\ PanesFollow'
      /\ DOMAIN paneShows' = Place /\ DOMAIN paneHas' = Place
      /\ \A q \in Place : paneHas'[q] \in 1 .. everMade \cup {NoIdent}
    BY <1>1, <1>3, ShowsKeeps DEF FormsInv
<1>5. FormsTypes'
    BY <1>1, <1>4 DEF FormsInv, FormsTypes
<1>6. ListFollows' /\ UntoldIsKnown'
    BY <1>1, <1>2 DEF FormsInv, ListFollows, UntoldIsKnown
<1> QED
    BY <1>4, <1>5, <1>6 DEF FormsInv

-----------------------------------------------------------------------------
(* Steps of the server and of other clients.                                *)

\* A request moves on, and is no rename of which the browser is not told, before
\* or after.
LEMMA OtherRequestMoves ==
    ASSUME FormsInv, NEW i \in DOMAIN requests, NEW stage,
           requests' = [requests EXCEPT ![i].stage = stage],
           i \notin UntoldAt, requests[i].kind # "rename" \/ stage # "done",
           UNCHANGED <<running, everMade, strayed, paneVars>>, listStale' \in BOOLEAN,
           ~listStale' =>
               /\ ~listStale
               /\ stage \in {"sent", "failed"} => shownSessions' = running
               /\ stage # "listed"
    PROVE  FormsInv'
<1>1. FormsTypes /\ ListFollows /\ UntoldIsKnown /\ PanesFollow
    BY DEF FormsInv
<1>2. /\ \E S : requests' \in Seq(S)
      /\ DOMAIN requests' = DOMAIN requests
      /\ requests'[i].kind = requests[i].kind /\ requests'[i].stage = stage
      /\ \A j \in DOMAIN requests : j # i => requests'[j] = requests[j]
      /\ \A j \in DOMAIN requests' : FormFields \subseteq DOMAIN requests'[j]
      /\ requests' # <<>>
    BY <1>1, Moved
<1>3. FormsTypes'
    BY <1>1, <1>2 DEF FormsTypes, paneVars
<1>4. i \notin UntoldAt'
    BY <1>2 DEF UntoldAt
<1>5. UntoldIsKnown' /\ PanesFollow'
    BY <1>1, <1>2, <1>4, UntoldUnchanged
<1>6. ListFollows'
    <2>1. ~listStale' => \A j, k \in DOMAIN requests : j = k
        BY <1>1 DEF ListFollows
    <2> QED
        BY <1>2, <2>1, ListOfOne
<1> QED
    BY <1>3, <1>5, <1>6 DEF FormsInv

\* The renames of which the browser is not told, as the model has them.
LEMMA UntoldFacts == Untold = {requests[j] : j \in UntoldAt}
BY DEF Untold, UntoldAt, Range

\* A session gets a name that is free, or its own.
LEMMA TakesFacts ==
    ASSUME FormsTypes, NEW name, NEW ident, Takes(name, ident),
           everMade' \in Nat, everMade <= everMade', ident \in 1 .. everMade',
           \A n \in DOMAIN running : n = name => running[n] = ident
    PROVE  /\ running' \in [DOMAIN running' -> 1 .. everMade']
           /\ \A m, n \in DOMAIN running' : running'[m] = running'[n] => m = n
           /\ \A n \in DOMAIN running' :
                 \/ n = name /\ running'[n] = ident
                 \/ n # name /\ n \in DOMAIN running /\ running'[n] = running[n] /\ running[n] # ident
           /\ strayed \subseteq strayed'
           /\ \A j \in UntoldAt : requests[j].name = name \/ requests[j].ident = ident =>
                 ident \in strayed' /\ requests[j].ident \in strayed'
<1> DEFINE names == {m \in DOMAIN running : running[m] # ident} \cup {name}
<1>1. running' = [n \in names |-> IF n = name THEN ident ELSE running[n]]
    BY DEF Takes
<1>2. \A n \in names : n = name \/ (n \in DOMAIN running /\ running[n] # ident)
    OBVIOUS
<1> HIDE DEF names
<1>3. DOMAIN running' = names /\ \A n \in names : running'[n] = IF n = name THEN ident ELSE running[n]
    BY <1>1
<1>4. \A n \in DOMAIN running' :
          \/ n = name /\ running'[n] = ident
          \/ n # name /\ n \in DOMAIN running /\ running'[n] = running[n] /\ running[n] # ident
    BY <1>2, <1>3
<1>5. \A n \in DOMAIN running : running[n] \in 1 .. everMade'
    BY DEF FormsTypes
<1>6. running' \in [DOMAIN running' -> 1 .. everMade']
    BY <1>1, <1>3, <1>4, <1>5
<1>7. \A m, n \in DOMAIN running' : running'[m] = running'[n] => m = n
    BY <1>4 DEF FormsTypes
<1>8. strayed' = strayed \cup UNION {{ident, r.ident} : r \in {u \in Untold : u.name = name \/ u.ident = ident}}
    BY DEF Takes
<1>9. ASSUME NEW j \in UntoldAt, requests[j].name = name \/ requests[j].ident = ident
      PROVE  ident \in strayed' /\ requests[j].ident \in strayed'
    <2>1. requests[j] \in {u \in Untold : u.name = name \/ u.ident = ident}
        BY <1>9, UntoldFacts
    <2> QED
        BY <1>8, <2>1
<1>10. strayed \subseteq strayed'
    BY <1>8
<1> QED
    BY <1>4, <1>6, <1>7, <1>9, <1>10

\* tmux makes a session.
LEMMA TmuxCreatesStep ==
    ASSUME FormsInv, NEW i \in DOMAIN requests, TmuxCreates(i)
    PROVE  FormsInv'
<1> DEFINE name == requests[i].name
           ident == everMade + 1
<1>1. FormsTypes /\ ListFollows /\ UntoldIsKnown /\ PanesFollow
    BY DEF FormsInv
<1>2. /\ requests[i].kind = "create" /\ requests[i].stage = "sent"
      /\ name \notin DOMAIN running /\ everMade < MaxSessions
      /\ everMade' = ident
      /\ Takes(name, ident)
      /\ requests' = [requests EXCEPT ![i].stage = "done", ![i].ident = ident]
      /\ UNCHANGED <<listStale, shownSessions, paneVars>>
    BY DEF TmuxCreates, At, InBrowser
<1> HIDE DEF name, ident
<1>3. /\ \E S : requests' \in Seq(S)
      /\ DOMAIN requests' = DOMAIN requests
      /\ requests'[i].kind = "create" /\ requests'[i].stage = "done"
      /\ \A j \in DOMAIN requests : j # i => requests'[j] = requests[j]
      /\ \A j \in DOMAIN requests' : FormFields \subseteq DOMAIN requests'[j]
      /\ requests' # <<>>
    <2>1. MovesAs(i, "done", ident)
        BY <1>2 DEF MovesAs
    <2>2. /\ \E S : requests' \in Seq(S)
          /\ DOMAIN requests' = DOMAIN requests
          /\ requests'[i].kind = requests[i].kind /\ requests'[i].stage = "done"
          /\ \A j \in DOMAIN requests : j # i => requests'[j] = requests[j]
          /\ \A j \in DOMAIN requests' : FormFields \subseteq DOMAIN requests'[j]
          /\ requests' # <<>>
        BY <1>1, <2>1, MovedAsOne
    <2> QED
        BY <1>2, <2>2
<1>4. everMade \in Nat /\ MaxSessions \in Nat /\ ident = everMade + 1
    BY <1>1, NobodyRuns DEF FormsTypes, ident
<1>5. everMade' \in Nat /\ everMade <= everMade' /\ everMade' <= MaxSessions /\ ident \in 1 .. everMade'
      /\ ident \notin 1 .. everMade
    BY <1>2, <1>4
<1>6. /\ running' \in [DOMAIN running' -> 1 .. everMade']
      /\ \A m, n \in DOMAIN running' : running'[m] = running'[n] => m = n
      /\ \A n \in DOMAIN running' :
            \/ n = name /\ running'[n] = ident
            \/ n # name /\ n \in DOMAIN running /\ running'[n] = running[n] /\ running[n] # ident
      /\ strayed \subseteq strayed'
      /\ \A j \in UntoldAt : requests[j].name = name \/ requests[j].ident = ident =>
            ident \in strayed' /\ requests[j].ident \in strayed'
    BY <1>1, <1>2, <1>5, TakesFacts
<1>7. i \notin UntoldAt /\ UntoldAt' = UntoldAt /\ \A j \in UntoldAt : requests'[j] = requests[j]
    BY <1>2, <1>3 DEF UntoldAt
<1>8. UntoldIsKnown' /\ PanesFollow'
    <2>1. (\A j \in UntoldAt : j \in UntoldAt' /\ requests'[j] = requests[j]) /\ \A j \in UntoldAt' : j \in UntoldAt
        BY <1>7
    <2>2. UNCHANGED paneVars
        BY <1>2
    <2> QED
        BY <1>1, <1>5, <1>6, <2>1, <2>2, TakenName
<1>9. FormsTypes'
    <2>1. \A p \in Place : paneHas'[p] \in 1 .. everMade' \cup {NoIdent}
        BY <1>1, <1>2, <1>5 DEF FormsTypes, paneVars
    <2> QED
        BY <1>1, <1>2, <1>3, <1>5, <1>6, <2>1 DEF FormsTypes, paneVars
<1>10. ListFollows'
    <2>1. ~listStale' => \A j, k \in DOMAIN requests : j = k
        BY <1>1, <1>2 DEF ListFollows
    <2> QED
        BY <1>3, <2>1, ListOfOne
<1> QED
    BY <1>8, <1>9, <1>10 DEF FormsInv

\* tmux renames a session.
LEMMA TmuxRenamesStep ==
    ASSUME FormsInv, NEW i \in DOMAIN requests, TmuxRenames(i)
    PROVE  FormsInv'
<1> DEFINE old == requests[i].name
           name == requests[i].newName
           ident == running[old]
<1>1. FormsTypes /\ ListFollows /\ UntoldIsKnown /\ PanesFollow
    BY DEF FormsInv
<1>2. /\ requests[i].kind = "rename" /\ requests[i].stage = "sent"
      /\ old \in DOMAIN running /\ name \notin DOMAIN running \ {old}
      /\ Takes(name, ident)
      /\ requests' = [requests EXCEPT ![i].stage = "done", ![i].ident = ident]
      /\ UNCHANGED <<everMade, listStale, shownSessions, paneVars>>
    BY DEF TmuxRenames, At, InBrowser
<1>3. ident = running[old] /\ ident \in 1 .. everMade /\ \A n \in DOMAIN running : n = name => running[n] = ident
    BY <1>1, <1>2 DEF FormsTypes
<1> HIDE DEF ident, name, old
<1>4. /\ \E S : requests' \in Seq(S)
      /\ DOMAIN requests' = DOMAIN requests
      /\ requests'[i].kind = "rename" /\ requests'[i].stage = "done"
      /\ requests'[i].name = old /\ requests'[i].newName = name /\ requests'[i].ident = ident
      /\ \A j \in DOMAIN requests : j # i => requests'[j] = requests[j]
      /\ \A j \in DOMAIN requests' : FormFields \subseteq DOMAIN requests'[j]
      /\ requests' # <<>>
    <2> DEFINE was == requests[i]
               now == [was EXCEPT !.stage = "done", !.ident = ident]
    <2>1. requests' = [requests EXCEPT ![i] = now]
        BY <1>2
    <2>2. FormFields \subseteq DOMAIN was /\ was.kind = "rename" /\ was.name = old /\ was.newName = name
        BY <1>1, <1>2 DEF FormsTypes, name, old
    <2>3. /\ FormFields \subseteq DOMAIN now
          /\ now.kind = "rename" /\ now.stage = "done"
          /\ now.name = old /\ now.newName = name /\ now.ident = ident
        <3> HIDE DEF was
        <3> QED
            BY <2>2 DEF FormFields
    <2> HIDE DEF now
    <2>4. /\ \E S : requests' \in Seq(S)
          /\ DOMAIN requests' = DOMAIN requests /\ requests'[i] = now
          /\ \A j \in DOMAIN requests : j # i => requests'[j] = requests[j]
          /\ \A j \in DOMAIN requests' : FormFields \subseteq DOMAIN requests'[j]
          /\ requests' # <<>>
        BY <1>1, <2>1, <2>3, RequestChanged
    <2> QED
        BY <2>3, <2>4
<1>5. everMade' \in Nat /\ everMade <= everMade' /\ everMade' <= MaxSessions /\ ident \in 1 .. everMade'
    BY <1>1, <1>2, <1>3 DEF FormsTypes
<1>6. /\ running' \in [DOMAIN running' -> 1 .. everMade']
      /\ \A m, n \in DOMAIN running' : running'[m] = running'[n] => m = n
      /\ \A n \in DOMAIN running' :
            \/ n = name /\ running'[n] = ident
            \/ n # name /\ n \in DOMAIN running /\ running'[n] = running[n] /\ running[n] # ident
      /\ strayed \subseteq strayed'
      /\ \A j \in UntoldAt : requests[j].name = name \/ requests[j].ident = ident =>
            ident \in strayed' /\ requests[j].ident \in strayed'
    BY <1>1, <1>2, <1>3, <1>5, TakesFacts
<1>7. i \notin UntoldAt /\ i \in UntoldAt' /\ UntoldAt' = UntoldAt \cup {i}
      /\ \A j \in UntoldAt : requests'[j] = requests[j]
    BY <1>2, <1>4 DEF UntoldAt
<1>8. UntoldIsKnown' /\ PanesFollow'
    <2>1. \A j \in UntoldAt : j \in UntoldAt' /\ requests'[j] = requests[j]
        BY <1>7
    <2>2. \A j \in UntoldAt' : \/ j \in UntoldAt
                               \/ /\ j = i /\ requests'[j].ident = ident /\ requests'[j].newName = name
                                  /\ requests'[j].name \in DOMAIN running
                                  /\ running[requests'[j].name] = ident
        BY <1>2, <1>4, <1>3, <1>7
    <2>3. \E m \in DOMAIN running : /\ running[m] = ident /\ i \in UntoldAt'
                                    /\ requests'[i].ident = ident /\ requests'[i].name = m
                                    /\ requests'[i].newName = name
        BY <1>2, <1>4, <1>3, <1>7
    <2>4. UNCHANGED paneVars
        BY <1>2
    <2> QED
        BY <1>1, <1>5, <1>6, <2>1, <2>2, <2>3, <2>4, TakenName
<1>9. FormsTypes'
    BY <1>1, <1>2, <1>4, <1>6 DEF FormsTypes, paneVars
<1>10. ListFollows'
    <2>1. ~listStale' => \A j, k \in DOMAIN requests : j = k
        BY <1>1, <1>2 DEF ListFollows
    <2> QED
        BY <1>4, <2>1, ListOfOne
<1> QED
    BY <1>8, <1>9, <1>10 DEF FormsInv

\* Sessions that are left have their names.
LEMMA FewerRun ==
    ASSUME FormsTypes, NEW name, running' = Restrict(running, DOMAIN running \ {name}), everMade' = everMade
    PROVE  /\ \A n \in DOMAIN running' : n \in DOMAIN running /\ running'[n] = running[n]
           /\ running' \in [DOMAIN running' -> 1 .. everMade']
           /\ \A m, n \in DOMAIN running' : running'[m] = running'[n] => m = n
<1> DEFINE names == DOMAIN running \ {name}
<1>1. running' = [n \in names |-> running[n]] /\ \A n \in names : n \in DOMAIN running
    BY DEF Restrict
<1> HIDE DEF names
<1>2. DOMAIN running' = names /\ \A n \in names : running'[n] = running[n]
    BY <1>1
<1>3. \A n \in DOMAIN running' : n \in DOMAIN running /\ running'[n] = running[n]
    BY <1>1, <1>2
<1>4. running' \in [DOMAIN running' -> 1 .. everMade']
    BY <1>1, <1>2, <1>3 DEF FormsTypes
<1> QED
    BY <1>3, <1>4 DEF FormsTypes

\* tmux kills a session.
LEMMA TmuxKillsStep ==
    ASSUME FormsInv, NEW i \in DOMAIN requests, TmuxKills(i)
    PROVE  FormsInv'
<1>1. FormsTypes /\ ListFollows /\ UntoldIsKnown /\ PanesFollow
    BY DEF FormsInv
<1>2. /\ requests[i].kind = "delete" /\ requests[i].stage = "sent"
      /\ running' = Restrict(running, DOMAIN running \ {requests[i].name})
      /\ requests' = [requests EXCEPT ![i].stage = "done"]
      /\ UNCHANGED <<everMade, listStale, strayed, shownSessions, paneVars>>
    BY DEF TmuxKills, At, InBrowser, Moves
<1>3. /\ \E S : requests' \in Seq(S)
      /\ DOMAIN requests' = DOMAIN requests
      /\ requests'[i].kind = "delete" /\ requests'[i].stage = "done"
      /\ \A j \in DOMAIN requests : j # i => requests'[j] = requests[j]
      /\ \A j \in DOMAIN requests' : FormFields \subseteq DOMAIN requests'[j]
      /\ requests' # <<>>
    BY <1>1, <1>2, Moved
<1>4. /\ \A n \in DOMAIN running' : n \in DOMAIN running /\ running'[n] = running[n]
      /\ running' \in [DOMAIN running' -> 1 .. everMade']
      /\ \A m, n \in DOMAIN running' : running'[m] = running'[n] => m = n
    BY <1>1, <1>2, FewerRun
<1>5. i \notin UntoldAt /\ i \notin UntoldAt'
    BY <1>2, <1>3 DEF UntoldAt
<1>6. UntoldIsKnown' /\ PanesFollow'
    BY <1>1, <1>2, <1>3, <1>4, <1>5, UntoldUnchanged
<1>7. FormsTypes'
    BY <1>1, <1>2, <1>3, <1>4 DEF FormsTypes, paneVars
<1>8. ListFollows'
    <2>1. ~listStale' => \A j, k \in DOMAIN requests : j = k
        BY <1>1, <1>2 DEF ListFollows
    <2> QED
        BY <1>3, <2>1, ListOfOne
<1> QED
    BY <1>6, <1>7, <1>8 DEF FormsInv

\* What was asked is refused.
LEMMA RefusedStep ==
    ASSUME FormsInv, NEW i \in DOMAIN requests, Refused(i)
    PROVE  FormsInv'
<1>1. /\ requests[i].stage = "sent"
      /\ requests' = [requests EXCEPT ![i].stage = "failed"]
      /\ UNCHANGED <<running, everMade, listStale, strayed, shownSessions, paneVars>>
    BY DEF Refused, InBrowser, Moves, tmuxVars
<1>2. i \notin UntoldAt
    BY <1>1 DEF UntoldAt
<1>3. ~listStale => shownSessions = running
    BY <1>1 DEF FormsInv, ListFollows
<1>4. listStale' \in BOOLEAN
    BY <1>1 DEF FormsInv, FormsTypes
<1> QED
    BY <1>1, <1>2, <1>3, <1>4, OtherRequestMoves

\* An answer is lost.
LEMMA AnswerIsLostStep ==
    ASSUME FormsInv, NEW i \in DOMAIN requests, AnswerIsLost(i)
    PROVE  FormsInv'
<1>1. FormsTypes /\ UntoldIsKnown /\ PanesFollow
    BY DEF FormsInv
<1>2. /\ requests' = [requests EXCEPT ![i].stage = "failed"]
      /\ listStale' = TRUE
      /\ strayed' = strayed \cup ({requests[i].ident} \ {NoIdent})
      /\ UNCHANGED <<running, everMade, shownSessions, paneVars>>
    BY DEF AnswerIsLost, InBrowser, Moves, tmuxVars
<1>3. /\ \E S : requests' \in Seq(S)
      /\ DOMAIN requests' = DOMAIN requests
      /\ requests'[i].stage = "failed"
      /\ \A j \in DOMAIN requests : j # i => requests'[j] = requests[j]
      /\ \A j \in DOMAIN requests' : FormFields \subseteq DOMAIN requests'[j]
    BY <1>1, <1>2, Moved
<1>4. UntoldAt' = UntoldAt \ {i} /\ \A k \in UntoldAt : k # i => requests'[k] = requests[k]
    BY <1>3 DEF UntoldAt
<1>5. UntoldIsKnown'
    <2> DEFINE at == [k \in DOMAIN requests |-> k]
    <2>1. /\ \A k \in UntoldAt' : at[k] \in UntoldAt /\ requests'[k] = requests[at[k]]
          /\ \A k, m \in UntoldAt' : at[k] = at[m] => k = m
        BY <1>4 DEF UntoldAt
    <2> HIDE DEF at
    <2> QED
        BY <1>1, <1>2, <2>1, UntoldStays
<1>6. \A j \in UntoldAt : requests[j].ident \in strayed' \/ \E k \in UntoldAt' : requests'[k] = requests[j]
    <2>1. i \in UntoldAt => requests[i].ident \in strayed'
        BY <1>1, <1>2, NobodyRuns DEF UntoldIsKnown
    <2> QED
        BY <1>4, <2>1
<1>7. PanesFollow'
    BY <1>1, <1>2, <1>6, PanesStay
<1>8. FormsTypes'
    BY <1>1, <1>2, <1>3 DEF FormsTypes, paneVars
<1>9. ListFollows'
    BY <1>2 DEF ListFollows
<1> QED
    BY <1>5, <1>7, <1>8, <1>9 DEF FormsInv

\* A list is sent to the browser.
LEMMA SessionsListedStep ==
    ASSUME FormsInv, NEW i \in DOMAIN requests, SessionsListed(i)
    PROVE  FormsInv'
<1>1. FormsTypes /\ ListFollows /\ UntoldIsKnown /\ PanesFollow
    BY DEF FormsInv
<1>2. /\ requests[i].stage = "listing"
      /\ requests' = [requests EXCEPT ![i].stage = "listed", ![i].found = running]
      /\ listStale' = (listStale /\ Len(requests) > 1)
      /\ UNCHANGED <<running, everMade, strayed, shownSessions, paneVars>>
    BY DEF SessionsListed, InBrowser, tmuxVars
<1> DEFINE was == requests[i]
           now == [was EXCEPT !.stage = "listed", !.found = running]
<1>3. requests' = [requests EXCEPT ![i] = now]
    BY <1>2
<1>4. FormFields \subseteq DOMAIN was
    BY <1>1 DEF FormsTypes
<1>5. FormFields \subseteq DOMAIN now /\ now.stage = "listed" /\ now.found = running
    <2> HIDE DEF was
    <2> QED
        BY <1>4 DEF FormFields
<1> HIDE DEF now
<1>6. /\ \E S : requests' \in Seq(S)
      /\ DOMAIN requests' = DOMAIN requests /\ requests'[i] = now
      /\ \A j \in DOMAIN requests : j # i => requests'[j] = requests[j]
      /\ \A j \in DOMAIN requests' : FormFields \subseteq DOMAIN requests'[j]
      /\ requests' # <<>>
    BY <1>1, <1>3, <1>5, RequestChanged
<1>7. i \notin UntoldAt /\ i \notin UntoldAt'
    BY <1>2, <1>5, <1>6 DEF UntoldAt
<1>8. UntoldIsKnown' /\ PanesFollow'
    BY <1>1, <1>2, <1>6, <1>7, UntoldUnchanged
<1>9. FormsTypes'
    BY <1>1, <1>2, <1>6 DEF FormsTypes, paneVars
<1>10. ListFollows'
    <2>1. ASSUME ~listStale', NEW j \in DOMAIN requests, NEW k \in DOMAIN requests
          PROVE  j = k
        <3>1. CASE ~listStale
            BY <1>1, <3>1 DEF ListFollows
        <3>2. CASE ~(Len(requests) > 1)
            <4>1. PICK S : requests \in Seq(S)
                BY <1>1 DEF FormsTypes
            <4>2. DOMAIN requests = 1 .. Len(requests) /\ Len(requests) \in Nat
                BY <4>1, LenProperties
            <4> QED
                BY <3>2, <4>2
        <3> QED
            BY <1>2, <2>1, <3>1, <3>2
    <2>2. requests'[i].stage = "listed" /\ requests'[i].found = running'
        BY <1>2, <1>5, <1>6
    <2> QED
        BY <1>6, <2>1, <2>2, ListOfOne
<1> QED
    BY <1>8, <1>9, <1>10 DEF FormsInv

\* No list comes.
LEMMA ListFailsStep ==
    ASSUME FormsInv, NEW i \in DOMAIN requests, ListFails(i)
    PROVE  FormsInv'
<1>1. /\ requests[i].stage = "listing"
      /\ requests' = [requests EXCEPT ![i].stage = "listed"]
      /\ listStale' = TRUE
      /\ UNCHANGED <<running, everMade, strayed, paneVars>>
    BY DEF ListFails, InBrowser, Moves, tmuxVars
<1>2. i \notin UntoldAt
    BY <1>1 DEF UntoldAt
<1> QED
    BY <1>1, <1>2, OtherRequestMoves

\* What another client does leaves the requests and the panes alone.
LEMMA OtherClientSteps ==
    ASSUME FormsTypes, OtherClient,
           everMade' \in Nat, everMade <= everMade', everMade' <= MaxSessions,
           running' \in [DOMAIN running' -> 1 .. everMade'],
           \A m, n \in DOMAIN running' : running'[m] = running'[n] => m = n
    PROVE  FormsTypes' /\ ListFollows'
<1>1. UNCHANGED <<requests, paneVars>> /\ listStale' = TRUE
    BY DEF OtherClient
<1>2. \A p \in Place : paneHas'[p] \in 1 .. everMade' \cup {NoIdent}
    BY <1>1 DEF FormsTypes, paneVars
<1> QED
    BY <1>1, <1>2 DEF FormsTypes, ListFollows, paneVars

\* A session is started by somebody else.
LEMMA StartedElsewhereStep ==
    ASSUME FormsInv, NEW name, StartedElsewhere(name)
    PROVE  FormsInv'
<1> DEFINE ident == everMade + 1
<1>1. FormsTypes /\ ListFollows /\ UntoldIsKnown /\ PanesFollow
    BY DEF FormsInv
<1>2. /\ name \notin DOMAIN running /\ everMade < MaxSessions
      /\ everMade' = ident
      /\ Takes(name, ident)
      /\ OtherClient /\ UNCHANGED <<requests, paneVars>>
    BY DEF StartedElsewhere, OtherClient
<1> HIDE DEF ident
<1>3. everMade \in Nat /\ MaxSessions \in Nat /\ ident = everMade + 1
    BY <1>1, NobodyRuns DEF FormsTypes, ident
<1>4. everMade' \in Nat /\ everMade <= everMade' /\ everMade' <= MaxSessions /\ ident \in 1 .. everMade'
      /\ ident \notin 1 .. everMade
    BY <1>2, <1>3
<1>5. /\ running' \in [DOMAIN running' -> 1 .. everMade']
      /\ \A m, n \in DOMAIN running' : running'[m] = running'[n] => m = n
      /\ \A n \in DOMAIN running' :
            \/ n = name /\ running'[n] = ident
            \/ n # name /\ n \in DOMAIN running /\ running'[n] = running[n] /\ running[n] # ident
      /\ strayed \subseteq strayed'
      /\ \A j \in UntoldAt : requests[j].name = name \/ requests[j].ident = ident =>
            ident \in strayed' /\ requests[j].ident \in strayed'
    BY <1>1, <1>2, <1>4, TakesFacts
<1>6. UntoldIsKnown' /\ PanesFollow'
    <2>1. (\A j \in UntoldAt : j \in UntoldAt' /\ requests'[j] = requests[j]) /\ \A j \in UntoldAt' : j \in UntoldAt
        BY <1>2 DEF UntoldAt
    <2>2. UNCHANGED paneVars
        BY <1>2
    <2> DEFINE none == 0
    <2> HIDE DEF none
    <2>3. \A j \in UntoldAt' : \/ j \in UntoldAt
                               \/ /\ j = none /\ requests'[j].ident = ident /\ requests'[j].newName = name
                                  /\ requests'[j].name \in DOMAIN running
                                  /\ running[requests'[j].name] = ident
        BY <2>1
    <2> QED
        BY <1>1, <1>4, <1>5, <2>1, <2>2, <2>3, TakenName
<1>7. FormsTypes' /\ ListFollows'
    BY <1>1, <1>2, <1>4, <1>5, OtherClientSteps
<1> QED
    BY <1>6, <1>7 DEF FormsInv

\* A session is renamed by somebody else.
LEMMA RenamedElsewhereStep ==
    ASSUME FormsInv, NEW old, NEW name, RenamedElsewhere(old, name)
    PROVE  FormsInv'
<1> DEFINE ident == running[old]
           names == (DOMAIN running \ {old}) \cup {name}
<1>1. FormsTypes /\ ListFollows /\ UntoldIsKnown /\ PanesFollow
    BY DEF FormsInv
<1>2. /\ old \in DOMAIN running /\ name \notin DOMAIN running
      /\ running' = [n \in names |-> IF n = name THEN ident ELSE running[n]]
      /\ strayed' = strayed \cup {ident} \cup {r.ident : r \in {u \in Untold : u.name = name}}
      /\ everMade' = everMade
      /\ OtherClient /\ UNCHANGED <<requests, paneVars>>
    BY DEF RenamedElsewhere, OtherClient
<1>3. \A n \in names : n = name \/ (n \in DOMAIN running /\ n # old)
    OBVIOUS
<1>4. ident = running[old] /\ ident \in 1 .. everMade /\ everMade \in Nat /\ everMade <= MaxSessions
    BY <1>1, <1>2 DEF FormsTypes
<1> HIDE DEF names, ident
<1>5. DOMAIN running' = names /\ \A n \in names : running'[n] = IF n = name THEN ident ELSE running[n]
    BY <1>2
<1>6. \A n \in DOMAIN running' :
          \/ n = name /\ running'[n] = ident
          \/ n # name /\ n \in DOMAIN running /\ running'[n] = running[n] /\ running[n] # ident
    BY <1>1, <1>2, <1>3, <1>4, <1>5 DEF FormsTypes
<1>7. \A n \in DOMAIN running : running[n] \in 1 .. everMade'
    BY <1>1, <1>2 DEF FormsTypes
<1>8. running' \in [DOMAIN running' -> 1 .. everMade']
    BY <1>2, <1>4, <1>5, <1>6, <1>7
<1>9. \A m, n \in DOMAIN running' : running'[m] = running'[n] => m = n
    BY <1>1, <1>6 DEF FormsTypes
<1>10. ident \in strayed' /\ strayed \subseteq strayed'
    BY <1>2
<1>11. ASSUME NEW j \in UntoldAt, requests[j].name = name \/ requests[j].ident = ident
       PROVE  ident \in strayed' /\ requests[j].ident \in strayed'
    <2>1. CASE requests[j].name = name
        <3>1. requests[j] \in {u \in Untold : u.name = name}
            BY <2>1, UntoldFacts
        <3> QED
            BY <1>2, <1>10, <3>1
    <2>2. CASE requests[j].ident = ident
        BY <1>10, <2>2
    <2> QED
        BY <1>11, <2>1, <2>2
<1>12. UntoldIsKnown' /\ PanesFollow'
    <2>1. (\A j \in UntoldAt : j \in UntoldAt' /\ requests'[j] = requests[j]) /\ \A j \in UntoldAt' : j \in UntoldAt
        BY <1>2 DEF UntoldAt
    <2>2. UNCHANGED paneVars
        BY <1>2
    <2> DEFINE none == 0
    <2> HIDE DEF none
    <2>3. \A j \in UntoldAt' : \/ j \in UntoldAt
                               \/ /\ j = none /\ requests'[j].ident = ident /\ requests'[j].newName = name
                                  /\ requests'[j].name \in DOMAIN running
                                  /\ running[requests'[j].name] = ident
        BY <2>1
    <2>4. everMade' \in Nat /\ everMade <= everMade' /\ everMade' <= MaxSessions /\ ident \in 1 .. everMade'
        BY <1>2, <1>4
    <2>5. \A j \in UntoldAt : requests[j].name = name \/ requests[j].ident = ident =>
              ident \in strayed' /\ requests[j].ident \in strayed'
        BY <1>11
    <2> QED
        BY <1>1, <1>6, <1>10, <2>1, <2>2, <2>3, <2>4, <2>5, TakenName
<1>13. FormsTypes' /\ ListFollows'
    BY <1>1, <1>2, <1>4, <1>8, <1>9, OtherClientSteps
<1> QED
    BY <1>12, <1>13 DEF FormsInv

\* A session is killed by somebody else.
LEMMA KilledElsewhereStep ==
    ASSUME FormsInv, NEW name, KilledElsewhere(name)
    PROVE  FormsInv'
<1>1. FormsTypes /\ ListFollows /\ UntoldIsKnown /\ PanesFollow
    BY DEF FormsInv
<1>2. /\ running' = Restrict(running, DOMAIN running \ {name})
      /\ UNCHANGED <<everMade, strayed, requests, paneVars>> /\ OtherClient
    BY DEF KilledElsewhere, OtherClient
<1>3. /\ \A n \in DOMAIN running' : n \in DOMAIN running /\ running'[n] = running[n]
      /\ running' \in [DOMAIN running' -> 1 .. everMade']
      /\ \A m, n \in DOMAIN running' : running'[m] = running'[n] => m = n
    BY <1>1, <1>2, FewerRun
<1>4. UntoldAt' = UntoldAt /\ requests' = requests
    BY <1>2 DEF UntoldAt
<1>5. UntoldIsKnown'
    <2> DEFINE at == [k \in DOMAIN requests |-> k]
    <2>1. /\ \A k \in UntoldAt' : at[k] \in UntoldAt /\ requests'[k] = requests[at[k]]
          /\ \A k, m \in UntoldAt' : at[k] = at[m] => k = m
        BY <1>4 DEF UntoldAt
    <2> HIDE DEF at
    <2> QED
        BY <1>1, <1>2, <1>3, <2>1, UntoldStays
<1>6. PanesFollow'
    <2>1. \A j \in UntoldAt : \E k \in UntoldAt' : requests'[k] = requests[j]
        BY <1>4
    <2> QED
        BY <1>1, <1>2, <1>3, <2>1, PanesStay
<1>7. FormsTypes' /\ ListFollows'
    <2>1. everMade' \in Nat /\ everMade <= everMade' /\ everMade' <= MaxSessions
        BY <1>1, <1>2 DEF FormsTypes
    <2> QED
        BY <1>1, <1>2, <1>3, <2>1, OtherClientSteps
<1> QED
    BY <1>5, <1>6, <1>7 DEF FormsInv


-----------------------------------------------------------------------------
(* Steps of the answers in the browser.                                     *)

\* The session has been created.
LEMMA CreatedAnswerStep ==
    ASSUME FormsInv, NEW i \in DOMAIN requests, CreatedAnswer(i)
    PROVE  FormsInv'
<1>1. /\ requests[i].kind = "create"
      /\ requests' = [requests EXCEPT ![i].stage = "listing"]
      /\ UNCHANGED <<running, everMade, strayed, listStale, paneVars>>
    BY DEF CreatedAnswer, At, Moves, InTmux, tmuxVars
<1>2. i \notin UntoldAt
    BY <1>1 DEF UntoldAt
<1>3. listStale' \in BOOLEAN
    BY <1>1 DEF FormsInv, FormsTypes
<1> QED
    BY <1>1, <1>2, <1>3, OtherRequestMoves

\* The session has been deleted.
LEMMA DeletedAnswerStep ==
    ASSUME FormsInv, NEW i \in DOMAIN requests, DeletedAnswer(i)
    PROVE  FormsInv'
<1>1. /\ requests[i].kind = "delete"
      /\ requests' = [requests EXCEPT ![i].stage = "listing"]
      /\ UNCHANGED <<running, everMade, strayed, listStale, paneVars>>
    BY DEF DeletedAnswer, At, Moves, InTmux, tmuxVars
<1>2. i \notin UntoldAt
    BY <1>1 DEF UntoldAt
<1>3. listStale' \in BOOLEAN
    BY <1>1 DEF FormsInv, FormsTypes
<1> QED
    BY <1>1, <1>2, <1>3, OtherRequestMoves

\* The panes are told of a rename.
LEMMA RenamedAnswerStep ==
    ASSUME FormsInv, NEW i \in DOMAIN requests, RenamedAnswer(i)
    PROVE  FormsInv'
<1> DEFINE old == requests[i].name
           name == requests[i].newName
           U == UntoldAt'
<1>1. FormsTypes /\ ListFollows /\ UntoldIsKnown /\ PanesFollow
    BY DEF FormsInv
<1>2. /\ requests[i].kind = "rename" /\ requests[i].stage = "done"
      /\ paneShows' = [p \in Place |-> IF paneShows[p] = old THEN name ELSE paneShows[p]]
      /\ requests' = [requests EXCEPT ![i].stage = "listing"]
      /\ UNCHANGED <<running, everMade, strayed, listStale, paneHas>>
    BY DEF RenamedAnswer, RenamedInWorkspaces, At, Moves, InTmux, tmuxVars
<1>3. /\ \E S : requests' \in Seq(S)
      /\ DOMAIN requests' = DOMAIN requests
      /\ requests'[i].stage = "listing"
      /\ \A j \in DOMAIN requests : j # i => requests'[j] = requests[j]
      /\ \A j \in DOMAIN requests' : FormFields \subseteq DOMAIN requests'[j]
      /\ requests' # <<>>
    BY <1>1, <1>2, Moved
<1>4. i \in UntoldAt /\ UntoldAt' = UntoldAt \ {i} /\ \A k \in UntoldAt : k # i => requests'[k] = requests[k]
    BY <1>2, <1>3 DEF UntoldAt
<1>5. UntoldIsKnown'
    <2> DEFINE at == [k \in DOMAIN requests |-> k]
    <2>1. /\ \A k \in UntoldAt' : at[k] \in UntoldAt /\ requests'[k] = requests[at[k]]
          /\ \A k, m \in UntoldAt' : at[k] = at[m] => k = m
        BY <1>4 DEF UntoldAt
    <2> HIDE DEF at
    <2> QED
        BY <1>1, <1>2, <2>1, UntoldStays
<1>6. \A p \in Place : /\ paneShows[p] = old => paneShows'[p] = name
                       /\ paneShows[p] # old => paneShows'[p] = paneShows[p]
    BY <1>2
<1> HIDE DEF U, old, name
<1>7. ASSUME NEW p \in Place, NEW n \in DOMAIN running, running[n] = paneHas[p], paneHas[p] \notin strayed
      PROVE  \/ paneShows'[p] = n
             \/ \E k \in U : /\ requests'[k].ident = paneHas[p] /\ requests'[k].name = paneShows'[p]
                             /\ requests'[k].newName = n
    <2>1. CASE paneShows[p] = n
        <3>1. CASE n = old
            <4>1. requests[i].ident = running[n]
                BY <1>1, <1>4, <1>7, <3>1 DEF UntoldIsKnown, old
            <4>2. name = n
                BY <1>1, <1>4, <1>7, <4>1 DEF UntoldIsKnown, name
            <4> QED
                BY <1>6, <2>1, <3>1, <4>2
        <3>2. CASE n # old
            BY <1>6, <2>1, <3>2
        <3> QED
            BY <3>1, <3>2
    <2>2. CASE \E j \in UntoldAt : /\ requests[j].ident = paneHas[p] /\ requests[j].name = paneShows[p]
                                   /\ requests[j].newName = n
        <3>1. PICK j \in UntoldAt : /\ requests[j].ident = paneHas[p] /\ requests[j].name = paneShows[p]
                                    /\ requests[j].newName = n
            BY <2>2
        <3>2. CASE j = i
            BY <1>6, <3>1, <3>2 DEF old, name
        <3>3. CASE j # i
            <4>1. requests[j].name # requests[i].name
                BY <1>1, <1>4, <1>7, <3>1, <3>3 DEF UntoldIsKnown
            <4>2. paneShows'[p] = paneShows[p]
                BY <1>6, <3>1, <4>1 DEF old
            <4>3. j \in U /\ requests'[j] = requests[j]
                BY <1>4, <3>3 DEF U
            <4> QED
                BY <3>1, <4>2, <4>3
        <3> QED
            BY <3>2, <3>3
    <2> QED
        BY <1>1, <1>7, <2>1, <2>2 DEF PanesFollow
<1>8. PanesFollow'
    BY <1>2, <1>7 DEF PanesFollow, U
<1>9. FormsTypes'
    BY <1>1, <1>2, <1>3 DEF FormsTypes
<1>10. ListFollows'
    <2>1. ~listStale' => \A j, k \in DOMAIN requests : j = k
        BY <1>1, <1>2 DEF ListFollows
    <2> QED
        BY <1>3, <2>1, ListOfOne
<1> QED
    BY <1>5, <1>8, <1>9, <1>10 DEF FormsInv

\* A handler ends, whose request is no rename of which the browser is not told.
LEMMA HandlerEndsStep ==
    ASSUME FormsInv, NEW i \in DOMAIN requests, HandlerEnds(i), i \notin UntoldAt,
           UNCHANGED <<running, everMade, strayed>>, listStale' \in BOOLEAN,
           ~listStale' => ~listStale /\ shownSessions' = running,
           \/ UNCHANGED paneVars
           \/ \E p \in Place : \E name, ident : Shows(p, name, ident)
    PROVE  FormsInv'
<1>1. FormsTypes /\ ListFollows /\ UntoldIsKnown /\ PanesFollow
    BY DEF FormsInv
<1>2. requests' = RemoveAt(requests, i)
    BY DEF HandlerEnds
<1>3. /\ \E S : requests' \in Seq(S)
      /\ \E at : LeftAt(i, at)
      /\ \A j \in DOMAIN requests' : FormFields \subseteq DOMAIN requests'[j]
    BY <1>1, <1>2, RequestGone
<1>4. PICK at : LeftAt(i, at)
    BY <1>3
<1>5. /\ \A k \in UntoldAt' : at[k] \in UntoldAt /\ requests'[k] = requests[at[k]]
      /\ \A k, m \in UntoldAt' : at[k] = at[m] => k = m
    BY <1>4 DEF LeftAt, UntoldAt
<1>6. ASSUME NEW j \in UntoldAt
      PROVE  \E k \in UntoldAt' : requests'[k] = requests[j]
    <2>1. j # i /\ j \in DOMAIN requests /\ requests[j].kind = "rename" /\ requests[j].stage = "done"
        BY DEF UntoldAt
    <2>2. PICK k \in DOMAIN requests' : requests'[k] = requests[j]
        BY <1>4, <2>1 DEF LeftAt
    <2>3. k \in UntoldAt'
        BY <2>1, <2>2 DEF UntoldAt
    <2> QED
        BY <2>2, <2>3
<1>7. UntoldIsKnown'
    BY <1>1, <1>5, UntoldStays
<1>8. /\ PanesFollow'
      /\ DOMAIN paneShows' = Place /\ DOMAIN paneHas' = Place
      /\ \A q \in Place : paneHas'[q] \in 1 .. everMade \cup {NoIdent}
    <2>1. CASE UNCHANGED paneVars
        <3>1. PanesFollow'
            BY <1>1, <1>6, <2>1, PanesStay
        <3> QED
            BY <1>1, <2>1, <3>1 DEF FormsTypes, paneVars
    <2>2. CASE \E p \in Place : \E name, ident : Shows(p, name, ident)
        <3>1. PICK p \in Place : \E name, ident : Shows(p, name, ident)
            BY <2>2
        <3>2. PICK name, ident : Shows(p, name, ident)
            BY <3>1
        <3> QED
            BY <1>1, <1>6, <3>2, ShowsKeeps
    <2> QED
        BY <2>1, <2>2
<1>9. FormsTypes'
    BY <1>1, <1>3, <1>8 DEF FormsTypes
<1>10. ListFollows'
    <2>1. ASSUME ~listStale', NEW k \in DOMAIN requests'
          PROVE  FALSE
        <3>1. at[k] \in DOMAIN requests /\ at[k] # i
            BY <1>4 DEF LeftAt
        <3> QED
            BY <1>1, <2>1, <3>1 DEF ListFollows
    <2> QED
        BY <2>1 DEF ListFollows
<1> QED
    BY <1>7, <1>8, <1>9, <1>10 DEF FormsInv

\* It has been deleted when the dialog is closed already.
LEMMA DeletedAnswerAfterCloseStep ==
    ASSUME FormsInv, NEW i \in DOMAIN requests, DeletedAnswerAfterClose(i)
    PROVE  FormsInv'
<1>1. /\ requests[i].kind = "delete" /\ HandlerEnds(i) /\ listStale' = TRUE
      /\ UNCHANGED <<running, everMade, strayed>> /\ UNCHANGED paneVars
    BY DEF DeletedAnswerAfterClose, At, InTmux, tmuxVars
<1>2. i \notin UntoldAt
    BY <1>1 DEF UntoldAt
<1> QED
    BY <1>1, <1>2, HandlerEndsStep

\* The request has failed.
LEMMA FailedAnswerStep ==
    ASSUME FormsInv, NEW i \in DOMAIN requests, FailedAnswer(i)
    PROVE  FormsInv'
<1>1. /\ requests[i].stage = "failed" /\ HandlerEnds(i)
      /\ UNCHANGED <<running, everMade, strayed, listStale, shownSessions>> /\ UNCHANGED paneVars
    BY DEF FailedAnswer, InTmux, tmuxVars
<1>2. i \notin UntoldAt
    BY <1>1 DEF UntoldAt
<1>3. listStale' \in BOOLEAN /\ (~listStale' => ~listStale /\ shownSessions' = running)
    BY <1>1 DEF FormsInv, FormsTypes, ListFollows
<1> QED
    BY <1>1, <1>2, <1>3, HandlerEndsStep

\* A list is shown, and a session that was created, in a pane if there is one.
LEMMA LoadedStep ==
    ASSUME FormsInv, NEW i \in DOMAIN requests,
           NoPaneIsFree(i) \/ \E p \in Place : SessionsLoaded(i, p)
    PROVE  FormsInv'
<1>1. /\ requests[i].stage = "listed" /\ HandlerEnds(i) /\ shownSessions' = requests[i].found
      /\ UNCHANGED <<running, everMade, strayed, listStale>>
    BY DEF NoPaneIsFree, SessionsLoaded, At, InTmux, tmuxVars
<1>2. UNCHANGED paneVars \/ \E p \in Place : \E name, ident : Shows(p, name, ident)
    BY DEF NoPaneIsFree, SessionsLoaded
<1>3. i \notin UntoldAt
    BY <1>1 DEF UntoldAt
<1>4. listStale' \in BOOLEAN /\ (~listStale' => ~listStale /\ shownSessions' = running)
    BY <1>1 DEF FormsInv, FormsTypes, ListFollows
<1> QED
    BY <1>1, <1>2, <1>3, <1>4, HandlerEndsStep

-----------------------------------------------------------------------------
(* The invariant and the theorem.                                           *)

\* The invariant holds at the start.
LEMMA FormsInvInit == FormsInit => FormsInv
<1> SUFFICES ASSUME FormsInit PROVE FormsInv
    OBVIOUS
<1>1. PICK names \in kSubset(everMade, SessionName) : running \in Bijection(names, 1 .. everMade)
    BY DEF FormsInit
<1>2. everMade \in Nat /\ everMade <= MaxSessions
    <2> DEFINE m == Min({MaxSessions, Cardinality(SessionName)})
    <2>1. {MaxSessions, Cardinality(SessionName)} \subseteq Nat
        BY SessionFormsAssumption, FS_CardinalityType
    <2>2. m \in {MaxSessions, Cardinality(SessionName)} /\ \A y \in {MaxSessions, Cardinality(SessionName)} : m <= y
        BY <2>1, MinFacts
    <2>3. everMade \in 0 .. m
        BY DEF FormsInit
    <2> HIDE DEF m
    <2> QED
        BY <2>1, <2>2, <2>3
<1>3. running \in [names -> 1 .. everMade] /\ \A m, n \in names : running[m] = running[n] => m = n
    BY <1>1 DEF Bijection, Injection, IsInjective
<1>4. requests = <<>> /\ DOMAIN requests = {} /\ requests \in Seq({})
    BY DEF FormsInit
<1>5. /\ paneShows = [p \in Place |-> NoName] /\ paneHas = [p \in Place |-> NoIdent]
      /\ listStale = FALSE /\ shownSessions = running
    BY DEF FormsInit
<1>6. FormsTypes
    BY <1>2, <1>3, <1>4, <1>5 DEF FormsTypes
<1>7. ListFollows /\ UntoldIsKnown
    BY <1>4, <1>5 DEF ListFollows, UntoldIsKnown, UntoldAt
<1>8. PanesFollow
    BY <1>3, <1>5, <1>6, NobodyRuns DEF PanesFollow
<1> QED
    BY <1>6, <1>7, <1>8 DEF FormsInv

\* Every step keeps it.
LEMMA FormsInvKept == FormsInv /\ [FormsNext]_formsVars => FormsInv'
<1> SUFFICES ASSUME FormsInv, [FormsNext]_formsVars PROVE FormsInv'
    OBVIOUS
<1>1. ASSUME NEW name \in SessionName, CreateSession(name) \/ RenameSession(name)
      PROVE  FormsInv'
    BY <1>1, SendStep DEF CreateSession, RenameSession
<1>2. CASE DeleteSession
    BY <1>2, SendStep DEF DeleteSession
<1>3. CASE RefreshSessions
    BY <1>3, SendStep DEF RefreshSessions
<1>4. CASE \/ \E name \in Pointed : OpenRenameDialog(name) \/ OpenDeleteDialog(name)
           \/ CloseRenameDialog \/ CloseDeleteDialog
    <2>1. UNCHANGED <<tmuxVars, shownSessions, requests, listStale, strayed, paneVars>>
        BY <1>4 DEF OpenRenameDialog, OpenDeleteDialog, CloseRenameDialog, CloseDeleteDialog, Clicked
    <2> QED
        BY <2>1, ClickStep
<1>5. ASSUME NEW p \in Place, NEW name \in SessionName, PickSession(p, name)
      PROVE  FormsInv'
    BY <1>5, PickStep
<1>6. ASSUME NEW i \in DOMAIN requests,
             \/ TmuxCreates(i) \/ TmuxRenames(i) \/ TmuxKills(i) \/ Refused(i)
             \/ AnswerIsLost(i) \/ SessionsListed(i) \/ ListFails(i)
      PROVE  FormsInv'
    BY <1>6, TmuxCreatesStep, TmuxRenamesStep, TmuxKillsStep, RefusedStep, AnswerIsLostStep,
       SessionsListedStep, ListFailsStep
<1>7. ASSUME NEW i \in DOMAIN requests,
             \/ CreatedAnswer(i) \/ RenamedAnswer(i) \/ DeletedAnswer(i) \/ DeletedAnswerAfterClose(i)
             \/ FailedAnswer(i) \/ NoPaneIsFree(i)
             \/ \E p \in Place : SessionsLoaded(i, p)
      PROVE  FormsInv'
    BY <1>7, CreatedAnswerStep, RenamedAnswerStep, DeletedAnswerStep, DeletedAnswerAfterCloseStep,
       FailedAnswerStep, LoadedStep
<1>8. ASSUME NEW name \in SessionName,
             \/ StartedElsewhere(name) \/ KilledElsewhere(name)
             \/ \E newName \in SessionName : RenamedElsewhere(name, newName)
      PROVE  FormsInv'
    BY <1>8, StartedElsewhereStep, KilledElsewhereStep, RenamedElsewhereStep
<1>9. CASE UNCHANGED formsVars
    <2>1. UNCHANGED <<tmuxVars, shownSessions, requests, listStale, strayed, paneVars>>
        BY <1>9 DEF formsVars, tmuxVars, paneVars
    <2> QED
        BY <2>1, ClickStep
<1> QED
    BY <1>1, <1>2, <1>3, <1>4, <1>5, <1>6, <1>7, <1>8, <1>9 DEF FormsNext

\* When no request is under way the list is that of tmux and each pane has the
\* session it was given, unless somebody changed it behind the back of the
\* browser: the handlers of App.svelte that create, rename and delete sessions
\* and load the list again (SessionsAreAsShown).
THEOREM SessionsFollow == FormsSpec => []SessionsAreAsShown
<1>1. FormsInv => SessionsAreAsShown
    <2>1. ASSUME FormsInv, requests = <<>>
          PROVE  UntoldAt = {} /\ (~listStale => shownSessions = running)
        BY <2>1 DEF FormsInv, UntoldAt, ListFollows
    <2> QED
        BY <2>1 DEF SessionsAreAsShown, FormsInv, PanesFollow
<1> QED
    BY <1>1, FormsInvInit, FormsInvKept, PTL DEF FormsSpec

-----------------------------------------------------------------------------
(***************************************************************************)
(* The status engine (StatusEngine), for all cooldowns and times that its  *)
(* named assumptions admit.                                                *)
(***************************************************************************)

\* What the history variables have to do with the clocks the code keeps: the
\* two ages of a state agree, and a state in which there has been significant
\* output is at least as old as that output, as far as ages are kept.
ClocksAgree ==
    /\ dwell = age
    /\ worked => age >= quiet \/ age = MaxAge

StatusInv ==
    /\ TypeOK
    /\ ClocksAgree
    /\ QuestionIsShown
    /\ RealWorkSettles
    /\ TimerBelongsToPane

-----------------------------------------------------------------------------
(* The operators.                                                           *)

\* What the assumptions say of the bounds of the clocks.
LEMMA CooldownFacts ==
    /\ MaxAge \in Nat
    /\ \A s \in Status : Cooldown[s] \in Nat /\ Cooldown[s] <= MaxAge
    /\ IdleTimeout \in Nat \ {0} /\ RateWindow \in Nat \ {0}
BY CooldownAssumption, TimeAssumption DEF MaxAge, Status

\* What the text calls for is a state; a question calls for asking; and asking
\* is left only for done or error (status-engine.js _classify).
LEMMA ClassifyFacts ==
    ASSUME NEW st \in Status, NEW marks \in SUBSET Mark
    PROVE  /\ Classify(st, marks) \in Status
           /\ "question" \in marks => Classify(st, marks) = "asking"
           /\ "question" \notin marks /\ st = "asking" =>
                 Classify(st, marks) \in {"asking", "done", "error"}
<1>1. CASE "question" \in marks
    <2>1. Classify(st, marks) = "asking"
        BY <1>1 DEF Classify
    <2> QED
        BY <1>1, <2>1 DEF Status
<1>2. CASE "question" \notin marks /\ "failure" \in marks
    <2>1. Classify(st, marks) = "error"
        BY <1>2 DEF Classify
    <2> QED
        BY <1>2, <2>1 DEF Status
<1>3. CASE marks = {"prompt"}
    <2>1. Classify(st, marks) =
             IF st \in {"working", "asking", "error"} THEN "done" ELSE "idle"
        BY <1>3 DEF Classify
    <2> QED
        BY <1>3, <2>1 DEF Status
<1>4. CASE "question" \notin marks /\ "failure" \notin marks /\ marks # {"prompt"}
    <2>1. Classify(st, marks) =
             IF st \in {"idle", "unknown", "done"} THEN "working" ELSE st
        BY <1>4 DEF Classify
    <2> QED
        BY <1>4, <2>1 DEF Status
<1> QED
    BY <1>1, <1>2, <1>3, <1>4

\* Asking is above every other state, so that no cooldown keeps it off
\* (status-engine.js _transition).
LEMMA AskingIsAllowed ==
    ASSUME NEW st \in Status, st # "asking", NEW since \in Nat
    PROVE  Allowed(st, since, "asking")
BY DEF Allowed, Priority, Status

\* A transition, made or refused (status-engine.js _transition).
LEMMA TransitionFacts ==
    ASSUME TypeOK, NEW new \in Status, NEW significant \in BOOLEAN,
           Transition(new, significant)
    PROVE  /\ status' \in Status /\ age' \in 0 .. MaxAge /\ dwell' \in 0 .. MaxAge
           /\ worked' \in BOOLEAN
           /\ dwell = age => dwell' = age'
           /\ \/ /\ status' = new /\ new # status /\ Allowed(status, age, new)
                 /\ age' = 0 /\ worked' = significant
              \/ /\ status' = status /\ age' = age
                 /\ worked' = (worked \/ significant)
                 /\ new # status => ~Allowed(status, age, new)
<1>1. CASE new # status /\ Allowed(status, age, new)
    BY <1>1, CooldownFacts DEF Transition, TypeOK
<1>2. CASE ~(new # status /\ Allowed(status, age, new))
    BY <1>2 DEF Transition, TypeOK
<1> QED
    BY <1>1, <1>2

\* Every feed of a chunk asks for what the text calls for, and a question in
\* what is kept is one of the marks (status-engine.js feed).
LEMMA FeedFacts ==
    ASSUME TypeOK, NEW shown \in SUBSET Mark, NEW long \in BOOLEAN,
           NEW kept \in SUBSET (Mark \ {"prompt"}), Feed(shown, long, kept)
    PROVE  LET significant == long \/ second < RateWindow
               new == Classify(status, shown \cup kept)
           IN  /\ significant \in BOOLEAN /\ new \in Status
               /\ Transition(new, significant)
               /\ "question" \in kept => new = "asking"
               /\ status = "asking" /\ "question" \notin shown \cup kept =>
                     new \in {"asking", "done", "error"}
               /\ "question" \in shown \cup kept => new = "asking"
               /\ tracked /\ tracked' /\ recent' = kept
               /\ quiet' = IF significant THEN 0 ELSE quiet
               /\ idleTimer' = IF significant THEN IdleTimeout ELSE idleTimer
               /\ newest' = 0 /\ second' \in 0 .. RateWindow
<1>1. shown \cup kept \in SUBSET Mark /\ status \in Status
    BY DEF TypeOK
<1>2. second' \in 0 .. RateWindow
    BY CooldownFacts DEF Feed, TypeOK, Never
<1> QED
    BY <1>1, <1>2, ClassifyFacts DEF Feed

-----------------------------------------------------------------------------
(* Induction.                                                               *)

\* A new pane, or none.
LEMMA FreshInv ==
    ASSUME tracked' \in BOOLEAN, idleTimer' = NoTimer, Fresh
    PROVE  StatusInv'
<1>1. TypeOK'
    <2>1. tracked' \in BOOLEAN /\ status' \in Status /\ worked' \in BOOLEAN
        BY DEF Fresh, Status
    <2>2. recent' \subseteq Mark \ {"prompt"}
        BY DEF Fresh
    <2>3. /\ age' \in 0 .. MaxAge /\ dwell' \in 0 .. MaxAge
          /\ newest' \in 0 .. Never /\ quiet' \in 0 .. Never
          /\ second' \in 0 .. RateWindow /\ idleTimer' \in 0 .. NoTimer
        BY CooldownFacts DEF Fresh, NoTimer, Never
    <2> QED
        BY <2>1, <2>2, <2>3 DEF TypeOK
<1>2. ClocksAgree'
    BY DEF Fresh, ClocksAgree
<1> QED
    BY <1>1, <1>2 DEF StatusInv, Fresh, QuestionIsShown, RealWorkSettles,
       TimerBelongsToPane

\* No terminal is registered yet.
LEMMA InitStatus == Init => StatusInv
<1> SUFFICES ASSUME Init PROVE StatusInv
    OBVIOUS
<1>1. TypeOK
    <2>1. tracked \in BOOLEAN /\ status \in Status /\ worked \in BOOLEAN
        BY DEF Init, Status
    <2>2. recent \subseteq Mark \ {"prompt"}
        BY DEF Init
    <2>3. /\ age \in 0 .. MaxAge /\ dwell \in 0 .. MaxAge
          /\ newest \in 0 .. Never /\ quiet \in 0 .. Never
          /\ second \in 0 .. RateWindow /\ idleTimer \in 0 .. NoTimer
        BY CooldownFacts DEF Init, NoTimer, Never
    <2> QED
        BY <2>1, <2>2, <2>3 DEF TypeOK
<1> QED
    BY <1>1 DEF Init, StatusInv, ClocksAgree, QuestionIsShown, RealWorkSettles,
       TimerBelongsToPane

\* Output is classified; a question it shows takes effect at once, and what is
\* significant restarts the timer (status-engine.js feed).
LEMMA FeedInv ==
    ASSUME StatusInv, NEW shown \in SUBSET Mark, NEW long \in BOOLEAN,
           NEW kept \in SUBSET (Mark \ {"prompt"}), Feed(shown, long, kept)
    PROVE  StatusInv'
<1> DEFINE significant == long \/ second < RateWindow
           new == Classify(status, shown \cup kept)
<1>0. TypeOK
    BY DEF StatusInv
<1>1. /\ significant \in BOOLEAN /\ new \in Status
      /\ Transition(new, significant)
      /\ "question" \in kept => new = "asking"
      /\ tracked /\ tracked' /\ recent' = kept
      /\ quiet' = IF significant THEN 0 ELSE quiet
      /\ idleTimer' = IF significant THEN IdleTimeout ELSE idleTimer
      /\ newest' = 0 /\ second' \in 0 .. RateWindow
    BY <1>0, FeedFacts
<1> HIDE DEF significant, new
<1>2. /\ status' \in Status /\ age' \in 0 .. MaxAge /\ dwell' \in 0 .. MaxAge
      /\ worked' \in BOOLEAN
      /\ dwell = age => dwell' = age'
      /\ \/ /\ status' = new /\ new # status /\ Allowed(status, age, new)
            /\ age' = 0 /\ worked' = significant
         \/ /\ status' = status /\ age' = age
            /\ worked' = (worked \/ significant)
            /\ new # status => ~Allowed(status, age, new)
    BY <1>0, <1>1, TransitionFacts
<1>3. TypeOK'
    <2>1. quiet' \in 0 .. Never /\ newest' \in 0 .. Never
        BY <1>0, <1>1, CooldownFacts DEF TypeOK, Never
    <2>2. idleTimer' \in 0 .. NoTimer
        BY <1>0, <1>1, CooldownFacts DEF TypeOK, NoTimer
    <2>3. tracked' \in BOOLEAN /\ recent' \subseteq Mark \ {"prompt"}
        BY <1>0, <1>1 DEF Feed, TypeOK
    <2> QED
        BY <1>1, <1>2, <2>1, <2>2, <2>3 DEF TypeOK
<1>4. ClocksAgree'
    <2>1. dwell' = age'
        BY <1>2 DEF StatusInv, ClocksAgree
    <2>2. CASE significant
        BY <1>1, <1>3, <2>1, <2>2 DEF ClocksAgree, TypeOK
    <2>3. CASE ~significant
        BY <1>1, <1>2, <2>1, <2>3 DEF StatusInv, ClocksAgree
    <2> QED
        BY <2>2, <2>3
<1>5. QuestionIsShown'
    <2> SUFFICES ASSUME "question" \in kept PROVE status' = "asking"
        BY <1>1 DEF QuestionIsShown
    <2>1. new = "asking"
        BY <1>1
    <2>2. status # "asking" => Allowed(status, age, new)
        BY <1>0, <2>1, CooldownFacts, AskingIsAllowed DEF TypeOK
    <2> QED
        BY <1>2, <2>1, <2>2
<1>6. RealWorkSettles'
    <2>1. CASE significant
        BY <1>1, <2>1, CooldownFacts DEF RealWorkSettles, NoTimer
    <2>2. CASE ~significant
        BY <1>1, <1>2, <2>2 DEF StatusInv, RealWorkSettles
    <2> QED
        BY <2>1, <2>2
<1>7. TimerBelongsToPane'
    BY <1>1, CooldownFacts DEF StatusInv, TimerBelongsToPane
<1> QED
    BY <1>3, <1>4, <1>5, <1>6, <1>7 DEF StatusInv

\* The timer of a pane that has worked fires when its state is old enough to
\* be left, so that the transition to idle is not refused.
LEMMA IdleInv ==
    ASSUME StatusInv, IdleTimerFires
    PROVE  StatusInv'
<1> DEFINE new == IF status \in {"working", "unknown", "done"} THEN "idle" ELSE status
<1>0. TypeOK
    BY DEF StatusInv
<1>1. /\ new \in Status /\ Transition(new, FALSE)
      /\ idleTimer = 0 /\ idleTimer' = NoTimer
      /\ UNCHANGED <<tracked, recent, newest, second, quiet>>
    BY <1>0 DEF IdleTimerFires, TypeOK, Status
<1>2. /\ status = "working" => new = "idle"
      /\ status = "asking" => new = status
      /\ new # "working"
    <2>1. status = "working" => new = "idle"
        OBVIOUS
    <2>2. status = "asking" => new = status
        OBVIOUS
    <2>3. new # "working"
        OBVIOUS
    <2> QED
        BY <2>1, <2>2, <2>3
<1> HIDE DEF new
<1>3. /\ status' \in Status /\ age' \in 0 .. MaxAge /\ dwell' \in 0 .. MaxAge
      /\ worked' \in BOOLEAN
      /\ dwell = age => dwell' = age'
      /\ \/ /\ status' = new /\ new # status /\ Allowed(status, age, new)
            /\ age' = 0 /\ worked' = FALSE
         \/ /\ status' = status /\ age' = age
            /\ worked' = (worked \/ FALSE)
            /\ new # status => ~Allowed(status, age, new)
    BY <1>0, <1>1, TransitionFacts
<1>4. TypeOK'
    BY <1>0, <1>1, <1>3, CooldownFacts DEF TypeOK, NoTimer
<1>5. ClocksAgree'
    BY <1>1, <1>3 DEF StatusInv, ClocksAgree
<1>6. QuestionIsShown'
    BY <1>1, <1>2, <1>3 DEF StatusInv, QuestionIsShown
<1>7. RealWorkSettles'
    <2>1. ASSUME status = "working", worked PROVE Allowed(status, age, new)
        <3>1. quiet = IdleTimeout
            BY <1>0, <1>1, CooldownFacts
               DEF StatusInv, TimerBelongsToPane, NoTimer, TypeOK
        <3>2. age >= IdleTimeout \/ age = MaxAge
            BY <2>1, <3>1 DEF StatusInv, ClocksAgree
        <3>3. "working" \in Status
            BY DEF Status
        <3>4. Cooldown["working"] \in Nat /\ Cooldown["working"] <= MaxAge
            BY <3>3, CooldownFacts
        <3>5. age >= Cooldown["working"]
            BY <1>0, <3>2, <3>4, CooldownFacts, TimeAssumption DEF TypeOK
        <3> QED
            BY <2>1, <3>5 DEF Allowed
    <2>2. ~(status' = "working" /\ worked')
        BY <1>2, <1>3, <2>1
    <2> QED
        BY <2>2 DEF RealWorkSettles
<1>8. TimerBelongsToPane'
    BY <1>1 DEF TimerBelongsToPane, NoTimer
<1> QED
    BY <1>4, <1>5, <1>6, <1>7, <1>8 DEF StatusInv

\* All clocks go on together, so that what they have to do with each other
\* stays.
LEMMA TickInv ==
    ASSUME StatusInv, Tick
    PROVE  StatusInv'
<1>0. TypeOK
    BY DEF StatusInv
<1>1. /\ idleTimer # 0 /\ tracked
      /\ idleTimer' = IF idleTimer = NoTimer THEN NoTimer ELSE idleTimer - 1
      /\ age' = IF age < MaxAge THEN age + 1 ELSE age
      /\ dwell' = IF dwell < MaxAge THEN dwell + 1 ELSE dwell
      /\ newest' = IF newest < Never THEN newest + 1 ELSE newest
      /\ second' = IF second < RateWindow THEN second + 1 ELSE second
      /\ quiet' = IF quiet < Never THEN quiet + 1 ELSE quiet
      /\ UNCHANGED <<tracked, status, recent, worked>>
    BY DEF Tick, Older
<1>2. TypeOK'
    BY <1>0, <1>1, CooldownFacts DEF TypeOK, Never, NoTimer
<1>3. ClocksAgree'
    BY <1>0, <1>1, CooldownFacts DEF StatusInv, ClocksAgree, TypeOK, Never
<1>4. QuestionIsShown'
    BY <1>1 DEF StatusInv, QuestionIsShown
<1>5. RealWorkSettles'
    BY <1>0, <1>1, CooldownFacts DEF StatusInv, RealWorkSettles, TypeOK, NoTimer
<1>6. TimerBelongsToPane'
    BY <1>0, <1>1, CooldownFacts
       DEF StatusInv, TimerBelongsToPane, TypeOK, NoTimer, Never
<1> QED
    BY <1>2, <1>3, <1>4, <1>5, <1>6 DEF StatusInv

\* Every step keeps the invariants.
LEMMA NextStatus == StatusInv /\ [Next]_vars => StatusInv'
<1> SUFFICES ASSUME StatusInv, [Next]_vars PROVE StatusInv'
    OBVIOUS
<1>1. CASE Register
    BY <1>1, FreshInv DEF Register
<1>2. CASE RemovePane
    BY <1>2, FreshInv DEF RemovePane
<1>3. ASSUME NEW shown \in SUBSET Mark, NEW long \in BOOLEAN,
             NEW kept \in SUBSET (Mark \ {"prompt"}), Feed(shown, long, kept)
      PROVE  StatusInv'
    BY <1>3, FeedInv
<1>4. CASE IdleTimerFires
    BY <1>4, IdleInv
<1>5. CASE Tick
    BY <1>5, TickInv
<1>6. CASE UNCHANGED vars
    BY <1>6 DEF vars, pane, StatusInv, TypeOK, ClocksAgree, QuestionIsShown,
       RealWorkSettles, TimerBelongsToPane
<1> QED
    BY <1>1, <1>2, <1>3, <1>4, <1>5, <1>6 DEF Next

-----------------------------------------------------------------------------
(* Theorems.                                                                *)

\* The invariants of the status engine hold together.
THEOREM StatusInductive == Spec => []StatusInv
<1> QED
    BY InitStatus, NextStatus, PTL DEF Spec

\* While the recent text shows a question the pane is asking, whatever the
\* cooldowns are (status-engine.js _classify, _transition).
THEOREM QuestionsAreShown == Spec => []QuestionIsShown
<1>1. StatusInv => QuestionIsShown
    BY DEF StatusInv
<1> QED
    BY <1>1, StatusInductive, PTL

\* Work that was significant is followed by the idle timer, as long as the
\* cooldown of working is not longer than IDLE_TIMEOUT (status-engine.js
\* feed, _resetIdleTimer).
THEOREM WorkSettles == Spec => []RealWorkSettles
<1>1. StatusInv => RealWorkSettles
    BY DEF StatusInv
<1> QED
    BY <1>1, StatusInductive, PTL

\* An idle timer acts on the pane and the output it was started for
\* (status-engine.js register, remove, _resetIdleTimer).
THEOREM TimersBelong == Spec => []TimerBelongsToPane
<1>1. StatusInv => TimerBelongsToPane
    BY DEF StatusInv
<1> QED
    BY <1>1, StatusInductive, PTL

\* Every step that changes the state of a pane that stays tracked is one of
\* the two callers of _transition.
LEMMA ChangeIsTransition ==
    ASSUME TypeOK, [Next]_vars, tracked, tracked',
           status' # status, status' # "unknown"
    PROVE  \/ \E shown \in SUBSET Mark, long \in BOOLEAN,
                 kept \in SUBSET (Mark \ {"prompt"}) : Feed(shown, long, kept)
           \/ IdleTimerFires
BY DEF Next, Register, RemovePane, Fresh, Tick, vars, pane

\* A state is left within its cooldown only for a more urgent one
\* (status-engine.js _transition).
THEOREM StatesDoNotFlicker == Spec => NoFlicker
<1>1. ASSUME StatusInv, [Next]_vars, tracked, tracked',
             status' # status, status' # "unknown"
      PROVE  \/ Priority[status'] > Priority[status]
             \/ dwell >= Cooldown[status]
    <2>0. TypeOK /\ dwell = age
        BY <1>1 DEF StatusInv, ClocksAgree
    <2>1. ASSUME NEW new \in Status, NEW significant \in BOOLEAN,
                 Transition(new, significant)
          PROVE  Allowed(status, age, status')
        BY <1>1, <2>0, <2>1, TransitionFacts
    <2>2. Allowed(status, age, status')
        <3>1. ASSUME NEW shown \in SUBSET Mark, NEW long \in BOOLEAN,
                     NEW kept \in SUBSET (Mark \ {"prompt"}), Feed(shown, long, kept)
              PROVE  Allowed(status, age, status')
            BY <2>0, <2>1, <3>1, FeedFacts
        <3>2. CASE IdleTimerFires
            <4>1. (IF status \in {"working", "unknown", "done"} THEN "idle"
                   ELSE status) \in Status
                BY <2>0 DEF TypeOK, Status
            <4> QED
                BY <2>1, <3>2, <4>1 DEF IdleTimerFires
        <3> QED
            BY <1>1, <2>0, <3>1, <3>2, ChangeIsTransition
    <2> QED
        BY <2>0, <2>2 DEF Allowed
<1>2. StatusInv /\ [Next]_vars =>
        [tracked /\ tracked' /\ status' # status /\ status' # "unknown"
            => \/ Priority[status'] > Priority[status]
               \/ dwell >= Cooldown[status]]_vars
    BY <1>1
<1> QED
    BY <1>2, StatusInductive, PTL DEF Spec, NoFlicker

\* Asking is left only for done or error, and only when no question is left
\* in the text (status-engine.js _classify, _resetIdleTimer).
THEOREM AskingStays == Spec => AskingIsSticky
<1>1. ASSUME StatusInv, [Next]_vars, tracked, status = "asking", tracked',
             status' \notin {"asking", "unknown"}
      PROVE  status' \in {"done", "error"} /\ "question" \notin recent'
    <2>0. TypeOK
        BY <1>1 DEF StatusInv
    <2>1. ASSUME NEW new \in Status, NEW significant \in BOOLEAN,
                 Transition(new, significant)
          PROVE  status' = new
        BY <1>1, <2>0, <2>1, TransitionFacts
    <2>2. ASSUME NEW shown \in SUBSET Mark, NEW long \in BOOLEAN,
                 NEW kept \in SUBSET (Mark \ {"prompt"}), Feed(shown, long, kept)
          PROVE  status' \in {"done", "error"} /\ "question" \notin recent'
        <3>1. status' = Classify(status, shown \cup kept) /\ recent' = kept
            BY <2>0, <2>1, <2>2, FeedFacts
        <3>2. /\ "question" \in shown \cup kept =>
                    Classify(status, shown \cup kept) = "asking"
              /\ "question" \notin shown \cup kept =>
                    Classify(status, shown \cup kept) \in {"asking", "done", "error"}
            <4>1. shown \cup kept \in SUBSET Mark /\ status \in Status
                BY <2>0 DEF TypeOK
            <4> QED
                BY <1>1, <4>1, ClassifyFacts
        <3>3. "question" \notin shown \cup kept
            BY <1>1, <3>1, <3>2
        <3> QED
            BY <1>1, <3>1, <3>2, <3>3
    <2>3. ~IdleTimerFires
        <3> SUFFICES ASSUME IdleTimerFires PROVE FALSE
            OBVIOUS
        <3>1. Transition("asking", FALSE)
            BY <1>1 DEF IdleTimerFires
        <3> QED
            BY <1>1, <2>1, <3>1 DEF Status
    <2> QED
        BY <1>1, <2>0, <2>2, <2>3, ChangeIsTransition
<1>2. StatusInv /\ [Next]_vars =>
        [tracked /\ status = "asking" /\ tracked' /\ status' \notin {"asking", "unknown"}
            => status' \in {"done", "error"} /\ "question" \notin recent']_vars
    BY <1>1
<1> QED
    BY <1>2, StatusInductive, PTL DEF Spec, AskingIsSticky

=============================================================================
