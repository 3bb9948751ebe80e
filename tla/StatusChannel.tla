--------------------------- MODULE StatusChannel ---------------------------
(***************************************************************************)
(* How the browser learns the statuses of terminals: the channel /ws/status*)
(* (routes/status-ws.js) between the status engine and the status map of   *)
(* the browser (frontend/src/lib/stores/status.js).  A snapshot comes first*)
(* and then one message for every transition, in order.  The engine knows  *)
(* terminals; the map of the browser only knows their host and session.    *)
(*                                                                         *)
(* How the engine classifies output is the module StatusEngine; here a     *)
(* terminal changes its status at any time.  Notifications are left out.   *)
(***************************************************************************)
EXTENDS SequencesExt

CONSTANTS
    PaneKey,        \* host and session of a terminal
    PaneStatus,     \* statuses a terminal can change to
    MaxTracked,     \* bound: terminals the engine tracks
    MaxInbox        \* bound: messages on their way to the browser

VARIABLES
    panes,        \* the engine's panes, in the order of its map
    link,         \* the browser's socket: "none", "connecting" or "open"
    inbox,        \* messages on their way
    statusMap,    \* _paneStatus
    retrying,     \* _reconnectTimer is set
    started,      \* the App is mounted
    left          \* history: keys that lost a terminal since the snapshot

browserVars == <<link, inbox, statusMap, retrying, started>>
channelVars == <<panes, browserVars, left>>

Snapshot == [type |-> "snapshot", panes |-> panes]

ChannelInit ==
    /\ panes = <<>>
    /\ link = "none"
    /\ inbox = <<>>
    /\ statusMap = <<>>
    /\ retrying = FALSE
    /\ started = FALSE
    /\ left = {}

-----------------------------------------------------------------------------
(* The engine.                                                              *)

\* StatusEngine.register: nothing is sent.
RegisterPane(k) ==
    /\ Len(panes) < MaxTracked
    /\ panes' = Append(panes, [key |-> k, status |-> "unknown"])
    /\ UNCHANGED <<browserVars, left>>

\* A transition is sent to who is subscribed, that is, connected.
PaneChanges(i, s) ==
    /\ panes[i].status # s
    /\ panes' = [panes EXCEPT ![i].status = s]
    /\ IF link = "open"
       THEN /\ Len(inbox) < MaxInbox
            /\ inbox' = Append(inbox, [type |-> "status", key |-> panes[i].key, status |-> s])
       ELSE UNCHANGED inbox
    /\ UNCHANGED <<link, statusMap, retrying, started, left>>

\* StatusEngine.remove: nothing is sent either.
RemovePaneOf(i) ==
    /\ panes' = RemoveAt(panes, i)
    /\ left' = left \cup {panes[i].key}
    /\ UNCHANGED browserVars

\* The request is authorised: snapshot and subscription in one turn.
AcceptChannel ==
    /\ link = "connecting"
    /\ link' = "open"
    /\ inbox' = <<Snapshot>>
    /\ retrying' = FALSE
    /\ left' = {}
    /\ UNCHANGED <<panes, statusMap, started>>

-----------------------------------------------------------------------------
(* The browser.                                                             *)

\* startStatusConnection: it does nothing if there is a socket.
StartStatusConnection ==
    /\ link' = IF link = "none" THEN "connecting" ELSE link
    /\ UNCHANGED <<panes, inbox, statusMap, left>>

\* onMount of the App.
MountApp ==
    /\ ~started
    /\ started' = TRUE
    /\ StartStatusConnection
    /\ UNCHANGED retrying

Reconnect ==
    /\ retrying
    /\ retrying' = FALSE
    /\ StartStatusConnection
    /\ UNCHANGED started

\* The socket is refused or lost, with what was still on its way: onclose.
ChannelCloses ==
    /\ link # "none"
    /\ link' = "none"
    /\ inbox' = <<>>
    /\ retrying' = TRUE
    /\ UNCHANGED <<panes, statusMap, started, left>>

\* stopStatusConnection, when the App goes: no onclose, no timer.
StopStatusConnection ==
    /\ started
    /\ started' = FALSE
    /\ link' = "none"
    /\ inbox' = <<>>
    /\ retrying' = FALSE
    /\ UNCHANGED <<panes, statusMap, left>>

KeysOf(ps) == {ps[i].key : i \in DOMAIN ps}

\* Of the terminals of a session, the last one counts.
StatusIn(ps, k) ==
    ps[CHOOSE i \in DOMAIN ps :
          ps[i].key = k /\ \A j \in DOMAIN ps : ps[j].key = k => j <= i].status

\* Faulty variant: the snapshot is merged into the map.
RebuiltMapKeeps(ps) ==
    [k \in DOMAIN statusMap \cup KeysOf(ps) |->
        IF k \in KeysOf(ps) THEN StatusIn(ps, k) ELSE statusMap[k]]

\* The map of a snapshot.
RebuiltMap(ps) == [k \in KeysOf(ps) |-> StatusIn(ps, k)]

\* The map with one status.
WithStatus(key, status) ==
    [k \in DOMAIN statusMap \cup {key} |-> IF k = key THEN status ELSE statusMap[k]]

Receive ==
    /\ inbox # <<>>
    /\ LET m == Head(inbox)
       IN  statusMap' = IF m.type = "snapshot" THEN RebuiltMap(m.panes)
                        ELSE WithStatus(m.key, m.status)
    /\ inbox' = Tail(inbox)
    /\ UNCHANGED <<panes, link, retrying, started, left>>

ChannelNext ==
    \/ \E k \in PaneKey : RegisterPane(k)
    \/ \E i \in DOMAIN panes :
          (\E s \in PaneStatus : PaneChanges(i, s)) \/ RemovePaneOf(i)
    \/ AcceptChannel
    \/ MountApp
    \/ Reconnect
    \/ ChannelCloses
    \/ StopStatusConnection
    \/ Receive

ChannelSpec == ChannelInit /\ [][ChannelNext]_channelVars

-----------------------------------------------------------------------------
(* Safety.                                                                  *)

\* Once every message has arrived, what the browser shows for a session is
\* the status of a terminal of it, unless one of its terminals has gone since
\* the snapshot, which nobody tells the browser; and no terminal that has ever
\* changed its status goes unseen, whatever was lost before the snapshot.
\* And as long as the App is there, so is the channel or a timer to restore it.
StatusMapIsCurrent ==
    /\ started => link # "none" \/ retrying
    /\ link = "open" /\ inbox = <<>> =>
        /\ \A k \in DOMAIN statusMap \ left :
              \E i \in DOMAIN panes : panes[i] = [key |-> k, status |-> statusMap[k]]
        /\ \A i \in DOMAIN panes :
              panes[i].status # "unknown" => panes[i].key \in DOMAIN statusMap
=============================================================================
