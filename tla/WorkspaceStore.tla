--------------------------- MODULE WorkspaceStore ---------------------------
(***************************************************************************)
(* The workspaces of one open browser tab and their rows on the server:    *)
(* the client store with its debounced save (stores/workspaces.js), the    *)
(* delayed commit of a changed layout (lib/workspace-action-utils.js and   *)
(* App.svelte), and the rows (routes/workspaces.js, lib/workspace-store.js).*)
(*                                                                         *)
(* Between the two are HTTP requests, which take time, may overtake each   *)
(* other and may fail before or after the server has handled them.  The    *)
(* server handles each one in a single turn.  Names and descriptions are   *)
(* left out: they only decide whether a request is refused.                *)
(***************************************************************************)
EXTENDS Naturals, SequencesExt

CONSTANTS
    Session,        \* sessions a pane can show
    Shape,          \* arrangements of panes
    MaxWs,          \* bound: rows created in a behaviour
    MaxRequests,    \* bound: requests in flight
    MaxCommits      \* bound: layout commits that wait for their timers

ASSUME WorkspaceBoundsAssumption ==
    /\ MaxWs \in Nat
    /\ MaxRequests \in Nat
    /\ MaxCommits \in Nat

Ws == 1 .. MaxWs         \* row ids: AUTOINCREMENT, never used twice
NoWs == 0
Layout == [session : Session, shape : Shape]
NoLayout == [session |-> "none"]

\* Requests on their way to the server, and answers on their way back.
\* `stale` marks a save that a later save of the workspace has overtaken.
Request ==
    [kind : {"put"}, ws : Ws, layout : Layout, stale : BOOLEAN]
        \cup [kind : {"post", "created"}, ws : Ws \cup {NoWs}, layout : Layout]
        \cup [kind : {"delete", "deleted"}, ws : Ws]

VARIABLES
    local,      \* _workspaces: [Ws -> layout, or NoLayout if not in the list]
    order,      \* _workspaces: its ids in the order of the list
    active,     \* _activeId
    shown,      \* activeId of App.svelte, which the subscription keeps up to date
    saveTimer,  \* the one _saveTimer: the workspace and layout it will save
    commits,    \* layout commits that wait, oldest first
    requests,   \* requests and answers in flight, in the order they were sent
    stored,     \* rows of layout_presets: [Ws -> layout, or NoLayout]
    created,    \* the last row id used
    lost        \* history: why the last edit of a workspace will not be saved

vars == <<local, order, active, shown, saveTimer, commits, requests, stored, created, lost>>

NoSave == [ws |-> NoWs, layout |-> NoLayout]
Reason == {"not lost", "superseded", "failed", "overtaken"}

TypeOK ==
    /\ local \in [Ws -> Layout \cup {NoLayout}]
    /\ order \in Seq(Ws)
    /\ active \in Ws \cup {NoWs}
    /\ shown \in Ws \cup {NoWs}
    /\ saveTimer \in [ws : Ws, layout : Layout] \cup {NoSave}
    /\ commits \in Seq([ws : Ws, layout : Layout])
    /\ requests \in Seq(Request)
    /\ stored \in [Ws -> Layout \cup {NoLayout}]
    /\ created \in 0 .. MaxWs
    /\ lost \in [Ws -> Reason]

\* The page has loaded the rows of earlier sessions.
Init ==
    /\ created \in 0 .. MaxWs
    /\ stored \in [Ws -> Layout \cup {NoLayout}]
    /\ \A w \in Ws : stored[w] # NoLayout <=> w <= created
    /\ local = stored
    /\ order = [w \in 1 .. created |-> w]
    /\ active = (IF created = 0 THEN NoWs ELSE 1)
    /\ shown = active
    /\ saveTimer = NoSave
    /\ commits = <<>>
    /\ requests = <<>>
    /\ lost = [w \in Ws |-> "not lost"]

Listed(l) == {w \in DOMAIN l : l[w] # NoLayout}

\* The first of the list, the list without one, and the last of the list
\* among some.
First(list) == IF list = <<>> THEN NoWs ELSE Head(list)
Without(list, w) ==
    IF \E i \in DOMAIN list : list[i] = w
    THEN RemoveAt(list, CHOOSE i \in DOMAIN list : list[i] = w) ELSE list
LastOf(ids) ==
    order[CHOOSE i \in DOMAIN order :
            order[i] \in ids /\ \A j \in DOMAIN order : order[j] \in ids => j <= i]

\* notify, to which App.svelte has subscribed.
Notify == shown' = active'

\* Faulty variant: a timer that is set already is left as it is.
DebouncedSaveKeepsTimer(ids, l) ==
    /\ saveTimer' = IF saveTimer # NoSave THEN saveTimer
                    ELSE [ws |-> LastOf(ids), layout |-> l[LastOf(ids)]]
    /\ lost' = [w \in Ws |-> IF w \in ids THEN "not lost" ELSE lost[w]]

\* debouncedSave for the workspaces `ids` in turn, l being the layouts then:
\* there is one timer, and each call replaces what the one before it set.
DebouncedSave(ids, l) ==
    /\ saveTimer' = [ws |-> LastOf(ids), layout |-> l[LastOf(ids)]]
    /\ lost' = [w \in Ws |->
                   IF w = LastOf(ids) THEN "not lost"
                   ELSE IF w \in ids \cup {saveTimer.ws} THEN "superseded"
                   ELSE lost[w]]

-----------------------------------------------------------------------------
(* The client.                                                              *)

\* setActive, of a workspace in the list.
SetActive(w) ==
    /\ w \in Listed(local)
    /\ active' = w
    /\ Notify
    /\ UNCHANGED <<local, order, saveTimer, commits, requests, stored, created, lost>>

\* updateLayout, from a commit or a drag of a split.
UpdateLayout(w, l) ==
    /\ local' = [local EXCEPT ![w] = l]
    /\ UNCHANGED <<order, active>>
    /\ Notify
    /\ DebouncedSave({w}, local')

\* Faulty variant: a change in place that is not saved.
EditWithoutSave(l) ==
    /\ shown \in Listed(local)
    /\ local' = [local EXCEPT ![shown] = l]
    /\ UNCHANGED <<order, active>>
    /\ Notify
    /\ UNCHANGED <<saveTimer, commits, requests, stored, created, lost>>

\* updatePaneSession, updatePaneTitle (a change of shape here) and the drag
\* of a split, in the workspace on the screen.
Edit(l) ==
    /\ shown \in Listed(local)
    /\ UpdateLayout(shown, l)
    /\ UNCHANGED <<commits, requests, stored, created>>

\* Splitting, closing or moving a pane: scheduleLayoutCommit for the workspace
\* on the screen, with a layout computed from activeLayout, which the last
\* notification left as that of the active workspace.
ScheduleLayoutCommit(shape) ==
    /\ shown # NoWs
    /\ active \in Listed(local)
    /\ Len(commits) < MaxCommits
    /\ commits' = Append(commits,
            [ws |-> shown, layout |-> [session |-> local[active].session, shape |-> shape]])
    /\ shown' = NoWs
    /\ UNCHANGED <<local, order, active, saveTimer, requests, stored, created, lost>>

\* The timer of the oldest commit: restoreActive, then updateLayout, which
\* does nothing for a workspace that is no longer in the list.
CommitFires ==
    LET w == Head(commits).ws
    IN  /\ commits # <<>>
        /\ commits' = Tail(commits)
        /\ IF w \in Listed(local)
           THEN UpdateLayout(w, Head(commits).layout)
           ELSE shown' = w /\ UNCHANGED <<local, order, active, saveTimer, lost>>
        /\ UNCHANGED <<requests, stored, created>>

\* renameSessionInWorkspaces, called when the server has renamed the session.
RenameSessionInWorkspaces(old, new) ==
    LET changed == {w \in Listed(local) : local[w].session = old}
    IN  /\ local' = [w \in Ws |-> IF w \in changed THEN [local[w] EXCEPT !.session = new]
                                  ELSE local[w]]
        /\ IF changed = {} THEN UNCHANGED <<saveTimer, lost>>
           ELSE DebouncedSave(changed, local')
        /\ UNCHANGED <<order, active, commits, requests, stored, created>>
        /\ Notify

\* renameWorkspace is answered: a name, which is not modelled, and notify.
RenameWorkspace ==
    /\ Listed(local) # {}
    /\ UNCHANGED <<local, order, active, saveTimer, commits, requests, stored, created, lost>>
    /\ Notify

Send(r) ==
    /\ Len(requests) < MaxRequests
    /\ requests' = Append(requests, r)

\* The timer of debouncedSave fires.
SaveTimerFires ==
    /\ saveTimer # NoSave
    /\ Send([kind |-> "put", ws |-> saveTimer.ws, layout |-> saveTimer.layout,
             stale |-> FALSE])
    /\ saveTimer' = NoSave
    /\ UNCHANGED <<local, order, active, shown, commits, stored, created, lost>>

\* createWorkspace with a new layout, or with the copy duplicateWorkspace makes.
CreateWorkspace(l) ==
    /\ Send([kind |-> "post", ws |-> NoWs, layout |-> l])
    /\ UNCHANGED <<local, order, active, shown, saveTimer, commits, stored, created, lost>>

DeleteWorkspace(w) ==
    /\ w \in Listed(local)
    /\ Send([kind |-> "delete", ws |-> w])
    /\ UNCHANGED <<local, order, active, shown, saveTimer, commits, stored, created, lost>>

-----------------------------------------------------------------------------
(* The server handles the i-th request in flight.                           *)

\* Faulty variant: the row is written without looking whether it is there.
PutArrivesUnchecked(i) ==
    LET r == requests[i]
    IN  /\ r.kind = "put"
        /\ requests' = RemoveAt(requests, i)
        /\ stored' = [stored EXCEPT ![r.ws] = r.layout]
        /\ lost' = IF r.stale THEN [lost EXCEPT ![r.ws] = "overtaken"] ELSE lost
        /\ UNCHANGED <<local, order, active, shown, saveTimer, commits, created>>

\* PUT /api/workspaces/:id: the row is updated, or there is none and the
\* answer is 404, which the client only logs.
PutArrives(i) ==
    LET r == requests[i]
        marked == [j \in DOMAIN requests |->
                      IF j < i /\ requests[j].kind = "put" /\ requests[j].ws = r.ws
                      THEN [requests[j] EXCEPT !.stale = TRUE] ELSE requests[j]]
    IN  /\ r.kind = "put"
        /\ requests' = RemoveAt(marked, i)
        /\ stored' = IF r.ws \in Listed(stored)
                     THEN [stored EXCEPT ![r.ws] = r.layout] ELSE stored
        /\ lost' = IF r.stale THEN [lost EXCEPT ![r.ws] = "overtaken"] ELSE lost
        /\ UNCHANGED <<local, order, active, shown, saveTimer, commits, created>>

\* POST /api/workspaces: a row with the next id, and the answer.
PostArrives(i) ==
    LET r == requests[i]
        w == created + 1
    IN  /\ r.kind = "post"
        /\ created < MaxWs
        /\ created' = w
        /\ stored' = [stored EXCEPT ![w] = r.layout]
        /\ requests' = [requests EXCEPT ![i].kind = "created", ![i].ws = w]
        /\ UNCHANGED <<local, order, active, shown, saveTimer, commits, lost>>

\* DELETE /api/workspaces/:id: 404 if there is no row, an error for the client.
DeleteArrives(i) ==
    LET r == requests[i]
    IN  /\ r.kind = "delete"
        /\ stored' = [stored EXCEPT ![r.ws] = NoLayout]
        /\ requests' = IF r.ws \in Listed(stored)
                       THEN [requests EXCEPT ![i].kind = "deleted"]
                       ELSE RemoveAt(requests, i)
        /\ UNCHANGED <<local, order, active, shown, saveTimer, commits, created, lost>>

\* A request or its answer is lost, or the server refuses it: the client
\* logs the error, and a save is not tried again.
RequestFails(i) ==
    LET r == requests[i]
    IN  /\ requests' = RemoveAt(requests, i)
        /\ lost' = IF r.kind = "put" /\ ~r.stale
                   THEN [lost EXCEPT ![r.ws] = "failed"] ELSE lost
        /\ UNCHANGED <<local, order, active, shown, saveTimer, commits, stored, created>>

-----------------------------------------------------------------------------
(* An answer reaches the client.                                            *)

\* Faulty variant: the subscribers are not notified.
CreatedAnswerQuietly(i) ==
    LET r == requests[i]
    IN  /\ r.kind = "created"
        /\ requests' = RemoveAt(requests, i)
        /\ local' = [local EXCEPT ![r.ws] = r.layout]
        /\ order' = Append(order, r.ws)
        /\ active' = r.ws
        /\ UNCHANGED <<shown, saveTimer, commits, stored, created, lost>>

CreatedAnswer(i) ==
    LET r == requests[i]
    IN  /\ r.kind = "created"
        /\ requests' = RemoveAt(requests, i)
        /\ local' = [local EXCEPT ![r.ws] = r.layout]
        /\ order' = Append(order, r.ws)
        /\ active' = r.ws
        /\ UNCHANGED <<saveTimer, commits, stored, created, lost>>
        /\ Notify

DeletedAnswer(i) ==
    LET r == requests[i]
    IN  /\ r.kind = "deleted"
        /\ requests' = RemoveAt(requests, i)
        /\ local' = [local EXCEPT ![r.ws] = NoLayout]
        /\ order' = Without(order, r.ws)
        /\ active' = IF active = r.ws THEN First(order') ELSE active
        /\ UNCHANGED <<saveTimer, commits, stored, created, lost>>
        /\ Notify

Next ==
    \/ \E w \in Ws : SetActive(w) \/ DeleteWorkspace(w)
    \/ \E l \in Layout : Edit(l) \/ CreateWorkspace(l)
    \/ \E s \in Shape : ScheduleLayoutCommit(s)
    \/ CommitFires
    \/ \E old, new \in Session : RenameSessionInWorkspaces(old, new)
    \/ RenameWorkspace
    \/ SaveTimerFires
    \/ \E i \in DOMAIN requests :
          \/ PutArrives(i)
          \/ PostArrives(i)
          \/ DeleteArrives(i)
          \/ RequestFails(i)
          \/ CreatedAnswer(i)
          \/ DeletedAnswer(i)

Spec == Init /\ [][Next]_vars

-----------------------------------------------------------------------------
(* Safety.                                                                  *)

\* An edit that has not reached the server has a timer that will send it or is
\* on its way, unless it was lost in one of three ways: its timer was taken
\* for another workspace, its request failed, or an older save overtook it.
UnsavedEditIsAccountedFor ==
    \A w \in Listed(local) \cap Listed(stored) : local[w] # stored[w] =>
        \/ saveTimer.ws = w
        \/ \E i \in DOMAIN requests :
              requests[i].kind = "put" /\ requests[i].ws = w /\ requests[i].layout = local[w]
        \/ lost[w] # "not lost"

\* The save that is pending is of the layout the workspace has now, whichever
\* of the editing functions changed it last and whether in place or not.
PendingSaveIsCurrent ==
    saveTimer.ws \in Listed(local) => saveTimer.layout = local[saveTimer.ws]

\* The active workspace is in the list, and there is one if the list is not
\* empty, however creations and deletions overlap.
ActiveWorkspaceExists ==
    IF Listed(local) = {} THEN active = NoWs ELSE active \in Listed(local)

\* The active workspace exists, and the screen shows it, except while a commit
\* waits and after a commit for a workspace deleted meanwhile.
ScreenFollowsStore ==
    /\ ActiveWorkspaceExists
    /\ shown # active => commits # <<>> \/ shown \in Ws \ Listed(local)

\* A deleted row does not come back, whatever saves of it are still pending
\* or in flight.
DeletedStaysDeleted ==
    [][\A w \in Ws : w <= created /\ stored[w] = NoLayout => stored'[w] = NoLayout]_vars

(* What the comments on renameSessionInWorkspaces and updateLayout say.     *)

\* "Persists changes" and "Debounced save to API": once nothing is pending or
\* in flight, a workspace that differs from its row is one whose save failed
\* or was overtaken on the network.
QuietMeansSaved ==
    saveTimer = NoSave /\ commits = <<>> /\ requests = <<>> =>
        \A w \in Listed(local) \cap Listed(stored) :
            local[w] # stored[w] => lost[w] \in {"failed", "overtaken"}

=============================================================================
