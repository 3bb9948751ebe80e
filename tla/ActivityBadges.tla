--------------------------- MODULE ActivityBadges ---------------------------
(***************************************************************************)
(* Which workspaces wear a badge for output the user has not seen          *)
(* (frontend/src/lib/stores/activity.js).  The store polls the server      *)
(* (routes/activity.js), which asks tmux on every host for the time of the *)
(* last output of every session; polls may overlap, their answers may      *)
(* overtake each other, and the sessions of a host that does not answer in *)
(* time are missing from one.                                              *)
(*                                                                         *)
(* Server and browser share a clock here, and it is as fine as the times.  *)
(*                                                                         *)
(* Polling starts when the page is mounted, before it has loaded the       *)
(* workspaces (App.svelte init); an answer that comes before that marks    *)
(* none, and is what later ones are compared with.                         *)
(***************************************************************************)
EXTENDS SequencesExt

CONSTANTS
    Workspace,      \* workspaces
    NoWorkspace,    \* no workspace is active yet
    Tab,            \* sessions, each on a host of its own
    MaxClock,       \* bound: ticks
    MaxPolls        \* bound: polls in flight

ASSUME ActivityAssumption == NoWorkspace \notin Workspace

VARIABLES
    clock,
    lastActivity,       \* the time of the last output of each session
    sessionsOf,         \* the sessions of each workspace's layout
    starting,           \* how far init of the page is: "loading", "loaded" or "restored"
    listed,             \* the workspaces of the store, _workspaces
    activeWs,           \* the active workspace
    polling,            \* _pollTimer is set
    polls,              \* answers on their way, oldest first
    serverActivity,     \* _serverActivity
    lastSeen,           \* _lastSeen
    badges,             \* _activeWorkspaces
    visited, leftAt,    \* history: when each workspace was last switched to, and away from
    heardBefore         \* history: what the store had heard when each came on the list

storeVars == <<serverActivity, lastSeen, badges>>
pageVars == <<starting, listed, activeWs, leftAt, heardBefore>>
activityVars == <<clock, lastActivity, sessionsOf, polling, polls, storeVars, visited, pageVars>>

\* The times that are missing from a map count as 0.
Known(times, k) == IF k \in DOMAIN times THEN times[k] ELSE 0

ActivityInit ==
    /\ clock = 1
    /\ lastActivity = [k \in Tab |-> 1]
    /\ sessionsOf \in [Workspace -> SUBSET Tab]
    /\ starting = "loading" /\ listed = {}
    /\ activeWs = NoWorkspace
    /\ polling = FALSE
    /\ polls = <<>>
    /\ serverActivity = <<>>
    /\ lastSeen = [k \in Tab |-> 0]
    /\ badges = {}
    /\ visited = [w \in Workspace |-> 0]
    /\ leftAt = [w \in Workspace |-> 0]
    /\ heardBefore = <<>>

-----------------------------------------------------------------------------
(* The sessions, and the server.                                            *)

ClockTicks ==
    /\ clock < MaxClock
    /\ clock' = clock + 1
    /\ UNCHANGED <<lastActivity, sessionsOf, polling, polls, storeVars, visited, pageVars>>

SessionOutputs(k) ==
    /\ lastActivity' = [lastActivity EXCEPT ![k] = clock]
    /\ UNCHANGED <<clock, sessionsOf, polling, polls, storeVars, visited, pageVars>>

\* GET /api/activity reaches the server: the answer has the sessions of the
\* hosts that answer by the deadline (listAllActivity).
ServerAnswersPoll ==
    /\ polling
    /\ Len(polls) < MaxPolls
    /\ \E online \in SUBSET Tab :
          polls' = Append(polls, [k \in online |-> lastActivity[k]])
    /\ UNCHANGED <<clock, lastActivity, sessionsOf, polling, storeVars, visited, pageVars>>

-----------------------------------------------------------------------------
(* The store.                                                               *)

\* markWorkspaceSeen, of a workspace on the list.
MarkWorkspaceSeen(w) ==
    /\ lastSeen' = [k \in Tab |-> IF k \in sessionsOf[w] THEN clock ELSE lastSeen[k]]
    /\ badges' = badges \ {w}
    /\ visited' = [visited EXCEPT ![w] = clock]

\* startActivityPolling: what is active is seen, and the first poll goes out.
StartActivityPolling ==
    /\ ~polling
    /\ polling' = TRUE
    /\ IF activeWs \in listed
       THEN MarkWorkspaceSeen(activeWs)
       ELSE UNCHANGED <<lastSeen, badges, visited>>
    /\ UNCHANGED <<clock, lastActivity, sessionsOf, polls, serverActivity, pageVars>>

\* stopActivityPolling: answers on their way still count.
StopActivityPolling ==
    /\ polling
    /\ polling' = FALSE
    /\ UNCHANGED <<clock, lastActivity, sessionsOf, polls, storeVars, visited, pageVars>>

\* Faulty variant: what the user has seen since is changed all the same.
ChangedSinceLastPoll(answer) == {k \in DOMAIN answer : answer[k] > Known(serverActivity, k)}

\* The sessions of an answer with output that is new to the store and to the user.
ChangedSessions(answer) ==
    {k \in DOMAIN answer : answer[k] > Known(serverActivity, k) /\ answer[k] > lastSeen[k]}

\* pollActivity, once the answer is there: only what is on the list can be marked.
PollArrives(i) ==
    /\ serverActivity' = polls[i]
    /\ badges' = badges \cup
          {w \in listed \ {activeWs} : sessionsOf[w] \cap ChangedSessions(polls[i]) # {}}
    /\ polls' = RemoveAt(polls, i)
    /\ UNCHANGED <<clock, lastActivity, sessionsOf, polling, lastSeen, visited, pageVars>>

\* The request or its answer is lost.
PollFails(i) ==
    /\ polls' = RemoveAt(polls, i)
    /\ UNCHANGED <<clock, lastActivity, sessionsOf, polling, storeVars, visited, pageVars>>

-----------------------------------------------------------------------------
(* The page and its workspaces.                                             *)

\* Another workspace becomes the active one.
MakeActive(w) ==
    /\ activeWs' = w
    /\ leftAt' = IF activeWs = NoWorkspace THEN leftAt ELSE [leftAt EXCEPT ![activeWs] = clock]

\* The list becomes S; what comes on it has missed the polls so far.
ListBecomes(S) ==
    /\ listed' = S
    /\ heardBefore' = [w \in S \cup DOMAIN heardBefore |->
                          IF w \notin S THEN <<>>
                          ELSE IF w \in listed THEN heardBefore[w] ELSE serverActivity]

\* loadWorkspaces is answered with rows: the first is active unless one is already.
LoadWorkspaces(rows) ==
    /\ starting = "loading" /\ starting' = "loaded"
    /\ ListBecomes(rows)
    /\ IF activeWs = NoWorkspace /\ rows # {}
       THEN \E first \in rows : activeWs' = first
       ELSE UNCHANGED activeWs
    /\ UNCHANGED <<clock, lastActivity, sessionsOf, polling, polls, storeVars, visited, leftAt>>

\* loadWorkspaces fails, and init goes on.
LoadWorkspacesFails ==
    /\ starting = "loading" /\ starting' = "loaded"
    /\ UNCHANGED <<clock, lastActivity, sessionsOf, polling, polls, storeVars, visited,
                   listed, activeWs, leftAt, heardBefore>>

\* restoreFromHash, after the templates and the user were awaited: the
\* workspace that the address names becomes active, and is not marked as seen.
RestoreFromHash ==
    /\ starting = "loaded" /\ starting' = "restored"
    /\ \/ \E w \in listed \ {activeWs} : MakeActive(w)
       \/ UNCHANGED <<activeWs, leftAt>>
    /\ UNCHANGED <<clock, lastActivity, sessionsOf, polling, polls, storeVars, visited,
                   listed, heardBefore>>

\* switchWorkspace.
SwitchWorkspace(w) ==
    /\ w \in listed
    /\ MakeActive(w)
    /\ MarkWorkspaceSeen(w)
    /\ UNCHANGED <<clock, lastActivity, sessionsOf, polling, polls, serverActivity,
                   starting, listed, heardBefore>>

\* createWorkspace is answered: an empty workspace or a copy, active and not
\* marked as seen.
CreateWorkspace(w) ==
    /\ w \notin DOMAIN heardBefore
    /\ sessionsOf[w] \in {{}} \cup {sessionsOf[v] : v \in listed}
    /\ ListBecomes(listed \cup {w})
    /\ MakeActive(w)
    /\ UNCHANGED <<clock, lastActivity, sessionsOf, polling, polls, storeVars, visited, starting>>

\* deleteWorkspace is answered: another one, the first left, is active if it was.
DeleteWorkspace(w) ==
    /\ w \in listed
    /\ ListBecomes(listed \ {w})
    /\ activeWs' \in IF activeWs # w THEN {activeWs}
                     ELSE IF listed = {w} THEN {NoWorkspace} ELSE listed \ {w}
    /\ UNCHANGED <<clock, lastActivity, sessionsOf, polling, polls, storeVars, visited,
                   starting, leftAt>>

ActivityNext ==
    \/ ClockTicks
    \/ \E k \in Tab : SessionOutputs(k)
    \/ ServerAnswersPoll
    \/ StartActivityPolling
    \/ StopActivityPolling
    \/ \E i \in DOMAIN polls : PollArrives(i) \/ PollFails(i)
    \/ \E rows \in SUBSET Workspace : LoadWorkspaces(rows)
    \/ LoadWorkspacesFails
    \/ RestoreFromHash
    \/ \E w \in Workspace : SwitchWorkspace(w) \/ CreateWorkspace(w) \/ DeleteWorkspace(w)

ActivitySpec == ActivityInit /\ [][ActivityNext]_activityVars

-----------------------------------------------------------------------------
(* Safety.                                                                  *)

\* Whatever the order of the answers, a badge is never for output from before
\* the user last went to the workspace; and output the store has heard of is
\* badged in every workspace of the list in the background, unless it was made
\* before the user left the workspace, or before they saw the session, there or
\* elsewhere, or the store had heard of it before the workspace was on the list
\* (the first poll goes out before the workspaces are loaded).
BadgesMatchOutput ==
    /\ \A w \in badges : \E k \in sessionsOf[w] : lastActivity[k] > visited[w]
    /\ \A w \in listed \ {activeWs} :
          (\E k \in sessionsOf[w] \cap DOMAIN serverActivity :
              /\ serverActivity[k] > leftAt[w]
              /\ serverActivity[k] > lastSeen[k]
              /\ serverActivity[k] > Known(heardBefore[w], k))
          => w \in badges
=============================================================================
