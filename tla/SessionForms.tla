---------------------------- MODULE SessionForms ----------------------------
(***************************************************************************)
(* Sessions are created, renamed and deleted in the browser                *)
(* (frontend/src/App.svelte, lib/SessionsSettings.svelte,                  *)
(* lib/AppModals.svelte, lib/SessionPicker.svelte, lib/session-utils.js),  *)
(* through the routes of sessions (routes/sessions.js) and tmux            *)
(* (services/tmux.js).  A tmux session is known by its name alone, to the  *)
(* list, to the dialogs and to the panes of the workspaces; here it also   *)
(* has an identity, which nobody but the properties reads.                 *)
(*                                                                         *)
(* The sessions are those of one host.  How the list of several hosts is   *)
(* put together is in SessionList, which pane a session opens in is in     *)
(* PaneTargets.  What is typed in a form is read when the form is sent and *)
(* not before.  Its button is disabled meanwhile but the Enter key is not, *)
(* and so any form may be sent while others are answered.  A dialog covers *)
(* the page, and may be closed at any time.                                *)
(***************************************************************************)
EXTENDS Integers, Functions, SequencesExt

CONSTANTS
    SessionName,       \* names that isValidSessionName takes
    NoName,            \* no session: a dialog that is closed, a pane that is empty
    Place,             \* panes of the workspaces
    NoIdent,           \* nobody can say which session a pane is to show
    MaxSessions,       \* bound: tmux sessions ever
    MaxRequests,       \* bound: requests of the forms at a time
    MaxSent            \* bound: requests of the forms, and changes by others, ever

ASSUME SessionFormsAssumption ==
    /\ NoName \notin SessionName /\ IsFiniteSet(SessionName)
    /\ {MaxSessions, MaxRequests, MaxSent} \subseteq Nat /\ NoIdent \notin 1..MaxSessions

VARIABLES
    running,           \* the tmux sessions: the identity of each name
    everMade,          \* how many sessions tmux has made
    shownSessions,     \* sessions of App.svelte
    paneShows,         \* the session of each pane
    renameDialog,      \* showRenameSession
    deleteDialog,      \* showDeleteSession
    sessionMgrLoading,
    requests,          \* what the handlers wait for
    sent,              \* how many requests there were
    paneHas,           \* history: the session that each pane was given
    listStale,         \* history: why the list need not be right
    strayed            \* history: sessions that got a name unknown to the browser

formsVars == <<running, everMade, shownSessions, paneShows, renameDialog, deleteDialog, sessionMgrLoading,
               requests, sent, paneHas, listStale, strayed>>
dialogVars == <<renameDialog, deleteDialog>>
paneVars == <<paneShows, paneHas>>
tmuxVars == <<running, everMade>>

FormsInit ==
    /\ everMade \in 0..Min({MaxSessions, Cardinality(SessionName)})
    /\ \E names \in kSubset(everMade, SessionName) : running \in Bijection(names, 1..everMade)
    /\ shownSessions = running
    /\ paneShows = [p \in Place |-> NoName] /\ paneHas = [p \in Place |-> NoIdent]
    /\ renameDialog = NoName /\ deleteDialog = NoName
    /\ sessionMgrLoading = FALSE
    /\ requests = <<>> /\ sent = 0
    /\ listStale = FALSE /\ strayed = {}

\* The session that tmux has under a name.
IdentOf(name) == IF name \in DOMAIN running THEN running[name] ELSE NoIdent

\* A pane gets a session by its name.
Shows(p, name, ident) ==
    /\ paneShows' = [paneShows EXCEPT ![p] = name]
    /\ paneHas' = [paneHas EXCEPT ![p] = IF IdentOf(name) = ident THEN ident ELSE NoIdent]

-----------------------------------------------------------------------------
(* The forms.                                                               *)

Send(kind, name, newName, stage) ==
    /\ Len(requests) < MaxRequests /\ sent < MaxSent
    /\ requests' = Append(requests, [kind |-> kind, name |-> name, newName |-> newName,
                                     stage |-> stage, ident |-> NoIdent, found |-> <<>>])
    /\ sent' = sent + 1
    /\ sessionMgrLoading' = (sessionMgrLoading \/ kind # "refresh")
    /\ listStale' = (listStale \/ requests # <<>>)
    /\ UNCHANGED <<tmuxVars, shownSessions, paneVars, dialogVars, strayed>>

NoDialog == renameDialog = NoName /\ deleteDialog = NoName

Clicked == UNCHANGED <<tmuxVars, shownSessions, sessionMgrLoading, requests, sent, listStale, strayed>>

\* sessionCreateDraft: the name is not empty.
CreateSession(name) == NoDialog /\ Send("create", name, NoName, "sent")

\* What the user can point at: the list, and the panes.
Pointed == DOMAIN shownSessions \cup (Range(paneShows) \ {NoName})

OpenRenameDialog(name) ==
    /\ NoDialog
    /\ renameDialog' = name
    /\ UNCHANGED <<deleteDialog, paneVars>> /\ Clicked

\* sessionRenameDraft; the name may be the old one.
RenameSession(newName) == renameDialog # NoName /\ Send("rename", renameDialog, newName, "sent")

OpenDeleteDialog(name) ==
    /\ NoDialog
    /\ deleteDialog' = name
    /\ UNCHANGED <<renameDialog, paneVars>> /\ Clicked

\* This dialog has a button only.
DeleteSession ==
    /\ deleteDialog # NoName /\ ~sessionMgrLoading
    /\ Send("delete", deleteDialog, NoName, "sent")

CloseRenameDialog ==
    /\ renameDialog' = NoName
    /\ UNCHANGED <<deleteDialog, paneVars>> /\ Clicked

CloseDeleteDialog ==
    /\ deleteDialog' = NoName
    /\ UNCHANGED <<renameDialog, paneVars>> /\ Clicked

\* The button "refresh".
RefreshSessions == NoDialog /\ Send("refresh", NoName, NoName, "listing")

\* The picker of a pane, and "open" in the list.
PickSession(p, name) ==
    /\ NoDialog /\ name \in DOMAIN shownSessions
    /\ Shows(p, name, shownSessions[name])
    /\ UNCHANGED dialogVars /\ Clicked

-----------------------------------------------------------------------------
(* The routes and tmux.                                                     *)

At(i, kind, stage) == requests[i].kind = kind /\ requests[i].stage = stage

Moves(i, stage) == requests' = [requests EXCEPT ![i].stage = stage]

InBrowser == UNCHANGED <<shownSessions, paneVars, dialogVars, sessionMgrLoading, sent>>

\* Renames of which the browser has not been told yet.
Untold == {r \in Range(requests) : r.kind = "rename" /\ r.stage = "done"}

\* A session gets a name.  It strays if the browser has not been told yet that
\* this one already has another name, or that another one gave up that name:
\* then both do, for the panes of both have it.
Takes(name, ident) ==
    /\ running' = [n \in {m \in DOMAIN running : running[m] # ident} \cup {name} |->
                      IF n = name THEN ident ELSE running[n]]
    /\ strayed' = strayed \cup UNION {{ident, r.ident} : r \in {u \in Untold : u.name = name \/ u.ident = ident}}

\* new-session; a duplicate or a name that is not valid is refused.
TmuxCreates(i) ==
    /\ At(i, "create", "sent")
    /\ requests[i].name \notin DOMAIN running /\ everMade < MaxSessions
    /\ everMade' = everMade + 1
    /\ Takes(requests[i].name, everMade')
    /\ requests' = [requests EXCEPT ![i].stage = "done", ![i].ident = everMade']
    /\ UNCHANGED listStale /\ InBrowser

\* rename-session.
TmuxRenames(i) ==
    /\ At(i, "rename", "sent")
    /\ LET r == requests[i] IN
       /\ r.name \in DOMAIN running /\ r.newName \notin DOMAIN running \ {r.name}
       /\ Takes(r.newName, running[r.name])
       /\ requests' = [requests EXCEPT ![i].stage = "done", ![i].ident = running[r.name]]
    /\ UNCHANGED <<everMade, listStale>> /\ InBrowser

\* kill-session.
TmuxKills(i) ==
    /\ At(i, "delete", "sent") /\ requests[i].name \in DOMAIN running
    /\ running' = Restrict(running, DOMAIN running \ {requests[i].name})
    /\ Moves(i, "done")
    /\ UNCHANGED <<everMade, listStale, strayed>> /\ InBrowser

\* The name is not valid, there is no such session or already one, the host is gone.
Refused(i) ==
    /\ requests[i].stage = "sent"
    /\ Moves(i, "failed")
    /\ UNCHANGED <<tmuxVars, listStale, strayed>> /\ InBrowser

\* The server did what was asked, but the answer is an error or does not come.
AnswerIsLost(i) ==
    /\ requests[i].stage = "done"
    /\ Moves(i, "failed")
    /\ listStale' = TRUE
    /\ strayed' = strayed \cup ({requests[i].ident} \ {NoIdent})
    /\ UNCHANGED tmuxVars /\ InBrowser

\* The answer to loadSessions leaves the server.
SessionsListed(i) ==
    /\ requests[i].stage = "listing"
    /\ requests' = [requests EXCEPT ![i].stage = "listed", ![i].found = running]
    /\ listStale' = (listStale /\ Len(requests) > 1)
    /\ UNCHANGED <<tmuxVars, strayed>> /\ InBrowser

\* The list does not come: what is shown of the host is that error.
ListFails(i) ==
    /\ requests[i].stage = "listing"
    /\ Moves(i, "listed")
    /\ listStale' = TRUE
    /\ UNCHANGED <<tmuxVars, strayed>> /\ InBrowser

\* Another client of the same tmux.
OtherClient ==
    /\ sent < MaxSent /\ sent' = sent + 1
    /\ listStale' = TRUE
    /\ UNCHANGED <<requests, shownSessions, paneVars, dialogVars, sessionMgrLoading>>

StartedElsewhere(name) ==
    /\ name \notin DOMAIN running /\ everMade < MaxSessions
    /\ everMade' = everMade + 1 /\ Takes(name, everMade')
    /\ OtherClient

RenamedElsewhere(name, newName) ==
    /\ name \in DOMAIN running /\ newName \notin DOMAIN running
    /\ running' = [n \in (DOMAIN running \ {name}) \cup {newName} |->
                      IF n = newName THEN running[name] ELSE running[n]]
    /\ strayed' = strayed \cup {running[name]} \cup {r.ident : r \in {u \in Untold : u.name = newName}}
    /\ UNCHANGED everMade /\ OtherClient

KilledElsewhere(name) ==
    /\ name \in DOMAIN running
    /\ running' = Restrict(running, DOMAIN running \ {name})
    /\ UNCHANGED <<everMade, strayed>> /\ OtherClient

-----------------------------------------------------------------------------
(* The answers in the browser.                                              *)

InTmux == UNCHANGED <<tmuxVars, strayed, sent>>

\* The list is loaded again.
CreatedAnswer(i) ==
    /\ At(i, "create", "done")
    /\ Moves(i, "listing")
    /\ UNCHANGED <<dialogVars, shownSessions, paneVars, sessionMgrLoading, listStale>> /\ InTmux

\* Faulty variant: only the first pane that is found is told.
RenamedInFirstPane(name, newName) ==
    LET found == {p \in Place : paneShows[p] = name} IN
    [p \in Place |-> IF found # {} /\ p = CHOOSE q \in found : TRUE THEN newName ELSE paneShows[p]]

\* renameSessionInWorkspaces.
RenamedInWorkspaces(name, newName) ==
    [p \in Place |-> IF paneShows[p] = name THEN newName ELSE paneShows[p]]

\* Every pane is told, the dialog is closed, be it another one by now, and the
\* list is loaded again.
RenamedAnswer(i) ==
    /\ At(i, "rename", "done")
    /\ paneShows' = RenamedInWorkspaces(requests[i].name, requests[i].newName)
    /\ renameDialog' = NoName
    /\ Moves(i, "listing")
    /\ UNCHANGED <<deleteDialog, paneHas, shownSessions, sessionMgrLoading, listStale>> /\ InTmux

\* Its finally: the buttons are enabled, whoever else still waits.
HandlerEnds(i) ==
    /\ requests' = RemoveAt(requests, i)
    /\ sessionMgrLoading' = (sessionMgrLoading /\ requests[i].kind = "refresh")

\* The dialog is closed, and the list is loaded again.
DeletedAnswer(i) ==
    /\ At(i, "delete", "done") /\ deleteDialog # NoName
    /\ deleteDialog' = NoName
    /\ Moves(i, "listing")
    /\ UNCHANGED <<renameDialog, shownSessions, paneVars, sessionMgrLoading, listStale>> /\ InTmux

\* The message needs the dialog that was closed meanwhile: deletedSessionMessage
\* throws, an error is shown, and the list is not loaded.
DeletedAnswerAfterClose(i) ==
    /\ At(i, "delete", "done") /\ deleteDialog = NoName
    /\ HandlerEnds(i)
    /\ listStale' = TRUE
    /\ UNCHANGED <<dialogVars, shownSessions, paneVars>> /\ InTmux

\* The error is shown; a dialog stays open for another try.
FailedAnswer(i) ==
    /\ requests[i].stage = "failed"
    /\ HandlerEnds(i)
    /\ UNCHANGED <<dialogVars, shownSessions, paneVars, listStale>> /\ InTmux

\* The end of a load of the list; a session that was created opens in a pane
\* (openSessionInCurrentPane), if there is one.
SessionsLoaded(i, p) ==
    /\ requests[i].stage = "listed"
    /\ shownSessions' = requests[i].found
    /\ HandlerEnds(i)
    /\ IF requests[i].kind = "create"
       THEN Shows(p, requests[i].name, requests[i].ident)
       ELSE UNCHANGED paneVars
    /\ UNCHANGED <<dialogVars, listStale>> /\ InTmux

NoPaneIsFree(i) ==
    /\ At(i, "create", "listed")
    /\ shownSessions' = requests[i].found
    /\ HandlerEnds(i)
    /\ UNCHANGED <<dialogVars, paneVars, listStale>> /\ InTmux

FormsNext ==
    \/ \E name \in SessionName : CreateSession(name) \/ RenameSession(name)
    \/ \E name \in Pointed : OpenRenameDialog(name) \/ OpenDeleteDialog(name)
    \/ CloseRenameDialog \/ CloseDeleteDialog \/ DeleteSession \/ RefreshSessions
    \/ \E p \in Place, name \in SessionName : PickSession(p, name)
    \/ \E i \in DOMAIN requests :
          \/ TmuxCreates(i) \/ TmuxRenames(i) \/ TmuxKills(i) \/ Refused(i)
          \/ AnswerIsLost(i) \/ SessionsListed(i) \/ ListFails(i)
          \/ CreatedAnswer(i) \/ RenamedAnswer(i) \/ DeletedAnswer(i) \/ DeletedAnswerAfterClose(i)
          \/ FailedAnswer(i) \/ NoPaneIsFree(i)
          \/ \E p \in Place : SessionsLoaded(i, p)
    \/ \E name \in SessionName :
          \/ StartedElsewhere(name) \/ KilledElsewhere(name)
          \/ \E newName \in SessionName : RenamedElsewhere(name, newName)

FormsSpec == FormsInit /\ [][FormsNext]_formsVars

-----------------------------------------------------------------------------
(* Properties.                                                              *)

\* When no request is under way, the list is that of tmux, unless another
\* client, an answer that was lost, or a dialog closed too early changed it
\* behind the back of the browser since the last load that ran by itself; and a
\* pane still has the session it was given, under whatever name that session
\* has by now, unless the browser could not know of the name.  Forms may be sent
\* again, closed and opened for other sessions while they are answered.
SessionsAreAsShown ==
    requests = <<>> =>
        /\ ~listStale => shownSessions = running
        /\ \A p \in Place, name \in DOMAIN running :
              running[name] = paneHas[p] /\ paneHas[p] \notin strayed => paneShows[p] = name
=============================================================================
