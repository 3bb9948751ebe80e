----------------------------- MODULE MobileInput -----------------------------
(***************************************************************************)
(* What is typed, tapped and pasted on a phone                             *)
(* (lib/MobileWorkspaceView.svelte, lib/MobileKeyBar.svelte, the input of  *)
(* lib/Terminal.svelte) under what changes the pane that is shown          *)
(* (App.svelte).  The view shows a list of the panes or the terminal of    *)
(* one, with a bar of keys below it.  The bar has a Ctrl key that stays    *)
(* down for the next character: the bar shows that, and the terminal, a    *)
(* component of its own, acts on it.                                       *)
(*                                                                         *)
(* The components are made anew when the workspace or the number of the    *)
(* pane changes, and are kept when the pane gets another session; then the *)
(* terminal connects again.  When else it does is in TerminalPane; here it *)
(* may at any time.  A terminal that is left closes its socket, but cancels*)
(* neither a fetch of a token nor a read of the clipboard, so that it may  *)
(* get another socket and paste.  A layout is the sequence of its panes.   *)
(***************************************************************************)
EXTENDS Integers, Sequences, SequencesExt

CONSTANTS
    PhoneSession,    \* sessions (with their hosts)
    Vacant,          \* what a pane without a session shows
    Workspaces,      \* workspaces
    NoActive,        \* activeId while a layout is committed
    MaxPhonePanes,   \* bound: panes of a layout
    MaxUncommitted,  \* bound: layouts that wait for their commit
    MaxPastes,       \* bound: reads of the clipboard in flight
    MaxConnects      \* bound: fetches of a token of one terminal in flight

ASSUME MobileInputAssumption ==
    /\ Vacant \notin PhoneSession /\ NoActive \notin Workspaces
    /\ {MaxPhonePanes, MaxUncommitted, MaxPastes, MaxConnects} \subseteq Nat

VARIABLES
    activeId,         \* the workspace that is shown
    panesOf,          \* the panes of each workspace
    committing,       \* workspaces whose layout waits for its commit
    activePane,       \* mobileActivePane
    minimap,          \* mobileMinimap
    readOnly,         \* readOnlyMode
    terminal,         \* the terminal: its session, where its socket leads, ctrlPending,
                      \* and its fetches of a token
    ctrlActive,       \* the bar shows Ctrl as pressed
    pastes,           \* reads of the clipboard by this terminal
    leftTerminals,    \* terminals that were left and still read the clipboard
    sentNow           \* where the last step sent input, or nowhere, and by which terminal

phoneVars == <<activeId, panesOf, committing, activePane, minimap, readOnly,
               terminal, ctrlActive, pastes, leftTerminals, sentNow>>
viewVars == <<activeId, panesOf, committing, activePane, minimap>>

NoWhere == "nowhere"
NewTerminal(session) ==
    [session |-> session, socket |-> NoWhere, ctrlPending |-> FALSE, tokens |-> 0]
NoTerminal == NewTerminal(Vacant)

\* What the view shows a terminal of: nothing for the list and for a vacant pane.
InView(space, panes, pane, list) ==
    IF space = NoActive \/ list \/ panes[space] = <<>> THEN Vacant
    ELSE panes[space][(pane % Len(panes[space])) + 1]
ShownNow == InView(activeId, panesOf, activePane, minimap)

\* What is left of a terminal on onDestroy: whether it was fetching a token then
\* is recorded.  One that pastes nothing more can send nothing.
Leftover == [session |-> terminal.session, socket |-> NoWhere, tokens |-> terminal.tokens,
             pastes |-> pastes, fetching |-> terminal.tokens > 0]
Quiet == sentNow' = [to |-> NoWhere, by |-> "shown"]

MobileInit ==
    /\ activeId \in Workspaces
    /\ panesOf \in [Workspaces -> {<<Vacant>>} \cup {<<s, t>> : s, t \in PhoneSession}]
    /\ committing = <<>>
    /\ activePane = 0
    /\ minimap = TRUE
    /\ readOnly \in BOOLEAN
    /\ terminal = NoTerminal
    /\ ctrlActive = FALSE
    /\ pastes = 0
    /\ leftTerminals = <<>>
    /\ sentNow = [to |-> NoWhere, by |-> "shown"]

-----------------------------------------------------------------------------
(* The components after a change of the view.                               *)

\* Faulty variant: another session does not end the connection.
ReconnectsLazily(session) == [terminal EXCEPT !.session = session]

\* The effect on session and host: disconnect, and connect again.
Reconnects(session) ==
    [terminal EXCEPT !.session = session, !.socket = NoWhere, !.tokens = @ + 1]

Render ==
    LET shown == InView(activeId', panesOf', activePane', minimap')
        same  == terminal # NoTerminal /\ activeId' = activeId /\ activePane' = activePane
    IN  /\ Quiet
        /\ UNCHANGED readOnly
        /\ IF same /\ shown # Vacant
           THEN /\ \/ shown = terminal.session /\ terminal' = terminal
                   \/ /\ shown # terminal.session /\ terminal.tokens < MaxConnects
                      /\ terminal' = Reconnects(shown)
                /\ UNCHANGED <<ctrlActive, pastes, leftTerminals>>
           ELSE /\ terminal' = NewTerminal(shown)
                /\ ctrlActive' = FALSE /\ pastes' = 0
                /\ leftTerminals' = IF pastes = 0 THEN leftTerminals
                                    ELSE Append(leftTerminals, Leftover)

OpenMinimapPane(index) ==
    /\ activeId # NoActive /\ minimap /\ index < Len(panesOf[activeId])
    /\ activePane' = index /\ minimap' = FALSE
    /\ UNCHANGED <<activeId, panesOf, committing>>
    /\ Render

BackToMinimap ==
    /\ activeId # NoActive /\ ~minimap
    /\ minimap' = TRUE
    /\ UNCHANGED <<activeId, panesOf, committing, activePane>>
    /\ Render

OnActivePane(index) ==
    /\ activeId # NoActive /\ ~minimap /\ index < Len(panesOf[activeId])
    /\ activePane' = index
    /\ UNCHANGED <<activeId, panesOf, committing, minimap>>
    /\ Render

ShowWorkspace(space) ==
    /\ activeId' = space /\ activePane' = 0 /\ minimap' = TRUE
    /\ UNCHANGED <<panesOf, committing>>
    /\ Render

\* A workspace that the server made or deleted becomes active, or gives way to
\* another; the number of the pane and the list stay.
StoreActivates(space) ==
    /\ activeId' = space
    /\ UNCHANGED <<panesOf, committing, activePane, minimap>>
    /\ Render

\* handleSplitPane and handleClosePane of the pane that is shown.  Until the
\* layout is committed no workspace is.
Commit(panes) ==
    /\ Len(committing) < MaxUncommitted
    /\ panesOf' = [panesOf EXCEPT ![activeId] = panes]
    /\ committing' = Append(committing, activeId)
    /\ activeId' = NoActive
    /\ UNCHANGED minimap

ShownIndex == (activePane % Len(panesOf[activeId])) + 1

SplitCurrentPane ==
    /\ activeId # NoActive /\ ~minimap /\ Len(panesOf[activeId]) < MaxPhonePanes
    /\ Commit(InsertAt(panesOf[activeId], ShownIndex + 1, Vacant))
    /\ activePane' = ShownIndex
    /\ Render

CloseCurrentPane ==
    /\ activeId # NoActive /\ ~minimap /\ Len(panesOf[activeId]) > 1
    /\ Commit(RemoveAt(panesOf[activeId], ShownIndex))
    /\ activePane' = IF activePane < Len(panesOf[activeId]) - 1 THEN activePane
                     ELSE Len(panesOf[activeId]) - 2
    /\ Render

\* scheduleLayoutCommit's timer.
RestoreActive ==
    /\ committing # <<>>
    /\ activeId' = Head(committing) /\ committing' = Tail(committing)
    /\ UNCHANGED <<panesOf, activePane, minimap>>
    /\ Render

\* The session picker, for any pane; it does not change which is shown.
AssignPane(index, session) ==
    /\ activeId # NoActive /\ index \in DOMAIN panesOf[activeId]
    /\ panesOf' = [panesOf EXCEPT ![activeId][index] = session]
    /\ UNCHANGED <<activeId, committing, activePane, minimap>>
    /\ Render

-----------------------------------------------------------------------------
(* The terminal and the bar.                                                *)

\* connect, by finishInit or by the button to reconnect, which disconnects first.
TerminalConnects ==
    /\ terminal # NoTerminal /\ terminal.tokens < MaxConnects
    /\ terminal' = [terminal EXCEPT !.socket = NoWhere, !.tokens = @ + 1]
    /\ Quiet
    /\ UNCHANGED <<viewVars, readOnly, ctrlActive, pastes, leftTerminals>>

\* The token is there: the socket is one for the session of now.
SocketIsMade ==
    /\ terminal.tokens > 0
    /\ terminal' = [terminal EXCEPT !.socket = terminal.session, !.tokens = @ - 1]
    /\ Quiet
    /\ UNCHANGED <<viewVars, readOnly, ctrlActive, pastes, leftTerminals>>

TokenFails ==
    /\ terminal.tokens > 0
    /\ terminal' = [terminal EXCEPT !.tokens = @ - 1]
    /\ Quiet
    /\ UNCHANGED <<viewVars, readOnly, ctrlActive, pastes, leftTerminals>>

SocketEnds ==
    /\ terminal.socket # NoWhere
    /\ terminal' = [terminal EXCEPT !.socket = NoWhere]
    /\ Quiet
    /\ UNCHANGED <<viewVars, readOnly, ctrlActive, pastes, leftTerminals>>

SetReadOnlyMode ==
    /\ readOnly' = ~readOnly
    /\ Quiet
    /\ UNCHANGED <<viewVars, terminal, ctrlActive, pastes, leftTerminals>>

\* A socket may still be connecting: then nothing is sent.
CanSendTerminalInput(socket) == ~readOnly /\ socket # NoWhere
SendInput(socket, by) ==
    \/ CanSendTerminalInput(socket) /\ sentNow' = [to |-> socket, by |-> by]
    \/ Quiet

\* term.onData: the next character takes Ctrl, sent or not.
Typed ==
    /\ terminal # NoTerminal /\ ~readOnly
    /\ SendInput(terminal.socket, "shown")
    /\ terminal' = [terminal EXCEPT !.ctrlPending = FALSE]
    /\ ctrlActive' = (ctrlActive /\ ~terminal.ctrlPending)
    /\ UNCHANGED <<viewVars, readOnly, pastes, leftTerminals>>

\* tapKey: the key itself is sent as it is.
TapKey ==
    /\ terminal # NoTerminal /\ ~readOnly
    /\ SendInput(terminal.socket, "shown")
    /\ ctrlActive' = FALSE
    /\ terminal' = [terminal EXCEPT !.ctrlPending = @ /\ ~ctrlActive]
    /\ UNCHANGED <<viewVars, readOnly, pastes, leftTerminals>>

ToggleCtrl ==
    /\ terminal # NoTerminal /\ ~readOnly
    /\ ctrlActive' = ~ctrlActive
    /\ terminal' = [terminal EXCEPT !.ctrlPending = ctrlActive']
    /\ Quiet
    /\ UNCHANGED <<viewVars, readOnly, pastes, leftTerminals>>

\* Ctrl+V, and what the browser answers, if it does: the socket and the mode
\* are those of then.
StartPaste ==
    /\ terminal # NoTerminal /\ ~readOnly
    /\ pastes + Len(leftTerminals) < MaxPastes
    /\ pastes' = pastes + 1
    /\ Quiet
    /\ UNCHANGED <<viewVars, readOnly, terminal, ctrlActive, leftTerminals>>

PasteArrives ==
    /\ pastes > 0
    /\ pastes' = pastes - 1
    /\ SendInput(terminal.socket, "shown")
    /\ UNCHANGED <<viewVars, readOnly, terminal, ctrlActive, leftTerminals>>

-----------------------------------------------------------------------------
(* Terminals that were left.                                                *)

\* The token comes late.  Which session the component has by now, the one it
\* ended with or the one that is shown, is left to the framework.
LeftSocketIsMade(i) ==
    /\ leftTerminals[i].tokens > 0
    /\ \E session \in {leftTerminals[i].session, ShownNow} \ {Vacant} :
           leftTerminals' = [leftTerminals EXCEPT ![i].socket = session, ![i].tokens = @ - 1]
    /\ Quiet
    /\ UNCHANGED <<viewVars, readOnly, terminal, ctrlActive, pastes>>

LeftTokenFails(i) ==
    /\ leftTerminals[i].tokens > 0
    /\ leftTerminals' = [leftTerminals EXCEPT ![i].tokens = @ - 1]
    /\ Quiet
    /\ UNCHANGED <<viewVars, readOnly, terminal, ctrlActive, pastes>>

LeftSocketEnds(i) ==
    /\ leftTerminals[i].socket # NoWhere
    /\ leftTerminals' = [leftTerminals EXCEPT ![i].socket = NoWhere]
    /\ Quiet
    /\ UNCHANGED <<viewVars, readOnly, terminal, ctrlActive, pastes>>

LeftPasteArrives(i) ==
    /\ leftTerminals' = IF leftTerminals[i].pastes = 1 THEN RemoveAt(leftTerminals, i)
                        ELSE [leftTerminals EXCEPT ![i].pastes = @ - 1]
    /\ SendInput(leftTerminals[i].socket,
                 IF leftTerminals[i].fetching THEN "leftFetching" ELSE "left")
    /\ UNCHANGED <<viewVars, readOnly, terminal, ctrlActive, pastes>>

MobileNext ==
    \/ \E index \in 0 .. MaxPhonePanes - 1 : OpenMinimapPane(index) \/ OnActivePane(index)
    \/ BackToMinimap \/ SplitCurrentPane \/ CloseCurrentPane \/ RestoreActive
    \/ \E space \in Workspaces : ShowWorkspace(space) \/ StoreActivates(space)
    \/ \E index \in 1 .. MaxPhonePanes, session \in PhoneSession : AssignPane(index, session)
    \/ TerminalConnects \/ SocketIsMade \/ TokenFails \/ SocketEnds \/ SetReadOnlyMode
    \/ Typed \/ TapKey \/ ToggleCtrl \/ StartPaste \/ PasteArrives
    \/ \E i \in DOMAIN leftTerminals :
           \/ LeftSocketIsMade(i) \/ LeftTokenFails(i) \/ LeftSocketEnds(i) \/ LeftPasteArrives(i)

MobileSpec == MobileInit /\ [][MobileNext]_phoneVars

-----------------------------------------------------------------------------
(* Properties.                                                              *)

\* The bar shows Ctrl as pressed exactly while the terminal will take it, in
\* whatever way the view, the pane and its session have changed since.
CtrlIsArmedAsShown ==
    ctrlActive = terminal.ctrlPending

\* Input goes to the session of the pane that is shown when it is sent, and
\* none in read-only mode, even if its connection was made, or the clipboard
\* asked, for what was shown before.  The one exception is a paste asked of a
\* terminal that was left while it was fetching a token.
InputGoesToWhatIsShown ==
    sentNow.to # NoWhere =>
        ~readOnly /\ (sentNow.to = ShownNow \/ sentNow.by = "leftFetching")

\* The screen of a phone tells what its input does: both of the above, across
\* every change of the view (MobileKeyBar.svelte, Terminal.svelte).
InputIsAsShown == CtrlIsArmedAsShown /\ InputGoesToWhatIsShown
=============================================================================
