---------------------------- MODULE PaneTargets ----------------------------
(***************************************************************************)
(* What the user interface holds on to of a pane while layouts change:     *)
(* the menu of a pane, the dialogs that choose its session and its title,  *)
(* the zoomed pane, the focused one, and the pane in which a new session   *)
(* is to open (frontend/src/App.svelte, lib/SplitPane.svelte,              *)
(* lib/WorkspaceContent.svelte, lib/stores/workspaces.js).  Each is a path *)
(* in the layout of the active workspace, or the session of a pane.        *)
(*                                                                         *)
(* The 50 ms between a change of the layout and its commit belong to       *)
(* WorkspaceStore.  The buttons of a pane keep their clicks to themselves, *)
(* so that an open menu stays.                                             *)
(*                                                                         *)
(* A pane is known by its id, host:session.  An empty one has the id       *)
(* empty:<path>, which whoever takes an id apart reads as the session      *)
(* <path> of a host "empty" (lib/app-utils.js): no pane holds it.          *)
(***************************************************************************)
EXTENDS Layouts

CONSTANTS
    Space,            \* workspaces
    NoSpace,          \* no workspace is active
    NoTarget,         \* nothing is held; nothing is zoomed
    NoFocus,          \* no pane is focused
    EmptyId,          \* the id of an empty pane, and the session that is read from it
    MaxPanesHeld,     \* bound: panes of a workspace
    MaxEdits          \* bound: changes of layouts

ASSUME PaneTargetsAssumption ==
    /\ NoSpace \notin Space /\ NoFocus \notin Content \cup {EmptyId}
    /\ EmptyId \notin Content \cup {EmptyPane}
    /\ MaxPanesHeld \in Nat \ {0, 1} /\ MaxPanesHeld < MaxLevels /\ MaxEdits \in Nat

Dialog == {"menu", "picker", "title"}

VARIABLES
    layouts,       \* the layout of each workspace there is
    activeSpace,   \* activeId
    held,          \* paneMenu, showSessionPicker, showRenamePaneModal
    zoomed,        \* zoomedPane
    focusedOn,     \* focusedId
    pendingPath,   \* pendingSessionPath
    edits          \* history: changes of layouts so far

targetVars == <<layouts, activeSpace, held, zoomed, focusedOn, pendingPath, edits>>

TargetsInit ==
    /\ layouts \in [Space -> {Leaf(EmptyPane)} \cup
                             {SplitOf("h", <<Leaf(s), Leaf(t)>>) : s \in Content, t \in Content}]
    /\ \A w \in Space : IsLeaf(layouts[w]) \/ Cardinality(ToSet(Leaves(layouts[w]))) = 2
    /\ activeSpace \in Space
    /\ held = [dialog \in Dialog |-> NoTarget]
    /\ zoomed = NoTarget
    /\ focusedOn \in Content \cup {EmptyId, NoFocus}
    /\ pendingPath = NoTarget
    /\ edits = 0

Current == layouts[activeSpace]
Active == activeSpace # NoSpace
Holds(path, s) == Active /\ NodeAt(Current, path) = Leaf(s)
PanePaths == ToSet(Paths(Current))
SessionAt(path) == NodeAt(Current, path).session

\* The id of the pane at a path.
NodeId(path) == IF SessionAt(path) = EmptyPane THEN EmptyId ELSE SessionAt(path)

\* What is held of a pane.  `lapsed` is history: the path did not lead to the
\* pane from the start, or something happened since then after which it need not.
Target(path, s) == [path |-> path, session |-> s, lapsed |-> ~Holds(path, s)]
Lapse(target) == IF target = NoTarget THEN target ELSE [target EXCEPT !.lapsed = TRUE]

\* The pane at the path gets another session; a session gets another name.
LapseAt(target, path) ==
    IF target # NoTarget /\ target.path = path THEN Lapse(target) ELSE target
LapseNamed(target, s) ==
    IF target # NoTarget /\ target.session = s THEN Lapse(target) ELSE target

NoDialog == held["picker"] = NoTarget /\ held["title"] = NoTarget
\* The panes of the active workspace are on the screen and can be reached.
Reachable == Active /\ zoomed = NoTarget /\ NoDialog

Hold(dialog, target) == held' = [held EXCEPT !["menu"] = NoTarget, ![dialog] = target]
CloseMenu == held' = [held EXCEPT !["menu"] = NoTarget]
LapseMenu == held' = [held EXCEPT !["menu"] = Lapse(@)]

\* A change of the active workspace's layout.
Edit(layout) ==
    /\ edits < MaxEdits
    /\ edits' = edits + 1
    /\ layouts' = [layouts EXCEPT ![activeSpace] = layout]
NoEdit == UNCHANGED <<layouts, edits>>

-----------------------------------------------------------------------------
(* Focus, and zooming.                                                      *)

HandleFocus(path) ==
    /\ Reachable
    /\ focusedOn' = NodeId(path)
    /\ CloseMenu /\ NoEdit
    /\ UNCHANGED <<activeSpace, zoomed, pendingPath>>

\* From the palette, which lists every session there is.
FocusSession(s) ==
    /\ NoDialog
    /\ focusedOn' = s
    /\ CloseMenu /\ NoEdit
    /\ UNCHANGED <<activeSpace, zoomed, pendingPath>>

\* handleZoom, of a pane by its id; whoever names no path means the root.
HandleZoom(s, path) ==
    IF zoomed # NoTarget /\ zoomed.session = s
    THEN zoomed' = NoTarget /\ UNCHANGED focusedOn
    ELSE zoomed' = Target(path, s) /\ focusedOn' = s

\* The button of a pane names the path.
ZoomByButton(path) ==
    /\ Reachable /\ SessionAt(path) # EmptyPane
    /\ HandleZoom(SessionAt(path), path)
    /\ NoEdit
    /\ UNCHANGED <<activeSpace, held, pendingPath>>

ZoomFromMenu ==
    /\ held["menu"] # NoTarget /\ NoDialog
    /\ HandleZoom(held["menu"].session, <<>>)
    /\ CloseMenu /\ NoEdit
    /\ UNCHANGED <<activeSpace, pendingPath>>

\* toggleFocusedZoom, of the status bar and the palette, which asks for no
\* workspace: the session read from the id is zoomed, be it in a pane or not.
ToggleFocusedZoom ==
    /\ NoDialog
    /\ IF zoomed # NoTarget THEN zoomed' = NoTarget /\ UNCHANGED focusedOn
       ELSE focusedOn # NoFocus /\ HandleZoom(focusedOn, <<>>)
    /\ CloseMenu /\ NoEdit
    /\ UNCHANGED <<activeSpace, pendingPath>>

Unzoom ==
    /\ zoomed # NoTarget /\ NoDialog
    /\ zoomed' = NoTarget
    /\ NoEdit
    /\ UNCHANGED <<activeSpace, held, focusedOn, pendingPath>>

-----------------------------------------------------------------------------
(* The menu of a pane, and the dialogs.                                     *)

OpenMenu(path) ==
    /\ Reachable /\ SessionAt(path) # EmptyPane
    /\ Hold("menu", Target(path, SessionAt(path)))
    /\ NoEdit
    /\ UNCHANGED <<activeSpace, zoomed, focusedOn, pendingPath>>

\* The zoomed pane hands out what it was zoomed with.
OpenMenuOfZoomed ==
    /\ zoomed # NoTarget /\ NoDialog /\ Active
    /\ Hold("menu", zoomed)
    /\ NoEdit
    /\ UNCHANGED <<activeSpace, zoomed, focusedOn, pendingPath>>

DismissMenu ==
    /\ held["menu"] # NoTarget
    /\ CloseMenu /\ NoEdit
    /\ UNCHANGED <<activeSpace, zoomed, focusedOn, pendingPath>>

\* openSessionPicker, from a pane, the zoomed pane or a menu.
OpenSessionPicker ==
    /\ NoDialog
    /\ \/ /\ Active /\ zoomed = NoTarget
          /\ \E path \in PanePaths : held' = [held EXCEPT !["picker"] = Target(path, SessionAt(path))]
       \/ Active /\ zoomed # NoTarget /\ held' = [held EXCEPT !["picker"] = zoomed]
       \/ held["menu"] # NoTarget /\ Hold("picker", held["menu"])
    /\ NoEdit
    /\ UNCHANGED <<activeSpace, zoomed, focusedOn, pendingPath>>

\* updatePaneSession: nothing if the path leads to no pane.
WithSession(path, s) ==
    IF NodeAt(Current, path) # Nothing /\ IsLeaf(NodeAt(Current, path))
    THEN WithNode(Current, path, Leaf(s)) ELSE Current

\* The zoomed pane goes on to show the session it was zoomed with.
AssignFromPicker(s) ==
    /\ held["picker"] # NoTarget /\ Active
    /\ Edit(WithSession(held["picker"].path, s))
    /\ focusedOn' = s
    /\ held' = [held EXCEPT !["picker"] = NoTarget, !["menu"] = LapseAt(@, held["picker"].path)]
    /\ zoomed' = LapseAt(zoomed, held["picker"].path)
    /\ UNCHANGED <<activeSpace, pendingPath>>

\* closeSessionPicker; openCreateSessionForCurrentPicker.
CloseSessionPicker ==
    /\ held["picker"] # NoTarget
    /\ held' = [held EXCEPT !["picker"] = NoTarget]
    /\ pendingPath' \in {pendingPath, held["picker"].path}
    /\ NoEdit
    /\ UNCHANGED <<activeSpace, zoomed, focusedOn>>

\* openRenamePaneModal.
OpenRenamePane ==
    /\ held["menu"] # NoTarget /\ NoDialog
    /\ Hold("title", held["menu"])
    /\ NoEdit
    /\ UNCHANGED <<activeSpace, zoomed, focusedOn, pendingPath>>

\* handleRenamePane sets the title of the pane at the path; or it was cancelled.
CloseRenamePane ==
    /\ held["title"] # NoTarget
    /\ held' = [held EXCEPT !["title"] = NoTarget]
    /\ NoEdit
    /\ UNCHANGED <<activeSpace, zoomed, focusedOn, pendingPath>>

-----------------------------------------------------------------------------
(* Changes of the layout.                                                   *)

\* handleSplitPane.  It does not end the zoom.
SplitAt(path, direction) ==
    /\ Len(Leaves(Current)) < MaxPanesHeld
    /\ Edit(AutoArrange(SplitPaneAt(Current, path, direction, EmptyPane)))
    /\ zoomed' = Lapse(zoomed)
    /\ UNCHANGED <<activeSpace, focusedOn, pendingPath>>

SplitByButton(path, direction) == Reachable /\ SplitAt(path, direction) /\ LapseMenu

SplitFromMenu(direction) ==
    /\ held["menu"] # NoTarget /\ NoDialog /\ Active
    /\ SplitAt(held["menu"].path, direction)
    /\ CloseMenu

\* Faulty variant: the pane that is zoomed stays so.
ForgetFocus == focusedOn' = NoFocus /\ UNCHANGED zoomed

\* Where a change of the layout moves panes.
ForgetPanes == focusedOn' = NoFocus /\ zoomed' = NoTarget

\* handleClosePane.
CloseAt(path) ==
    /\ Len(Leaves(Current)) > 1
    /\ IF RemovePane(Current, path) = Nothing
       THEN NoEdit /\ UNCHANGED <<focusedOn, zoomed>>
       ELSE Edit(AutoArrange(RemovePane(Current, path))) /\ ForgetPanes
    /\ UNCHANGED <<activeSpace, pendingPath>>

CloseByButton(path) == Reachable /\ CloseAt(path) /\ LapseMenu

CloseFromMenu ==
    /\ held["menu"] # NoTarget /\ NoDialog /\ Active
    /\ CloseAt(held["menu"].path)
    /\ CloseMenu

\* handlePaneDrop.
HandlePaneDrop(source, target, position) ==
    /\ Reachable /\ source # target
    /\ {source, target} \subseteq ToSet(Leaves(Current))
    /\ Edit(MovePane(Current, source, target, position))
    /\ ForgetPanes /\ LapseMenu
    /\ UNCHANGED <<activeSpace, pendingPath>>

-----------------------------------------------------------------------------
(* A session that is opened: it was asked for in the settings, or it was    *)
(* created there and the answer has come.                                   *)

\* selectSessionTargetPane.
SessionTargetPane ==
    LET focusedPath == PathOf(Current, focusedOn)
    IN  IF pendingPath \in PanePaths THEN pendingPath
        ELSE IF focusedOn \in Content /\ focusedOn \in ToSet(Leaves(Current)) THEN focusedPath
        ELSE Paths(Current)[1]

OpenSessionInCurrentPane(s) ==
    /\ Active
    /\ Edit(WithSession(SessionTargetPane, s))
    /\ focusedOn' = s
    /\ pendingPath' = NoTarget
    /\ zoomed' = LapseAt(zoomed, SessionTargetPane)
    /\ held' = [dialog \in Dialog |-> LapseAt(held[dialog], SessionTargetPane)]
    /\ UNCHANGED activeSpace

-----------------------------------------------------------------------------
(* Workspaces.                                                              *)

\* switchWorkspace; the dialogs cover whatever calls it, and the click closes
\* an open menu.
SwitchSpace(w) ==
    /\ NoDialog
    /\ activeSpace' = w
    /\ ForgetPanes /\ CloseMenu /\ NoEdit
    /\ UNCHANGED pendingPath

\* The answers to requests come when they will, and change the workspace under
\* whatever is held.
LapseAll ==
    /\ held' = [dialog \in Dialog |-> Lapse(held[dialog])]
    /\ zoomed' = Lapse(zoomed)

\* createWorkspace, duplicateWorkspace.
WorkspaceCreated(w, layout) ==
    /\ w \in Space \ DOMAIN layouts
    /\ layouts' = [v \in DOMAIN layouts \cup {w} |-> IF v = w THEN layout ELSE layouts[v]]
    /\ activeSpace' = w
    /\ LapseAll
    /\ UNCHANGED <<focusedOn, pendingPath, edits>>

\* deleteWorkspace: the first that is left becomes the active one.
WorkspaceDeleted(w) ==
    /\ edits < MaxEdits
    /\ edits' = edits + 1
    /\ layouts' = [v \in DOMAIN layouts \ {w} |-> layouts[v]]
    /\ IF activeSpace # w THEN UNCHANGED <<activeSpace, held, zoomed>>
       ELSE /\ IF DOMAIN layouts = {w} THEN activeSpace' = NoSpace ELSE activeSpace' \in DOMAIN layouts'
            /\ LapseAll
    /\ UNCHANGED <<focusedOn, pendingPath>>

\* renameSessionInWorkspaces, of one layout.
Renamed(layout, old, new) ==
    LET renamed[node \in Layout] ==
            IF IsLeaf(node) THEN IF node.session = old THEN Leaf(new) ELSE node
            ELSE SplitOf(node.split, [i \in DOMAIN node.children |-> renamed[node.children[i]]])
    IN  renamed[layout]

\* renameSessionInWorkspaces, when the server has answered.
SessionRenamed(old, new) ==
    /\ edits < MaxEdits
    /\ edits' = edits + 1
    /\ layouts' = [w \in DOMAIN layouts |-> Renamed(layouts[w], old, new)]
    /\ held' = [dialog \in Dialog |-> LapseNamed(held[dialog], old)]
    /\ zoomed' = LapseNamed(zoomed, old)
    /\ UNCHANGED <<activeSpace, focusedOn, pendingPath>>

TargetsNext ==
    \/ /\ Active
       /\ \E path \in PanePaths :
             \/ HandleFocus(path) \/ ZoomByButton(path) \/ OpenMenu(path) \/ CloseByButton(path)
             \/ \E direction \in {"h", "v"} : SplitByButton(path, direction)
    \/ ZoomFromMenu \/ ToggleFocusedZoom \/ Unzoom
    \/ OpenMenuOfZoomed \/ DismissMenu \/ OpenSessionPicker \/ CloseSessionPicker
    \/ OpenRenamePane \/ CloseRenamePane \/ CloseFromMenu
    \/ \E direction \in {"h", "v"} : SplitFromMenu(direction)
    \/ \E s \in Content : FocusSession(s) \/ AssignFromPicker(s) \/ OpenSessionInCurrentPane(s)
    \/ \E s, t \in Content, position \in {"left", "right", "top", "bottom", "swap"} :
          HandlePaneDrop(s, t, position)
    \/ \E w \in DOMAIN layouts : SwitchSpace(w) \/ WorkspaceDeleted(w)
    \/ \E w \in Space : \E layout \in {Leaf(EmptyPane)} \cup {layouts[v] : v \in DOMAIN layouts} :
          WorkspaceCreated(w, layout)
    \/ \E s, t \in Content : s # t /\ SessionRenamed(s, t)

TargetsSpec == TargetsInit /\ [][TargetsNext]_targetVars

-----------------------------------------------------------------------------
\* Whatever was split, closed, moved, zoomed and switched meanwhile: the path of
\* a menu, of a dialog and of the zoomed pane leads, in the workspace that is
\* active now, to a pane that holds the session it was taken for, so that the
\* choice that follows concerns that pane and no split with several.  Another
\* session in another pane, another name of another session, and workspaces that
\* go or are deleted elsewhere make no difference.  The exceptions are the targets
\* that lapsed: taken without a path, or older than a split, a drop or a close
\* beside an open menu, a new name or session of their own, or a workspace that
\* became the active one when an answer came.
TargetIsItsPane ==
    \A target \in {zoomed} \cup {held[dialog] : dialog \in Dialog} :
       target # NoTarget /\ ~target.lapsed => Holds(target.path, target.session)
=============================================================================
