----------------------------- MODULE MCBrowser -----------------------------
(* The parts of the browser that share no state, each by itself: a behaviour *)
(* is one of the part it starts with.  Symmetric are the sessions of a pane  *)
(* and the contents of layouts.                                              *)
EXTENDS TerminalPane, SessionList, HistoryViewer, LayoutTree, TerminalSize, HostForm, PaneTargets

VARIABLE part

allVars == <<part, vars, listVars, viewerVars,
             layoutVars, sizeVars, hostFormVars, targetVars>>

BrowserInit ==
    /\ part \in {"pane", "list", "viewer", "layout",
                "size", "host form", "targets"}
    /\ Init /\ ListInit /\ ViewerInit /\ LayoutInit
    /\ SizeInit /\ HostFormInit /\ TargetsInit
    /\ part # "size" => boxSize = MaxBox
    /\ part # "targets" => focusedOn = NoFocus
    /\ activeSpace = 1 /\ Len(Leaves(layouts[1])) = 2 /\ layouts[2] = Leaf(EmptyPane)

BrowserNext ==
    \/ /\ part = "pane" /\ Next
       /\ UNCHANGED <<part, listVars, viewerVars,
                     layoutVars, sizeVars, hostFormVars, targetVars>>
    \/ /\ part = "list" /\ ListNext
       /\ UNCHANGED <<part, vars, viewerVars,
                     layoutVars, sizeVars, hostFormVars, targetVars>>
    \/ /\ part = "viewer" /\ ViewerNext
       /\ UNCHANGED <<part, vars, listVars,
                     layoutVars, sizeVars, hostFormVars, targetVars>>
    \/ /\ part = "layout" /\ LayoutNext
       /\ UNCHANGED <<part, vars, listVars,
                     viewerVars, sizeVars, hostFormVars, targetVars>>
    \/ /\ part = "size" /\ SizeNext
       /\ UNCHANGED <<part, vars, listVars,
                     viewerVars, layoutVars, hostFormVars, targetVars>>
    \/ /\ part = "host form" /\ HostFormNext
       /\ UNCHANGED <<part, vars, listVars,
                     viewerVars, layoutVars, sizeVars, targetVars>>
    \/ /\ part = "targets" /\ TargetsNext
       /\ UNCHANGED <<part, vars, listVars,
                     viewerVars, layoutVars, sizeVars, hostFormVars>>

BrowserSpec == BrowserInit /\ [][BrowserNext]_allVars

BrowserSymmetry == Permutations(Session) \cup Permutations(Content)
=============================================================================
