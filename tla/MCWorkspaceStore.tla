-------------------------- MODULE MCWorkspaceStore --------------------------
(* What the page makes of workspaces, each part by itself: the start of the  *)
(* page, and the store.  A behaviour is one of the part it starts with.      *)
(* Sessions are interchangeable.                                             *)
EXTENDS WorkspaceStore, AppStart

VARIABLE part

workspaceVars == <<part, vars, startVars>>

WorkspacesInit ==
    /\ part \in {"store", "start"}
    /\ Init /\ AppStartInit
    /\ part # "store" => created = 0
    /\ part # "start" => spacesKept = <<>> /\ hostsKept /\ hostsInConfig /\ pageHash = NoSpaceName

WorkspacesNext ==
    \/ part = "store" /\ Next /\ UNCHANGED <<part, startVars>>
    \/ part = "start" /\ AppStartNext /\ UNCHANGED <<part, vars>>

WorkspacesSpec == WorkspacesInit /\ [][WorkspacesNext]_workspaceVars

SessionSymmetry == Permutations(Session)
=============================================================================
