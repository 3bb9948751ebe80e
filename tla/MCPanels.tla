------------------------------ MODULE MCPanels ------------------------------
(* What a user works with while answers are on their way, each part by       *)
(* itself: the scroll scheduler of a terminal, the input of a phone, and the *)
(* panels of the settings.  A behaviour is one of the part it starts with.   *)
EXTENDS ScrollScheduler, MobileInput, Preferences

VARIABLE part

panelsVars == <<part, vars, phoneVars, prefsVars>>

PanelsInit ==
    /\ part \in {"scroll", "phone", "preferences"}
    /\ Init /\ MobileInit /\ PreferencesInit
    /\ activeId = CHOOSE w \in Workspaces : TRUE
    /\ part # "phone" => ~readOnly /\ \A w \in Workspaces : panesOf[w] = <<Vacant>>
    /\ part # "preferences" => \A s \in Setting : kept[s] = FirstValue

PanelsNext ==
    \/ part = "scroll" /\ Next /\ UNCHANGED <<part, phoneVars, prefsVars>>
    \/ part = "phone" /\ MobileNext /\ UNCHANGED <<part, vars, prefsVars>>
    \/ part = "preferences" /\ PreferencesNext /\ UNCHANGED <<part, vars, phoneVars>>

\* The fairness of the scroll scheduler, whose steps leave the rest alone.
PanelsSpec ==
    /\ PanelsInit /\ [][PanelsNext]_panelsVars
    /\ part = "scroll" => Fairness
=============================================================================
