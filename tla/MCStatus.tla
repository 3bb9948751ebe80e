------------------------------ MODULE MCStatus ------------------------------
(* The parts that say what goes on in a session, each by itself: the status *)
(* engine of the server, the channel that brings its states to the browser, *)
(* the badges of activity, the list of the sessions of a host, and the      *)
(* forms that create, rename and delete them.  A behaviour is one of the    *)
(* part it starts with.                                                     *)
EXTENDS MCStatusEngine, StatusChannel, ActivityBadges, SessionListing, SessionForms

VARIABLE part

statusVars == <<part, vars, channelVars, activityVars, listingVars, formsVars>>

StatusInit ==
    /\ part \in {"engine", "channel", "activity", "listing", "forms"}
    /\ Init /\ ChannelInit /\ ActivityInit /\ ListingInit /\ FormsInit
    /\ part # "activity" => \A w \in Workspace : sessionsOf[w] = {}
    /\ part # "forms" => everMade = 0
    /\ part # "listing" => tmuxSessions = <<>> /\ typeMap

StatusNext ==
    \/ part = "engine" /\ Next /\ UNCHANGED <<part, channelVars, activityVars, listingVars, formsVars>>
    \/ part = "channel" /\ ChannelNext /\ UNCHANGED <<part, vars, activityVars, listingVars, formsVars>>
    \/ part = "activity" /\ ActivityNext /\ UNCHANGED <<part, vars, channelVars, listingVars, formsVars>>
    \/ part = "listing" /\ ListingNext /\ UNCHANGED <<part, vars, channelVars, activityVars, formsVars>>
    \/ part = "forms" /\ FormsNext /\ UNCHANGED <<part, vars, channelVars, activityVars, listingVars>>

StatusSpec == StatusInit /\ [][StatusNext]_statusVars

StatusSymmetry == Permutations(Workspace) \cup Permutations(SessionName)
=============================================================================
