------------------------------- MODULE AppStart -------------------------------
(***************************************************************************)
(* How the page starts (App.svelte, init): it awaits one load after the    *)
(* other, goes to the workspace of its address, and shows the setup wizard *)
(* (SetupWizard.svelte) to who has no workspace and no host.  The bar with *)
(* the workspaces is there from the first moment, so workspaces may be     *)
(* created, gone to and deleted while the loads are on their way; other    *)
(* pages create and delete too, and the page may be reloaded at any time.  *)
(*                                                                         *)
(* A workspace is a row with an id, which is never used twice, and a name, *)
(* unique among the rows.  The loads of other things are here for the time *)
(* they take, and a copy of a workspace is created like any other.         *)
(***************************************************************************)
EXTENDS Integers, SequencesExt

CONSTANTS
    SpaceName,          \* names of workspaces
    NoSpaceName,        \* no workspace
    MaxSpaces,          \* bound: rows of workspaces created
    MaxCalls,           \* bound: requests in flight
    MaxOutside          \* bound: what happens on other pages, and reloads

ASSUME AppStartAssumption ==
    {MaxSpaces, MaxCalls, MaxOutside} \subseteq Nat /\ NoSpaceName \notin SpaceName

VARIABLES
    spacesKept,         \* the rows of workspaces
    spacesMade,         \* the last id of a row
    hostsKept,          \* there are rows of hosts
    hostsInConfig,      \* the ssh configuration has hosts that are no rows yet: it always has a local one
    startStep,          \* the load that init awaits
    startCalls,         \* requests in flight
    spacesListed,       \* the workspaces that the page shows
    spaceActive,        \* the id of the active one
    pageHash,           \* the workspace that the address names
    setupStep,          \* the step of the wizard, or 0 if it is not shown
    setupImporting, setupTesting, setupTested,   \* its flags, and that it has results
    outside,            \* how much happened outside
    spacesOwned,        \* history: the workspaces that the page has read, or created since then
                        \* and before it looked whether there is one, and has not deleted
    hadNoHost           \* history: after that no host was counted

startVars == <<spacesKept, spacesMade, hostsKept, hostsInConfig, startStep, startCalls, spacesListed,
               spaceActive, pageHash, setupStep, setupImporting, setupTesting, setupTested, outside,
               spacesOwned, hadNoHost>>
spaceRows == <<spacesKept, spacesMade>>
rowVars == <<spaceRows, hostsKept, hostsInConfig>>
wizardVars == <<setupStep, setupImporting, setupTesting, setupTested>>
startHistory == <<outside, spacesOwned, hadNoHost>>

\* What init awaits, in turn, before it looks whether this is the first start.
StartLoads == <<"types", "settings", "sessions", "workspaces", "templates", "user">>
Over == Len(StartLoads) + 2
Counting == Len(StartLoads) + 1

\* A row, or what is known of one.
Space(id, name) == [id |-> id, name |-> name]
NoSpace == Space(0, NoSpaceName)

Call(kind, space) == [kind |-> kind, space |-> space, served |-> FALSE, listed |-> <<>>, found |-> FALSE]

PageOpens ==
    /\ startStep' = 1 /\ startCalls' = <<Call(StartLoads[1], NoSpace)>>
    /\ spacesListed' = <<>> /\ spaceActive' = 0
    /\ setupStep' = 0 /\ setupImporting' = FALSE /\ setupTesting' = FALSE /\ setupTested' = FALSE
    /\ spacesOwned' = {} /\ hadNoHost' = FALSE

AppStartInit ==
    /\ spacesKept \in {<<>>} \cup {<<Space(1, name)>> : name \in SpaceName}
    /\ spacesMade = Len(spacesKept)
    /\ hostsKept \in BOOLEAN /\ hostsInConfig \in BOOLEAN /\ (hostsKept \/ hostsInConfig)
    /\ startStep = 1 /\ startCalls = <<Call(StartLoads[1], NoSpace)>>
    /\ spacesListed = <<>> /\ spaceActive = 0
    /\ pageHash \in SpaceName \cup {NoSpaceName}
    /\ setupStep = 0 /\ setupImporting = FALSE /\ setupTesting = FALSE /\ setupTested = FALSE
    /\ outside = 0 /\ spacesOwned = {} /\ hadNoHost = FALSE

-----------------------------------------------------------------------------
(* init goes on when what it awaits is answered or has failed: every load   *)
(* takes a failure for an answer.                                           *)

\* Faulty variant: who has no host sees the wizard, with workspaces or without.
IsFirstStartByHosts(listed) == TRUE

\* The list by then, and not as it was loaded.
IsFirstStart(listed) == listed = <<>>

\* The loads are over: restoreFromHash, and the count of hosts for a first start.
Loaded(rest) ==
    LET named == {i \in DOMAIN spacesListed' : spacesListed'[i].name = pageHash} IN
    /\ spaceActive' = IF named # {} THEN spacesListed'[Min(named)].id ELSE spaceActive
    /\ IF IsFirstStart(spacesListed')
       THEN startStep' = Counting /\ startCalls' = Append(rest, Call("count", NoSpace))
       ELSE startStep' = Over /\ startCalls' = rest

InitGoesOn(rest) ==
    IF startStep = Len(StartLoads) THEN Loaded(rest)
    ELSE /\ startStep' = startStep + 1
         /\ startCalls' = Append(rest, Call(StartLoads[startStep + 1], NoSpace))
         /\ UNCHANGED spaceActive

IsAwaited(i) == startStep <= Len(StartLoads) /\ startCalls[i].kind = StartLoads[startStep]

\* A load of init other than that of the workspaces, whatever comes of it.
LoadIsOver(i) ==
    /\ IsAwaited(i) /\ startCalls[i].kind # "workspaces"
    /\ UNCHANGED <<rowVars, spacesListed, pageHash, wizardVars, startHistory>>
    /\ InitGoesOn(RemoveAt(startCalls, i))

\* loadWorkspaces is answered.
WorkspacesAnswered(i) ==
    /\ IsAwaited(i) /\ startCalls[i].kind = "workspaces" /\ startCalls[i].served
    /\ spacesListed' = startCalls[i].listed
    /\ spaceActive' = IF spaceActive = 0 /\ spacesListed' # <<>> THEN Head(spacesListed').id ELSE spaceActive
    /\ startStep' = startStep + 1
    /\ startCalls' = Append(RemoveAt(startCalls, i), Call(StartLoads[startStep + 1], NoSpace))
    /\ spacesOwned' = Range(spacesListed')
    /\ UNCHANGED <<rowVars, pageHash, wizardVars, outside, hadNoHost>>

WorkspacesFailed(i) ==
    /\ IsAwaited(i) /\ startCalls[i].kind = "workspaces"
    /\ UNCHANGED <<rowVars, spacesListed, pageHash, wizardVars, startHistory>>
    /\ InitGoesOn(RemoveAt(startCalls, i))

\* The count of the hosts.
CountAnswered(i) ==
    /\ startCalls[i].kind = "count" /\ startCalls[i].served
    /\ startStep' = Over
    /\ startCalls' = RemoveAt(startCalls, i)
    /\ setupStep' = IF startCalls[i].found THEN setupStep ELSE 1
    /\ hadNoHost' = ~startCalls[i].found
    /\ UNCHANGED <<rowVars, spacesListed, spaceActive, pageHash,
                   setupImporting, setupTesting, setupTested, outside, spacesOwned>>

\* Its failure is the end of init.
CountFailed(i) ==
    /\ startCalls[i].kind = "count"
    /\ startStep' = Over
    /\ startCalls' = RemoveAt(startCalls, i)
    /\ UNCHANGED <<rowVars, spacesListed, spaceActive, pageHash, wizardVars, startHistory>>

-----------------------------------------------------------------------------
(* The user.                                                                *)

AskServer(kind, space) ==
    /\ Len(startCalls) < MaxCalls
    /\ startCalls' = Append(startCalls, Call(kind, space))
    /\ UNCHANGED <<rowVars, startStep, spacesListed, spaceActive, pageHash, startHistory>>

\* handleCreateWorkspace, from the dialog of the bar, and setupCreateWorkspace;
\* neither button is disabled while a creation is on its way.
HandleCreateWorkspace(name) == AskServer("create", Space(0, name)) /\ UNCHANGED wizardVars
SetupCreateWorkspace(name) ==
    setupStep = 3 /\ AskServer("setup create", Space(0, name)) /\ UNCHANGED wizardVars

\* handleDelete, from the menu of a tab; nor is its button disabled meanwhile.
HandleDelete(space) == AskServer("delete", space) /\ UNCHANGED wizardVars

GoToWorkspace(space) ==
    /\ spaceActive' = space.id /\ pageHash' = space.name
    /\ UNCHANGED <<rowVars, startStep, startCalls, spacesListed, wizardVars, startHistory>>

SetupImportHosts ==
    /\ setupStep = 1 /\ ~setupImporting
    /\ AskServer("import", NoSpace)
    /\ setupImporting' = TRUE /\ UNCHANGED <<setupStep, setupTesting, setupTested>>

\* The first test, and a test once more.
SetupTestAllHosts ==
    /\ setupStep = 2 /\ ~setupTesting
    /\ AskServer("test", NoSpace)
    /\ setupTesting' = TRUE /\ setupTested' = FALSE /\ UNCHANGED <<setupStep, setupImporting>>

\* onStep(3): the button to continue and the one to skip the tests.
SetupGoesOn ==
    /\ setupStep = 2 /\ setupStep' = 3
    /\ UNCHANGED <<rowVars, startStep, startCalls, spacesListed, spaceActive, pageHash, startHistory,
                   setupImporting, setupTesting, setupTested>>

\* setupSkip.
SetupSkip ==
    /\ setupStep = 1 /\ setupStep' = 0
    /\ UNCHANGED <<rowVars, startStep, startCalls, spacesListed, spaceActive, pageHash, startHistory,
                   setupImporting, setupTesting, setupTested>>

\* onOpenHosts: the section of the servers opens, which counts the hosts and
\* imports if there is none (autoImportIfEmpty).
SetupOpenHosts ==
    /\ setupStep = 1 /\ setupStep' = 0
    /\ AskServer("section", NoSpace)
    /\ UNCHANGED <<setupImporting, setupTesting, setupTested>>

-----------------------------------------------------------------------------
(* The server.                                                              *)

ServedWith(i, listed, found) ==
    /\ startCalls' = [startCalls EXCEPT ![i].served = TRUE, ![i].listed = listed, ![i].found = found]
    /\ UNCHANGED <<startStep, spacesListed, spaceActive, pageHash, wizardVars, startHistory>>

ServeWorkspaces(i) ==
    /\ startCalls[i].kind = "workspaces"
    /\ ServedWith(i, spacesKept, FALSE) /\ UNCHANGED rowVars

ServeCount(i) ==
    /\ startCalls[i].kind \in {"count", "section"}
    /\ ServedWith(i, <<>>, hostsKept) /\ UNCHANGED rowVars

\* The name is unique: a second row of a name is refused (found: it was created).
NameIsNew(name) == \A j \in DOMAIN spacesKept : spacesKept[j].name # name

AddSpace(name) ==
    /\ spacesMade < MaxSpaces
    /\ spacesMade' = spacesMade + 1
    /\ spacesKept' = Append(spacesKept, Space(spacesMade + 1, name))

ServeCreate(i) ==
    LET name == startCalls[i].space.name IN
    /\ startCalls[i].kind \in {"create", "setup create"}
    /\ \/ NameIsNew(name) /\ AddSpace(name) /\ ServedWith(i, <<Space(spacesMade + 1, name)>>, TRUE)
       \/ ~NameIsNew(name) /\ UNCHANGED spaceRows /\ ServedWith(i, <<>>, FALSE)
    /\ UNCHANGED <<hostsKept, hostsInConfig>>

\* A row that is gone is not found, and the request refused.
ServeDelete(i) ==
    /\ startCalls[i].kind = "delete"
    /\ \/ \E place \in DOMAIN spacesKept :
             /\ spacesKept[place] = startCalls[i].space
             /\ spacesKept' = RemoveAt(spacesKept, place)
             /\ ServedWith(i, <<>>, TRUE)
       \/ /\ startCalls[i].space \notin Range(spacesKept)
          /\ UNCHANGED spacesKept
          /\ ServedWith(i, <<>>, FALSE)
    /\ UNCHANGED <<spacesMade, hostsKept, hostsInConfig>>

\* found: at least one host was imported.
ServeImportOfSetup(i) ==
    /\ startCalls[i].kind \in {"import", "section import"}
    /\ hostsKept' = (hostsKept \/ hostsInConfig) /\ hostsInConfig' = FALSE
    /\ ServedWith(i, <<>>, hostsInConfig) /\ UNCHANGED spaceRows

ServeTestOfSetup(i) ==
    /\ startCalls[i].kind = "test"
    /\ ServedWith(i, <<>>, hostsKept) /\ UNCHANGED rowVars

ServeCall(i) ==
    /\ ~startCalls[i].served
    /\ \/ ServeWorkspaces(i) \/ ServeCount(i) \/ ServeCreate(i) \/ ServeDelete(i)
       \/ ServeImportOfSetup(i) \/ ServeTestOfSetup(i)

-----------------------------------------------------------------------------
(* Answers to the user's requests.                                          *)

\* What the page has is looked at when the loads are over.
NotLookedYet == startStep <= Len(StartLoads)

\* createWorkspace puts the new row at the end, makes it active, and leaves the address alone.
CreateAnswered(i) ==
    /\ startCalls[i].kind \in {"create", "setup create"} /\ startCalls[i].served /\ startCalls[i].found
    /\ startCalls' = RemoveAt(startCalls, i)
    /\ LET new == Head(startCalls[i].listed) IN
          /\ spacesListed' = Append(spacesListed, new)
          /\ spaceActive' = new.id
          /\ spacesOwned' = IF NotLookedYet THEN spacesOwned \cup {new} ELSE spacesOwned
    /\ setupStep' = IF startCalls[i].kind = "setup create" THEN 0 ELSE setupStep
    /\ UNCHANGED <<rowVars, startStep, pageHash, setupImporting, setupTesting, setupTested,
                   outside, hadNoHost>>

\* The entries of a list that are not the row of the id, in their order.
WithoutSpace(list, id) ==
    LET places == {i \in DOMAIN list : list[i].id # id}
        Before(i) == Cardinality({j \in places : j < i})
    IN  [n \in 1 .. Cardinality(places) |-> list[CHOOSE i \in places : Before(i) = n - 1]]

\* deleteWorkspace takes it from the list, and makes the first one left active if it was.
DeleteAnswered(i) ==
    LET id == startCalls[i].space.id IN
    /\ startCalls[i].kind = "delete" /\ startCalls[i].served /\ startCalls[i].found
    /\ startCalls' = RemoveAt(startCalls, i)
    /\ spacesListed' = WithoutSpace(spacesListed, id)
    /\ spaceActive' = IF spaceActive # id THEN spaceActive
                      ELSE IF spacesListed' = <<>> THEN 0 ELSE Head(spacesListed').id
    /\ spacesOwned' = {space \in spacesOwned : space.id # id}
    /\ UNCHANGED <<rowVars, startStep, pageHash, wizardVars, outside, hadNoHost>>

\* The loads of hosts and sessions after an import come before the next step.
ImportAnswered(i) ==
    /\ startCalls[i].kind = "import" /\ startCalls[i].served
    /\ startCalls' = [startCalls EXCEPT ![i].kind = "import loads"]
    /\ UNCHANGED <<rowVars, startStep, spacesListed, spaceActive, pageHash, wizardVars, startHistory>>

\* setupStep is set even if the wizard was left by then, and shows nothing.
ImportLoaded(i) ==
    /\ startCalls[i].kind = "import loads"
    /\ startCalls' = RemoveAt(startCalls, i)
    /\ setupStep' = IF setupStep # 0 /\ startCalls[i].found THEN 2 ELSE setupStep
    /\ setupImporting' = FALSE
    /\ UNCHANGED <<rowVars, startStep, spacesListed, spaceActive, pageHash, setupTesting, setupTested, startHistory>>

TestOfSetupAnswered(i) ==
    /\ startCalls[i].kind = "test" /\ startCalls[i].served
    /\ startCalls' = [startCalls EXCEPT ![i].kind = "test loads"]
    /\ setupTested' = startCalls[i].found
    /\ UNCHANGED <<rowVars, startStep, spacesListed, spaceActive, pageHash,
                   setupStep, setupImporting, setupTesting, startHistory>>

SectionAnswered(i) ==
    /\ startCalls[i].kind = "section" /\ startCalls[i].served
    /\ startCalls' = IF startCalls[i].found THEN RemoveAt(startCalls, i)
                ELSE [startCalls EXCEPT ![i] = Call("section import", NoSpace)]
    /\ UNCHANGED <<rowVars, startStep, spacesListed, spaceActive, pageHash, wizardVars, startHistory>>

\* A request of the user is over without more: it failed, before or after the
\* server had it, it was refused, or nothing is done with its answer.
CallIsOver(i) ==
    /\ startCalls[i].kind \in
          {"create", "setup create", "delete", "import", "test", "test loads", "section",
           "section import"}
    /\ startCalls' = RemoveAt(startCalls, i)
    /\ setupImporting' = (setupImporting /\ startCalls[i].kind # "import")
    /\ setupTesting' = (setupTesting /\ startCalls[i].kind \notin {"test", "test loads"})
    /\ UNCHANGED <<rowVars, startStep, spacesListed, spaceActive, pageHash, setupStep, setupTested, startHistory>>

-----------------------------------------------------------------------------
(* Other pages, and a reload of this one.                                   *)

Outside == outside < MaxOutside /\ outside' = outside + 1

\* What is in flight may have reached the server, and is answered to nobody.
Reload ==
    /\ Outside
    /\ PageOpens
    /\ UNCHANGED <<rowVars, pageHash>>

OtherPage ==
    /\ Outside
    /\ \/ \E name \in SpaceName : NameIsNew(name) /\ AddSpace(name) /\ UNCHANGED hostsKept
       \/ \E place \in DOMAIN spacesKept :
             spacesKept' = RemoveAt(spacesKept, place) /\ UNCHANGED <<spacesMade, hostsKept>>
       \/ hostsKept' = ~hostsKept /\ UNCHANGED spaceRows
    /\ hostsInConfig' = (hostsInConfig \/ ~hostsKept')
    /\ UNCHANGED <<startStep, startCalls, spacesListed, spaceActive, pageHash, wizardVars,
                   spacesOwned, hadNoHost>>

AppStartNext ==
    \/ \E i \in DOMAIN startCalls :
          \/ LoadIsOver(i) \/ WorkspacesAnswered(i) \/ WorkspacesFailed(i) \/ CountAnswered(i) \/ CountFailed(i)
          \/ ServeCall(i) \/ CreateAnswered(i) \/ DeleteAnswered(i) \/ ImportAnswered(i) \/ ImportLoaded(i)
          \/ TestOfSetupAnswered(i) \/ SectionAnswered(i) \/ CallIsOver(i)
    \/ \E name \in SpaceName :
          HandleCreateWorkspace(name) \/ SetupCreateWorkspace(name)
    \/ \E space \in Range(spacesListed) : GoToWorkspace(space) \/ HandleDelete(space)
    \/ SetupImportHosts \/ SetupTestAllHosts \/ SetupGoesOn \/ SetupSkip \/ SetupOpenHosts
    \/ Reload \/ OtherPage

AppStartSpec == AppStartInit /\ [][AppStartNext]_startVars

-----------------------------------------------------------------------------
(* Properties.                                                              *)

\* "Detect first-run": the wizard is shown only to who has neither a workspace nor
\* a host: of the workspaces that the page had read when it looked, or created since
\* it read them, it had deleted every one itself, and after that it counted no host.
\* This is so in whichever order answers come, whatever is created and deleted
\* meanwhile and however often the page is reloaded (App.svelte, init).
WizardIsForNewcomers == setupStep # 0 => spacesOwned = {} /\ hadNoHost /\ startStep = Over
=============================================================================
