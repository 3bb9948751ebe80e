--------------------------- MODULE SessionListing ---------------------------
(***************************************************************************)
(* The list of the tmux sessions of one host (services/tmux.js):           *)
(* listSessions asks tmux for the names, then asks about every session     *)
(* what runs in it and in which folder it is, a few sessions at a time     *)
(* (lib/async-utils.js).  Sessions are created, renamed and deleted while  *)
(* those questions are on their way, programs start and folders change.    *)
(*                                                                         *)
(* tmux takes a target that is no session's name for the beginning of one; *)
(* the names here are not beginnings of each other.  A question is         *)
(* answered and its answer handled in one step: an answer that is older    *)
(* when it arrives was true since the listing began all the same.          *)
(***************************************************************************)
EXTENDS Integers, SequencesExt

CONSTANTS
    ListedName,         \* names of sessions
    Program,            \* commands that panes may run
    Shell,              \* those that are shells
    TypeRow,            \* process names of the rows of session_types
    Folder,             \* folders
    InRepo,             \* those that are in a git repository
    RootFolder,         \* the folder without a name
    EnrichConcurrency,  \* SESSION_ENRICH_CONCURRENCY
    MaxPanesListed,     \* bound: panes of a session
    MaxWorldChanges     \* bound: what happens on the host during a listing

ASSUME SessionListingAssumption ==
    /\ EnrichConcurrency \in Nat \ {0}
    /\ {MaxPanesListed, MaxWorldChanges} \subseteq Nat
    /\ Shell \subseteq Program /\ InRepo \subseteq Folder
    /\ IsFiniteSet(ListedName)

VARIABLES
    tmuxSessions,       \* the sessions of the host: the programs of their panes, and their folder
    typeMap,            \* dynamicTypeMap is there: the rows could be read at the start
    listingPhase,       \* "idle", "asked", "enriching" or "done"
    parsedNames,        \* parsed
    nextIndex,          \* nextIndex of mapWithConcurrency
    underWay,           \* the mappers that run: by index, what they know so far
    enriched,           \* results of mapWithConcurrency
    listingStatus,      \* the status that is answered
    worldChanges,       \* how much happened on the host
    wasTrue             \* history: what was true of the sessions during the listing

listingVars == <<tmuxSessions, typeMap, listingPhase, parsedNames, nextIndex, underWay, enriched,
                 listingStatus, worldChanges, wasTrue>>
hostWorldVars == <<tmuxSessions, worldChanges, wasTrue>>

NotAsked == "not asked"
Unknown == "null"
Terminal == "terminal"
RepoName == "repo"
Hole == [name |-> Unknown, type |-> Unknown, workingDir |-> Unknown, repoName |-> Unknown]

TypesOf(names) == {<<n, tmuxSessions'[n]>> : n \in names}

ListingInit ==
    /\ \E names \in SUBSET ListedName, command \in Program, folder \in Folder :
          tmuxSessions = [n \in names |-> [commands |-> <<command>>, folder |-> folder]]
    /\ typeMap \in BOOLEAN
    /\ listingPhase = "idle"
    /\ parsedNames = <<>> /\ nextIndex = 1 /\ underWay = <<>> /\ enriched = <<>>
    /\ listingStatus = Unknown
    /\ worldChanges = 0 /\ wasTrue = {}

-----------------------------------------------------------------------------
(* What detectType and detectContext make of the answers.                   *)

\* The built-in names, for when the rows could not be read.
TYPE_MAP(command) ==
    CASE command = "claude" -> "claude-code"
      [] command \in {"gsd", "pi"} -> "gsd"
      [] OTHER -> Unknown

TypeOfCommand(command) ==
    IF typeMap THEN IF command \in TypeRow \ Shell THEN command ELSE Unknown
    ELSE TYPE_MAP(command)

\* The first pane that runs something notable, or else the first pane.
DetectedType(commands) ==
    LET first == SelectInSeq(commands, LAMBDA c : TypeOfCommand(c) # Unknown) IN
    IF first # 0 THEN TypeOfCommand(commands[first]) ELSE Head(commands)

\* The last part of the path.
BaseName(folder) == IF folder = RootFolder THEN Unknown ELSE folder

-----------------------------------------------------------------------------
(* The listing.                                                             *)

Workers == Min({EnrichConcurrency, Len(parsedNames')})
NothingKnown == [type |-> NotAsked, workingDir |-> NotAsked, repoName |-> NotAsked]

BeginListing ==
    /\ listingPhase = "idle"
    /\ listingPhase' = "asked"
    /\ wasTrue' = {<<n, tmuxSessions[n]>> : n \in DOMAIN tmuxSessions}
    /\ UNCHANGED <<tmuxSessions, typeMap, parsedNames, nextIndex, underWay, enriched, listingStatus, worldChanges>>

NamesAnswered ==
    /\ listingPhase = "asked" /\ DOMAIN tmuxSessions # {}
    /\ parsedNames' = SetToSeq(DOMAIN tmuxSessions)
    /\ enriched' = [i \in DOMAIN parsedNames' |-> Hole]
    /\ underWay' = [i \in 1..Workers |-> NothingKnown]
    /\ nextIndex' = Workers + 1
    /\ listingPhase' = "enriching"
    /\ UNCHANGED <<hostWorldVars, typeMap, listingStatus>>

\* No server, because there is no session, is an empty list; other failures are not.
NamesFailed ==
    /\ listingPhase = "asked"
    /\ listingStatus' = IF DOMAIN tmuxSessions = {} THEN "online" ELSE "error"
    /\ listingPhase' = "done"
    /\ UNCHANGED <<hostWorldVars, typeMap, parsedNames, nextIndex, underWay, enriched>>

\* Faulty variant: a result goes to the first place that is free.
StoredInTurn(i, entry) ==
    [enriched EXCEPT ![SelectInSeq(enriched, LAMBDA e : e = Hole)] = entry]

Stored(i, entry) == [enriched EXCEPT ![i] = entry]

\* A mapper that knows all stores its result, and its worker takes the next session.
Progress(i, known) ==
    /\ IF NotAsked \in {known.type, known.workingDir, known.repoName}
       THEN /\ underWay' = [underWay EXCEPT ![i] = known]
            /\ UNCHANGED <<nextIndex, enriched, listingPhase, listingStatus>>
       ELSE LET rest == DOMAIN underWay \ {i} IN
            /\ enriched' = Stored(i, [name |-> parsedNames[i], type |-> known.type,
                                      workingDir |-> known.workingDir, repoName |-> known.repoName])
            /\ IF nextIndex <= Len(parsedNames)
               THEN /\ underWay' = [j \in rest \cup {nextIndex} |->
                                       IF j = nextIndex THEN NothingKnown ELSE underWay[j]]
                    /\ nextIndex' = nextIndex + 1
               ELSE underWay' = [j \in rest |-> underWay[j]] /\ UNCHANGED nextIndex
            /\ IF underWay' = <<>>
               THEN listingPhase' = "done" /\ listingStatus' = "online"
               ELSE UNCHANGED <<listingPhase, listingStatus>>
    /\ UNCHANGED <<hostWorldVars, typeMap, parsedNames>>

IsThere(i) == parsedNames[i] \in DOMAIN tmuxSessions
SessionAt(i) == tmuxSessions[parsedNames[i]]

TypeAnswered(i) ==
    /\ underWay[i].type = NotAsked /\ IsThere(i)
    /\ Progress(i, [underWay[i] EXCEPT !.type = DetectedType(SessionAt(i).commands)])

TypeFailed(i) ==
    /\ underWay[i].type = NotAsked
    /\ Progress(i, [underWay[i] EXCEPT !.type = Terminal])

PathAnswered(i) ==
    /\ underWay[i].workingDir = NotAsked /\ IsThere(i)
    /\ Progress(i, [underWay[i] EXCEPT !.workingDir = SessionAt(i).folder])

\* Without a folder nothing is asked about its repository.
PathFailed(i) ==
    /\ underWay[i].workingDir = NotAsked
    /\ Progress(i, [underWay[i] EXCEPT !.workingDir = Unknown, !.repoName = Unknown])

AwaitsRepo(i) == underWay[i].workingDir # NotAsked /\ underWay[i].repoName = NotAsked

RepoAnswered(i) ==
    /\ AwaitsRepo(i) /\ underWay[i].workingDir \in InRepo
    /\ Progress(i, [underWay[i] EXCEPT !.repoName = RepoName])

\* No repository, no git, or no answer in time.
RepoFailed(i) ==
    /\ AwaitsRepo(i)
    /\ Progress(i, [underWay[i] EXCEPT !.repoName = BaseName(underWay[i].workingDir)])

-----------------------------------------------------------------------------
(* The host.                                                                *)

OnHost ==
    /\ listingPhase \in {"asked", "enriching"}
    /\ worldChanges < MaxWorldChanges
    /\ worldChanges' = worldChanges + 1
    /\ wasTrue' = wasTrue \cup TypesOf(DOMAIN tmuxSessions')
    /\ UNCHANGED <<typeMap, listingPhase, parsedNames, nextIndex, underWay, enriched, listingStatus>>

SessionStarts(name, command, folder) ==
    /\ name \notin DOMAIN tmuxSessions
    /\ tmuxSessions' = [n \in DOMAIN tmuxSessions \cup {name} |->
                           IF n = name THEN [commands |-> <<command>>, folder |-> folder]
                           ELSE tmuxSessions[n]]
    /\ OnHost

SessionEnds(name) ==
    /\ tmuxSessions' = [n \in DOMAIN tmuxSessions \ {name} |-> tmuxSessions[n]]
    /\ OnHost

SessionIsRenamed(name, newName) ==
    /\ newName \notin DOMAIN tmuxSessions
    /\ tmuxSessions' = [n \in (DOMAIN tmuxSessions \ {name}) \cup {newName} |->
                           IF n = newName THEN tmuxSessions[name] ELSE tmuxSessions[n]]
    /\ OnHost

PaneOpens(name, command) ==
    /\ Len(tmuxSessions[name].commands) < MaxPanesListed
    /\ tmuxSessions' = [tmuxSessions EXCEPT ![name].commands = Append(@, command)]
    /\ OnHost

FolderChanges(name, folder) ==
    /\ tmuxSessions' = [tmuxSessions EXCEPT ![name].folder = folder]
    /\ OnHost

ListingNext ==
    \/ BeginListing \/ NamesAnswered \/ NamesFailed
    \/ \E i \in DOMAIN underWay :
          \/ TypeAnswered(i) \/ TypeFailed(i) \/ PathAnswered(i) \/ PathFailed(i)
          \/ RepoAnswered(i) \/ RepoFailed(i)
    \/ \E name \in ListedName \ DOMAIN tmuxSessions, command \in Program, folder \in Folder :
          SessionStarts(name, command, folder)
    \/ \E name \in DOMAIN tmuxSessions :
          \/ SessionEnds(name)
          \/ \E newName \in ListedName : SessionIsRenamed(name, newName)
          \/ \E command \in Program : PaneOpens(name, command)
          \/ \E folder \in Folder : FolderChanges(name, folder)

ListingSpec == ListingInit /\ [][ListingNext]_listingVars

-----------------------------------------------------------------------------
(* Properties.                                                              *)

\* What is told of one session was true of the session of that name at some
\* moment of the listing: its type, its folder, and the repository of that
\* same folder.  What could not be asked is left open.
EntryWasTrue(entry) ==
    LET seen == {pair[2] : pair \in {p \in wasTrue : p[1] = entry.name}} IN
    /\ entry.type # Terminal => \E s \in seen : entry.type = DetectedType(s.commands)
    /\ entry.workingDir # Unknown => \E s \in seen : entry.workingDir = s.folder
    /\ entry.repoName # Unknown => \/ entry.repoName = BaseName(entry.workingDir)
                                   \/ entry.repoName = RepoName /\ entry.workingDir \in InRepo

\* A listing that ends well has one entry for every session that tmux named, in
\* the order of tmux, and each entry was true of its session, whatever happened
\* on the host and in whichever order the answers came; and there are never more
\* sessions asked about at a time than the limit (services/tmux.js, listSessions).
ListingWasTrue ==
    /\ listingPhase = "done" /\ listingStatus = "online" =>
          /\ [i \in DOMAIN enriched |-> enriched[i].name] = parsedNames
          /\ \A i \in DOMAIN enriched : EntryWasTrue(enriched[i])
    /\ Cardinality(DOMAIN underWay) <= EnrichConcurrency
=============================================================================
