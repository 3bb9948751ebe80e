------------------------------ MODULE HostRows ------------------------------
(***************************************************************************)
(* The list of managed hosts that the browser shows (App.svelte,           *)
(* ServersSettings.svelte, server-settings-utils.js) against the table of  *)
(* the server (routes/managed-hosts.js).  Requests overlap: a list is      *)
(* loaded while hosts are tested, tests of one and of all are in flight    *)
(* together, and each puts its answer into whatever list there is by then. *)
(*                                                                         *)
(* A row is the number of the change of the table that it shows.  The      *)
(* other lists that are loaded on the way are left out, but for the time   *)
(* they take before the buttons are enabled again.                         *)
(***************************************************************************)
EXTENDS Integers, SequencesExt

CONSTANTS
    RowId,            \* hosts
    MaxRowChanges,    \* bound: changes of the table
    MaxExchanges      \* bound: requests in flight

ASSUME HostRowsAssumption == {MaxRowChanges, MaxExchanges} \subseteq Nat

VARIABLES
    rowsKept,         \* the table: for each host, the change that made its row
    rowsGone,         \* hosts that were deleted, whose ids are not given again
    rowChanges,       \* how many changes there have been
    rowsShown,        \* managedHosts
    rowsLoading,      \* managedHostsLoading
    rowsTesting,      \* hostTesting
    rowsInstalling,   \* hostInstalling
    exchanges,        \* requests in flight, with what their handlers do next
    rowsAsOf,         \* history: the newest change of which an answer told
    rowsExcused       \* history: an answer was lost, or replaced a newer row

rowsVars == <<rowsKept, rowsGone, rowChanges, rowsShown, rowsLoading, rowsTesting, rowsInstalling,
              exchanges, rowsAsOf, rowsExcused>>
tableVars == <<rowsKept, rowsGone, rowChanges>>
screenVars == <<rowsShown, rowsLoading, rowsTesting, rowsInstalling, rowsAsOf, rowsExcused>>

NoRow == "no row"
NoResult == 0
FirstChange == 1

\* served: the server is done with it; at: the newest change by then; rows: its answer; todo: hosts of a test
\* of all that are to be tested yet; next: the requests that follow.
Sent(kind, host, next) ==
    [kind |-> kind, host |-> host, served |-> FALSE, at |-> NoResult, rows |-> <<>>, todo |-> {}, next |-> next]

HostRowsInit ==
    /\ rowsKept \in {<<>>} \cup [RowId -> {FirstChange}]
    /\ rowsGone = {}
    /\ rowChanges = FirstChange
    /\ rowsShown = <<>>
    /\ rowsLoading = FALSE
    /\ rowsTesting = {} /\ rowsInstalling = {}
    /\ exchanges = <<>>
    /\ rowsAsOf = NoResult
    /\ rowsExcused = FALSE

-----------------------------------------------------------------------------
(* Requests of the user.                                                    *)

Send(kind, host, next) ==
    /\ Len(exchanges) < MaxExchanges
    /\ exchanges' = Append(exchanges, Sent(kind, host, next))
    /\ UNCHANGED <<tableVars, rowsShown, rowsAsOf, rowsExcused>>

\* loadManagedHosts, for a section of the settings and after an import of settings.
LoadManagedHosts ==
    /\ Send("load", NoRow, <<>>)
    /\ rowsLoading' = TRUE
    /\ UNCHANGED <<rowsTesting, rowsInstalling>>

\* autoImportIfEmpty, and diagnoseSessionHost, which goes on with a test.
AutoImportIfEmpty(host) ==
    /\ Send("count", host, IF host = NoRow THEN <<"load">> ELSE <<"load", "test">>)
    /\ UNCHANGED <<rowsLoading, rowsTesting, rowsInstalling>>

\* The button of the toolbar; saveHost and deleteHost.
ImportSshConfig == /\ ~rowsLoading
                   /\ Send("import", NoRow, <<"load">>)
                   /\ rowsLoading' = TRUE /\ UNCHANGED <<rowsTesting, rowsInstalling>>
SaveHostRow(host) == /\ ~rowsLoading
                     /\ Send(IF host \in DOMAIN rowsShown THEN "update" ELSE "create", host,
                             <<"load", "sessions">>)
                     /\ rowsLoading' = TRUE /\ UNCHANGED <<rowsTesting, rowsInstalling>>
DeleteHostRow(host) == /\ host \in DOMAIN rowsShown
                       /\ Send("delete", host, <<"load", "sessions">>)
                       /\ rowsLoading' = TRUE /\ UNCHANGED <<rowsTesting, rowsInstalling>>

TestHostRow(host) ==
    /\ host \in DOMAIN rowsShown \ rowsTesting
    /\ Send("test", host, <<>>)
    /\ rowsTesting' = rowsTesting \cup {host}
    /\ UNCHANGED <<rowsLoading, rowsInstalling>>

InstallTmuxOnHost(host) ==
    /\ host \in DOMAIN rowsShown \ rowsInstalling
    /\ Send("install", host, <<>>)
    /\ rowsInstalling' = rowsInstalling \cup {host}
    /\ UNCHANGED <<rowsLoading, rowsTesting>>

TestAllHosts(enabled) ==
    /\ ~rowsLoading /\ rowsTesting = {}
    /\ Send("test all", NoRow, <<>>)
    /\ rowsTesting' = enabled
    /\ UNCHANGED <<rowsLoading, rowsInstalling>>

-----------------------------------------------------------------------------
(* The server.  Whatever it refuses is among the requests that fail.        *)

Served(i, rows) ==
    exchanges' = [exchanges EXCEPT ![i].served = TRUE, ![i].at = rowChanges', ![i].rows = rows]
Change == rowChanges < MaxRowChanges /\ rowChanges' = rowChanges + 1
PutRow(host) == rowsKept' = [h \in DOMAIN rowsKept \cup {host} |->
                             IF h = host THEN rowChanges' ELSE rowsKept[h]]
PutIfThere(host) == IF host \in DOMAIN rowsKept THEN PutRow(host) ELSE UNCHANGED rowsKept

ServeRead(i) ==
    /\ exchanges[i].kind \in {"load", "count", "sessions"}
    /\ UNCHANGED tableVars
    /\ Served(i, IF exchanges[i].kind = "sessions" THEN <<>> ELSE rowsKept)

ServeImport(i) ==
    /\ exchanges[i].kind = "import"
    /\ Change
    /\ rowsKept' = [h \in DOMAIN rowsKept \cup (RowId \ rowsGone) |->
                       IF h \in DOMAIN rowsKept THEN rowsKept[h] ELSE rowChanges']
    /\ Served(i, <<>>)
    /\ UNCHANGED rowsGone

ServeSave(i) ==
    LET host == exchanges[i].host IN
    /\ \/ exchanges[i].kind = "update" /\ host \in DOMAIN rowsKept
       \/ exchanges[i].kind = "create" /\ host \notin DOMAIN rowsKept \cup rowsGone
    /\ Change
    /\ PutRow(host)
    /\ Served(i, <<>>)
    /\ UNCHANGED rowsGone

ServeDelete(i) ==
    LET host == exchanges[i].host IN
    /\ exchanges[i].kind = "delete" /\ host \in DOMAIN rowsKept
    /\ Change
    /\ rowsKept' = [h \in DOMAIN rowsKept \ {host} |-> rowsKept[h]]
    /\ rowsGone' = rowsGone \cup {host}
    /\ Served(i, <<>>)

\* The result is kept if the row is still there, and answered anyhow.
ServeTest(i) ==
    /\ exchanges[i].kind \in {"test", "install"}
    /\ Change
    /\ PutIfThere(exchanges[i].host)
    /\ Served(i, [h \in {exchanges[i].host} |-> rowChanges'])
    /\ UNCHANGED rowsGone

\* test-all reads the hosts once; each result is kept as it comes; a test that
\* throws has none; the answer waits for the last.
StartTestAll(i, enabled) ==
    /\ exchanges[i].kind = "test all" /\ exchanges[i].todo = {} /\ exchanges[i].rows = <<>>
    /\ exchanges' = [exchanges EXCEPT ![i].todo = enabled, ![i].served = (enabled = {})]
    /\ UNCHANGED tableVars

TestedOneOfAll(i, host, result) ==
    LET test == exchanges[i]
        rows == [h \in DOMAIN test.rows \cup {host} |-> IF h = host THEN result ELSE test.rows[h]]
    IN  exchanges' = [exchanges EXCEPT ![i].todo = test.todo \ {host}, ![i].rows = rows, ![i].at = rowChanges',
                                       ![i].served = (test.todo = {host})]

TestOneOfAll(i, host) ==
    /\ \/ Change /\ PutIfThere(host) /\ TestedOneOfAll(i, host, rowChanges')
       \/ UNCHANGED <<rowsKept, rowChanges>> /\ TestedOneOfAll(i, host, NoResult)
    /\ UNCHANGED rowsGone

Serve(i) ==
    /\ ~exchanges[i].served
    /\ \/ ServeRead(i) \/ ServeImport(i) \/ ServeSave(i) \/ ServeDelete(i) \/ ServeTest(i)
       \/ \E enabled \in SUBSET DOMAIN rowsKept : StartTestAll(i, enabled)
       \/ \E host \in exchanges[i].todo : TestOneOfAll(i, host)
    /\ UNCHANGED screenVars

-----------------------------------------------------------------------------
(* Answers, and requests that fail.                                         *)

\* Faulty variant: after a save or a deletion only the sessions are loaded.
FollowersWithoutLoad(i) ==
    IF exchanges[i].kind \in {"create", "update", "delete"} THEN <<"sessions">>
    ELSE exchanges[i].next

\* What the handler asks for after an answer, and after a failure.
Followers(i) ==
    IF exchanges[i].kind = "count" /\ exchanges[i].rows = <<>>
    THEN <<"import", "load">> \o exchanges[i].next
    ELSE exchanges[i].next

FollowersOfFailure(i) ==
    CASE exchanges[i].kind = "import" -> Tail(exchanges[i].next)
      [] exchanges[i].kind = "load" -> exchanges[i].next
      [] OTHER -> <<>>

\* A test follows only if the list that was loaded has the host.
FollowsAsTest(i, next) ==
    next # <<>> /\ Head(next) = "test" /\ exchanges[i].host \in DOMAIN rowsShown'

\* Loading is cleared by each load, and again by the handler that waited for it.
Continue(i, next) ==
    /\ exchanges' = IF next = <<>> \/ (Head(next) = "test" /\ ~FollowsAsTest(i, next))
                    THEN RemoveAt(exchanges, i)
                    ELSE Append(RemoveAt(exchanges, i), Sent(Head(next), exchanges[i].host, Tail(next)))
    /\ rowsLoading' = CASE next # <<>> /\ Head(next) \in {"load", "import"} -> TRUE
                         [] exchanges[i].kind \in {"test", "install", "test all", "count"} -> rowsLoading
                         [] OTHER -> FALSE

\* Results go into the rows that are shown now.
WithResults(rows) ==
    /\ rowsShown' = [h \in DOMAIN rowsShown |-> IF h \in DOMAIN rows THEN rows[h] ELSE rowsShown[h]]
    /\ rowsExcused' = (rowsExcused \/ \E h \in DOMAIN rowsShown : rowsShown'[h] < rowsShown[h])

\* hostTesting when a test of one or of all is over.
MarksAfter(i) ==
    IF exchanges[i].kind = "test all" THEN {} ELSE rowsTesting \ {exchanges[i].host}

LoadAnswered(i) ==
    LET rows == exchanges[i].rows IN
    /\ exchanges[i].kind = "load"
    /\ rowsShown' = rows
    /\ rowsExcused' = (rowsExcused \/ exchanges[i].at < rowsAsOf)
    /\ rowsTesting' = rowsTesting \cup (IF FollowsAsTest(i, Followers(i)) THEN {exchanges[i].host} ELSE {})
    /\ UNCHANGED rowsInstalling

TestAnswered(i) ==
    /\ exchanges[i].kind \in {"test", "test all"}
    /\ WithResults(exchanges[i].rows)
    /\ rowsTesting' = MarksAfter(i)
    /\ UNCHANGED rowsInstalling

InstallAnswered(i) ==
    /\ exchanges[i].kind = "install"
    /\ WithResults(exchanges[i].rows)
    /\ rowsInstalling' = rowsInstalling \ {exchanges[i].host}
    /\ UNCHANGED rowsTesting

OtherAnswered(i) ==
    /\ exchanges[i].kind \in {"count", "import", "create", "update", "delete", "sessions"}
    /\ UNCHANGED <<rowsShown, rowsTesting, rowsInstalling, rowsExcused>>

AnswerRequest(i) ==
    /\ exchanges[i].served
    /\ LoadAnswered(i) \/ TestAnswered(i) \/ InstallAnswered(i) \/ OtherAnswered(i)
    /\ Continue(i, Followers(i))
    /\ rowsAsOf' = IF exchanges[i].kind \in {"load", "test", "install", "test all"}
                   THEN Max({rowsAsOf, exchanges[i].at}) ELSE rowsAsOf
    /\ UNCHANGED tableVars

\* The request or its answer is lost, or the server refused it.
FailRequest(i) ==
    /\ exchanges[i].kind # "sessions"
    /\ UNCHANGED <<tableVars, rowsShown, rowsAsOf>>
    /\ rowsTesting' = CASE exchanges[i].kind \in {"test", "test all"} -> MarksAfter(i)
                         [] FollowsAsTest(i, FollowersOfFailure(i)) -> rowsTesting \cup {exchanges[i].host}
                         [] OTHER -> rowsTesting
    /\ rowsInstalling' = IF exchanges[i].kind = "install" THEN rowsInstalling \ {exchanges[i].host}
                         ELSE rowsInstalling
    /\ rowsExcused' = (rowsExcused \/ exchanges[i].kind = "load"
                      \/ (exchanges[i].kind # "count" /\ (exchanges[i].served \/ exchanges[i].rows # <<>>)))
    /\ Continue(i, FollowersOfFailure(i))

HostRowsNext ==
    \/ LoadManagedHosts \/ ImportSshConfig
    \/ \E host \in RowId \cup {NoRow} : AutoImportIfEmpty(host)
    \/ \E host \in RowId : \/ SaveHostRow(host) \/ DeleteHostRow(host)
                           \/ TestHostRow(host) \/ InstallTmuxOnHost(host)
    \/ \E enabled \in SUBSET DOMAIN rowsShown : TestAllHosts(enabled)
    \/ \E i \in DOMAIN exchanges : Serve(i) \/ AnswerRequest(i) \/ FailRequest(i)

HostRowsSpec == HostRowsInit /\ [][HostRowsNext]_rowsVars

-----------------------------------------------------------------------------
(* Properties.                                                              *)

\* When no request is in flight, the rows that are shown are those of the
\* table, unless an answer was lost on the way or replaced a newer row: every
\* change is followed by a load, and every result is shown as it was kept.
RowsAreThoseOfTheTable ==
    exchanges = <<>> /\ rowsShown # <<>> /\ ~rowsExcused => rowsShown = rowsKept
=============================================================================
