--------------------------- MODULE HistoryViewer ---------------------------
(***************************************************************************)
(* The viewer of a session's history in the browser                        *)
(* (frontend/src/App.svelte, lib/AppModals.svelte): opened, refreshed,     *)
(* extended by older pages and closed, while the answers to its requests   *)
(* are on their way.  A page is a number, counted from the newest.         *)
(***************************************************************************)
EXTENDS SequencesExt

CONSTANTS
    Named,         \* sessions whose history is viewed
    MaxPages,      \* bound: pages of a history
    MaxQueries     \* bound: requests of the viewer in flight

VARIABLES
    viewer,        \* historyViewer
    queries,       \* its requests in flight
    wanted,        \* history: the session the user opened and did not close
    crossed        \* history: opened or closed with a request in flight

viewerVars == <<viewer, queries, wanted, crossed>>

Nobody == "nobody"
NoViewer == [session |-> Nobody, text |-> <<>>, loading |-> FALSE, loadingOlder |-> FALSE,
             error |-> FALSE]

ViewerInit ==
    /\ viewer = NoViewer
    /\ queries = <<>>
    /\ wanted = Nobody
    /\ crossed = FALSE

Ask(query) ==
    /\ Len(queries) < MaxQueries
    /\ queries' = Append(queries, query)

Refresh(s) == [older |-> FALSE, session |-> s, current |-> NoViewer]

\* openHistoryViewer, which refreshes at once.
OpenHistoryViewer(s) ==
    /\ viewer' = [NoViewer EXCEPT !.session = s, !.loading = TRUE]
    /\ Ask(Refresh(s))
    /\ wanted' = s
    /\ crossed' = (crossed \/ queries # <<>>)

\* refreshHistoryViewer, by its button.
RefreshHistoryViewer ==
    /\ viewer # NoViewer /\ ~viewer.loading
    /\ viewer' = [viewer EXCEPT !.loading = TRUE, !.error = FALSE]
    /\ Ask(Refresh(viewer.session))
    /\ UNCHANGED <<wanted, crossed>>

\* loadOlderHistory keeps the viewer of now for when the answer comes.
LoadOlderHistory ==
    /\ viewer.text # <<>> /\ Len(viewer.text) < MaxPages
    /\ ~viewer.loading /\ ~viewer.loadingOlder /\ ~viewer.error
    /\ viewer' = [viewer EXCEPT !.loadingOlder = TRUE]
    /\ Ask([older |-> TRUE, session |-> viewer.session, current |-> viewer])
    /\ UNCHANGED <<wanted, crossed>>

CloseHistoryViewer ==
    /\ viewer # NoViewer
    /\ viewer' = NoViewer
    /\ wanted' = Nobody
    /\ crossed' = (crossed \/ queries # <<>>)
    /\ UNCHANGED queries

\* Faulty variant: an older page goes before the text that is there by then.
AnsweredLate(q) ==
    IF q.older
    THEN [viewer EXCEPT !.text = <<Len(q.current.text) + 1>> \o @, !.loadingOlder = FALSE]
    ELSE [NoViewer EXCEPT !.session = q.session, !.text = <<1>>]

\* What an answer makes of the viewer.
Answered(q) ==
    IF q.older
    THEN [q.current EXCEPT !.text = <<Len(@) + 1>> \o @, !.loadingOlder = FALSE]
    ELSE [NoViewer EXCEPT !.session = q.session, !.text = <<1>>]

\* And a failure: of a refresh, the text that is there stays.
Failed(q) ==
    IF q.older
    THEN [q.current EXCEPT !.loadingOlder = FALSE, !.error = TRUE]
    ELSE [viewer EXCEPT !.session = q.session, !.loading = FALSE, !.loadingOlder = FALSE,
                        !.error = TRUE]

QueryEnds(i) ==
    /\ viewer' \in {Answered(queries[i]), Failed(queries[i])}
    /\ queries' = RemoveAt(queries, i)
    /\ UNCHANGED <<wanted, crossed>>

ViewerNext ==
    \/ \E s \in Named : OpenHistoryViewer(s)
    \/ RefreshHistoryViewer
    \/ LoadOlderHistory
    \/ CloseHistoryViewer
    \/ \E i \in DOMAIN queries : QueryEnds(i)

ViewerSpec == ViewerInit /\ [][ViewerNext]_viewerVars

-----------------------------------------------------------------------------
(* Safety.                                                                  *)

\* As long as the viewer was not opened or closed with a request of it in
\* flight, it shows the session the user opened, or nothing after they closed
\* it; its pages, in whatever order refreshes and older pages arrive, follow
\* on each other up to the newest, and it waits only for what will come.
ViewerIsTheOneOpened ==
    ~crossed =>
        /\ viewer.session = wanted
        /\ \A k \in DOMAIN viewer.text : viewer.text[k] = Len(viewer.text) - k + 1
        /\ viewer.loading => \E q \in ToSet(queries) : ~q.older
=============================================================================
