--------------------------- MODULE SessionHistory ---------------------------
(***************************************************************************)
(* The cache of what tmux sessions have printed                            *)
(* (services/session-history-cache.js) under the operations on sessions    *)
(* (routes/sessions.js, services/tmux.js): a session is created, renamed   *)
(* or killed in tmux first, and the cache follows when tmux has answered.  *)
(* A sync captures the session, which takes its time, and then appends in  *)
(* one turn what it finds new.  Sessions also end by themselves, and tmux  *)
(* may have done what is reported as failed, because the answer was late   *)
(* or the connection broke (services/host-exec.js) or the server stopped:  *)
(* nobody tells the cache.                                                 *)
(*                                                                         *)
(* One host.  A printed line is the pair of its session and its number; a  *)
(* capture begins with the banner of its pane, in one line here instead of *)
(* two, and ends with the empty line after the last line break.  Captures  *)
(* fit in their limit.                                                     *)
(***************************************************************************)
EXTENDS Integers, FiniteSetsExt, SequencesExt

CONSTANTS
    Name,              \* names of sessions
    MaxSessions,       \* bound: sessions created
    MaxOutput,         \* bound: lines that a session prints
    MaxSyncs,          \* bound: syncs in flight
    MaxCommands,       \* bound: renames and deletions in flight
    MaxLineNo,         \* bound: next_line_no
    OverlapScanLines,  \* OVERLAP_SCAN_LINES
    MaxCachedLines,    \* MAX_CACHED_LINES_PER_SESSION
    PageLimit          \* lines of a page

ASSUME HistoryAssumption ==
    /\ {MaxSessions, MaxOutput, MaxSyncs, MaxCommands, MaxLineNo} \subseteq Nat
    /\ {OverlapScanLines, MaxCachedLines, PageLimit} \subseteq Nat \ {0}

VARIABLES
    created,       \* how many sessions there have been; they are numbered
    live,          \* tmux: the session of each name, or NoSessionId
    printed,       \* how many lines each session has printed
    rows,          \* session_history_lines: of each name, the text of each line number
    meta,          \* session_history_meta: next_line_no of each name, or NoMeta
    syncs,         \* captures on their way to the cache
    commands,      \* renames and deletions that tmux has done
    killed,        \* history: the sessions deleted here
    untold,        \* history: those of which the cache was not told a name or the end
    missed,        \* history: a stored capture had lines that are not in the cache
    raced,         \* history: a sync overlapped a rename or a deletion of its session
    collided       \* history: a session was renamed to a name with a history

tmuxVars == <<created, live, printed>>
cacheVars == <<rows, meta>>
historyVars == <<tmuxVars, cacheVars, syncs, commands, killed, untold, missed, raced, collided>>

NoSessionId == 0
NoMeta == 0
Ids == 1 .. MaxSessions
Banner == <<0, 0>>
Blank == <<0, 1>>
Boundary == <<0, 2>>

Captured(id) == <<Banner>> \o [k \in 1 .. printed[id] |-> <<id, k>>] \o <<Blank>>

HistoryInit ==
    /\ created = 0
    /\ live = [n \in Name |-> NoSessionId]
    /\ printed = [id \in Ids |-> 0]
    /\ rows = [n \in Name |-> <<>>]
    /\ meta = [n \in Name |-> NoMeta]
    /\ syncs = <<>>
    /\ commands = <<>>
    /\ killed = {}
    /\ untold = {}
    /\ missed = FALSE
    /\ raced = FALSE
    /\ collided = FALSE

-----------------------------------------------------------------------------
(* Sessions in tmux.                                                        *)

\* POST: createSession; a name in use is refused.
CreateSession(n) ==
    /\ created < MaxSessions
    /\ live[n] = NoSessionId
    /\ created' = created + 1
    /\ live' = [live EXCEPT ![n] = created']
    /\ UNCHANGED <<printed, cacheVars, syncs, commands, killed, untold, missed, raced, collided>>

SessionPrints(n) ==
    /\ live[n] # NoSessionId
    /\ printed[live[n]] < MaxOutput
    /\ printed' = [printed EXCEPT ![live[n]] = @ + 1]
    /\ UNCHANGED <<created, live, cacheVars, syncs, commands, killed, untold, missed, raced, collided>>

SessionEnds(n) ==
    /\ live[n] # NoSessionId
    /\ live' = [live EXCEPT ![n] = NoSessionId]
    /\ UNCHANGED <<created, printed, cacheVars, syncs, commands, killed, untold, missed, raced, collided>>

Syncing(n) == \E i \in DOMAIN syncs : syncs[i].name = n
Touched(n) == \E i \in DOMAIN commands : n \in {commands[i].from, commands[i].to}

\* PUT: tmux has renamed; it refuses a name in use.
RenameSession(n, m) ==
    /\ live[n] # NoSessionId /\ live[m] = NoSessionId
    /\ Len(commands) < MaxCommands
    /\ live' = [live EXCEPT ![n] = NoSessionId, ![m] = live[n]]
    /\ commands' = Append(commands, [from |-> n, to |-> m, id |-> live[n]])
    /\ raced' = (raced \/ Syncing(n) \/ Syncing(m) \/ Touched(n) \/ Touched(m))
    /\ UNCHANGED <<created, printed, cacheVars, syncs, killed, untold, missed, collided>>

\* DELETE: tmux has killed the session; without one, 404 and no more.
DeleteSession(n) ==
    /\ live[n] # NoSessionId
    /\ Len(commands) < MaxCommands
    /\ live' = [live EXCEPT ![n] = NoSessionId]
    /\ commands' = Append(commands, [from |-> n, to |-> n, id |-> live[n]])
    /\ killed' = killed \cup {live[n]}
    /\ raced' = (raced \/ Syncing(n) \/ Touched(n))
    /\ UNCHANGED <<created, printed, cacheVars, syncs, untold, missed, collided>>

-----------------------------------------------------------------------------
(* The cache.                                                               *)

\* captureSession, in syncSessionHistory.
CaptureSession(n) ==
    /\ live[n] # NoSessionId
    /\ Len(syncs) < MaxSyncs
    /\ syncs' = Append(syncs, [name |-> n, lines |-> Captured(live[n])])
    /\ raced' = (raced \/ Touched(n))
    /\ UNCHANGED <<tmuxVars, cacheVars, commands, killed, untold, missed, collided>>

\* The capture fails or times out.
CaptureFails(i) ==
    /\ syncs' = RemoveAt(syncs, i)
    /\ UNCHANGED <<tmuxVars, cacheVars, commands, killed, untold, missed, raced, collided>>

\* newLinesAfterOverlap: what follows the first place where the longest
\* possible end of the cache is found in the capture.
NewLinesAfterOverlap(tail, lines) ==
    LET suffix(k) == SubSeq(tail, Len(tail) - k + 1, Len(tail))
        ends(k) == {e \in k .. Len(lines) : SubSeq(lines, e - k + 1, e) = suffix(k)}
        found == {k \in 1 .. Len(tail) : ends(k) # {}}
    IN  IF tail = <<>> THEN lines
        ELSE IF found = {} THEN <<Blank, Boundary, Blank>> \o lines
        ELSE SubSeq(lines, Min(ends(Max(found))) + 1, Len(lines))

\* The highest k of the numbers in S.
Newest(S, k) == {i \in S : Cardinality({j \in S : j > i}) < k}

\* Numbers in order, and the lines that have them.
Nth(S, p) == CHOOSE i \in S : Cardinality({j \in S : j <= i}) = p
Lines(table, S) == [p \in 1 .. Cardinality(S) |-> [no |-> Nth(S, p), text |-> table[Nth(S, p)]]]

CachedTailLines(n) ==
    LET lines == Lines(rows[n], Newest(DOMAIN rows[n], OverlapScanLines)) IN
    [p \in DOMAIN lines |-> lines[p].text]

\* Rows of one table and of another, where a number in use wins.
Merged(old, new) ==
    [no \in DOMAIN old \cup DOMAIN new |-> IF no \in DOMAIN old THEN old[no] ELSE new[no]]

\* The rows of a name once lines have been inserted from a number on and the
\* oldest have been pruned.
Inserted(old, next, lines) ==
    LET all == Merged(old, [no \in next .. next + Len(lines) - 1 |-> lines[no - next + 1]])
    IN  Restrict(all, Newest(DOMAIN all, MaxCachedLines))

\* The rest of syncSessionHistory.
StoreCapture(i) ==
    LET n == syncs[i].name
        next == IF meta[n] = NoMeta THEN 1 ELSE meta[n]
        lines == NewLinesAfterOverlap(CachedTailLines(n), syncs[i].lines)
    IN  /\ next + Len(lines) <= MaxLineNo
        /\ rows' = [rows EXCEPT ![n] = Inserted(@, next, lines)]
        /\ meta' = [meta EXCEPT ![n] = next + Len(lines)]
        /\ missed' = (missed \/ ~(ToSet(syncs[i].lines) \subseteq Range(rows'[n])))
        /\ syncs' = RemoveAt(syncs, i)
        /\ UNCHANGED <<tmuxVars, commands, killed, untold, raced, collided>>

\* Faulty variant: only the meta row is renamed.
RenamedRowsStay(n, m) == rows

\* UPDATE OR IGNORE: rows whose number is in use under the new name stay behind.
RenamedRows(n, m) ==
    [rows EXCEPT ![n] = Restrict(@, DOMAIN rows[n] \cap DOMAIN rows[m]), ![m] = Merged(@, rows[n])]

\* tmux has answered: renameSessionHistory or deleteSessionHistory.
FinishCommand(i) ==
    LET n == commands[i].from
        m == commands[i].to
    IN  /\ IF n = m
           THEN /\ rows' = [rows EXCEPT ![n] = <<>>]
                /\ meta' = [meta EXCEPT ![n] = NoMeta]
                /\ UNCHANGED collided
           ELSE /\ rows' = RenamedRows(n, m)
                /\ meta' = IF meta[m] = NoMeta THEN [meta EXCEPT ![n] = NoMeta, ![m] = meta[n]]
                                               ELSE meta
                /\ collided' = (collided \/ meta[m] # NoMeta)
        /\ commands' = RemoveAt(commands, i)
        /\ UNCHANGED <<tmuxVars, syncs, killed, untold, missed, raced>>

\* tmux has done it and execTmux throws all the same: the route answers with an
\* error and leaves the cache as it is.
CommandFails(i) ==
    /\ commands' = RemoveAt(commands, i)
    /\ untold' = untold \cup {commands[i].id}
    /\ UNCHANGED <<tmuxVars, cacheVars, syncs, killed, missed, raced, collided>>

HistoryNext ==
    \/ \E n \in Name :
          \/ CreateSession(n)
          \/ SessionPrints(n)
          \/ SessionEnds(n)
          \/ DeleteSession(n)
          \/ CaptureSession(n)
          \/ \E m \in Name : RenameSession(n, m)
    \/ \E i \in DOMAIN syncs : StoreCapture(i) \/ CaptureFails(i)
    \/ \E i \in DOMAIN commands : FinishCommand(i) \/ CommandFails(i)

HistorySpec == HistoryInit /\ [][HistoryNext]_historyVars

-----------------------------------------------------------------------------
(* Paging.                                                                  *)

Earlier(n, before) == {no \in DOMAIN rows[n] : no < before}

\* getSessionHistoryPage.
Page(n, before) ==
    LET lines == Lines(rows[n], Newest(Earlier(n, before), PageLimit))
        more == lines # <<>> /\ Earlier(n, lines[1].no) # {}
    IN  [lines |-> lines, nextBefore |-> IF more THEN lines[1].no ELSE 0]

\* What a viewer has that has loaded so many older pages, or all there are.
Viewed(n) ==
    LET view[k \in 0 .. Cardinality(DOMAIN rows[n])] ==
            IF k = 0 THEN Page(n, meta[n] + 1)
            ELSE LET page == Page(n, view[k - 1].nextBefore)
                 IN  IF view[k - 1].nextBefore = 0 THEN view[k - 1]
                     ELSE [lines |-> page.lines \o view[k - 1].lines, nextBefore |-> page.nextBefore]
    IN  view

-----------------------------------------------------------------------------
(* Safety.                                                                  *)

IdsIn(table) == {table[no][1] : no \in DOMAIN table} \ {0}

\* When no rename or deletion is on its way, none was overtaken by a sync and
\* none had to merge histories: what a session printed is cached under the
\* name it has, and nothing of a deleted one, but for the sessions whose rename
\* or end was reported as failed though tmux had done it, and whatever became of
\* those, of their lines and of the names they left; the numbers of the lines
\* follow on each other up to the next one; and who pages through a history
\* reads all of it in order, and nothing twice.
HistoryFollowsSession ==
    commands = <<>> /\ ~raced /\ ~collided =>
        \A n \in Name :
            LET count == Cardinality(DOMAIN rows[n]) IN
            /\ live[n] \notin untold => \A m \in Name \ {n} : live[n] \notin IdsIn(rows[m])
            /\ (killed \ untold) \cap IdsIn(rows[n]) = {}
            /\ DOMAIN rows[n] = meta[n] - count .. meta[n] - 1
            /\ Viewed(n)[count] = [lines |-> Lines(rows[n], DOMAIN rows[n]), nextBefore |-> 0]

\* After a sync the lines it captured are in the cache.  So are those of the
\* test of the cache, "newLinesAfterOverlap appends only captured lines after
\* cached tail" (src/test/session-history-cache.test.js), whose captures do not
\* end with a line break.
CapturedLinesAreCached == ~collided => ~missed
=============================================================================
