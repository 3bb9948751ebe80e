------------------------------ MODULE Terminals ------------------------------
(***************************************************************************)
(* The life of the terminals the server runs: one WebSocket, one PTY, one  *)
(* entry of the registry activePTYs, one pane of the status engine and at  *)
(* most one pending resize timer per terminal (routes/terminal-ws.js,      *)
(* services/terminal.js, and the part of services/status-engine.js that    *)
(* tracks which panes exist).                                              *)
(*                                                                         *)
(* Every handler of the route runs to completion on the one JavaScript     *)
(* thread, so each is one action; what interleaves is the handlers of      *)
(* different sockets, the PTYs' exit events, and the timers.  The handlers *)
(* name a terminal by its id, host:session:milliseconds, and not by the    *)
(* PTY they were attached to: two terminals of one session opened in the   *)
(* same millisecond share an id.                                           *)
(***************************************************************************)
EXTENDS Naturals, FiniteSets

CONSTANTS
    Key,        \* host:session, what a terminal attaches to
    Size,       \* normalised sizes (cols, rows) a client can ask for
    NoSize,     \* no size: no resize applied yet, or no timer pending
    MaxConn,    \* bound: WebSockets opened in a behaviour
    MaxMs,      \* bound: value of the millisecond clock
    MaxActive,  \* MAX_ACTIVE_TERMINALS
    MaxPanes    \* maxPanes of the status engine

ASSUME BoundsAssumption == MaxConn \in Nat /\ MaxMs \in Nat
ASSUME LimitsAssumption ==
    /\ MaxActive \in Nat \ {0}
    /\ MaxPanes \in Nat
    /\ MaxActive <= MaxPanes      \* 100 and 1000 in the code
ASSUME SizeAssumption == NoSize \notin Size

Conn == 1 .. MaxConn              \* sockets in the order they arrive
NoConn == 0
Id == Key \X (0 .. MaxMs)         \* terminalId(host, session, Date.now())

VARIABLES
    now,          \* Date.now()
    opened,       \* how many sockets have arrived: the last one is `opened`
    socket,       \* [Conn -> state of the WebSocket]
    pty,          \* [Conn -> state of the PTY spawned for it]
    tid,          \* [Conn -> the id captured by its handlers]
    active,       \* activePTYs: [Id -> the socket whose PTY is registered]
    panes,        \* the engine's _panes: [Id -> the socket that registered it]
    resizeTimers, \* [Id -> the size a pending timer will apply]
    lastSize      \* [Conn -> lastCols x lastRows of its registry entry]

vars == <<now, opened, socket, pty, tid, active, panes, resizeTimers, lastSize>>

NoId == <<>>

TypeOK ==
    /\ now \in 0 .. MaxMs
    /\ opened \in 0 .. MaxConn
    /\ socket \in [Conn -> {"none", "open", "closing", "closed"}]
    /\ pty \in [Conn -> {"none", "running", "dead", "killed", "exited"}]
    /\ tid \in [Conn -> Id \cup {NoId}]
    /\ active \in [Id -> Conn \cup {NoConn}]
    /\ panes \in [Id -> Conn \cup {NoConn}]
    /\ resizeTimers \in [Id -> Size \cup {NoSize}]
    /\ lastSize \in [Conn -> Size \cup {NoSize}]

Init ==
    /\ now = 0
    /\ opened = 0
    /\ socket = [c \in Conn |-> "none"]
    /\ pty = [c \in Conn |-> "none"]
    /\ tid = [c \in Conn |-> NoId]
    /\ active = [i \in Id |-> NoConn]
    /\ panes = [i \in Id |-> NoConn]
    /\ resizeTimers = [i \in Id |-> NoSize]
    /\ lastSize = [c \in Conn |-> NoSize]

-----------------------------------------------------------------------------
(* The two maps are JavaScript Maps.  A registration deletes its key before *)
(* it sets it, so the order of insertion is the order in which the sockets  *)
(* arrived, and the oldest entry is the one with the smallest socket.       *)

\* The sockets that own an entry; no socket owns two.
Holders(m) == {m[i] : i \in DOMAIN m} \ {NoConn}

\* Faulty variant: the loop takes the last key of the map, not the first.
OldestIsNewest(m, limit) ==
    {i \in DOMAIN m :
        /\ m[i] # NoConn
        /\ Cardinality({d \in Holders(m) : d < m[i]}) >= limit}

\* The ids the pruning loops drop: all but the `limit` newest entries.
Oldest(m, limit) ==
    {i \in DOMAIN m :
        /\ m[i] # NoConn
        /\ Cardinality({d \in Holders(m) : d > m[i]}) >= limit}

Without(m, ids) == [i \in DOMAIN m |-> IF i \in ids THEN NoConn ELSE m[i]]

\* term.kill() on the PTYs of these sockets: a signal to a process that is
\* still there, an exception that is swallowed otherwise.
Signalled(p, conns) ==
    [c \in Conn |-> IF c \in conns /\ p[c] = "running" THEN "killed" ELSE p[c]]

\* lastCols and lastRows go with the entry that holds them.
Forgotten(conns) == [c \in Conn |-> IF c \in conns THEN NoSize ELSE lastSize[c]]

\* Faulty variant: the entry is deleted and the process is left running.
KillTerminalsWithoutSignal(p, ids) ==
    /\ pty' = p
    /\ active' = Without(active, ids)
    /\ lastSize' = Forgotten({active[i] : i \in ids})
    /\ resizeTimers' = [i \in Id |-> IF i \in ids THEN NoSize ELSE resizeTimers[i]]

\* killTerminal of every id of a set, the state of the PTYs being p before.
KillTerminals(p, ids) ==
    /\ pty' = Signalled(p, {active[i] : i \in ids})
    /\ active' = Without(active, ids)
    /\ lastSize' = Forgotten({active[i] : i \in ids})
    /\ resizeTimers' = [i \in Id |-> IF i \in ids THEN NoSize ELSE resizeTimers[i]]

\* statusEngine.remove of every id of a set.
RemovePanes(ids) == panes' = Without(panes, ids)

-----------------------------------------------------------------------------
(* A WebSocket arrives.                                                     *)

\* The route accepts it: spawnTerminal, which kills and replaces a terminal
\* of the same id and prunes the registry, then statusEngine.register, which
\* replaces the pane and prunes the panes.
Accept(k) ==
    LET c == opened + 1
        i == <<k, now>>
        entries == [active EXCEPT ![i] = c]
        tracked == [panes EXCEPT ![i] = c]
        pruned == Oldest(entries, MaxActive)
        killed == {active[j] : j \in pruned \cup {i}}
    IN  /\ opened < MaxConn
        /\ opened' = c
        /\ socket' = [socket EXCEPT ![c] = "open"]
        /\ tid' = [tid EXCEPT ![c] = i]
        /\ pty' = [Signalled(pty, killed) EXCEPT ![c] = "running"]
        /\ active' = Without(entries, pruned)
        /\ lastSize' = Forgotten(killed)
        /\ resizeTimers' = [j \in Id |-> IF j \in pruned \cup {i} THEN NoSize
                                         ELSE resizeTimers[j]]
        /\ panes' = Without(tracked, Oldest(tracked, MaxPanes))
        /\ UNCHANGED now

\* The early returns: authorisation refused, a session missing or invalid,
\* or the spawn itself failed.  The socket is told to close and no handler
\* is attached.
Reject ==
    /\ opened < MaxConn
    /\ opened' = opened + 1
    /\ socket' = [socket EXCEPT ![opened + 1] = "closing"]
    /\ UNCHANGED <<now, pty, tid, active, panes, resizeTimers, lastSize>>

-----------------------------------------------------------------------------
(* Events of an accepted terminal.                                          *)

Accepted(c) == pty[c] # "none"
Up(c) == socket[c] \in {"open", "closing"}

\* The process behind the PTY ends by itself; its exit event is still to come.
PtyDies(c) ==
    /\ pty[c] = "running"
    /\ pty' = [pty EXCEPT ![c] = "dead"]
    /\ UNCHANGED <<now, opened, socket, tid, active, panes, resizeTimers, lastSize>>

\* Faulty variant: the exit handler forgets the trailing killTerminal.
PtyExitKeepsEntry(c) ==
    /\ pty[c] \in {"dead", "killed"}
    /\ RemovePanes({tid[c]})
    /\ socket' = [socket EXCEPT ![c] = IF @ = "open" THEN "closing" ELSE @]
    /\ pty' = [pty EXCEPT ![c] = "exited"]
    /\ UNCHANGED <<now, opened, tid, active, resizeTimers, lastSize>>

\* Faulty variant: the exit handler does not close the socket.
PtyExitKeepsSocket(c) ==
    /\ pty[c] \in {"dead", "killed"}
    /\ RemovePanes({tid[c]})
    /\ KillTerminals([pty EXCEPT ![c] = "exited"], {tid[c]})
    /\ UNCHANGED <<now, opened, socket, tid>>

\* term.onExit.
PtyExit(c) ==
    /\ pty[c] \in {"dead", "killed"}
    /\ RemovePanes({tid[c]})
    /\ socket' = [socket EXCEPT ![c] = IF @ = "open" THEN "closing" ELSE @]
    /\ KillTerminals([pty EXCEPT ![c] = "exited"], {tid[c]})
    /\ UNCHANGED <<now, opened, tid>>

\* socket.on('message') with a resize: resizeTerminal, which starts or
\* restarts the debounce timer.
Resize(c, s) ==
    LET i == tid[c]
    IN  /\ Accepted(c) /\ Up(c)
        /\ active[i] # NoConn
        /\ lastSize[active[i]] # s
        /\ resizeTimers' = [resizeTimers EXCEPT ![i] = s]
        /\ UNCHANGED <<now, opened, socket, pty, tid, active, panes, lastSize>>

\* The debounce timer fires: term.resize, which throws when the process has
\* gone; then nothing is recorded.
ResizeFires(i) ==
    LET c == active[i]
    IN  /\ resizeTimers[i] # NoSize
        /\ resizeTimers' = [resizeTimers EXCEPT ![i] = NoSize]
        /\ \/ /\ c # NoConn
              /\ lastSize' = [lastSize EXCEPT ![c] = resizeTimers[i]]
           \/ /\ c = NoConn \/ pty[c] = "dead"
              /\ UNCHANGED lastSize
        /\ UNCHANGED <<now, opened, socket, pty, tid, active, panes>>

\* socket.on('message') with a message over the limit: the socket is told to
\* close, and the terminal lives until the close event.
MessageTooLarge(c) ==
    /\ Accepted(c) /\ socket[c] = "open"
    /\ socket' = [socket EXCEPT ![c] = "closing"]
    /\ UNCHANGED <<now, opened, pty, tid, active, panes, resizeTimers, lastSize>>

\* socket.on('close') and socket.on('error'): the same body, after which an
\* erroneous socket has still to emit its close event.
SocketEnds(c, state) ==
    /\ Up(c)
    /\ socket' = [socket EXCEPT ![c] = state]
    /\ IF Accepted(c)
       THEN RemovePanes({tid[c]}) /\ KillTerminals(pty, {tid[c]})
       ELSE UNCHANGED <<pty, active, panes, resizeTimers, lastSize>>
    /\ UNCHANGED <<now, opened, tid>>

SocketClosed(c) == SocketEnds(c, "closed")

\* Faulty variant: a state of the socket that no other handler knows.
SocketErrorIsFinal(c) == SocketEnds(c, "failed")

SocketError(c) == SocketEnds(c, "closing")

Tick ==
    /\ now < MaxMs
    /\ now' = now + 1
    /\ UNCHANGED <<opened, socket, pty, tid, active, panes, resizeTimers, lastSize>>

Next ==
    \/ Tick
    \/ \E k \in Key : Accept(k)
    \/ Reject
    \/ \E c \in Conn :
          \/ PtyDies(c)
          \/ PtyExit(c)
          \/ \E s \in Size : Resize(c, s)
          \/ MessageTooLarge(c)
          \/ SocketClosed(c)
          \/ SocketError(c)
    \/ \E i \in Id : ResizeFires(i)

\* A signalled process exits (the attach client does not ignore the hangup),
\* and a socket that is closing does close (the WebSocket library cuts it off
\* after a delay).  Nothing obliges clients to act.  Of several such events
\* that wait, only some one is assumed to come; each comes once.
Fairness ==
    /\ WF_vars(\E c \in Conn : PtyExit(c))
    /\ WF_vars(\E c \in Conn : socket[c] = "closing" /\ SocketClosed(c))

Spec == Init /\ [][Next]_vars
FairSpec == Spec /\ Fairness

-----------------------------------------------------------------------------
(* Safety.                                                                  *)

\* No PTY outlives its socket or drops out of the registry while it runs
\* (terminal.js keeps the only handle on it), and the registry holds no PTY
\* that has exited or whose socket has closed, whatever ids collide.
RegistryHoldsLiveTerminals ==
    /\ \A c \in Conn : pty[c] = "running" => tid[c] \in Id /\ active[tid[c]] = c
    /\ \A i \in Id : active[i] # NoConn =>
          /\ tid[active[i]] = i
          /\ pty[active[i]] \in {"running", "dead"}
          /\ socket[active[i]] \in {"open", "closing"}

\* A registered terminal is tracked by the status engine under the same
\* socket: the engine's own limit never drops the pane of a live terminal,
\* though the two maps are pruned separately.
LiveTerminalIsTracked ==
    \A i \in Id : active[i] # NoConn => panes[i] = active[i]

\* The engine tracks no pane whose socket has closed or whose exit event has
\* been handled.
NoPaneOutlivesItsTerminal ==
    \A i \in Id : panes[i] # NoConn =>
        /\ tid[panes[i]] = i
        /\ socket[panes[i]] \in {"open", "closing"}
        /\ pty[panes[i]] \in {"running", "dead", "killed"}

\* MAX_ACTIVE_TERMINALS and maxPanes are never exceeded between two handlers.
LimitsHold ==
    /\ Cardinality(Holders(active)) <= MaxActive
    /\ Cardinality(Holders(panes)) <= MaxPanes

\* A pending resize belongs to a registered terminal and differs from the
\* size last applied: the PTY is never resized to the size it has (the dedup
\* that stops the resize and redraw loop), and no timer outlives a terminal.
PendingResizeIsNew ==
    \A i \in Id : resizeTimers[i] # NoSize =>
        active[i] # NoConn /\ lastSize[active[i]] # resizeTimers[i]

\* The strengthening that makes the invariants above inductive: a socket that
\* has not arrived has no terminal, and every terminal has an id,
ArrivalsInOrder ==
    \A c \in Conn :
        /\ c > opened => socket[c] = "none" /\ pty[c] = "none"
        /\ pty[c] # "none" => tid[c] \in Id

\* a pane that is newer than some registered terminal is that of a registered
\* terminal: the panes left of killed terminals are all older, which is why
\* the engine's pruning takes those first,
NewerPanesAreRegistered ==
    \A i, j \in Id :
        active[i] # NoConn /\ panes[j] # NoConn /\ panes[j] > active[i]
            => active[j] = panes[j]

\* and all of them together.
IndInv ==
    /\ TypeOK
    /\ ArrivalsInOrder
    /\ RegistryHoldsLiveTerminals
    /\ LiveTerminalIsTracked
    /\ NoPaneOutlivesItsTerminal
    /\ NewerPanesAreRegistered
    /\ PendingResizeIsNew
    /\ LimitsHold

\* What the registry promises its users, as a pool of terminals.
Pool == INSTANCE TerminalPool
            WITH live <- Holders(active), arrived <- opened, name <- tid,
                 Limit <- MaxActive

\* The registry implements the pool (terminal.js registerActiveTerminal,
\* killTerminal): a terminal leaves it only by its name, or as the oldest of
\* a full pool, and never comes back.
ImplementsPool == Pool!PoolSpec

(* Liveness.                                                                *)

\* A terminal that was killed or whose process died is cleaned up to the end:
\* its socket closes, so that the browser can offer to reconnect, and neither
\* pane nor entry is left of it.  Ends are final and arrivals bounded, so that
\* "again and again none is left to clean up" says it of each terminal.
EndedTerminalIsCleanedUp ==
    []<>(\A c \in Conn : pty[c] \in {"dead", "killed", "exited"} =>
            socket[c] = "closed" /\ c \notin Holders(panes) \cup Holders(active))

(* What the tests say of a replaced terminal.                               *)

\* A registered terminal is unregistered only when its own socket or its own
\* process ended, or when a newly arrived terminal takes its place: in
\* particular the end of a replaced terminal leaves its replacement alone.
EndsOnlyByItself ==
    [][\A i \in Id :
          active[i] # NoConn /\ active'[i] # active[i] =>
              \/ opened' > opened
              \/ socket'[active[i]] # "open"
              \/ pty'[active[i]] = "exited"]_vars

=============================================================================
