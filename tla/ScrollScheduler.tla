--------------------------- MODULE ScrollScheduler ---------------------------
(***************************************************************************)
(* The scroll scheduler of one terminal socket (lib/ws-utils.js,           *)
(* createTerminalScrollScheduler) together with the way the terminal route *)
(* uses it (routes/terminal-ws.js): a scroll message is pushed and flushed *)
(* at once, a scroll of the tmux session is awaited, lines that arrive     *)
(* meanwhile are collected and sent by a timer afterwards.                 *)
(***************************************************************************)
EXTENDS Integers, Sequences

CONSTANT MaxLines      \* MAX_TERMINAL_SCROLL_LINES, 200 in the code

ASSUME MaxLinesAssumption == MaxLines \in Nat \ {0}

Lines == (-MaxLines) .. MaxLines

\* Who waits for the promise of a flush: the route, which logs a rejection,
\* or the timer, whose callback nobody waits for.
Waiter == {"route", "timer"}

VARIABLES
    pending,    \* pendingLines
    timer,      \* is the flush timer set?
    inFlight,   \* the flag of the same name
    stopped,    \* the flag of the same name, set when the socket ends
    calls,      \* scrollFn calls that have not settled, by who waits for them
    owed,       \* history: lines asked for and not handed to scrollFn
    crashed     \* an unhandled rejection has ended the server process

vars == <<pending, timer, inFlight, stopped, calls, owed, crashed>>

TypeOK ==
    /\ pending \in Lines
    /\ timer \in BOOLEAN
    /\ inFlight \in BOOLEAN
    /\ stopped \in BOOLEAN
    /\ calls \in Seq(Waiter)
    /\ owed \in Lines
    /\ crashed \in BOOLEAN

Init ==
    /\ pending = 0
    /\ timer = FALSE
    /\ inFlight = FALSE
    /\ stopped = FALSE
    /\ calls = <<>>
    /\ owed = 0
    /\ crashed = FALSE

\* normalizeTerminalScrollLines on whole numbers.
Clamp(n) == IF n > MaxLines THEN MaxLines
            ELSE IF n < -MaxLines THEN -MaxLines ELSE n

-----------------------------------------------------------------------------

\* What flush hands to scrollFn of the pending lines.
Handed(lines) == IF stopped \/ inFlight THEN 0 ELSE lines

\* The await of scrollFn: a call that settles later, unless there is nothing
\* to hand over.
Await(lines, waiter) ==
    IF Handed(lines) = 0
    THEN UNCHANGED <<inFlight, calls>>
    ELSE inFlight' = TRUE /\ calls' = Append(calls, waiter)

\* Faulty variant: a flush that finds a scroll in flight drops its lines.
FlushDropsLines(lines, waiter) ==
    /\ timer' = FALSE
    /\ pending' = 0
    /\ Await(lines, waiter)

\* flush(), `lines` being pending when it starts: unless the scheduler is
\* stopped or a scroll is in flight, it hands them over and awaits the scroll.
Flush(lines, waiter) ==
    /\ timer' = FALSE
    /\ pending' = IF stopped \/ inFlight THEN lines ELSE 0
    /\ Await(lines, waiter)

\* A scroll message: push, which adds the lines and would set the timer, and
\* flushNow, which clears the timer again and flushes.
Message(n) ==
    /\ ~crashed
    /\ ~stopped
    /\ n # 0
    /\ Flush(Clamp(pending + n), "route")
    /\ owed' = Clamp(owed + n) - Handed(Clamp(pending + n))
    /\ UNCHANGED <<stopped, crashed>>

\* The flush timer fires.
TimerFires ==
    /\ ~crashed
    /\ timer
    /\ Flush(pending, "timer")
    /\ owed' = owed - Handed(pending)
    /\ UNCHANGED <<stopped, crashed>>

\* Faulty variant: what arrived during the scroll waits for the next message.
SettledWithoutSchedule ==
    /\ inFlight' = FALSE
    /\ UNCHANGED timer

\* The finally block of flush: lines that arrived during the scroll are
\* scheduled.
Settled ==
    /\ inFlight' = FALSE
    /\ timer' = (timer \/ (~stopped /\ pending # 0))

\* The scroll of the i-th call ends well.
ScrollSucceeds(i) ==
    /\ ~crashed
    /\ calls' = SubSeq(calls, 1, i - 1) \o SubSeq(calls, i + 1, Len(calls))
    /\ Settled
    /\ UNCHANGED <<pending, stopped, owed, crashed>>

\* The scroll of the i-th call fails (the session has gone, its host cannot
\* be reached): the promise of its flush is rejected.
ScrollFails(i) ==
    /\ ~crashed
    /\ calls' = SubSeq(calls, 1, i - 1) \o SubSeq(calls, i + 1, Len(calls))
    /\ Settled
    /\ crashed' = (calls[i] = "timer")
    /\ UNCHANGED <<pending, stopped, owed>>

\* stop(), from the close and the error handler of the socket.
Stop ==
    /\ ~crashed
    /\ stopped' = TRUE
    /\ pending' = 0
    /\ owed' = 0
    /\ timer' = FALSE
    /\ UNCHANGED <<inFlight, calls, crashed>>

ScrollSettles == \E i \in DOMAIN calls : ScrollSucceeds(i) \/ ScrollFails(i)

Next ==
    \/ \E n \in Lines : Message(n)
    \/ TimerFires
    \/ ScrollSettles
    \/ Stop

\* Timers fire, and the commands the server runs have time limits.
Fairness == WF_vars(TimerFires) /\ WF_vars(ScrollSettles)

Spec == Init /\ [][Next]_vars
FairSpec == Spec /\ Fairness

-----------------------------------------------------------------------------
(* Safety.                                                                  *)

\* Scrolls of one session never run at the same time, and the flag says
\* exactly when one is running.
OneScrollAtATime ==
    Len(calls) = (IF inFlight THEN 1 ELSE 0)

\* Lines that wait have somebody to send them: the timer, or the scroll that
\* will set it when it settles.  Without it the last notch of the wheel is
\* only scrolled when the user turns it again.
WaitingLinesHaveASender ==
    pending # 0 => ~stopped /\ (timer \/ inFlight)

\* No line is lost or sent twice between a push, an await and a flush: what
\* was asked for (up to the limit of a batch) and not handed over is pending.
EveryLineIsAccountedFor == pending = owed

\* After the socket has ended no scroll is started.
NoScrollAfterStop == [][stopped => Len(calls') <= Len(calls)]_vars

(* Liveness.                                                                *)

\* Lines that wait are sent, unless the socket or the process ends.
WaitingLinesAreSent == pending # 0 ~> pending = 0 \/ crashed

(* What the route's handler of failures says.                               *)

\* A scroll that fails is logged ("Failed to scroll terminal session"); it
\* does not end the server.
FailedScrollIsHandled == ~crashed

=============================================================================
