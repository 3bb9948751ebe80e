---------------------------- MODULE TerminalSize ----------------------------
(***************************************************************************)
(* How the size of a pane gets to the pseudo-terminal: the observer and    *)
(* its timer, the quiet time after output and the rate limit in            *)
(* frontend/src/lib/Terminal.svelte, the size in the URL of a connection,  *)
(* and the debounced resize of src/src/services/terminal.js.               *)
(*                                                                         *)
(* Timers end whenever they like, and columns stand for both dimensions.   *)
(* A connection given up while its token is being fetched is the matter of *)
(* TerminalPane and is left out here.                                      *)
(***************************************************************************)
EXTENDS Integers, SequencesExt

CONSTANTS
    MaxBox,     \* bound: the largest box that is tried; 1 is too small to fit to
    MinSize,    \* MIN_TERMINAL_COLS
    MaxSize,    \* MAX_TERMINAL_COLS
    MaxWire     \* bound: resizes on their way to the server

ASSUME SizeAssumption ==
    /\ MaxBox \in Nat \ {0} /\ MinSize \in Nat \ {0} /\ MaxSize \in Nat /\ MaxWire \in Nat
    /\ MinSize <= MaxSize

VARIABLES
    boxSize,      \* what the pane has room for
    termSize,     \* what xterm shows
    lastSize,     \* lastCols of the pane
    refit,        \* resizeTimer of the pane is set
    suppressed,   \* suppressResize
    quieting,     \* suppressTimer is set
    limited,      \* the last resize was sent less than a second ago
    sizeLink,     \* the connection: "none", "fetching", "connecting", "open"
    urlSize,      \* the size in its URL
    wire,         \* resizes on their way
    ptySize,      \* the size of the PTY
    appliedSize,  \* lastCols of the registry's entry
    pendingSize,  \* what the entry's resize timer will apply
    missedSize    \* history: a change of size was passed over since the last
                  \* one that was sent

paneSizeVars == <<boxSize, termSize, lastSize, refit, suppressed, quieting, limited>>
serverSizeVars == <<ptySize, appliedSize, pendingSize>>
sizeVars == <<paneSizeVars, sizeLink, urlSize, wire, serverSizeVars, missedSize>>

NoSize == 0
TooSmall == 1
Box == TooSmall .. MaxBox

Normalize(size) == Max({MinSize, Min({MaxSize, size})})

\* finishInit fits the terminal and connects.
SizeInit ==
    /\ boxSize \in Box
    /\ termSize = boxSize
    /\ lastSize = NoSize
    /\ refit = FALSE /\ suppressed = FALSE /\ quieting = FALSE /\ limited = FALSE
    /\ sizeLink = "fetching"
    /\ urlSize = NoSize
    /\ wire = <<>>
    /\ ptySize = NoSize /\ appliedSize = NoSize /\ pendingSize = NoSize
    /\ missedSize = FALSE

-----------------------------------------------------------------------------
(* The pane.                                                                *)

\* The observer: a box that is too small, or output that is streaming, leaves
\* the timer as it is; else the timer starts anew.
BoxChanges(size) ==
    /\ size # boxSize
    /\ boxSize' = size
    /\ IF size = TooSmall \/ suppressed
       THEN missedSize' = (missedSize \/ ~refit) /\ UNCHANGED refit
       ELSE refit' = TRUE /\ UNCHANGED missedSize
    /\ UNCHANGED <<termSize, lastSize, suppressed, quieting, limited, sizeLink, urlSize,
                   wire, serverSizeVars>>

\* sendResize, of the size just fitted to.  One that is not sent is not tried
\* again; one while the connection is being made comes too late for its URL
\* and is taken by its open event for what the server knows.
SendResize(size) ==
    IF sizeLink = "open" /\ size # lastSize /\ ~limited
    THEN /\ Len(wire) < MaxWire
         /\ wire' = Append(wire, size)
         /\ lastSize' = size
         /\ limited' = TRUE
         /\ missedSize' = FALSE
    ELSE /\ missedSize' = \/ missedSize
                          \/ sizeLink = "open" /\ size # lastSize
                          \/ sizeLink = "connecting" /\ size # urlSize
         /\ UNCHANGED <<wire, lastSize, limited>>

\* The timer of 250 ms, which looks for output again.
RefitFires ==
    /\ refit
    /\ refit' = FALSE
    /\ IF suppressed
       THEN /\ missedSize' = TRUE
            /\ UNCHANGED <<termSize, lastSize, limited, wire>>
       ELSE /\ termSize' = boxSize
            /\ SendResize(boxSize)
    /\ UNCHANGED <<boxSize, suppressed, quieting, sizeLink, urlSize, serverSizeVars>>

\* onmessage.
OutputComes ==
    /\ sizeLink = "open"
    /\ suppressed' = TRUE
    /\ quieting' = TRUE
    /\ UNCHANGED <<boxSize, termSize, lastSize, refit, limited, sizeLink, urlSize, wire,
                   serverSizeVars, missedSize>>

\* 200 ms without output.
OutputQuiets ==
    /\ quieting
    /\ suppressed' = FALSE
    /\ quieting' = FALSE
    /\ UNCHANGED <<boxSize, termSize, lastSize, refit, limited, sizeLink, urlSize, wire,
                   serverSizeVars, missedSize>>

LimitEnds ==
    /\ limited
    /\ limited' = FALSE
    /\ UNCHANGED <<boxSize, termSize, lastSize, refit, suppressed, quieting, sizeLink,
                   urlSize, wire, serverSizeVars, missedSize>>

\* The answer with the token: the URL has the size of the terminal by now.
ConnectionStarts ==
    /\ sizeLink = "fetching"
    /\ sizeLink' = "connecting"
    /\ urlSize' = termSize
    /\ UNCHANGED <<paneSizeVars, wire, serverSizeVars, missedSize>>

\* onopen, and before it the route: spawnTerminal with the size of the URL.
ConnectionOpens ==
    /\ sizeLink = "connecting"
    /\ sizeLink' = "open"
    /\ lastSize' = termSize
    /\ ptySize' = Normalize(urlSize)
    /\ appliedSize' = NoSize
    /\ UNCHANGED <<boxSize, termSize, refit, suppressed, quieting, limited, urlSize, wire,
                   pendingSize, missedSize>>

\* The socket, or the fetch, fails or ends; the server kills the PTY and its
\* timer.  The timers of the pane run on.
ConnectionEnds ==
    /\ sizeLink # "none"
    /\ sizeLink' = "none"
    /\ wire' = <<>>
    /\ ptySize' = NoSize /\ appliedSize' = NoSize /\ pendingSize' = NoSize
    /\ UNCHANGED <<paneSizeVars, urlSize, missedSize>>

\* disconnect and connect, for another session or by the button: both timers
\* are cleared, and output that was streaming stays on record.  The URL will
\* tell what xterm shows.
SizeReconnects ==
    /\ sizeLink # "fetching"
    /\ refit' = FALSE
    /\ quieting' = FALSE
    /\ sizeLink' = "fetching"
    /\ wire' = <<>>
    /\ ptySize' = NoSize /\ appliedSize' = NoSize /\ pendingSize' = NoSize
    /\ missedSize' = (termSize # boxSize)
    /\ UNCHANGED <<boxSize, termSize, lastSize, suppressed, limited, urlSize>>

-----------------------------------------------------------------------------
(* The server.                                                              *)

\* Faulty variant: a resize that is waiting is not replaced by a newer one.
PendingAfterFirst(size) == IF pendingSize = NoSize THEN size ELSE pendingSize

\* The timer is set anew, with the newest size.
PendingAfter(size) == size

\* resizeTerminal.  A size equal to the one applied last returns before the
\* timer of another is cleared.
ServerTakesResize ==
    /\ wire # <<>>
    /\ wire' = Tail(wire)
    /\ LET size == Normalize(Head(wire)) IN
         IF size = appliedSize
         THEN /\ missedSize' = (missedSize \/ pendingSize # NoSize)
              /\ UNCHANGED pendingSize
         ELSE /\ pendingSize' = PendingAfter(size)
              /\ UNCHANGED missedSize
    /\ UNCHANGED <<paneSizeVars, sizeLink, urlSize, ptySize, appliedSize>>

\* The timer of 100 ms.
ServerResizes ==
    /\ pendingSize # NoSize
    /\ ptySize' = pendingSize
    /\ appliedSize' = pendingSize
    /\ pendingSize' = NoSize
    /\ UNCHANGED <<paneSizeVars, sizeLink, urlSize, wire, missedSize>>

SizeNext ==
    \/ \E size \in Box : BoxChanges(size)
    \/ RefitFires
    \/ OutputComes
    \/ OutputQuiets
    \/ LimitEnds
    \/ ConnectionStarts
    \/ ConnectionOpens
    \/ ConnectionEnds
    \/ SizeReconnects
    \/ ServerTakesResize
    \/ ServerResizes

SizeSpec == SizeInit /\ [][SizeNext]_sizeVars

-----------------------------------------------------------------------------
\* When a connected pane, the network and the server have come to rest, the
\* terminal fills the pane and the program in it has that size, whatever
\* connections and timers came in between; unless a change was passed over:
\* for output that was streaming, for the rate limit, for a connection that
\* was being made, for a box too small, or by the server for equalling the
\* size before one that still waited.
PtySizeFollowsBox ==
    sizeLink = "open" /\ ~refit /\ wire = <<>> /\ pendingSize = NoSize /\ ~missedSize
        => termSize = boxSize /\ ptySize = Normalize(boxSize)
=============================================================================
