---------------------------- MODULE StatusEngine ----------------------------
(***************************************************************************)
(* How the status engine follows one terminal (services/status-engine.js): *)
(* the classification of its output, the transitions between states with   *)
(* their cooldowns, and the idle timer.  The engine keeps one pane per     *)
(* terminal id and no state shared between panes but the map itself, whose *)
(* pruning is in module Terminals; a pane removed here and registered      *)
(* again is a terminal that reuses the id.                                 *)
(*                                                                         *)
(* Time is discrete: Tick lets one unit pass, all clocks are kept as ages  *)
(* that saturate where the code stops telling them apart, and an idle      *)
(* timer that is due fires before time goes on (a late timer only leaves   *)
(* the pane as it is for longer).                                          *)
(***************************************************************************)
EXTENDS Naturals

CONSTANTS
    Cooldown,      \* STATE_COOLDOWNS: [Status -> units]
    IdleTimeout,   \* IDLE_TIMEOUT
    RateWindow     \* the window in which output events are counted

Status == {"unknown", "idle", "working", "asking", "done", "error"}

ASSUME CooldownAssumption ==
    /\ Cooldown \in [Status -> Nat]
    /\ Cooldown["unknown"] = 0
    /\ \A s \in Status : Cooldown[s] <= Cooldown["error"]
ASSUME TimeAssumption ==
    /\ RateWindow \in Nat \ {0}
    /\ IdleTimeout \in Nat \ {0}
    /\ Cooldown["working"] <= IdleTimeout

\* What the classifier finds in text: a pattern of a question, of a failure,
\* or a shell or agent prompt on the last line.
Mark == {"question", "failure", "prompt"}

MaxAge == Cooldown["error"]      \* ages of a state beyond it count as one
NoTimer == IdleTimeout + 1
Never == IdleTimeout + 1         \* ages of outputs beyond it count as one

VARIABLES
    tracked,       \* is the id in _panes?
    status,        \* pane.status
    age,           \* Date.now() - pane.lastTransition
    recent,        \* the question and failure marks in the last 512 characters
    newest,        \* age of the newest entry of pane.outputTimestamps
    second,        \* age of the one before it, as far as the window goes
    idleTimer,     \* time left on the pane's idle timer, or NoTimer
    dwell,         \* history: how long the pane has been in its state
    quiet,         \* history: how long since significant output was fed
    worked         \* history: significant output since the state was entered

pane == <<status, age, recent, newest, second, dwell, quiet, worked>>
vars == <<tracked, pane, idleTimer>>

TypeOK ==
    /\ tracked \in BOOLEAN
    /\ status \in Status
    /\ age \in 0 .. MaxAge
    /\ recent \subseteq Mark \ {"prompt"}
    /\ newest \in 0 .. Never
    /\ second \in 0 .. RateWindow
    /\ idleTimer \in 0 .. NoTimer
    /\ dwell \in 0 .. MaxAge
    /\ quiet \in 0 .. Never
    /\ worked \in BOOLEAN

\* A pane as register creates it.
Fresh ==
    /\ status' = "unknown"
    /\ age' = 0
    /\ recent' = {}
    /\ newest' = Never
    /\ second' = RateWindow
    /\ dwell' = 0
    /\ quiet' = Never
    /\ worked' = FALSE

Init ==
    /\ tracked = FALSE
    /\ status = "unknown"
    /\ age = 0
    /\ recent = {}
    /\ newest = Never
    /\ second = RateWindow
    /\ idleTimer = NoTimer
    /\ dwell = 0
    /\ quiet = Never
    /\ worked = FALSE

-----------------------------------------------------------------------------

\* Faulty variant: failures are looked for before questions.
ClassifyFailureFirst(st, marks) ==
    CASE "failure" \in marks -> "error"
      [] "failure" \notin marks /\ "question" \in marks -> "asking"
      [] marks = {"prompt"} ->
            IF st \in {"working", "asking", "error"} THEN "done" ELSE "idle"
      [] OTHER ->
            IF st \in {"idle", "unknown", "done"} THEN "working" ELSE st

\* _classify: the state the text calls for, the present one if it calls for
\* none.  `marks` is what the chunk and the last 512 characters show.
Classify(st, marks) ==
    CASE "question" \in marks -> "asking"
      [] "question" \notin marks /\ "failure" \in marks -> "error"
      [] marks = {"prompt"} ->
            IF st \in {"working", "asking", "error"} THEN "done" ELSE "idle"
      [] OTHER ->
            IF st \in {"idle", "unknown", "done"} THEN "working" ELSE st

Priority == [unknown |-> 0, idle |-> 1, working |-> 2,
             done |-> 3, error |-> 4, asking |-> 5]

\* _transition refuses to step down while the state is younger than its
\* cooldown.
Allowed(st, since, new) ==
    Priority[new] > Priority[st] \/ since >= Cooldown[st]

\* Faulty variant: a transition does not restart the cooldown.
TransitionKeepsAge(new, significant) ==
    IF new # status /\ Allowed(status, age, new)
    THEN /\ status' = new
         /\ dwell' = 0
         /\ worked' = significant
         /\ UNCHANGED age
    ELSE /\ worked' = (worked \/ significant)
         /\ UNCHANGED <<status, age, dwell>>

Transition(new, significant) ==
    IF new # status /\ Allowed(status, age, new)
    THEN /\ status' = new
         /\ age' = 0
         /\ dwell' = 0
         /\ worked' = significant
    ELSE /\ worked' = (worked \/ significant)
         /\ UNCHANGED <<status, age, dwell>>

-----------------------------------------------------------------------------

\* register: remove, then a fresh pane.
Register ==
    /\ tracked' = TRUE
    /\ idleTimer' = NoTimer
    /\ Fresh

\* remove.  The pane is deleted; nothing is emitted.
RemovePane ==
    /\ tracked
    /\ tracked' = FALSE
    /\ idleTimer' = NoTimer
    /\ Fresh

\* Faulty variant: the timer is only set by a chunk that changes the state.
FeedArmsOnTransition(shown, long, kept) ==
    LET significant == long \/ second < RateWindow
        marks == shown \cup kept
    IN  /\ tracked
        /\ kept \subseteq recent \cup (shown \ {"prompt"})
        /\ long \/ shown \ {"prompt"} \subseteq kept
        /\ recent' = kept
        /\ newest' = 0
        /\ second' = IF newest < RateWindow THEN newest ELSE RateWindow
        /\ quiet' = IF significant THEN 0 ELSE quiet
        /\ idleTimer' = IF significant /\ Classify(status, marks) # status THEN IdleTimeout
                        ELSE idleTimer
        /\ Transition(Classify(status, marks), significant)
        /\ UNCHANGED tracked

\* feed of a chunk with something to classify.  `shown` is what it shows
\* together with the text right before it, `long` whether it alone is
\* significant, `kept` the marks left in the last 512 characters with the
\* chunk appended: a chunk that is not long cannot push out its own.
Feed(shown, long, kept) ==
    LET significant == long \/ second < RateWindow
        marks == shown \cup kept
    IN  /\ tracked
        /\ kept \subseteq recent \cup (shown \ {"prompt"})
        /\ long \/ shown \ {"prompt"} \subseteq kept
        /\ recent' = kept
        /\ newest' = 0
        /\ second' = IF newest < RateWindow THEN newest ELSE RateWindow
        /\ quiet' = IF significant THEN 0 ELSE quiet
        /\ idleTimer' = IF significant THEN IdleTimeout ELSE idleTimer
        /\ Transition(Classify(status, marks), significant)
        /\ UNCHANGED tracked

\* The idle timer fires: it clears itself and asks for idle from the states
\* that are transient.
IdleTimerFires ==
    /\ idleTimer = 0
    /\ idleTimer' = NoTimer
    /\ Transition(IF status \in {"working", "unknown", "done"} THEN "idle"
                  ELSE status, FALSE)
    /\ UNCHANGED <<tracked, recent, newest, second, quiet>>

Older(a, limit) == IF a < limit THEN a + 1 ELSE a

Tick ==
    /\ tracked
    /\ idleTimer # 0
    /\ idleTimer' = IF idleTimer = NoTimer THEN NoTimer ELSE idleTimer - 1
    /\ age' = Older(age, MaxAge)
    /\ dwell' = Older(dwell, MaxAge)
    /\ newest' = Older(newest, Never)
    /\ second' = Older(second, RateWindow)
    /\ quiet' = Older(quiet, Never)
    /\ UNCHANGED <<tracked, status, recent, worked>>

Next ==
    \/ Register
    \/ RemovePane
    \/ \E shown \in SUBSET Mark, long \in BOOLEAN, kept \in SUBSET (Mark \ {"prompt"}) :
          Feed(shown, long, kept)
    \/ IdleTimerFires
    \/ Tick

Spec == Init /\ [][Next]_vars

-----------------------------------------------------------------------------
(* Safety.                                                                  *)

\* A question on the screen is never missed, whatever state and cooldown the
\* pane is in: while the recent text shows one, the pane is asking.
QuestionIsShown == tracked /\ "question" \in recent => status = "asking"

\* A pane leaves asking only for done or error and only once no question is
\* left in the recent text; the idle timer never hides a question ("don't
\* leave until clear evidence of change").
AskingIsSticky ==
    [][tracked /\ status = "asking" /\ tracked' /\ status' \notin {"asking", "unknown"}
          => status' \in {"done", "error"} /\ "question" \notin recent']_vars

\* Done, error and asking stay in view for their cooldown unless something
\* more urgent replaces them, measured from when the pane entered them.
NoFlicker ==
    [][tracked /\ tracked' /\ status' # status /\ status' # "unknown"
          => \/ Priority[status'] > Priority[status]
             \/ dwell >= Cooldown[status]]_vars

\* A pane that has had significant output since it started working has an
\* idle timer pending: it goes idle IDLE_TIMEOUT after the last of it.
RealWorkSettles ==
    tracked /\ status = "working" /\ worked => idleTimer # NoTimer

\* A pending timer is that of the pane's last significant output: none is left
\* of a pane that was removed or replaced, whose timer would change the state
\* of the next terminal registered under the id.
TimerBelongsToPane ==
    idleTimer # NoTimer => tracked /\ idleTimer + quiet = IdleTimeout

(* What the comment on IDLE_TIMEOUT says.                                   *)

\* "How long (ms) without output before transitioning working -> idle": a
\* pane that is working has had output within IDLE_TIMEOUT.
WorkingMeansRecentOutput ==
    tracked /\ status = "working" => newest <= IdleTimeout

=============================================================================
