----------------------------- MODULE PanelsProofs -----------------------------
(***************************************************************************)
(* Parts of the page that wait for the server: the scroll scheduler, the   *)
(* start of the page, the input bar of phones and the panels of settings.  *)
(***************************************************************************)
EXTENDS ScrollScheduler, AppStart, MobileInput, Preferences, ListLemmas

-----------------------------------------------------------------------------
(***************************************************************************)
(* The scroll scheduler (ScrollScheduler), for every batch limit. The      *)
(* three invariants and the types carry each other: what is handed over is *)
(* right because the flag tells whether a scroll is in flight, and lines   *)
(* that wait need the flag to be lowered only where the timer is set.      *)
(***************************************************************************)

\* All of the invariants together are inductive.
ScrollInv ==
    /\ TypeOK
    /\ OneScrollAtATime
    /\ WaitingLinesHaveASender
    /\ EveryLineIsAccountedFor

-----------------------------------------------------------------------------
(* The operators.                                                           *)

\* The limit of a batch holds whatever is added up (ws-utils.js
\* normalizeTerminalScrollLines).
LEMMA ClampBounds ==
    ASSUME NEW n \in Int
    PROVE  Clamp(n) \in Lines
BY MaxLinesAssumption DEF Clamp, Lines

\* A scroll that settles is the only one there is, and leaves none
\* (ws-utils.js flush, the await and its finally block).
LEMMA SettledIsLast ==
    ASSUME calls \in Seq(Waiter), OneScrollAtATime, NEW i \in DOMAIN calls,
           calls' = SubSeq(calls, 1, i - 1) \o SubSeq(calls, i + 1, Len(calls))
    PROVE  inFlight /\ calls' = <<>>
<1>1. i \in 1 .. Len(calls) /\ Len(calls) \in Nat
    BY LenProperties
<1>2. Len(calls) = 1 /\ i = 1 /\ inFlight
    BY <1>1 DEF OneScrollAtATime
<1>3. SubSeq(calls, 1, 0) = <<>> /\ SubSeq(calls, 2, 1) = <<>>
    BY SubSeqEmpty
<1>4. calls' = <<>> \o <<>>
    BY <1>2, <1>3
<1>5. <<>> \o <<>> = <<>>
    BY ConcatEmptySeq, EmptySeq
<1> QED
    BY <1>2, <1>4, <1>5

-----------------------------------------------------------------------------
(* Induction.                                                               *)

\* A scheduler that was just created (ws-utils.js
\* createTerminalScrollScheduler).
LEMMA InitScroll == Init => ScrollInv
<1> SUFFICES ASSUME Init PROVE ScrollInv
    OBVIOUS
<1>1. 0 \in Lines
    BY MaxLinesAssumption DEF Lines
<1>2. TypeOK
    BY <1>1, EmptySeq DEF Init, TypeOK
<1>3. Len(calls) = 0
    BY EmptySeq DEF Init
<1> QED
    BY <1>2, <1>3 DEF Init, ScrollInv, OneScrollAtATime,
       WaitingLinesHaveASender, EveryLineIsAccountedFor

\* A flush of any lines within the limit, started while the scheduler runs,
\* keeps the scrolls apart and the lines in the hands of the scroll in flight
\* (ws-utils.js flush).
LEMMA FlushKeeps ==
    ASSUME TypeOK, OneScrollAtATime, ~stopped,
           NEW lines \in Lines, NEW waiter \in Waiter, Flush(lines, waiter)
    PROVE  /\ timer' = FALSE
           /\ pending' \in Lines /\ inFlight' \in BOOLEAN
           /\ calls' \in Seq(Waiter)
           /\ OneScrollAtATime'
           /\ pending' # 0 => inFlight'
           /\ pending' = lines - Handed(lines)
<1>1. lines \in Int /\ 0 \in Lines
    BY MaxLinesAssumption DEF Lines
<1>2. CASE inFlight
    <2>1. Handed(lines) = 0
        BY <1>2 DEF Handed
    <2>2. timer' = FALSE /\ pending' = lines /\ UNCHANGED <<inFlight, calls>>
        BY <1>2, <2>1 DEF Flush, Await
    <2> QED
        BY <1>1, <1>2, <2>1, <2>2 DEF TypeOK, OneScrollAtATime
<1>3. CASE ~inFlight
    <2>1. Handed(lines) = lines /\ Len(calls) = 0
        BY <1>3 DEF Handed, OneScrollAtATime
    <2>2. timer' = FALSE /\ pending' = 0
        BY <1>3 DEF Flush
    <2>3. CASE lines = 0
        <3>1. UNCHANGED <<inFlight, calls>>
            BY <2>1, <2>3 DEF Flush, Await
        <3> QED
            BY <1>1, <2>1, <2>2, <2>3, <3>1 DEF TypeOK, OneScrollAtATime
    <2>4. CASE lines # 0
        <3>1. inFlight' = TRUE /\ calls' = Append(calls, waiter)
            BY <2>1, <2>4 DEF Flush, Await
        <3>2. calls' \in Seq(Waiter) /\ Len(calls') = Len(calls) + 1
            BY <3>1, AppendProperties DEF TypeOK
        <3> QED
            BY <1>1, <2>1, <2>2, <3>1, <3>2 DEF OneScrollAtATime
    <2> QED
        BY <2>3, <2>4
<1> QED
    BY <1>2, <1>3 DEF TypeOK

\* The end of a scroll, well or badly, schedules what waits for it.
LEMMA SettlingKeeps ==
    ASSUME ScrollInv, NEW i \in DOMAIN calls,
           calls' = SubSeq(calls, 1, i - 1) \o SubSeq(calls, i + 1, Len(calls)),
           Settled, UNCHANGED <<pending, stopped, owed>>, crashed' \in BOOLEAN
    PROVE  ScrollInv'
<1>1. calls' = <<>>
    BY SettledIsLast DEF ScrollInv, TypeOK
<1>2. calls' \in Seq(Waiter) /\ Len(calls') = 0
    BY <1>1, EmptySeq
<1>3. inFlight' = FALSE /\ timer' \in BOOLEAN
    BY DEF Settled, ScrollInv, TypeOK
<1>4. TypeOK'
    BY <1>2, <1>3 DEF ScrollInv, TypeOK
<1>5. OneScrollAtATime'
    BY <1>2, <1>3 DEF OneScrollAtATime
<1>6. WaitingLinesHaveASender'
    BY DEF ScrollInv, WaitingLinesHaveASender, Settled
<1>7. EveryLineIsAccountedFor'
    BY DEF ScrollInv, EveryLineIsAccountedFor
<1> QED
    BY <1>4, <1>5, <1>6, <1>7 DEF ScrollInv

\* Every handler keeps the invariants.
LEMMA NextScroll == ScrollInv /\ [Next]_vars => ScrollInv'
<1> SUFFICES ASSUME ScrollInv, [Next]_vars PROVE ScrollInv'
    OBVIOUS
<1> USE DEF ScrollInv
<1>1. ASSUME NEW n \in Lines, Message(n) PROVE ScrollInv'
    <2> DEFINE lines == Clamp(pending + n)
    <2>1. lines \in Lines /\ lines \in Int
        <3>1. pending + n \in Int
            BY MaxLinesAssumption DEF TypeOK, Lines
        <3> QED
            BY <3>1, ClampBounds, MaxLinesAssumption DEF Lines
    <2>2. ~stopped /\ Flush(lines, "route") /\ UNCHANGED <<stopped, crashed>>
        BY <1>1 DEF Message
    <2>3. owed' = lines - Handed(lines)
        BY <1>1 DEF Message, EveryLineIsAccountedFor
    <2>4. "route" \in Waiter
        BY DEF Waiter
    <2> HIDE DEF lines
    <2>5. /\ timer' = FALSE
          /\ pending' \in Lines /\ inFlight' \in BOOLEAN
          /\ calls' \in Seq(Waiter)
          /\ OneScrollAtATime'
          /\ pending' # 0 => inFlight'
          /\ pending' = lines - Handed(lines)
        BY <2>1, <2>2, <2>4, FlushKeeps
    <2>6. TypeOK'
        BY <2>2, <2>3, <2>5 DEF TypeOK
    <2>7. WaitingLinesHaveASender' /\ EveryLineIsAccountedFor'
        BY <2>2, <2>3, <2>5 DEF WaitingLinesHaveASender, EveryLineIsAccountedFor
    <2> QED
        BY <2>5, <2>6, <2>7
<1>2. CASE TimerFires
    <2>1. Flush(pending, "timer") /\ UNCHANGED <<stopped, crashed>>
        BY <1>2 DEF TimerFires
    <2>2. owed' = pending - Handed(pending)
        BY <1>2 DEF TimerFires, EveryLineIsAccountedFor
    <2>3. "timer" \in Waiter /\ pending \in Lines
        BY DEF Waiter, TypeOK
    <2>4. CASE ~stopped
        <3>1. /\ timer' = FALSE
              /\ pending' \in Lines /\ inFlight' \in BOOLEAN
              /\ calls' \in Seq(Waiter)
              /\ OneScrollAtATime'
              /\ pending' # 0 => inFlight'
              /\ pending' = pending - Handed(pending)
            BY <2>1, <2>3, <2>4, FlushKeeps
        <3>2. TypeOK'
            BY <2>1, <2>2, <3>1 DEF TypeOK
        <3>3. WaitingLinesHaveASender' /\ EveryLineIsAccountedFor'
            BY <2>1, <2>2, <2>4, <3>1
               DEF WaitingLinesHaveASender, EveryLineIsAccountedFor
        <3> QED
            BY <3>1, <3>2, <3>3
    <2>5. CASE stopped
        <3>1. pending = 0 /\ Handed(pending) = 0
            BY <2>5 DEF WaitingLinesHaveASender, Handed
        <3>2. timer' = FALSE /\ pending' = 0 /\ UNCHANGED <<inFlight, calls>>
            BY <2>1, <3>1 DEF Flush, Await
        <3>3. owed' = 0
            BY <2>2, <3>1
        <3>4. TypeOK'
            BY <2>1, <2>3, <3>1, <3>2, <3>3 DEF TypeOK
        <3> QED
            BY <3>2, <3>3, <3>4 DEF OneScrollAtATime, WaitingLinesHaveASender,
               EveryLineIsAccountedFor
    <2> QED
        BY <2>4, <2>5
<1>3. ASSUME NEW i \in DOMAIN calls, ScrollSucceeds(i) PROVE ScrollInv'
    <2>1. crashed' \in BOOLEAN
        BY <1>3 DEF ScrollSucceeds, TypeOK
    <2>2. UNCHANGED <<pending, stopped, owed>> /\ Settled
        BY <1>3 DEF ScrollSucceeds
    <2>3. calls' = SubSeq(calls, 1, i - 1) \o SubSeq(calls, i + 1, Len(calls))
        BY <1>3 DEF ScrollSucceeds
    <2> QED
        BY <2>1, <2>2, <2>3, SettlingKeeps
<1>4. ASSUME NEW i \in DOMAIN calls, ScrollFails(i) PROVE ScrollInv'
    <2>1. crashed' \in BOOLEAN
        BY <1>4 DEF ScrollFails
    <2>2. UNCHANGED <<pending, stopped, owed>> /\ Settled
        BY <1>4 DEF ScrollFails
    <2>3. calls' = SubSeq(calls, 1, i - 1) \o SubSeq(calls, i + 1, Len(calls))
        BY <1>4 DEF ScrollFails
    <2> QED
        BY <2>1, <2>2, <2>3, SettlingKeeps
<1>5. CASE Stop
    <2>1. 0 \in Lines
        BY MaxLinesAssumption DEF Lines
    <2>2. TypeOK'
        BY <1>5, <2>1 DEF Stop, TypeOK
    <2> QED
        BY <1>5, <2>2 DEF Stop, OneScrollAtATime, WaitingLinesHaveASender,
           EveryLineIsAccountedFor
<1>6. CASE UNCHANGED vars
    BY <1>6 DEF vars, TypeOK, OneScrollAtATime, WaitingLinesHaveASender,
       EveryLineIsAccountedFor
<1> QED
    BY <1>1, <1>2, <1>3, <1>4, <1>5, <1>6 DEF Next, ScrollSettles

-----------------------------------------------------------------------------
(* Theorems.                                                                *)

\* The invariants of the scroll scheduler hold together.
THEOREM ScrollInductive == Spec => []ScrollInv
<1> QED
    BY InitScroll, NextScroll, PTL DEF Spec

\* Scrolls of one session never overlap, and inFlight says whether one runs
\* (ws-utils.js flush).
THEOREM ScrollsAreSerial == Spec => []OneScrollAtATime
<1>1. ScrollInv => OneScrollAtATime
    BY DEF ScrollInv
<1> QED
    BY <1>1, ScrollInductive, PTL

\* Lines that wait always have the timer or the scroll in flight to send them
\* (ws-utils.js flush, schedule and stop).
THEOREM WaitingLinesAreScheduled == Spec => []WaitingLinesHaveASender
<1>1. ScrollInv => WaitingLinesHaveASender
    BY DEF ScrollInv
<1> QED
    BY <1>1, ScrollInductive, PTL

\* No line is lost or sent twice (ws-utils.js push and flush).
THEOREM LinesAreAccountedFor == Spec => []EveryLineIsAccountedFor
<1>1. ScrollInv => EveryLineIsAccountedFor
    BY DEF ScrollInv
<1> QED
    BY <1>1, ScrollInductive, PTL

\* Nothing is scrolled once the socket has ended (terminal-ws.js calls stop).
THEOREM StopIsFinal == Spec => NoScrollAfterStop
<1>1. ASSUME ScrollInv, [Next]_vars, stopped
      PROVE  Len(calls') <= Len(calls)
    <2>1. Len(calls) \in Nat /\ calls \in Seq(Waiter)
        BY <1>1, LenProperties DEF ScrollInv, TypeOK
    <2>2. ASSUME NEW n \in Lines, Message(n) PROVE FALSE
        BY <1>1, <2>2 DEF Message
    <2>3. CASE TimerFires
        <3>1. Handed(pending) = 0
            BY <1>1 DEF Handed
        <3>2. UNCHANGED calls
            BY <2>3, <3>1 DEF TimerFires, Flush, Await
        <3> QED
            BY <2>1, <3>2
    <2>4. CASE ScrollSettles
        <3>1. PICK i \in DOMAIN calls : ScrollSucceeds(i) \/ ScrollFails(i)
            BY <2>4 DEF ScrollSettles
        <3>2. calls' = SubSeq(calls, 1, i - 1) \o SubSeq(calls, i + 1, Len(calls))
            BY <3>1 DEF ScrollSucceeds, ScrollFails
        <3>3. calls' = <<>>
            BY <1>1, <2>1, <3>2, SettledIsLast DEF ScrollInv
        <3> QED
            BY <2>1, <3>3, EmptySeq
    <2>5. CASE Stop
        BY <2>1, <2>5 DEF Stop
    <2>6. CASE UNCHANGED vars
        BY <2>1, <2>6 DEF vars
    <2> QED
        BY <1>1, <2>2, <2>3, <2>4, <2>5, <2>6 DEF Next
<1>2. ScrollInv /\ [Next]_vars => [stopped => Len(calls') <= Len(calls)]_vars
    BY <1>1
<1> QED
    BY <1>2, ScrollInductive, PTL DEF Spec, NoScrollAfterStop

-----------------------------------------------------------------------------
(***************************************************************************)
(* The start of the page and its wizard (AppStart), for every set of       *)
(* spaces and number of requests.                                          *)
(***************************************************************************)

IsASequence(s) == \E S : s \in Seq(S)

NoCount(queue) == \A i \in DOMAIN queue : queue[i].kind # "count"

\* Requests are records, and the hosts are counted once, at the end of init.
CallsFit(queue, step) ==
    /\ IsASequence(queue)
    /\ \A i \in DOMAIN queue : IsASequence(queue[i].listed)
    /\ \A i \in DOMAIN queue :
          "kind" \in DOMAIN queue[i] /\ "listed" \in DOMAIN queue[i]
    /\ \A i, j \in DOMAIN queue : queue[i].kind = "count" /\ queue[j].kind = "count" => i = j
    /\ step # Counting => NoCount(queue)

StepsAreInOrder == startStep \in 1 .. Over /\ CallsFit(startCalls, startStep)

\* Until the page looks whether there is a workspace, those it has are on the list, and
\* it goes on to count the hosts only if it has none.
OwnedAreListed ==
    /\ NotLookedYet => spacesOwned \subseteq Range(spacesListed)
    /\ startStep = Counting => spacesOwned = {}

RowsAreSequences == IsASequence(spacesKept) /\ IsASequence(spacesListed)

StartInv == RowsAreSequences /\ StepsAreInOrder /\ OwnedAreListed /\ WizardIsForNewcomers

-----------------------------------------------------------------------------
\* Sequences stay sequences, of whatever is in them.
LEMMA SequenceFacts ==
    /\ IsASequence(<<>>)
    /\ \A e : IsASequence(<<e>>)
    /\ \A s, e : IsASequence(s) => /\ IsASequence(Append(s, e))
                                  /\ Range(Append(s, e)) = Range(s) \cup {e}
    /\ \A s : \A i \in DOMAIN s : IsASequence(s) => IsASequence(RemoveAt(s, i))
<1>1. IsASequence(<<>>)
    <2>1. <<>> \in Seq({})
        OBVIOUS
    <2> QED
        BY <2>1 DEF IsASequence
<1>2. ASSUME NEW s, NEW e, IsASequence(s)
      PROVE  IsASequence(Append(s, e)) /\ Range(Append(s, e)) = Range(s) \cup {e}
    <2>1. PICK S : s \in Seq(S)
        BY <1>2 DEF IsASequence
    <2>2. s \in Seq(S \cup {e}) /\ Len(s) \in Nat
        BY <2>1, SeqMonotonic, LenProperties
    <2> DEFINE all == Append(s, e)
    <2>3. /\ all \in Seq(S \cup {e}) /\ Len(all) = Len(s) + 1 /\ all[Len(s) + 1] = e
          /\ \A i \in 1 .. Len(s) : all[i] = s[i]
        BY <2>2, AppendProperties
    <2> HIDE DEF all
    <2>4. DOMAIN all = 1 .. Len(s) + 1 /\ DOMAIN s = 1 .. Len(s)
        BY <2>1, <2>3, LenProperties
    <2>5. Range(all) = Range(s) \cup {e}
        BY <2>2, <2>3, <2>4 DEF Range
    <2>6. IsASequence(all)
        BY <2>3 DEF IsASequence
    <2> QED
        BY <2>5, <2>6 DEF all
<1>3. ASSUME NEW s, NEW i \in DOMAIN s, IsASequence(s)
      PROVE  IsASequence(RemoveAt(s, i))
    <2>1. PICK S : s \in Seq(S)
        BY <1>3 DEF IsASequence
    <2>2. i \in 1 .. Len(s)
        BY <2>1, LenProperties
    <2>3. RemoveAt(s, i) \in Seq(S)
        BY <2>1, <2>2, RemoveAtFacts
    <2> QED
        BY <2>3 DEF IsASequence
<1>4. ASSUME NEW e
      PROVE  IsASequence(<<e>>)
    <2>1. <<e>> \in Seq({e})
        OBVIOUS
    <2> QED
        BY <2>1 DEF IsASequence
<1> QED
    BY <1>1, <1>2, <1>3, <1>4

\* A list without the entries of a row still has those of the others.
LEMMA WithoutSpaceFacts ==
    ASSUME NEW list, IsASequence(list), NEW id
    PROVE  /\ IsASequence(WithoutSpace(list, id))
           /\ \A x \in Range(list) : x.id # id => x \in Range(WithoutSpace(list, id))
<1> DEFINE places == {i \in DOMAIN list : list[i].id # id}
           Before(i) == {j \in places : j < i}
           At(n) == CHOOSE i \in places : Cardinality(Before(i)) = n - 1
           rest == [n \in 1 .. Cardinality(places) |-> list[At(n)]]
<1>1. WithoutSpace(list, id) = rest
    BY DEF WithoutSpace
<1>2. PICK S : list \in Seq(S)
    BY DEF IsASequence
<1>3. Len(list) \in Nat /\ places \subseteq 1 .. Len(list)
    BY <1>2, LenProperties
<1>4. IsFiniteSet(places) /\ Cardinality(places) \in Nat
    <2>1. IsFiniteSet(1 .. Len(list)) /\ places \in SUBSET (1 .. Len(list))
        BY <1>3, FS_Interval
    <2> HIDE DEF places
    <2> QED
        BY <2>1, FS_Subset, FS_CardinalityType
<1>5. IsASequence(rest)
    <2> DEFINE size == Cardinality(places)
               values == {list[At(n)] : n \in 1 .. size}
    <2>1. size \in Nat
        BY <1>4
    <2>2. rest \in [1 .. size -> values]
        OBVIOUS
    <2> HIDE DEF rest, size, values
    <2>3. rest \in Seq(values)
        BY <2>1, <2>2 DEF Seq
    <2> QED
        BY <2>3 DEF IsASequence
<1>6. ASSUME NEW i \in places
      PROVE  /\ IsFiniteSet(Before(i)) /\ Cardinality(Before(i)) \in Nat
             /\ Cardinality(Before(i)) + 1 \in 1 .. Cardinality(places)
    <2> DEFINE some == Before(i)
    <2>1. some \in SUBSET places /\ i \in places /\ i \notin some
        BY <1>3
    <2>2. /\ IsFiniteSet(some) /\ Cardinality(some) \in Nat
          /\ Cardinality(some) < Cardinality(places)
        <3> HIDE DEF some, places
        <3>1. /\ IsFiniteSet(some) /\ Cardinality(some) <= Cardinality(places)
              /\ Cardinality(some) # Cardinality(places)
            BY <1>4, <2>1, FS_Subset
        <3>2. Cardinality(some) \in Nat
            BY <3>1, FS_CardinalityType
        <3> QED
            BY <1>4, <3>1, <3>2
    <2> HIDE DEF some, places
    <2> QED
        BY <1>4, <2>2 DEF some
<1>7. ASSUME NEW i \in places, NEW j \in places, i < j
      PROVE  Cardinality(Before(i)) < Cardinality(Before(j))
    <2> DEFINE less == Before(i)
               more == Before(j)
    <2>1. less \in SUBSET more /\ i \in more /\ i \notin less
        BY <1>3, <1>7
    <2>2. IsFiniteSet(more) /\ Cardinality(more) \in Nat /\ Cardinality(less) \in Nat
        BY <1>6
    <2> HIDE DEF less, more
    <2>3. Cardinality(less) < Cardinality(more)
        <3>1. Cardinality(less) <= Cardinality(more) /\ Cardinality(less) # Cardinality(more)
            BY <2>1, <2>2, FS_Subset
        <3> QED
            BY <2>2, <3>1
    <2> QED
        BY <2>3 DEF less, more
<1>8. ASSUME NEW i \in places, NEW j \in places, Cardinality(Before(i)) = Cardinality(Before(j))
      PROVE  i = j
    <2>1. i \in Nat /\ j \in Nat
        BY <1>3
    <2> DEFINE size(x) == Cardinality(Before(x))
    <2>2. size(i) = size(j) /\ size(i) \in Nat
        BY <1>6, <1>8
    <2>3. (i < j => size(i) < size(j)) /\ (j < i => size(j) < size(i))
        BY <1>7
    <2> HIDE DEF size
    <2> QED
        BY <2>1, <2>2, <2>3
<1>9. ASSUME NEW x \in Range(list), x.id # id
      PROVE  x \in Range(rest)
    <2>1. PICK i \in places : list[i] = x
        BY <1>9 DEF Range
    <2> DEFINE size == Cardinality(Before(i))
               n == size + 1
    <2>2. n \in 1 .. Cardinality(places) /\ size = n - 1
        <3>1. size \in Nat /\ size + 1 \in 1 .. Cardinality(places)
            BY <1>6
        <3> HIDE DEF size, places
        <3> QED
            BY <3>1
    <2>3. At(n) = i
        <3> HIDE DEF n, places
        <3> QED
            BY <1>8, <2>1, <2>2 DEF size
    <2>4. n \in DOMAIN rest /\ rest[n] = x
        <3> HIDE DEF n, places, At
        <3> QED
            BY <2>1, <2>2, <2>3
    <2> HIDE DEF rest, n
    <2> QED
        BY <2>4 DEF Range
<1> QED
    BY <1>1, <1>5, <1>9

\* The loads of init, in their order.
LEMMA LoadsFacts ==
    /\ Len(StartLoads) = 6 /\ Counting = 7 /\ Over = 8
    /\ \A step \in 1 .. 6 : StartLoads[step] # "count" /\ (StartLoads[step] = "workspaces" <=> step = 4)
<1>1. Len(StartLoads) = 6
    BY DEF StartLoads
<1>2. /\ StartLoads[1] = "types" /\ StartLoads[2] = "settings" /\ StartLoads[3] = "sessions"
      /\ StartLoads[4] = "workspaces" /\ StartLoads[5] = "templates" /\ StartLoads[6] = "user"
    BY DEF StartLoads
<1>3. \A step \in 1 .. 6 : step = 1 \/ step = 2 \/ step = 3 \/ step = 4 \/ step = 5 \/ step = 6
    OBVIOUS
<1> QED
    BY <1>1, <1>2, <1>3 DEF Counting, Over

\* Requests without one that is over.
LEMMA FitWithout ==
    ASSUME NEW queue, NEW step, CallsFit(queue, step), NEW i \in DOMAIN queue
    PROVE  /\ CallsFit(RemoveAt(queue, i), step)
           /\ queue[i].kind = "count" => NoCount(RemoveAt(queue, i))
           /\ NoCount(queue) => NoCount(RemoveAt(queue, i))
<1> DEFINE rest == RemoveAt(queue, i)
<1>1. PICK S : queue \in Seq(S)
    BY DEF CallsFit, IsASequence
<1>2. Len(queue) \in Nat /\ DOMAIN queue = 1 .. Len(queue)
    BY <1>1, LenProperties
<1>3. /\ rest \in Seq(S) /\ Len(rest) = Len(queue) - 1
      /\ \A x \in 1 .. Len(queue) - 1 :
            InWhole(i, x) \in DOMAIN queue /\ InWhole(i, x) # i /\ rest[x] = queue[InWhole(i, x)]
    <2>1. i \in 1 .. Len(queue)
        BY <1>2
    <2>2. /\ rest \in Seq(S) /\ Len(rest) = Len(queue) - 1
          /\ \A x \in 1 .. Len(queue) - 1 :
                InWhole(i, x) \in 1 .. Len(queue) /\ InWhole(i, x) # i /\ rest[x] = queue[InWhole(i, x)]
        BY <1>1, <2>1, RemoveAtFacts
    <2> HIDE DEF rest
    <2> QED
        BY <1>2, <2>2
<1> HIDE DEF rest
<1>4. DOMAIN rest = 1 .. Len(queue) - 1
    BY <1>3, LenProperties
<1>5. \A x, y \in DOMAIN rest : InWhole(i, x) = InWhole(i, y) => x = y
    BY <1>2, <1>4 DEF InWhole
<1>6. \A x, y \in DOMAIN rest : rest[x].kind = "count" /\ rest[y].kind = "count" => x = y
    BY <1>3, <1>4, <1>5 DEF CallsFit
<1>7. /\ queue[i].kind = "count" => NoCount(rest)
      /\ NoCount(queue) => NoCount(rest)
    BY <1>3, <1>4 DEF CallsFit, NoCount
<1>8. \A x \in DOMAIN rest :
          "kind" \in DOMAIN rest[x] /\ "listed" \in DOMAIN rest[x]
    BY <1>3, <1>4 DEF CallsFit
<1>9. step # Counting => NoCount(rest)
    BY <1>7 DEF CallsFit
<1>10. IsASequence(rest) /\ \A x \in DOMAIN rest : IsASequence(rest[x].listed)
    BY <1>3, <1>4 DEF CallsFit, IsASequence
<1> QED
    BY <1>6, <1>7, <1>8, <1>9, <1>10 DEF CallsFit, rest

\* Requests with a new one.
LEMMA FitWith ==
    ASSUME NEW queue, NEW step, CallsFit(queue, step), NEW kind, NEW name,
           kind # "count" \/ (NoCount(queue) /\ step = Counting)
    PROVE  CallsFit(Append(queue, Call(kind, name)), step)
<1> DEFINE new == Call(kind, name)
           all == Append(queue, new)
<1>1. PICK S : queue \in Seq(S)
    BY DEF CallsFit, IsASequence
<1>2. Len(queue) \in Nat /\ DOMAIN queue = 1 .. Len(queue)
    BY <1>1, LenProperties
<1>3. /\ "kind" \in DOMAIN new /\ "listed" \in DOMAIN new
      /\ new.kind = kind /\ IsASequence(new.listed)
    BY SequenceFacts DEF Call
<1> HIDE DEF new
<1>4. queue \in Seq(S \cup {new})
    BY <1>1, SeqMonotonic
<1>5. /\ all \in Seq(S \cup {new}) /\ Len(all) = Len(queue) + 1
      /\ \A j \in 1 .. Len(queue) : all[j] = queue[j]
      /\ all[Len(queue) + 1] = new
    BY <1>4, AppendProperties
<1> HIDE DEF all
<1>6. DOMAIN all = 1 .. Len(queue) + 1
    BY <1>5, LenProperties
<1>7. \A j \in DOMAIN all : (j \in DOMAIN queue /\ all[j] = queue[j]) \/ (j = Len(queue) + 1 /\ all[j] = new)
    BY <1>2, <1>5, <1>6
<1>8. \A x \in DOMAIN all :
          "kind" \in DOMAIN all[x] /\ "listed" \in DOMAIN all[x]
    BY <1>3, <1>7 DEF CallsFit
<1>9. \A x, y \in DOMAIN all : all[x].kind = "count" /\ all[y].kind = "count" => x = y
    BY <1>3, <1>7 DEF CallsFit, NoCount
<1>10. step # Counting => NoCount(all)
    BY <1>3, <1>7 DEF CallsFit, NoCount
<1>11. IsASequence(all) /\ \A x \in DOMAIN all : IsASequence(all[x].listed)
    BY <1>3, <1>5, <1>7 DEF CallsFit, IsASequence
<1> QED
    BY <1>8, <1>9, <1>10, <1>11 DEF CallsFit, all, new

\* Requests of which one has changed.
LEMMA FitChanged ==
    ASSUME NEW queue, NEW step, CallsFit(queue, step), NEW i \in DOMAIN queue, NEW new,
           "kind" \in DOMAIN new, "listed" \in DOMAIN new,
           IsASequence(new.listed), new.kind = queue[i].kind \/ new.kind # "count"
    PROVE  CallsFit([queue EXCEPT ![i] = new], step)
<1> DEFINE all == [queue EXCEPT ![i] = new]
<1>1. PICK S : queue \in Seq(S)
    BY DEF CallsFit, IsASequence
<1>2. queue \in Seq(S \cup {new}) /\ i \in 1 .. Len(queue)
    BY <1>1, SeqMonotonic, LenProperties
<1>3. all \in Seq(S \cup {new})
    BY <1>2, ExceptSeq
<1>4. DOMAIN all = DOMAIN queue /\ all[i] = new /\ \A j \in DOMAIN queue : j # i => all[j] = queue[j]
    OBVIOUS
<1> HIDE DEF all
<1>5. \A x \in DOMAIN all :
          "kind" \in DOMAIN all[x] /\ "listed" \in DOMAIN all[x]
    BY <1>4 DEF CallsFit
<1>6. \A x \in DOMAIN all : all[x].kind = "count" => queue[x].kind = "count"
    BY <1>4
<1>7. \A x, y \in DOMAIN all : all[x].kind = "count" /\ all[y].kind = "count" => x = y
    BY <1>4, <1>6 DEF CallsFit
<1>8. step # Counting => NoCount(all)
    BY <1>4, <1>6 DEF CallsFit, NoCount
<1>9. IsASequence(all) /\ \A x \in DOMAIN all : IsASequence(all[x].listed)
    BY <1>3, <1>4 DEF CallsFit, IsASequence
<1> QED
    BY <1>5, <1>7, <1>8, <1>9 DEF CallsFit, all

\* Without a count, requests fit every step.
LEMMA FitAnyStep ==
    ASSUME NEW queue, NEW step, CallsFit(queue, step), NoCount(queue), NEW other
    PROVE  CallsFit(queue, other)
BY DEF CallsFit

-----------------------------------------------------------------------------
\* A step after which init is where it was, and the wizard is not opened.
LEMMA InitWaits ==
    ASSUME StartInv, CallsFit(startCalls', startStep),
           startStep' = startStep, hadNoHost' = hadNoHost,
           IsASequence(spacesKept'), IsASequence(spacesListed'),
           NotLookedYet => spacesOwned' \subseteq Range(spacesListed'),
           ~NotLookedYet => spacesOwned' \subseteq spacesOwned,
           setupStep' # 0 => setupStep # 0
    PROVE  StartInv'
<1>1. CallsFit(startCalls', startStep')
    OBVIOUS
<1>2. StepsAreInOrder'
    BY <1>1 DEF StartInv, StepsAreInOrder, Over, StartLoads
<1>3. RowsAreSequences'
    BY DEF RowsAreSequences, IsASequence
<1>4. OwnedAreListed' /\ WizardIsForNewcomers'
    BY LoadsFacts DEF StartInv, OwnedAreListed, WizardIsForNewcomers, NotLookedYet
<1> QED
    BY <1>2, <1>3, <1>4 DEF StartInv

\* A step that leaves the list and what the page has alone, in the same place of init.
LEMMA ListStays ==
    ASSUME StartInv, UNCHANGED <<spacesListed, spacesOwned>>
    PROVE  /\ NotLookedYet => spacesOwned' \subseteq Range(spacesListed')
           /\ ~NotLookedYet => spacesOwned' \subseteq spacesOwned
           /\ IsASequence(spacesListed')
BY DEF StartInv, OwnedAreListed, RowsAreSequences

\* While init awaits a load, the wizard is not shown and no host is counted.
LEMMA AwaitedFacts ==
    ASSUME StartInv, NEW i \in DOMAIN startCalls, IsAwaited(i)
    PROVE  /\ startStep \in 1 .. 6 /\ setupStep = 0
           /\ NoCount(startCalls)
           /\ startCalls[i].kind = "workspaces" <=> startStep = 4
<1>1. startStep \in 1 .. 6
    BY LoadsFacts DEF StartInv, StepsAreInOrder, IsAwaited
<1>2. setupStep = 0
    BY <1>1, LoadsFacts DEF StartInv, WizardIsForNewcomers
<1>3. NoCount(startCalls)
    BY <1>1, LoadsFacts DEF StartInv, StepsAreInOrder, CallsFit
<1>4. startCalls[i].kind = "workspaces" <=> startStep = 4
    BY <1>1, LoadsFacts DEF IsAwaited
<1> QED
    BY <1>1, <1>2, <1>3, <1>4

\* init goes on after a load: with the next, or with the count of the hosts.
LEMMA GoesOnStep ==
    ASSUME StartInv, NEW i \in DOMAIN startCalls, IsAwaited(i), InitGoesOn(RemoveAt(startCalls, i)),
           UNCHANGED <<spacesKept, spacesListed, spacesOwned, setupStep>>
    PROVE  StartInv'
<1> DEFINE rest == RemoveAt(startCalls, i)
<1>1. /\ startStep \in 1 .. 6 /\ setupStep = 0 /\ NoCount(startCalls)
      /\ startCalls[i].kind = "workspaces" <=> startStep = 4
    BY AwaitedFacts
<1>2. CallsFit(startCalls, startStep)
    BY DEF StartInv, StepsAreInOrder
<1>3. CallsFit(rest, startStep) /\ NoCount(rest)
    BY <1>1, <1>2, FitWithout
<1> HIDE DEF rest
<1>6. RowsAreSequences'
    BY DEF StartInv, RowsAreSequences, IsASequence
<1>7. spacesOwned \subseteq Range(spacesListed)
    BY <1>1, LoadsFacts DEF StartInv, OwnedAreListed, NotLookedYet
<1>4. CASE startStep = 6
    <2>1. Loaded(rest)
        BY <1>4, LoadsFacts DEF InitGoesOn, rest
    <2>2. \/ /\ spacesListed' = <<>> /\ startStep' = Counting
             /\ startCalls' = Append(rest, Call("count", NoSpace))
          \/ startStep' = Over /\ startCalls' = rest
        BY <2>1 DEF Loaded, IsFirstStart
    <2>3. CallsFit(startCalls', startStep')
        BY <1>3, <2>2, FitAnyStep, FitWith
    <2>4. startStep' \in 1 .. Over
        BY <2>2, LoadsFacts
    <2>5. spacesListed' = <<>> => spacesOwned' = {}
        BY <1>7 DEF Range
    <2>6. OwnedAreListed'
        BY <2>2, <2>5, LoadsFacts DEF OwnedAreListed, NotLookedYet
    <2> QED
        BY <1>1, <1>6, <2>3, <2>4, <2>6 DEF StartInv, StepsAreInOrder, WizardIsForNewcomers
<1>5. CASE startStep # 6
    <2>1. startStep' = startStep + 1 /\ startCalls' = Append(rest, Call(StartLoads[startStep + 1], NoSpace))
        BY <1>5, LoadsFacts DEF InitGoesOn, rest
    <2>2. startStep + 1 \in 1 .. 6
        BY <1>1, <1>5
    <2>3. StartLoads[startStep + 1] # "count"
        BY <2>2, LoadsFacts
    <2>4. CallsFit(rest, startStep')
        BY <1>3, FitAnyStep
    <2>5. CallsFit(startCalls', startStep')
        BY <2>1, <2>3, <2>4, FitWith
    <2>6. startStep' \in 1 .. Over /\ startStep' # Counting
        BY <2>1, <2>2, LoadsFacts
    <2> QED
        BY <1>1, <1>6, <1>7, <2>5, <2>6 DEF StartInv, StepsAreInOrder, OwnedAreListed, WizardIsForNewcomers
<1> QED
    BY <1>4, <1>5

\* The workspaces were read.
LEMMA WorkspacesStep ==
    ASSUME StartInv, NEW i \in DOMAIN startCalls, WorkspacesAnswered(i)
    PROVE  StartInv'
<1> DEFINE rest == RemoveAt(startCalls, i)
<1>1. /\ IsAwaited(i) /\ startCalls[i].kind = "workspaces"
      /\ spacesListed' = startCalls[i].listed /\ spacesOwned' = Range(spacesListed')
      /\ startStep' = startStep + 1
      /\ startCalls' = Append(rest, Call(StartLoads[startStep + 1], NoSpace))
      /\ UNCHANGED wizardVars /\ UNCHANGED rowVars
    BY DEF WorkspacesAnswered
<1>2. startStep = 4 /\ setupStep = 0 /\ NoCount(startCalls)
    BY <1>1, AwaitedFacts
<1>3. CallsFit(rest, startStep) /\ NoCount(rest)
    BY <1>2, FitWithout DEF StartInv, StepsAreInOrder
<1> HIDE DEF rest
<1>4. startStep' = 5 /\ StartLoads[startStep + 1] # "count"
    BY <1>1, <1>2, LoadsFacts
<1>5. CallsFit(rest, startStep')
    BY <1>3, FitAnyStep
<1>6. CallsFit(startCalls', startStep')
    BY <1>1, <1>4, <1>5, FitWith
<1>7. spacesOwned' \subseteq Range(spacesListed')
    BY <1>1
<1>8. RowsAreSequences'
    <2>1. IsASequence(startCalls[i].listed) /\ IsASequence(spacesKept)
        BY DEF StartInv, StepsAreInOrder, CallsFit, RowsAreSequences
    <2> QED
        BY <1>1, <2>1 DEF rowVars, spaceRows, RowsAreSequences, IsASequence
<1> QED
    BY <1>1, <1>2, <1>4, <1>6, <1>7, <1>8, LoadsFacts
    DEF StartInv, StepsAreInOrder, OwnedAreListed, WizardIsForNewcomers, wizardVars

\* The hosts were counted, and the wizard is opened if there is none.
LEMMA CountStep ==
    ASSUME StartInv, NEW i \in DOMAIN startCalls, CountAnswered(i) \/ CountFailed(i)
    PROVE  StartInv'
<1>1. /\ startCalls[i].kind = "count" /\ startStep' = Over /\ startCalls' = RemoveAt(startCalls, i)
      /\ UNCHANGED <<spacesKept, spacesListed, spacesOwned>>
      /\ \/ setupStep' = (IF startCalls[i].found THEN setupStep ELSE 1) /\ hadNoHost' = ~startCalls[i].found
         \/ setupStep' = setupStep
    BY DEF CountAnswered, CountFailed, rowVars, spaceRows, wizardVars, startHistory
<1>2. startStep = Counting
    BY <1>1 DEF StartInv, StepsAreInOrder, CallsFit, NoCount
<1>3. spacesOwned = {} /\ setupStep = 0
    BY <1>2, LoadsFacts DEF StartInv, OwnedAreListed, WizardIsForNewcomers
<1>4. CallsFit(startCalls', startStep) /\ NoCount(startCalls')
    BY <1>1, FitWithout DEF StartInv, StepsAreInOrder
<1>5. CallsFit(startCalls', startStep')
    BY <1>4, FitAnyStep
<1>6. StepsAreInOrder'
    BY <1>1, <1>5, LoadsFacts DEF StepsAreInOrder
<1>7. OwnedAreListed'
    BY <1>1, <1>3 DEF OwnedAreListed
<1>8. WizardIsForNewcomers'
    BY <1>1, <1>3 DEF WizardIsForNewcomers
<1>9. RowsAreSequences'
    BY <1>1 DEF StartInv, RowsAreSequences, IsASequence
<1> QED
    BY <1>6, <1>7, <1>8, <1>9 DEF StartInv

\* The user asks, or goes somewhere.
LEMMA UserStep ==
    ASSUME StartInv,
           \/ \E name \in SpaceName : HandleCreateWorkspace(name) \/ SetupCreateWorkspace(name)
           \/ \E space \in Range(spacesListed) : GoToWorkspace(space) \/ HandleDelete(space)
           \/ SetupImportHosts \/ SetupTestAllHosts \/ SetupGoesOn \/ SetupSkip \/ SetupOpenHosts
    PROVE  StartInv'
<1>1. CallsFit(startCalls, startStep)
    BY DEF StartInv, StepsAreInOrder
<1>2. ASSUME NEW kind, NEW space, kind # "count", AskServer(kind, space), setupStep' # 0 => setupStep # 0
      PROVE  StartInv'
    <2>1. /\ startCalls' = Append(startCalls, Call(kind, space))
          /\ UNCHANGED <<spacesKept, startStep, spacesListed, spacesOwned, hadNoHost>>
        BY <1>2 DEF AskServer, rowVars, spaceRows, startHistory
    <2>2. CallsFit(Append(startCalls, Call(kind, space)), startStep)
        BY <1>1, <1>2, FitWith
    <2>3. IsASequence(spacesKept')
        BY <2>1 DEF StartInv, RowsAreSequences
    <2> QED
        BY <1>2, <2>1, <2>2, <2>3, ListStays, InitWaits
<1>3. ASSUME UNCHANGED <<spacesKept, startStep, startCalls, spacesListed, spacesOwned, hadNoHost>>,
             setupStep' # 0 => setupStep # 0
      PROVE  StartInv'
    <2>1. IsASequence(spacesKept') /\ CallsFit(startCalls', startStep)
        BY <1>1, <1>3 DEF StartInv, RowsAreSequences
    <2> QED
        BY <1>3, <2>1, ListStays, InitWaits
<1>4. ASSUME NEW name, HandleCreateWorkspace(name)
      PROVE  StartInv'
    BY <1>2, <1>4 DEF HandleCreateWorkspace, wizardVars
<1>5. ASSUME NEW name, SetupCreateWorkspace(name)
      PROVE  StartInv'
    BY <1>2, <1>5 DEF SetupCreateWorkspace, wizardVars
<1>6. ASSUME NEW space, GoToWorkspace(space) \/ HandleDelete(space)
      PROVE  StartInv'
    <2>1. CASE GoToWorkspace(space)
        BY <1>3, <2>1 DEF GoToWorkspace, rowVars, spaceRows, wizardVars, startHistory
    <2>2. CASE HandleDelete(space)
        BY <1>2, <2>2 DEF HandleDelete, wizardVars
    <2> QED
        BY <1>6, <2>1, <2>2
<1>7. CASE SetupImportHosts
    BY <1>2, <1>7 DEF SetupImportHosts
<1>8. CASE SetupTestAllHosts
    BY <1>2, <1>8 DEF SetupTestAllHosts
<1>9. CASE SetupGoesOn \/ SetupSkip
    BY <1>3, <1>9 DEF SetupGoesOn, SetupSkip, rowVars, spaceRows, startHistory
<1>10. CASE SetupOpenHosts
    BY <1>2, <1>10 DEF SetupOpenHosts
<1> QED
    BY <1>4, <1>5, <1>6, <1>7, <1>8, <1>9, <1>10

\* The server has had a request.
LEMMA StartServeStep ==
    ASSUME StartInv, NEW i \in DOMAIN startCalls, ServeCall(i)
    PROVE  StartInv'
<1>1. PICK listed, found : ServedWith(i, listed, found) /\ IsASequence(listed)
    BY SequenceFacts
    DEF ServeCall, ServeWorkspaces, ServeCount, ServeCreate, ServeDelete, ServeImportOfSetup,
        ServeTestOfSetup, StartInv, RowsAreSequences
<1>2. /\ startCalls' = [startCalls EXCEPT ![i].served = TRUE, ![i].listed = listed, ![i].found = found]
      /\ UNCHANGED <<startStep, spacesListed, setupStep, spacesOwned, hadNoHost>>
    BY <1>1 DEF ServedWith, wizardVars, startHistory
<1>3. CallsFit(startCalls, startStep)
    BY DEF StartInv, StepsAreInOrder
<1> DEFINE old == startCalls[i]
           new == [old EXCEPT !.served = TRUE, !.listed = listed, !.found = found]
<1>4. startCalls' = [startCalls EXCEPT ![i] = new]
    BY <1>2
<1>5. CallsFit(startCalls', startStep)
    <2>1. "kind" \in DOMAIN old /\ "listed" \in DOMAIN old
        BY <1>3 DEF CallsFit
    <2>2. /\ "kind" \in DOMAIN new /\ "listed" \in DOMAIN new
          /\ new.kind = old.kind /\ IsASequence(new.listed)
        <3> HIDE DEF old
        <3> DEFINE first == [old EXCEPT !.served = TRUE]
                   second == [first EXCEPT !.listed = listed]
        <3>1. DOMAIN first = DOMAIN old /\ first.kind = old.kind
            BY <2>1
        <3>2. new = [second EXCEPT !.found = found]
            OBVIOUS
        <3> HIDE DEF first, new
        <3>3. DOMAIN second = DOMAIN old /\ second.kind = old.kind /\ second.listed = listed
            BY <2>1, <3>1
        <3> HIDE DEF second
        <3>4. DOMAIN new = DOMAIN old /\ new.kind = old.kind /\ new.listed = listed
            BY <2>1, <3>2, <3>3
        <3> QED
            BY <1>1, <2>1, <3>4
    <2> HIDE DEF new
    <2> QED
        BY <1>3, <1>4, <2>2, FitChanged
<1>6. IsASequence(spacesKept')
    <2>1. \/ spacesKept' = spacesKept
          \/ \E space : spacesKept' = Append(spacesKept, space)
          \/ \E place \in DOMAIN spacesKept : spacesKept' = RemoveAt(spacesKept, place)
        BY DEF ServeCall, ServeWorkspaces, ServeCount, ServeCreate, ServeDelete, AddSpace,
               ServeImportOfSetup, ServeTestOfSetup, rowVars, spaceRows
    <2> QED
        BY <1>2, <2>1, SequenceFacts DEF StartInv, RowsAreSequences
<1> QED
    BY <1>2, <1>5, <1>6, ListStays, InitWaits

\* An answer to a request of the user.
LEMMA AnswerStep ==
    ASSUME StartInv, NEW i \in DOMAIN startCalls,
           \/ CreateAnswered(i) \/ DeleteAnswered(i) \/ ImportAnswered(i) \/ ImportLoaded(i)
           \/ TestOfSetupAnswered(i) \/ SectionAnswered(i) \/ CallIsOver(i)
    PROVE  StartInv'
<1>1. CallsFit(startCalls, startStep)
    BY DEF StartInv, StepsAreInOrder
<1>2. /\ UNCHANGED <<spacesKept, startStep, hadNoHost>>
      /\ setupStep' # 0 => setupStep # 0
      /\ \/ UNCHANGED <<spacesListed, spacesOwned>>
         \/ \E new : /\ spacesListed' = Append(spacesListed, new)
                     /\ spacesOwned' = IF NotLookedYet THEN spacesOwned \cup {new} ELSE spacesOwned
         \/ \E id : /\ spacesListed' = WithoutSpace(spacesListed, id)
                    /\ spacesOwned' = {space \in spacesOwned : space.id # id}
    <2>1. CASE CreateAnswered(i)
        BY <2>1 DEF CreateAnswered, rowVars, spaceRows
    <2>2. CASE ImportAnswered(i)
        BY <2>2 DEF ImportAnswered, rowVars, spaceRows, wizardVars, startHistory
    <2>3. CASE ImportLoaded(i)
        BY <2>3 DEF ImportLoaded, rowVars, spaceRows, startHistory
    <2>4. CASE TestOfSetupAnswered(i)
        BY <2>4 DEF TestOfSetupAnswered, rowVars, spaceRows, startHistory
    <2>5. CASE SectionAnswered(i)
        BY <2>5 DEF SectionAnswered, rowVars, spaceRows, wizardVars, startHistory
    <2>6. CASE CallIsOver(i)
        BY <2>6 DEF CallIsOver, rowVars, spaceRows, startHistory
    <2>7. CASE DeleteAnswered(i)
        BY <2>7 DEF DeleteAnswered, rowVars, spaceRows, wizardVars
    <2> QED
        BY <2>1, <2>2, <2>3, <2>4, <2>5, <2>6, <2>7
<1>3. /\ IsASequence(spacesListed')
      /\ NotLookedYet => spacesOwned' \subseteq Range(spacesListed')
      /\ ~NotLookedYet => spacesOwned' \subseteq spacesOwned
    <2>1. /\ IsASequence(spacesListed)
          /\ NotLookedYet => spacesOwned \subseteq Range(spacesListed)
        BY DEF StartInv, RowsAreSequences, OwnedAreListed
    <2>2. CASE UNCHANGED <<spacesListed, spacesOwned>>
        BY <2>2, ListStays
    <2>3. ASSUME NEW new, spacesListed' = Append(spacesListed, new),
                 spacesOwned' = IF NotLookedYet THEN spacesOwned \cup {new} ELSE spacesOwned
          PROVE  /\ IsASequence(spacesListed')
                 /\ NotLookedYet => spacesOwned' \subseteq Range(spacesListed')
                 /\ ~NotLookedYet => spacesOwned' \subseteq spacesOwned
        <3>1. IsASequence(spacesListed') /\ Range(spacesListed') = Range(spacesListed) \cup {new}
            BY <2>1, <2>3, SequenceFacts
        <3> QED
            BY <2>1, <2>3, <3>1
    <2>4. ASSUME NEW id, spacesListed' = WithoutSpace(spacesListed, id),
                 spacesOwned' = {space \in spacesOwned : space.id # id}
          PROVE  /\ IsASequence(spacesListed')
                 /\ NotLookedYet => spacesOwned' \subseteq Range(spacesListed')
                 /\ ~NotLookedYet => spacesOwned' \subseteq spacesOwned
        <3>1. /\ IsASequence(spacesListed')
              /\ \A x \in Range(spacesListed) : x.id # id => x \in Range(spacesListed')
            BY <2>1, <2>4, WithoutSpaceFacts
        <3> QED
            BY <2>1, <2>4, <3>1
    <2> QED
        BY <1>2, <2>2, <2>3, <2>4
<1> DEFINE old == startCalls[i]
<1>4. "kind" \in DOMAIN old /\ "listed" \in DOMAIN old /\ IsASequence(old.listed)
    BY <1>1 DEF CallsFit
<1>5. ASSUME NEW kind, kind # "count"
      PROVE  CallsFit([startCalls EXCEPT ![i].kind = kind], startStep)
    <2> DEFINE new == [old EXCEPT !.kind = kind]
    <2>1. [startCalls EXCEPT ![i].kind = kind] = [startCalls EXCEPT ![i] = new]
        OBVIOUS
    <2>2. /\ "kind" \in DOMAIN new /\ "listed" \in DOMAIN new
          /\ new.kind = kind /\ IsASequence(new.listed)
        <3> HIDE DEF old
        <3> QED
            BY <1>4
    <2> HIDE DEF new
    <2> QED
        BY <1>1, <1>5, <2>1, <2>2, FitChanged
<1>6. CallsFit([startCalls EXCEPT ![i] = Call("section import", NoSpace)], startStep)
    <2> DEFINE new == Call("section import", NoSpace)
    <2>1. /\ "kind" \in DOMAIN new /\ "listed" \in DOMAIN new
          /\ new.kind # "count" /\ IsASequence(new.listed)
        BY SequenceFacts DEF Call
    <2> HIDE DEF new
    <2>2. CallsFit([startCalls EXCEPT ![i] = new], startStep)
        BY <1>1, <2>1, FitChanged
    <2> QED
        BY <2>2 DEF new
<1>7. CallsFit(startCalls', startStep)
    <2>1. \/ startCalls' = RemoveAt(startCalls, i)
          \/ \E kind : kind # "count" /\ startCalls' = [startCalls EXCEPT ![i].kind = kind]
          \/ startCalls' = [startCalls EXCEPT ![i] = Call("section import", NoSpace)]
        BY DEF CreateAnswered, DeleteAnswered, ImportAnswered, ImportLoaded, TestOfSetupAnswered,
               SectionAnswered, CallIsOver
    <2>2. CallsFit(RemoveAt(startCalls, i), startStep)
        BY <1>1, FitWithout
    <2> QED
        BY <1>5, <1>6, <2>1, <2>2
<1>8. IsASequence(spacesKept')
    BY <1>2 DEF StartInv, RowsAreSequences
<1> QED
    BY <1>2, <1>3, <1>7, <1>8, InitWaits

\* A load of init other than that of the workspaces is over, or that one failed.
LEMMA LoadStep ==
    ASSUME StartInv, NEW i \in DOMAIN startCalls, LoadIsOver(i) \/ WorkspacesFailed(i)
    PROVE  StartInv'
<1>1. /\ IsAwaited(i) /\ InitGoesOn(RemoveAt(startCalls, i))
      /\ UNCHANGED <<spacesKept, spacesListed, spacesOwned, setupStep>>
    BY DEF LoadIsOver, WorkspacesFailed, rowVars, spaceRows, wizardVars, startHistory
<1> QED
    BY <1>1, GoesOnStep

\* What a page is that has just been opened.
LEMMA OpenedFacts ==
    ASSUME NEW queue, queue = <<Call(StartLoads[1], NoSpace)>>
    PROVE  CallsFit(queue, 1)
<1>1. IsASequence(<<>>) /\ NoCount(<<>>) /\ CallsFit(<<>>, 1)
    BY SequenceFacts DEF NoCount, CallsFit
<1> DEFINE none == <<>>
           first == StartLoads[1]
<1>2. first # "count" /\ CallsFit(none, 1)
    BY <1>1 DEF StartLoads
<1>3. queue = Append(none, Call(first, NoSpace))
    OBVIOUS
<1>4. CallsFit(Append(none, Call(first, NoSpace)), 1)
    <2> HIDE DEF none, first
    <2> DEFINE opened == 1
    <2>1. CallsFit(none, opened)
        BY <1>2
    <2> HIDE DEF opened
    <2>2. CallsFit(Append(none, Call(first, NoSpace)), opened)
        BY <1>2, <2>1, FitWith
    <2> QED
        BY <2>2 DEF opened
<1> QED
    <2> HIDE DEF none, first
    <2> QED
        BY <1>3, <1>4

\* The page is opened anew, or another page changes the rows.
LEMMA OutsideStep ==
    ASSUME StartInv, Reload \/ OtherPage
    PROVE  StartInv'
<1>1. CASE Reload
    <2>1. /\ startStep' = 1 /\ startCalls' = <<Call(StartLoads[1], NoSpace)>>
          /\ spacesListed' = <<>> /\ spacesOwned' = {} /\ setupStep' = 0 /\ spacesKept' = spacesKept
        BY <1>1 DEF Reload, PageOpens, rowVars, spaceRows
    <2>2. CallsFit(startCalls', startStep')
        BY <2>1, OpenedFacts
    <2>3. RowsAreSequences'
        BY <2>1, SequenceFacts DEF StartInv, RowsAreSequences, IsASequence
    <2> QED
        BY <2>1, <2>2, <2>3, LoadsFacts
        DEF StartInv, StepsAreInOrder, OwnedAreListed, WizardIsForNewcomers
<1>2. CASE OtherPage
    <2>1. /\ UNCHANGED <<startStep, startCalls, spacesListed, setupStep, spacesOwned, hadNoHost>>
          /\ \/ \E space : spacesKept' = Append(spacesKept, space)
             \/ \E place \in DOMAIN spacesKept : spacesKept' = RemoveAt(spacesKept, place)
             \/ spacesKept' = spacesKept
        BY <1>2 DEF OtherPage, AddSpace, wizardVars, spaceRows
    <2>2. IsASequence(spacesKept') /\ CallsFit(startCalls', startStep)
        BY <2>1, SequenceFacts DEF StartInv, RowsAreSequences, StepsAreInOrder
    <2> QED
        BY <2>1, <2>2, ListStays, InitWaits
<1> QED
    BY <1>1, <1>2

\* The invariant holds in every state.
LEMMA StartInvHolds == AppStartSpec => []StartInv
<1>1. AppStartInit => StartInv
    <2>1. SUFFICES ASSUME AppStartInit PROVE StartInv
        OBVIOUS
    <2>2. /\ startStep = 1 /\ startCalls = <<Call(StartLoads[1], NoSpace)>>
          /\ spacesListed = <<>> /\ spacesOwned = {} /\ setupStep = 0
          /\ spacesKept = <<>> \/ \E space : spacesKept = <<space>>
        BY <2>1 DEF AppStartInit
    <2>3. CallsFit(startCalls, startStep)
        BY <2>2, OpenedFacts
    <2>4. RowsAreSequences
        BY <2>2, SequenceFacts DEF RowsAreSequences
    <2> QED
        BY <2>2, <2>3, <2>4, LoadsFacts
        DEF StartInv, StepsAreInOrder, OwnedAreListed, WizardIsForNewcomers
<1>2. StartInv /\ [AppStartNext]_startVars => StartInv'
    <2>1. ASSUME StartInv, AppStartNext PROVE StartInv'
        BY <2>1, LoadStep, WorkspacesStep, CountStep, UserStep, StartServeStep, AnswerStep, OutsideStep
        DEF AppStartNext
    <2>2. ASSUME StartInv, UNCHANGED startVars PROVE StartInv'
        <3>1. /\ UNCHANGED <<startStep, startCalls, spacesListed, setupStep, spacesOwned, hadNoHost, spacesKept>>
            BY <2>2 DEF startVars
        <3>2. IsASequence(spacesKept') /\ CallsFit(startCalls', startStep)
            BY <2>2, <3>1 DEF StartInv, RowsAreSequences, StepsAreInOrder
        <3> QED
            BY <2>2, <3>1, <3>2, ListStays, InitWaits
    <2> QED
        BY <2>1, <2>2
<1> QED
    BY <1>1, <1>2, PTL DEF AppStartSpec

\* The wizard is shown only to who has deleted every workspace that the page had read
\* when it looked, or created since it read them, and has no host after that, in
\* whichever order answers come, whatever is created and deleted meanwhile and however
\* often the page is reloaded (App.svelte, init).
THEOREM WizardsAreForNewcomers == AppStartSpec => []WizardIsForNewcomers
<1>1. StartInv => WizardIsForNewcomers
    BY DEF StartInv
<1> QED
    BY <1>1, StartInvHolds, PTL

-----------------------------------------------------------------------------
(***************************************************************************)
(* The input bar of phones (MobileInput), for every set of sessions.       *)
(***************************************************************************)

TerminalTypes ==
    /\ terminal = [session |-> terminal.session, socket |-> terminal.socket,
                   ctrlPending |-> terminal.ctrlPending, tokens |-> terminal.tokens]
    /\ terminal.ctrlPending \in BOOLEAN /\ terminal.tokens \in Nat /\ pastes \in Int

\* The terminal is that of the session that is shown, and is connected to it or
\* to nothing; a vacant pane has none.
TerminalIsOfPane ==
    /\ terminal.session = ShownNow
    /\ terminal.socket \in {NoWhere, terminal.session}
    /\ terminal.session = Vacant => terminal = NoTerminal

\* A terminal that was left without a fetch under way never has a socket again.
CutTerminals(names) ==
    {l \in [session : names, socket : names, tokens : Nat, pastes : Int, fetching : BOOLEAN] :
        ~l.fetching => l.tokens = 0 /\ l.socket = NoWhere}
LeftAreCut == \E names : leftTerminals \in Seq(CutTerminals(names))

PhoneInv == TerminalTypes /\ TerminalIsOfPane /\ LeftAreCut /\ InputIsAsShown

-----------------------------------------------------------------------------
\* Names may be added to those that terminals have.
LEMMA MoreNames ==
    ASSUME NEW names, NEW more, names \subseteq more, NEW s \in Seq(CutTerminals(names))
    PROVE  s \in Seq(CutTerminals(more))
<1>1. CutTerminals(names) \subseteq CutTerminals(more)
    BY DEF CutTerminals
<1> QED
    BY <1>1

\* The terminal and the bar after the view has changed.
LEMMA RenderStep ==
    ASSUME PhoneInv, Render
    PROVE  PhoneInv'
<1> DEFINE inView == InView(activeId', panesOf', activePane', minimap')
           same  == terminal # NoTerminal /\ activeId' = activeId /\ activePane' = activePane
<1>1. /\ sentNow' = [to |-> NoWhere, by |-> "shown"]
      /\ same /\ inView # Vacant =>
            /\ \/ inView = terminal.session /\ terminal' = terminal
               \/ inView # terminal.session /\ terminal' = Reconnects(inView)
            /\ UNCHANGED <<ctrlActive, pastes, leftTerminals>>
      /\ ~(same /\ inView # Vacant) =>
            /\ terminal' = NewTerminal(inView)
            /\ ctrlActive' = FALSE /\ pastes' = 0
            /\ leftTerminals' = IF pastes = 0 THEN leftTerminals
                                ELSE Append(leftTerminals, Leftover)
    BY Zenon DEF Render, Quiet
<1>2. ShownNow' = inView
    BY DEF ShownNow
<1>3. /\ terminal = [session |-> terminal.session, socket |-> terminal.socket,
                     ctrlPending |-> terminal.ctrlPending, tokens |-> terminal.tokens]
      /\ terminal.ctrlPending \in BOOLEAN /\ ctrlActive = terminal.ctrlPending
      /\ terminal.tokens \in Nat /\ pastes \in Int
      /\ terminal.socket \in {NoWhere, terminal.session}
    BY DEF PhoneInv, TerminalTypes, TerminalIsOfPane, InputIsAsShown, CtrlIsArmedAsShown
<1> HIDE DEF inView, same
<1>4. InputGoesToWhatIsShown'
    BY <1>1 DEF InputGoesToWhatIsShown
<1>5. CASE ~(same /\ inView # Vacant)
    <2>1. terminal' = [session |-> inView, socket |-> NoWhere, ctrlPending |-> FALSE, tokens |-> 0]
          /\ ctrlActive' = FALSE /\ pastes' = 0
        BY <1>1, <1>5 DEF NewTerminal
    <2>2. /\ terminal'.session = inView /\ terminal'.socket = NoWhere
          /\ terminal'.ctrlPending = FALSE /\ terminal'.tokens = 0
        BY <2>1
    <2>3. inView = Vacant => terminal' = NoTerminal
        BY <2>1 DEF NoTerminal, NewTerminal
    <2>4. TerminalTypes'
        BY <2>1, <2>2 DEF TerminalTypes
    <2>5. TerminalIsOfPane'
        BY <1>2, <2>2, <2>3 DEF TerminalIsOfPane, NoTerminal, NewTerminal
    <2>6. LeftAreCut'
        <3>1. CASE pastes = 0
            BY <1>1, <1>5, <3>1 DEF PhoneInv, LeftAreCut
        <3>2. CASE pastes # 0
            <4>1. PICK names : leftTerminals \in Seq(CutTerminals(names))
                BY DEF PhoneInv, LeftAreCut
            <4> DEFINE more == names \cup {terminal.session, NoWhere}
            <4>2. leftTerminals \in Seq(CutTerminals(more))
                BY <4>1, MoreNames
            <4>3. Leftover \in CutTerminals(more)
                <5> DEFINE fetching == terminal.tokens > 0
                <5>1. fetching \in BOOLEAN /\ (~fetching => terminal.tokens = 0)
                    BY <1>3
                <5>2. Leftover = [session |-> terminal.session, socket |-> NoWhere,
                                  tokens |-> terminal.tokens, pastes |-> pastes, fetching |-> fetching]
                    BY DEF Leftover
                <5>3. terminal.session \in more /\ NoWhere \in more
                    OBVIOUS
                <5> HIDE DEF fetching, more
                <5> QED
                    BY <1>3, <5>1, <5>2, <5>3 DEF CutTerminals
            <4>4. leftTerminals' = Append(leftTerminals, Leftover)
                BY <1>1, <1>5, <3>2
            <4>5. Append(leftTerminals, Leftover) \in Seq(CutTerminals(more))
                BY <4>2, <4>3, AppendFacts
            <4> QED
                BY <4>4, <4>5 DEF LeftAreCut
        <3> QED
            BY <3>1, <3>2
    <2>7. CtrlIsArmedAsShown'
        BY <2>1, <2>2 DEF CtrlIsArmedAsShown
    <2> QED
        BY <1>4, <2>4, <2>5, <2>6, <2>7 DEF PhoneInv, InputIsAsShown
<1>6. CASE same /\ inView # Vacant
    <2>1. UNCHANGED <<ctrlActive, pastes, leftTerminals>>
        BY <1>1, <1>6
    <2>2. \/ inView = terminal.session /\ terminal' = terminal
          \/ terminal' = [session |-> inView, socket |-> NoWhere,
                          ctrlPending |-> terminal.ctrlPending, tokens |-> terminal.tokens + 1]
        <3>1. CASE inView = terminal.session /\ terminal' = terminal
            BY <3>1
        <3>2. CASE terminal' = Reconnects(inView)
            <4> DEFINE t == terminal
            <4>1. t = [session |-> t.session, socket |-> t.socket,
                       ctrlPending |-> t.ctrlPending, tokens |-> t.tokens]
                BY <1>3
            <4>2. terminal' = [t EXCEPT !.session = inView, !.socket = NoWhere, !.tokens = @ + 1]
                BY <3>2 DEF Reconnects
            <4> HIDE DEF t
            <4>3. terminal' = [session |-> inView, socket |-> NoWhere,
                               ctrlPending |-> t.ctrlPending, tokens |-> t.tokens + 1]
                BY <4>1, <4>2
            <4> QED
                BY <4>3 DEF t
        <3> QED
            BY <1>1, <1>6, <3>1, <3>2
    <2>3. /\ terminal'.session = inView /\ terminal'.ctrlPending = terminal.ctrlPending
          /\ terminal'.socket \in {NoWhere, terminal'.session} /\ terminal'.tokens \in Nat
        BY <1>3, <2>2
    <2>4. TerminalTypes'
        BY <1>3, <2>1, <2>2, <2>3 DEF TerminalTypes
    <2>5. TerminalIsOfPane'
        BY <1>2, <1>6, <2>3 DEF TerminalIsOfPane, NoTerminal, NewTerminal
    <2>6. LeftAreCut'
        BY <2>1 DEF PhoneInv, LeftAreCut
    <2>7. CtrlIsArmedAsShown'
        BY <1>3, <2>1, <2>3 DEF CtrlIsArmedAsShown
    <2> QED
        BY <1>4, <2>4, <2>5, <2>6, <2>7 DEF PhoneInv, InputIsAsShown
<1> QED
    BY <1>5, <1>6

\* A step that leaves the view and the terminals of before alone, and changes
\* the connection, Ctrl or the mode.
LEMMA TerminalStep ==
    ASSUME PhoneInv, UNCHANGED <<viewVars, leftTerminals>>, pastes' \in Int,
           NEW socket, NEW armed \in BOOLEAN, NEW tokenCalls \in Nat,
           terminal' = [session |-> terminal.session, socket |-> socket,
                        ctrlPending |-> armed, tokens |-> tokenCalls],
           socket \in {NoWhere, terminal.session},
           terminal = NoTerminal => terminal' = NoTerminal,
           ctrlActive' = armed,
           sentNow'.to = NoWhere \/ (sentNow'.to = terminal.session /\ ~readOnly')
    PROVE  PhoneInv'
<1>1. ShownNow' = ShownNow
    BY DEF ShownNow, viewVars
<1>2. /\ terminal'.session = terminal.session /\ terminal'.socket = socket
      /\ terminal'.ctrlPending = armed /\ terminal'.tokens = tokenCalls
    OBVIOUS
<1>3. TerminalTypes'
    BY <1>2 DEF TerminalTypes
<1>4. TerminalIsOfPane'
    BY <1>1, <1>2 DEF PhoneInv, TerminalIsOfPane, NoTerminal, NewTerminal
<1>5. InputIsAsShown'
    BY <1>1, <1>2 DEF PhoneInv, TerminalIsOfPane, InputIsAsShown, CtrlIsArmedAsShown, InputGoesToWhatIsShown
<1>6. LeftAreCut'
    BY DEF PhoneInv, LeftAreCut
<1> QED
    BY <1>3, <1>4, <1>5, <1>6 DEF PhoneInv

\* Every step of the terminal and the bar is one of these.
LEMMA OtherStep ==
    ASSUME PhoneInv,
           \/ TerminalConnects \/ SocketIsMade \/ TokenFails \/ SocketEnds \/ SetReadOnlyMode
           \/ Typed \/ TapKey \/ ToggleCtrl \/ StartPaste \/ PasteArrives
    PROVE  PhoneInv'
<1> DEFINE t == terminal
<1>1. /\ t = [session |-> t.session, socket |-> t.socket,
              ctrlPending |-> t.ctrlPending, tokens |-> t.tokens]
      /\ t.ctrlPending \in BOOLEAN /\ ctrlActive = t.ctrlPending
      /\ t.tokens \in Nat /\ pastes \in Int
      /\ t.socket \in {NoWhere, t.session}
    BY DEF PhoneInv, TerminalTypes, TerminalIsOfPane, InputIsAsShown, CtrlIsArmedAsShown
<1>2. t = NoTerminal => t.tokens = 0 /\ t.socket = NoWhere /\ t.ctrlPending = FALSE
    BY DEF NoTerminal, NewTerminal
<1>3. SendInput(t.socket, "shown") => sentNow'.to = NoWhere \/ (sentNow'.to = t.session /\ ~readOnly)
    BY <1>1 DEF SendInput, CanSendTerminalInput, Quiet
<1>4. Quiet => sentNow'.to = NoWhere
    BY DEF Quiet
<1>5. CASE TerminalConnects
    <2>1. /\ t # NoTerminal /\ terminal' = [t EXCEPT !.socket = NoWhere, !.tokens = @ + 1]
          /\ Quiet /\ UNCHANGED <<viewVars, readOnly, ctrlActive, pastes, leftTerminals>>
        BY <1>5 DEF TerminalConnects
    <2> HIDE DEF t
    <2> DEFINE one == t.tokens + 1
    <2>2. one \in Nat
        BY <1>1
    <2>3. terminal' = [session |-> t.session, socket |-> NoWhere,
                       ctrlPending |-> t.ctrlPending, tokens |-> one]
        BY <1>1, <2>1
    <2> HIDE DEF one
    <2> USE DEF t
    <2> QED
        BY <1>1, <1>4, <2>1, <2>2, <2>3, TerminalStep
<1>6. CASE SocketIsMade
    <2>1. /\ t.tokens > 0 /\ terminal' = [t EXCEPT !.socket = t.session, !.tokens = @ - 1]
          /\ Quiet /\ UNCHANGED <<viewVars, readOnly, ctrlActive, pastes, leftTerminals>>
        BY <1>6 DEF SocketIsMade
    <2> HIDE DEF t
    <2> DEFINE fewer == t.tokens - 1
    <2>2. fewer \in Nat /\ t # NoTerminal
        <3>1. t.tokens > 0 /\ t.tokens \in Nat
            BY <1>1, <2>1
        <3> QED
            BY <1>2, <3>1
    <2>3. terminal' = [session |-> t.session, socket |-> t.session,
                       ctrlPending |-> t.ctrlPending, tokens |-> fewer]
        BY <1>1, <2>1
    <2> HIDE DEF fewer
    <2> USE DEF t
    <2> QED
        BY <1>1, <1>4, <2>1, <2>2, <2>3, TerminalStep
<1>7. CASE TokenFails
    <2>1. /\ t.tokens > 0 /\ terminal' = [t EXCEPT !.tokens = @ - 1]
          /\ Quiet /\ UNCHANGED <<viewVars, readOnly, ctrlActive, pastes, leftTerminals>>
        BY <1>7 DEF TokenFails
    <2> HIDE DEF t
    <2> DEFINE fewer == t.tokens - 1
    <2>2. fewer \in Nat /\ t # NoTerminal
        <3>1. t.tokens > 0 /\ t.tokens \in Nat
            BY <1>1, <2>1
        <3> QED
            BY <1>2, <3>1
    <2>3. terminal' = [session |-> t.session, socket |-> t.socket,
                       ctrlPending |-> t.ctrlPending, tokens |-> fewer]
        BY <1>1, <2>1
    <2> HIDE DEF fewer
    <2> USE DEF t
    <2> QED
        BY <1>1, <1>4, <2>1, <2>2, <2>3, TerminalStep
<1>8. CASE SocketEnds
    <2>1. /\ t.socket # NoWhere /\ terminal' = [t EXCEPT !.socket = NoWhere]
          /\ Quiet /\ UNCHANGED <<viewVars, readOnly, ctrlActive, pastes, leftTerminals>>
        BY <1>8 DEF SocketEnds
    <2> HIDE DEF t
    <2>2. terminal' = [session |-> t.session, socket |-> NoWhere,
                       ctrlPending |-> t.ctrlPending, tokens |-> t.tokens]
          /\ t # NoTerminal
        BY <1>1, <1>2, <2>1
    <2> USE DEF t
    <2> QED
        BY <1>1, <1>4, <2>1, <2>2, TerminalStep
<1>9. CASE SetReadOnlyMode \/ StartPaste
    <2>1. /\ terminal' = t /\ ctrlActive' = ctrlActive /\ Quiet /\ pastes' \in Int
          /\ UNCHANGED <<viewVars, leftTerminals>>
        BY <1>1, <1>9 DEF SetReadOnlyMode, StartPaste
    <2> QED
        BY <1>1, <1>4, <2>1, TerminalStep
<1>10. CASE PasteArrives
    <2>1. /\ terminal' = t /\ ctrlActive' = ctrlActive /\ readOnly' = readOnly /\ pastes' \in Int
          /\ UNCHANGED <<viewVars, leftTerminals>> /\ SendInput(t.socket, "shown")
        BY <1>1, <1>10 DEF PasteArrives
    <2> QED
        BY <1>1, <1>3, <2>1, TerminalStep
<1>11. CASE Typed
    <2>1. /\ t # NoTerminal /\ readOnly' = readOnly /\ SendInput(t.socket, "shown")
          /\ terminal' = [t EXCEPT !.ctrlPending = FALSE]
          /\ ctrlActive' = (ctrlActive /\ ~t.ctrlPending)
          /\ UNCHANGED <<viewVars, pastes, leftTerminals>>
        BY <1>11 DEF Typed
    <2>2. ctrlActive' = FALSE
        BY <1>1, <2>1
    <2> HIDE DEF t
    <2>3. terminal' = [session |-> t.session, socket |-> t.socket,
                       ctrlPending |-> FALSE, tokens |-> t.tokens]
        BY <1>1, <2>1
    <2> USE DEF t
    <2> QED
        BY <1>1, <1>3, <2>1, <2>2, <2>3, TerminalStep
<1>12. CASE TapKey
    <2>1. /\ t # NoTerminal /\ readOnly' = readOnly /\ SendInput(t.socket, "shown")
          /\ terminal' = [t EXCEPT !.ctrlPending = @ /\ ~ctrlActive]
          /\ ctrlActive' = FALSE /\ UNCHANGED <<viewVars, pastes, leftTerminals>>
        BY <1>12 DEF TapKey
    <2>2. (t.ctrlPending /\ ~ctrlActive) = FALSE
        BY <1>1
    <2> HIDE DEF t
    <2>3. terminal' = [session |-> t.session, socket |-> t.socket,
                       ctrlPending |-> FALSE, tokens |-> t.tokens]
        BY <1>1, <2>1, <2>2
    <2> USE DEF t
    <2> QED
        BY <1>1, <1>3, <2>1, <2>3, TerminalStep
<1>13. CASE ToggleCtrl
    <2>1. /\ t # NoTerminal /\ Quiet
          /\ terminal' = [t EXCEPT !.ctrlPending = ctrlActive']
          /\ ctrlActive' = ~ctrlActive /\ UNCHANGED <<viewVars, pastes, leftTerminals>>
        BY <1>13 DEF ToggleCtrl
    <2>2. ctrlActive' \in BOOLEAN
        BY <1>1, <2>1
    <2> HIDE DEF t
    <2>3. terminal' = [session |-> t.session, socket |-> t.socket,
                       ctrlPending |-> ctrlActive', tokens |-> t.tokens]
        BY <1>1, <2>1
    <2> USE DEF t
    <2> QED
        BY <1>1, <1>4, <2>1, <2>2, <2>3, TerminalStep
<1> QED
    BY <1>5, <1>6, <1>7, <1>8, <1>9, <1>10, <1>11, <1>12, <1>13

\* A terminal that was left sends only if it was fetching a token then.
LEMMA LeftSends ==
    ASSUME NEW goal, NEW fetching \in BOOLEAN, ~fetching => goal = NoWhere,
           SendInput(goal, IF fetching THEN "leftFetching" ELSE "left")
    PROVE  sentNow'.to # NoWhere => ~readOnly /\ sentNow'.by = "leftFetching"
<1>1. CASE fetching = TRUE
    BY <1>1 DEF SendInput, CanSendTerminalInput, Quiet
<1>2. CASE fetching = FALSE
    BY <1>2 DEF SendInput, CanSendTerminalInput, Quiet
<1> QED
    BY <1>1, <1>2

\* A step of a terminal that was left.
LEMMA LeftStep ==
    ASSUME PhoneInv, NEW i \in DOMAIN leftTerminals,
           LeftSocketIsMade(i) \/ LeftTokenFails(i) \/ LeftSocketEnds(i) \/ LeftPasteArrives(i)
    PROVE  PhoneInv'
<1> DEFINE l == leftTerminals[i]
<1>1. PICK names : leftTerminals \in Seq(CutTerminals(names))
    BY DEF PhoneInv, LeftAreCut
<1> DEFINE more == names \cup {NoWhere, l.session, ShownNow}
           with(terminalLeft) == [leftTerminals EXCEPT ![i] = terminalLeft]
<1>2. leftTerminals \in Seq(CutTerminals(more))
    BY <1>1, MoreNames
<1>3. i \in 1 .. Len(leftTerminals) /\ l \in CutTerminals(more)
    BY <1>2
<1>4. /\ l = [session |-> l.session, socket |-> l.socket, tokens |-> l.tokens,
              pastes |-> l.pastes, fetching |-> l.fetching]
      /\ l.session \in more /\ l.socket \in more /\ l.tokens \in Nat /\ l.pastes \in Int
      /\ l.fetching \in BOOLEAN
      /\ ~l.fetching => l.tokens = 0 /\ l.socket = NoWhere
    BY <1>3 DEF CutTerminals
<1>5. \A terminalLeft \in CutTerminals(more) : with(terminalLeft) \in Seq(CutTerminals(more))
    BY <1>2, <1>3
<1>6. /\ UNCHANGED <<viewVars, readOnly, terminal, ctrlActive, pastes>>
      /\ leftTerminals' \in Seq(CutTerminals(more))
      /\ sentNow'.to # NoWhere => ~readOnly /\ sentNow'.by = "leftFetching"
    <2>1. CASE LeftSocketIsMade(i)
        <3>1. /\ l.tokens > 0 /\ Quiet /\ UNCHANGED <<viewVars, readOnly, terminal, ctrlActive, pastes>>
              /\ \E session \in {l.session, ShownNow} \ {Vacant} :
                    leftTerminals' = [leftTerminals EXCEPT ![i].socket = session, ![i].tokens = @ - 1]
            BY <2>1 DEF LeftSocketIsMade
        <3>2. PICK session \in {l.session, ShownNow} \ {Vacant} :
                    leftTerminals' = [leftTerminals EXCEPT ![i].socket = session, ![i].tokens = @ - 1]
            BY <3>1
        <3>3. leftTerminals' = with([l EXCEPT !.socket = session, !.tokens = @ - 1])
            BY <1>2, <1>3, <3>2
        <3>4. session \in more
            OBVIOUS
        <3> HIDE DEF l, more
        <3>5. [l EXCEPT !.socket = session, !.tokens = @ - 1] \in CutTerminals(more)
            <4> DEFINE fewer == l.tokens - 1
            <4>1. fewer \in Nat /\ l.fetching = TRUE
                BY <1>4, <3>1
            <4>2. [l EXCEPT !.socket = session, !.tokens = @ - 1]
                  = [session |-> l.session, socket |-> session, tokens |-> fewer,
                     pastes |-> l.pastes, fetching |-> l.fetching]
                <5> DEFINE name == l.session
                           flag == l.fetching
                           goal == l.socket
                           awaited == l.tokens
                           reads == l.pastes
                <5>1. l = [session |-> name, socket |-> goal, tokens |-> awaited,
                           pastes |-> reads, fetching |-> flag]
                    BY <1>4, <4>1
                <5> HIDE DEF flag, name, goal, awaited, reads
                <5>2. [l EXCEPT !.socket = session, !.tokens = @ - 1]
                      = [session |-> name, socket |-> session, tokens |-> awaited - 1,
                         pastes |-> reads, fetching |-> flag]
                    <6> DEFINE half == [l EXCEPT !.socket = session]
                    <6>1. half = [session |-> name, socket |-> session, tokens |-> awaited,
                                  pastes |-> reads, fetching |-> flag]
                        BY <5>1
                    <6>2. [l EXCEPT !.socket = session, !.tokens = @ - 1] = [half EXCEPT !.tokens = @ - 1]
                        OBVIOUS
                    <6> HIDE DEF half
                    <6>3. [half EXCEPT !.tokens = @ - 1]
                          = [session |-> name, socket |-> session, tokens |-> awaited - 1,
                             pastes |-> reads, fetching |-> flag]
                        BY <6>1
                    <6> QED
                        BY <6>2, <6>3
                <5> QED
                    BY <5>2 DEF flag, name, awaited, reads
            <4> HIDE DEF fewer
            <4> QED
                BY <1>4, <3>4, <4>1, <4>2 DEF CutTerminals
        <3> QED
            BY <1>5, <3>1, <3>3, <3>5 DEF Quiet
    <2>2. CASE LeftTokenFails(i)
        <3>1. /\ l.tokens > 0 /\ Quiet /\ UNCHANGED <<viewVars, readOnly, terminal, ctrlActive, pastes>>
              /\ leftTerminals' = [leftTerminals EXCEPT ![i].tokens = @ - 1]
            BY <2>2 DEF LeftTokenFails
        <3>2. leftTerminals' = with([l EXCEPT !.tokens = @ - 1])
            BY <1>2, <1>3, <3>1
        <3> HIDE DEF l, more
        <3>3. [l EXCEPT !.tokens = @ - 1] \in CutTerminals(more)
            BY <1>4, <3>1 DEF CutTerminals
        <3> QED
            BY <1>5, <3>1, <3>2, <3>3 DEF Quiet
    <2>3. CASE LeftSocketEnds(i)
        <3>1. /\ Quiet /\ UNCHANGED <<viewVars, readOnly, terminal, ctrlActive, pastes>>
              /\ leftTerminals' = [leftTerminals EXCEPT ![i].socket = NoWhere]
            BY <2>3 DEF LeftSocketEnds
        <3>2. leftTerminals' = with([l EXCEPT !.socket = NoWhere])
            BY <1>2, <1>3, <3>1
        <3>3. NoWhere \in more
            OBVIOUS
        <3> HIDE DEF l, more
        <3>4. [l EXCEPT !.socket = NoWhere] \in CutTerminals(more)
            BY <1>4, <3>3 DEF CutTerminals
        <3> QED
            BY <1>5, <3>1, <3>2, <3>4 DEF Quiet
    <2>4. CASE LeftPasteArrives(i)
        <3>1. /\ UNCHANGED <<viewVars, readOnly, terminal, ctrlActive, pastes>>
              /\ leftTerminals' = IF l.pastes = 1 THEN RemoveAt(leftTerminals, i)
                                  ELSE [leftTerminals EXCEPT ![i].pastes = @ - 1]
              /\ SendInput(l.socket, IF l.fetching THEN "leftFetching" ELSE "left")
            BY <2>4 DEF LeftPasteArrives
        <3>2. leftTerminals' \in Seq(CutTerminals(more))
            <4>1. CASE l.pastes = 1
                BY <1>2, <1>3, <3>1, <4>1, RemoveFacts
            <4>2. CASE l.pastes # 1
                <5>1. leftTerminals' = with([l EXCEPT !.pastes = @ - 1])
                    BY <1>2, <1>3, <3>1, <4>2
                <5> HIDE DEF l, more
                <5>2. [l EXCEPT !.pastes = @ - 1] \in CutTerminals(more)
                    BY <1>4 DEF CutTerminals
                <5> QED
                    BY <1>5, <5>1, <5>2
            <4> QED
                BY <4>1, <4>2
        <3>3. sentNow'.to # NoWhere => ~readOnly /\ sentNow'.by = "leftFetching"
            BY <1>4, <3>1, LeftSends
        <3> QED
            BY <3>1, <3>2, <3>3
    <2> QED
        BY <2>1, <2>2, <2>3, <2>4
<1>7. ShownNow' = ShownNow
    BY <1>6 DEF ShownNow, viewVars
<1>8. TerminalTypes' /\ TerminalIsOfPane'
    BY <1>6, <1>7 DEF PhoneInv, TerminalTypes, TerminalIsOfPane, NoTerminal, NewTerminal
<1>9. LeftAreCut'
    BY <1>6 DEF LeftAreCut
<1>10. InputIsAsShown'
    BY <1>6, <1>7 DEF PhoneInv, InputIsAsShown, CtrlIsArmedAsShown, InputGoesToWhatIsShown
<1> QED
    BY <1>8, <1>9, <1>10 DEF PhoneInv

\* The invariant holds in every state.
LEMMA PhoneInvHolds == MobileSpec => []PhoneInv
<1>1. MobileInit => PhoneInv
    <2>1. SUFFICES ASSUME MobileInit PROVE PhoneInv
        OBVIOUS
    <2>2. /\ minimap = TRUE /\ terminal = NoTerminal /\ ctrlActive = FALSE /\ pastes = 0
          /\ leftTerminals = <<>> /\ sentNow = [to |-> NoWhere, by |-> "shown"]
        BY <2>1 DEF MobileInit
    <2>3. ShownNow = Vacant
        BY <2>2 DEF ShownNow, InView
    <2>4. terminal = [session |-> Vacant, socket |-> NoWhere, ctrlPending |-> FALSE, tokens |-> 0]
        BY <2>2 DEF NoTerminal, NewTerminal
    <2>5. /\ terminal.session = Vacant /\ terminal.socket = NoWhere
          /\ terminal.ctrlPending = FALSE /\ terminal.tokens = 0
        BY <2>4
    <2>6. TerminalTypes
        BY <2>2, <2>4, <2>5 DEF TerminalTypes
    <2>7. TerminalIsOfPane
        BY <2>2, <2>3, <2>5 DEF TerminalIsOfPane
    <2>8. LeftAreCut
        BY <2>2 DEF LeftAreCut
    <2>9. InputIsAsShown
        BY <2>2, <2>5 DEF InputIsAsShown, CtrlIsArmedAsShown, InputGoesToWhatIsShown
    <2> QED
        BY <2>6, <2>7, <2>8, <2>9 DEF PhoneInv
<1>2. PhoneInv /\ [MobileNext]_phoneVars => PhoneInv'
    <2>1. ASSUME PhoneInv, MobileNext PROVE PhoneInv'
        <3>1. \/ Render
              \/ TerminalConnects \/ SocketIsMade \/ TokenFails \/ SocketEnds \/ SetReadOnlyMode
              \/ Typed \/ TapKey \/ ToggleCtrl \/ StartPaste \/ PasteArrives
              \/ \E i \in DOMAIN leftTerminals :
                    LeftSocketIsMade(i) \/ LeftTokenFails(i) \/ LeftSocketEnds(i) \/ LeftPasteArrives(i)
            BY <2>1 DEF MobileNext, OpenMinimapPane, OnActivePane, BackToMinimap, SplitCurrentPane,
                        CloseCurrentPane, RestoreActive, ShowWorkspace, StoreActivates, AssignPane
        <3> QED
            BY <2>1, <3>1, RenderStep, OtherStep, LeftStep
    <2>2. ASSUME PhoneInv, UNCHANGED phoneVars PROVE PhoneInv'
        <3>1. ShownNow' = ShownNow
            BY <2>2 DEF phoneVars, ShownNow
        <3> QED
            BY <2>2, <3>1 DEF phoneVars, PhoneInv, TerminalTypes, TerminalIsOfPane, LeftAreCut, InputIsAsShown,
                              CtrlIsArmedAsShown, InputGoesToWhatIsShown, NoTerminal, NewTerminal
    <2> QED
        BY <2>1, <2>2
<1> QED
    BY <1>1, <1>2, PTL DEF MobileSpec

\* The bar shows Ctrl as pressed exactly while the terminal will take it, and
\* input goes to the session that is shown when it is sent, never in read-only
\* mode, across every change of the view, but for pastes of a terminal that was
\* left while it fetched a token (MobileKeyBar.svelte, Terminal.svelte).
THEOREM InputsAreAsShown == MobileSpec => []InputIsAsShown
<1>1. PhoneInv => InputIsAsShown
    BY DEF PhoneInv
<1> QED
    BY <1>1, PhoneInvHolds, PTL

-----------------------------------------------------------------------------
(***************************************************************************)
(* The panels of the settings (Preferences), for every set of settings and *)
(* of values, every finite set of lists and every number of requests.      *)
(***************************************************************************)

Fields == {"kind", "about", "value", "served"}
Values == [Setting -> SettingValue]

\* What a request is about, and what it carries.
RequestFits(r) ==
    /\ Fields \subseteq DOMAIN r
    /\ r.served = TRUE \/ r.served = FALSE
    /\ \/ r.kind = "save" /\ r.about \in Setting /\ r.value[r.about] \in SettingValue
       \/ r.kind \in {"change", "edit"} /\ r.about \in ListName
       \/ r.kind = "import" /\ r.about = Settings /\ r.value \in Values
       \/ r.kind \in {"load", "reload"} /\ r.about \in ListName \cup {Settings}

\* The server never answers with what is yet to come.
ReadFits(r, lists) ==
    r.kind \in {"load", "reload"} /\ r.served =>
        /\ r.about # Settings => r.value[r.about] \in Nat /\ r.value[r.about] <= lists[r.about]
        /\ r.about = Settings => r.value \in Values

PrefsTypes ==
    /\ kept \in Values /\ shown \in Values
    /\ listChanges \in Nat
    /\ keptList \in [ListName -> Nat] /\ shownList \in [ListName -> Nat]
    /\ \A l \in ListName : keptList[l] <= listChanges
    /\ edited \in ListName \cup {NoEntry}
    /\ loaded \subseteq ListName \cup {Settings}
    /\ excused \in BOOLEAN
    /\ \E S : requests \in Seq(S)
    /\ \A i \in DOMAIN requests : RequestFits(requests[i]) /\ ReadFits(requests[i], keptList)

\* All settings are on their way once at most, and no save is then; and each
\* setting is saved by one request at most.
OneAtATime ==
    ~excused =>
        /\ \A i, j \in DOMAIN requests :
              requests[i].about = Settings /\ requests[j].about = Settings => i = j
        /\ \A i, j \in DOMAIN requests :
              requests[i].kind = "save" => requests[j].about # Settings
        /\ \A i, j \in DOMAIN requests :
              /\ requests[i].kind = "save" /\ requests[j].kind = "save"
              /\ requests[i].about = requests[j].about
              => i = j

\* What is saved is shown; what is shown is kept, or on its way.
SettingsFit ==
    ~excused =>
        /\ \A i \in DOMAIN requests : requests[i].kind = "save" =>
              /\ shown[requests[i].about] = requests[i].value[requests[i].about]
              /\ requests[i].served => kept[requests[i].about] = requests[i].value[requests[i].about]
        /\ Settings \in loaded /\ (\A i \in DOMAIN requests : requests[i].about # Settings) =>
              \A s \in Setting :
                 \/ shown[s] = kept[s]
                 \/ \E i \in DOMAIN requests :
                       requests[i].kind = "save" /\ requests[i].about = s /\ ~requests[i].served
        /\ \A i \in DOMAIN requests : requests[i].about = Settings =>
              /\ requests[i].kind \in {"load", "reload"} /\ requests[i].served => requests[i].value = kept
              /\ requests[i].kind = "import" /\ ~requests[i].served /\ Settings \in loaded => shown = kept

\* After this request, list l will be shown as it is kept now.
Brings(r, l, change) ==
    \/ r.kind \in {"load", "reload"} /\ r.about = l /\ (r.served => r.value[l] = change)
    \/ r.kind \in {"change", "edit"} /\ r.about = l /\ r.served
    \/ r.kind = "import" /\ r.served

\* A list that is not shown as it is kept is on its way.
ListsFit ==
    ~excused =>
        \A l \in ListName :
            shownList[l] = keptList[l] \/ \E i \in DOMAIN requests : Brings(requests[i], l, keptList[l])

PrefsInv == PrefsTypes /\ OneAtATime /\ SettingsFit /\ ListsFit

-----------------------------------------------------------------------------
(* Requests in flight.                                                      *)

\* Requests with one more.
LEMMA RequestAdded ==
    ASSUME \E S : requests \in Seq(S), NEW r, requests' = Append(requests, r)
    PROVE  /\ \E S : requests' \in Seq(S)
           /\ DOMAIN requests = 1 .. Len(requests) /\ Len(requests) \in Nat
           /\ DOMAIN requests' = 1 .. Len(requests) + 1
           /\ \A j \in DOMAIN requests : requests'[j] = requests[j]
           /\ requests'[Len(requests) + 1] = r
<1>1. PICK S : requests \in Seq(S)
    OBVIOUS
<1>2. Len(requests) \in Nat /\ DOMAIN requests = 1 .. Len(requests)
    BY <1>1, LenProperties
<1>3. requests \in Seq(S \cup {r})
    BY <1>1, SeqMonotonic
<1>4. /\ requests' \in Seq(S \cup {r}) /\ Len(requests') = Len(requests) + 1
      /\ \A j \in 1 .. Len(requests) : requests'[j] = requests[j]
      /\ requests'[Len(requests) + 1] = r
    BY <1>3, AppendProperties
<1>5. DOMAIN requests' = 1 .. Len(requests) + 1
    BY <1>4, LenProperties
<1> QED
    BY <1>2, <1>4, <1>5

\* Request i is gone, and others are at the end: where each of the first n was.
EndedAt(i, more, n, at) ==
    /\ \E T : requests' \in Seq(T)
    /\ DOMAIN requests' = 1 .. n + Len(more)
    /\ \A k \in 1 .. n : at[k] \in DOMAIN requests /\ at[k] # i /\ requests'[k] = requests[at[k]]
    /\ \A k, m \in 1 .. n : at[k] = at[m] => k = m
    /\ \A j \in DOMAIN requests : j # i => \E k \in 1 .. n : at[k] = j
    /\ \A k \in 1 .. Len(more) : requests'[n + k] = more[k]

\* A request is over, and others may follow on it.
LEMMA RequestEnded ==
    ASSUME \E S : requests \in Seq(S), NEW i \in DOMAIN requests, NEW S, NEW more \in Seq(S),
           requests' = RemoveAt(requests, i) \o more
    PROVE  \E n \in Nat : \E at : EndedAt(i, more, n, at)
<1>1. PICK R : requests \in Seq(R)
    OBVIOUS
<1> DEFINE n == Len(requests) - 1
           at == [k \in 1 .. n |-> InWhole(i, k)]
           rest == RemoveAt(requests, i)
<1>2. Len(requests) \in Nat /\ DOMAIN requests = 1 .. Len(requests) /\ i \in 1 .. Len(requests)
    BY <1>1, LenProperties
<1>3. n \in Nat
    BY <1>2
<1>4. /\ rest \in Seq(R) /\ Len(rest) = n
      /\ \A k \in 1 .. n :
            InWhole(i, k) \in 1 .. Len(requests) /\ InWhole(i, k) # i /\ rest[k] = requests[InWhole(i, k)]
    BY <1>1, <1>2, RemoveAtFacts
<1>5. \A j \in 1 .. Len(requests) : j # i => \E k \in 1 .. n : InWhole(i, k) = j
    BY <1>2, BeforeFacts
<1>6. \A k, m \in 1 .. n : InWhole(i, k) = InWhole(i, m) => k = m
    BY <1>2 DEF InWhole
<1> HIDE DEF rest
<1>7. rest \in Seq(R \cup S) /\ more \in Seq(R \cup S) /\ Len(more) \in Nat
    BY <1>4, SeqMonotonic, LenProperties
<1>8. /\ rest \o more \in Seq(R \cup S) /\ Len(rest \o more) = Len(rest) + Len(more)
      /\ \A k \in 1 .. Len(rest) + Len(more) :
            (rest \o more)[k] = IF k <= Len(rest) THEN rest[k] ELSE more[k - Len(rest)]
    BY <1>7, ConcatProperties
<1>9. requests' = rest \o more
    BY DEF rest
<1> HIDE DEF n
<1>10. /\ requests' \in Seq(R \cup S) /\ DOMAIN requests' = 1 .. n + Len(more)
       /\ \A k \in 1 .. n : requests'[k] = rest[k]
       /\ \A k \in 1 .. Len(more) : requests'[n + k] = more[k]
    <2>1. requests' \in Seq(R \cup S) /\ DOMAIN requests' = 1 .. n + Len(more)
        BY <1>4, <1>8, <1>9, LenProperties
    <2>2. \A k \in 1 .. n : requests'[k] = rest[k]
        BY <1>3, <1>4, <1>7, <1>8, <1>9
    <2>3. ASSUME NEW k \in 1 .. Len(more)
          PROVE  requests'[n + k] = more[k]
        <3>1. n + k \in 1 .. n + Len(more) /\ ~(n + k <= n) /\ (n + k) - n = k
            BY <1>3, <1>7
        <3> QED
            BY <1>4, <1>8, <1>9, <3>1
    <2> QED
        BY <2>1, <2>2, <2>3
<1>11. /\ \A k \in 1 .. n :
             at[k] \in DOMAIN requests /\ at[k] # i /\ requests'[k] = requests[at[k]]
       /\ \A k, m \in 1 .. n : at[k] = at[m] => k = m
       /\ \A j \in DOMAIN requests : j # i => \E k \in 1 .. n : at[k] = j
    BY <1>2, <1>4, <1>5, <1>6, <1>10
<1>12. \E T : requests' \in Seq(T)
    BY <1>10
<1> HIDE DEF at
<1>13. EndedAt(i, more, n, at)
    BY <1>10, <1>11, <1>12 DEF EndedAt
<1> QED
    BY <1>3, <1>13

-----------------------------------------------------------------------------
(* Steps of the user.                                                       *)

\* Names are told apart.
LEMMA AboutFacts ==
    /\ Settings \notin ListName /\ Settings \notin Setting /\ NoEntry \notin ListName
    /\ IsFiniteSet(ListName) /\ ReadOnlyDefault \in Setting /\ FirstValue \in SettingValue
BY PreferencesAssumption DEF Settings, NoEntry

\* What a request that was asked for adds.
LEMMA AskFacts ==
    ASSUME PrefsInv, NEW kind, NEW about, NEW value, Ask(kind, about, value),
           RequestFits(Sending(kind, about, value)),
           shown' \in Values, edited' \in ListName \cup {NoEntry}, excused' \in BOOLEAN
    PROVE  /\ PrefsTypes'
           /\ \A j \in DOMAIN requests : j \in DOMAIN requests' /\ requests'[j] = requests[j]
           /\ Len(requests) + 1 \in DOMAIN requests' /\ Len(requests) + 1 \notin DOMAIN requests
           /\ \A j \in DOMAIN requests' : j \in DOMAIN requests \/ j = Len(requests) + 1
           /\ requests'[Len(requests) + 1] = Sending(kind, about, value)
<1> DEFINE new == Sending(kind, about, value)
<1>1. PrefsTypes
    BY DEF PrefsInv
<1>2. /\ requests' = Append(requests, new)
      /\ UNCHANGED <<kept, keptList, listChanges, shownList, loaded>>
    BY DEF Ask, serverPrefs
<1>3. new.served = FALSE /\ RequestFits(new)
    BY DEF Sending
<1> HIDE DEF new
<1>4. /\ \E S : requests' \in Seq(S)
      /\ DOMAIN requests = 1 .. Len(requests) /\ Len(requests) \in Nat
      /\ DOMAIN requests' = 1 .. Len(requests) + 1
      /\ \A j \in DOMAIN requests : requests'[j] = requests[j]
      /\ requests'[Len(requests) + 1] = new
    BY <1>1, <1>2, RequestAdded DEF PrefsTypes
<1>5. /\ \A j \in DOMAIN requests : j \in DOMAIN requests'
      /\ Len(requests) + 1 \in DOMAIN requests' /\ Len(requests) + 1 \notin DOMAIN requests
      /\ \A j \in DOMAIN requests' : j \in DOMAIN requests \/ j = Len(requests) + 1
    BY <1>4
<1>6. ASSUME NEW j \in DOMAIN requests'
      PROVE  RequestFits(requests'[j]) /\ ReadFits(requests'[j], keptList)
    <2>1. CASE j \in DOMAIN requests
        BY <1>1, <1>4, <2>1 DEF PrefsTypes
    <2>2. CASE j = Len(requests) + 1
        BY <1>3, <1>4, <2>2 DEF ReadFits
    <2> QED
        BY <1>5, <2>1, <2>2
<1>7. \A j \in DOMAIN requests' : (RequestFits(requests[j]) /\ ReadFits(requests[j], keptList))'
    BY <1>2, <1>6 DEF RequestFits, ReadFits
<1>8. PrefsTypes'
    BY <1>1, <1>2, <1>4, <1>7 DEF PrefsTypes
<1> QED
    BY <1>4, <1>5, <1>8 DEF new

\* A list is loaded, changed or edited.
LEMMA AskListStep ==
    ASSUME PrefsInv, NEW list \in ListName, LoadList(list) \/ ChangeList(list)
                                            \/ (SaveEdit /\ edited = list)
    PROVE  PrefsInv'
<1>1. PICK kind \in {"load", "change", "edit"} : Ask(kind, list, <<>>)
    BY DEF LoadList, ChangeList, SaveEdit
<1> DEFINE new == Sending(kind, list, <<>>)
           n == Len(requests) + 1
<1>2. UNCHANGED <<kept, keptList, shown, shownList, loaded, edited, excused>>
    BY <1>1 DEF Ask, serverPrefs, LoadList, ChangeList, SaveEdit
<1>3. /\ RequestFits(new) /\ new.about # Settings /\ new.kind \notin {"save", "import"}
    BY AboutFacts DEF Sending, RequestFits, Fields
<1>4. shown' \in Values /\ edited' \in ListName \cup {NoEntry} /\ excused' \in BOOLEAN
    BY <1>2 DEF PrefsInv, PrefsTypes
<1>5. /\ PrefsTypes'
      /\ \A j \in DOMAIN requests : j \in DOMAIN requests' /\ requests'[j] = requests[j]
      /\ n \in DOMAIN requests' /\ n \notin DOMAIN requests
      /\ \A j \in DOMAIN requests' : j \in DOMAIN requests \/ j = n
      /\ requests'[n] = new
    BY <1>1, <1>3, <1>4, AskFacts
<1> HIDE DEF new, n
<1>6. OneAtATime'
    BY <1>2, <1>3, <1>5 DEF PrefsInv, OneAtATime
<1>7. SettingsFit'
    BY <1>2, <1>3, <1>5 DEF PrefsInv, SettingsFit
<1>8. ListsFit'
    BY <1>2, <1>5 DEF PrefsInv, ListsFit, Brings
<1> QED
    BY <1>5, <1>6, <1>7, <1>8 DEF PrefsInv

\* A setting is saved.
LEMMA SaveStep ==
    ASSUME PrefsInv, NEW setting \in Setting, NEW value \in SettingValue, SaveSetting(setting, value)
    PROVE  PrefsInv'
<1> DEFINE one == [s \in {setting} |-> value]
           new == Sending("save", setting, one)
           n == Len(requests) + 1
<1>1. /\ Ask("save", setting, one)
      /\ shown' = [shown EXCEPT ![setting] = value]
      /\ excused' = (excused \/ InFlight("save", setting) \/ Loading)
      /\ UNCHANGED <<kept, keptList, shownList, loaded, edited>>
    BY DEF SaveSetting, Ask, serverPrefs
<1>2. one[setting] = value
    OBVIOUS
<1> HIDE DEF one
<1>3. /\ RequestFits(new) /\ new.kind = "save" /\ new.about = setting
      /\ new.value[setting] = value /\ new.served = FALSE
    BY <1>2 DEF Sending, RequestFits, Fields
<1>4. PrefsTypes
    BY DEF PrefsInv
<1>5. shown' \in Values /\ edited' \in ListName \cup {NoEntry} /\ excused' \in BOOLEAN
    <2>1. shown' \in Values
        BY <1>1, <1>4 DEF PrefsTypes, Values
    <2>2. excused' \in BOOLEAN
        BY <1>1
    <2> QED
        BY <1>1, <1>4, <2>1, <2>2 DEF PrefsTypes
<1>6. /\ PrefsTypes'
      /\ \A j \in DOMAIN requests : j \in DOMAIN requests' /\ requests'[j] = requests[j]
      /\ n \in DOMAIN requests' /\ n \notin DOMAIN requests
      /\ \A j \in DOMAIN requests' : j \in DOMAIN requests \/ j = n
      /\ requests'[n] = new
    BY <1>1, <1>3, <1>5, AskFacts
<1> HIDE DEF new, n
<1>7. ASSUME ~excused'
      PROVE  /\ ~excused
             /\ \A j \in DOMAIN requests : requests[j].about # Settings
             /\ \A j \in DOMAIN requests : requests[j].kind = "save" => requests[j].about # setting
    <2>1. ~excused /\ ~InFlight("save", setting) /\ ~Loading
        BY <1>1, <1>7
    <2>2. ASSUME NEW j \in DOMAIN requests, requests[j].about = Settings
          PROVE  FALSE
        <3>1. RequestFits(requests[j])
            BY <1>4 DEF PrefsTypes
        <3>2. requests[j].kind # "save"
            BY <2>2, <3>1, AboutFacts DEF RequestFits
        <3> QED
            BY <2>1, <2>2, <3>1, <3>2, AboutFacts DEF RequestFits, Loading, InFlight, Importing
    <2> QED
        BY <2>1, <2>2 DEF InFlight
<1>8. OneAtATime'
    BY <1>3, <1>6, <1>7, AboutFacts DEF PrefsInv, OneAtATime
<1>9. SettingsFit'
    <2>1. /\ shown'[setting] = value
          /\ \A s \in Setting : s # setting => shown'[s] = shown[s]
        BY <1>1, <1>4 DEF PrefsTypes, Values
    <2>2. ASSUME ~excused', NEW j \in DOMAIN requests', requests'[j].kind = "save"
          PROVE  /\ shown'[requests'[j].about] = requests'[j].value[requests'[j].about]
                 /\ requests'[j].served => kept[requests'[j].about] = requests'[j].value[requests'[j].about]
        <3>1. CASE j = n
            BY <1>3, <1>6, <2>1, <3>1
        <3>2. CASE j \in DOMAIN requests
            <4>1. requests'[j] = requests[j] /\ requests[j].about # setting
                BY <1>6, <1>7, <2>2, <3>2
            <4>2. requests[j].about \in Setting
                BY <1>4, <2>2, <3>2, <4>1 DEF PrefsTypes, RequestFits
            <4>3. shown[requests[j].about] = requests[j].value[requests[j].about]
                BY <1>7, <2>2, <3>2, <4>1 DEF PrefsInv, SettingsFit
            <4>4. requests[j].served => kept[requests[j].about] = requests[j].value[requests[j].about]
                BY <1>7, <2>2, <3>2, <4>1 DEF PrefsInv, SettingsFit
            <4> QED
                BY <2>1, <4>1, <4>2, <4>3, <4>4
        <3> QED
            BY <1>6, <3>1, <3>2
    <2>3. ASSUME ~excused', Settings \in loaded, NEW s \in Setting
          PROVE  \/ shown'[s] = kept[s]
                 \/ \E i \in DOMAIN requests' :
                       requests'[i].kind = "save" /\ requests'[i].about = s /\ ~requests'[i].served
        <3>1. CASE s = setting
            BY <1>3, <1>6, <3>1
        <3>2. CASE s # setting
            BY <1>6, <1>7, <2>1, <2>3, <3>2 DEF PrefsInv, SettingsFit
        <3> QED
            BY <3>1, <3>2
    <2>4. ASSUME ~excused', NEW j \in DOMAIN requests'
          PROVE  requests'[j].about # Settings
        BY <1>3, <1>6, <1>7, <2>4, AboutFacts
    <2> QED
        BY <1>1, <2>2, <2>3, <2>4 DEF SettingsFit
<1>10. ListsFit'
    BY <1>1, <1>6, <1>7 DEF PrefsInv, ListsFit, Brings
<1> QED
    BY <1>6, <1>8, <1>9, <1>10 DEF PrefsInv

\* Settings are imported.
LEMMA ImportStep ==
    ASSUME PrefsInv, NEW values \in Values, ImportSettingsFile(values)
    PROVE  PrefsInv'
<1> DEFINE new == Sending("import", Settings, values)
           n == Len(requests) + 1
<1>1. /\ Ask("import", Settings, values) /\ ~Importing
      /\ excused' = (excused \/ InFlight("load", Settings)
                     \/ \E i \in DOMAIN requests : requests[i].kind = "save")
      /\ UNCHANGED <<kept, keptList, shown, shownList, loaded, edited>>
    BY DEF ImportSettingsFile, Ask, serverPrefs
<1>3. /\ RequestFits(new) /\ new.kind = "import" /\ new.about = Settings /\ new.served = FALSE
    BY DEF Sending, RequestFits, Fields
<1>4. PrefsTypes
    BY DEF PrefsInv
<1>5. shown' \in Values /\ edited' \in ListName \cup {NoEntry} /\ excused' \in BOOLEAN
    <2>1. excused' \in BOOLEAN
        BY <1>1
    <2> QED
        BY <1>1, <1>4, <2>1 DEF PrefsTypes
<1>6. /\ PrefsTypes'
      /\ \A j \in DOMAIN requests : j \in DOMAIN requests' /\ requests'[j] = requests[j]
      /\ n \in DOMAIN requests' /\ n \notin DOMAIN requests
      /\ \A j \in DOMAIN requests' : j \in DOMAIN requests \/ j = n
      /\ requests'[n] = new
    BY <1>1, <1>3, <1>5, AskFacts
<1> HIDE DEF new, n
<1>7. ASSUME ~excused'
      PROVE  /\ ~excused
             /\ \A j \in DOMAIN requests : requests[j].about # Settings
             /\ \A j \in DOMAIN requests : requests[j].kind # "save"
    <2>1. /\ ~excused /\ ~InFlight("load", Settings)
          /\ \A j \in DOMAIN requests : requests[j].kind # "save"
        BY <1>1, <1>7
    <2>2. ASSUME NEW j \in DOMAIN requests, requests[j].about = Settings
          PROVE  FALSE
        <3>1. RequestFits(requests[j])
            BY <1>4 DEF PrefsTypes
        <3> QED
            BY <1>1, <2>1, <2>2, <3>1, AboutFacts DEF RequestFits, InFlight, Importing
    <2> QED
        BY <2>1, <2>2
<1>8. OneAtATime'
    BY <1>3, <1>6, <1>7, AboutFacts DEF PrefsInv, OneAtATime
<1>9. ASSUME ~excused', Settings \in loaded
      PROVE  shown = kept
    <2>1. \A s \in Setting : shown[s] = kept[s]
        BY <1>7, <1>9 DEF PrefsInv, SettingsFit
    <2>2. shown \in [Setting -> SettingValue] /\ kept \in [Setting -> SettingValue]
        BY <1>4 DEF PrefsTypes, Values
    <2> QED
        BY <2>1, <2>2
<1>10. SettingsFit'
    BY <1>1, <1>3, <1>6, <1>7, <1>9 DEF PrefsInv, SettingsFit
<1>11. ListsFit'
    BY <1>1, <1>6, <1>7 DEF PrefsInv, ListsFit, Brings
<1> QED
    BY <1>6, <1>8, <1>10, <1>11 DEF PrefsInv

\* The mode of the terminals, and the beginning or the end of an edit.
LEMMA ScreenStep ==
    ASSUME PrefsInv, UNCHANGED <<kept, keptList, listChanges, shown, shownList, requests, loaded, excused>>,
           edited' \in ListName \cup {NoEntry}
    PROVE  PrefsInv'
<1>1. PrefsTypes'
    BY DEF PrefsInv, PrefsTypes, RequestFits, ReadFits
<1>2. OneAtATime' /\ SettingsFit'
    BY DEF PrefsInv, OneAtATime, SettingsFit
<1>3. ListsFit'
    BY DEF PrefsInv, ListsFit, Brings
<1> QED
    BY <1>1, <1>2, <1>3 DEF PrefsInv

-----------------------------------------------------------------------------
(* Steps of the server.                                                     *)

\* Requests of which one has been served, and carries another value perhaps.
LEMMA ServedFacts ==
    ASSUME PrefsTypes, NEW i \in DOMAIN requests, NEW value,
           requests' = [requests EXCEPT ![i].served = TRUE, ![i].value = value]
    PROVE  /\ \E S : requests' \in Seq(S)
           /\ DOMAIN requests' = DOMAIN requests
           /\ \A j \in DOMAIN requests : j # i => requests'[j] = requests[j]
           /\ Fields \subseteq DOMAIN requests'[i]
           /\ requests'[i].kind = requests[i].kind /\ requests'[i].about = requests[i].about
           /\ requests'[i].value = value
           /\ requests'[i].served = TRUE
<1> DEFINE old == requests[i]
           new == [old EXCEPT !.served = TRUE, !.value = value]
<1>1. requests' = [requests EXCEPT ![i] = new]
    OBVIOUS
<1>2. Fields \subseteq DOMAIN old
    BY DEF PrefsTypes, RequestFits
<1>3. /\ Fields \subseteq DOMAIN new
      /\ new.kind = old.kind /\ new.about = old.about /\ new.value = value /\ new.served = TRUE
    <2> HIDE DEF old
    <2> QED
        BY <1>2 DEF Fields
<1> HIDE DEF new
<1>4. PICK S : requests \in Seq(S)
    BY DEF PrefsTypes
<1>5. requests' \in Seq(S \cup {new}) /\ DOMAIN requests' = DOMAIN requests
    <2>1. requests \in Seq(S \cup {new}) /\ i \in 1 .. Len(requests) /\ DOMAIN requests = 1 .. Len(requests)
        BY <1>4, SeqMonotonic, LenProperties
    <2> DEFINE all == S \cup {new}
    <2>2. requests \in Seq(all) /\ i \in 1 .. Len(requests) /\ new \in all
        BY <2>1
    <2> HIDE DEF all
    <2>3. [requests EXCEPT ![i] = new] \in Seq(all)
        BY <2>2, ExceptSeq
    <2> QED
        BY <1>1, <2>3 DEF all
<1>6. requests'[i] = new /\ \A j \in DOMAIN requests : j # i => requests'[j] = requests[j]
    BY <1>1
<1> QED
    BY <1>3, <1>5, <1>6

\* What the server keeps after a request.
LEMMA ServeKeeps ==
    ASSUME PrefsTypes, NEW i \in DOMAIN requests, Serve(i)
    PROVE  /\ kept' \in Values
           /\ listChanges' \in Nat /\ keptList' \in [ListName -> Nat]
           /\ \A l \in ListName : keptList[l] <= keptList'[l] /\ keptList'[l] <= listChanges'
           /\ \A l \in ListName : keptList'[l] # keptList[l] =>
                 \/ requests[i].kind \in {"change", "edit"} /\ requests[i].about = l
                 \/ requests[i].kind = "import"
           /\ requests[i].kind = "save" =>
                 kept' = [kept EXCEPT ![requests[i].about] = requests[i].value[requests[i].about]]
           /\ requests[i].kind \notin {"save", "import"} => kept' = kept
<1> DEFINE r == requests[i]
<1>1. RequestFits(r)
    BY DEF PrefsTypes
<1> HIDE DEF r
<1>2. /\ kept \in Values /\ listChanges \in Nat /\ keptList \in [ListName -> Nat]
      /\ \A l \in ListName : keptList[l] <= listChanges
    BY DEF PrefsTypes
<1>3. ASSUME NEW lists, ListChanged(lists)
      PROVE  /\ listChanges' \in Nat /\ keptList' \in [ListName -> Nat]
             /\ \A l \in ListName : keptList[l] <= keptList'[l] /\ keptList'[l] <= listChanges'
             /\ \A l \in ListName : keptList'[l] # keptList[l] => l \in lists
    <2>1. /\ listChanges' = listChanges + 1
          /\ keptList' = [l \in ListName |-> IF l \in lists THEN listChanges + 1 ELSE keptList[l]]
        BY <1>3 DEF ListChanged
    <2> QED
        BY <1>2, <2>1
<1>4. CASE r.kind = "save"
    <2>1. /\ kept' = [kept EXCEPT ![r.about] = r.value[r.about]]
          /\ UNCHANGED <<keptList, listChanges>>
        BY <1>4 DEF Serve, r
    <2>2. r.about \in Setting /\ r.value[r.about] \in SettingValue
        BY <1>1, <1>4 DEF RequestFits
    <2>3. kept' \in Values
        BY <1>2, <2>1, <2>2 DEF Values
    <2> QED
        BY <1>2, <1>4, <2>1, <2>3 DEF r
<1>5. CASE r.kind \in {"change", "edit"}
    <2>1. ListChanged({r.about}) /\ UNCHANGED kept
        BY <1>5 DEF Serve, r
    <2> QED
        BY <1>2, <1>3, <1>5, <2>1 DEF r
<1>6. CASE r.kind = "import"
    <2>1. ListChanged(ListName) /\ kept' = r.value
        BY <1>6 DEF Serve, r
    <2>2. r.value \in Values
        BY <1>1, <1>6 DEF RequestFits
    <2> QED
        BY <1>2, <1>3, <1>6, <2>1, <2>2 DEF r
<1>7. CASE r.kind \in {"load", "reload"}
    <2>1. UNCHANGED <<kept, keptList, listChanges>>
        BY <1>7 DEF Serve, serverPrefs, r
    <2> QED
        BY <1>2, <1>7, <2>1 DEF r
<1> QED
    BY <1>1, <1>4, <1>5, <1>6, <1>7 DEF RequestFits

\* What the request carries then.
LEMMA ServeCarries ==
    ASSUME PrefsTypes, NEW i \in DOMAIN requests, Serve(i)
    PROVE  /\ requests[i].served = FALSE
           /\ \E S : requests' \in Seq(S)
           /\ DOMAIN requests' = DOMAIN requests
           /\ \A j \in DOMAIN requests : j # i => requests'[j] = requests[j]
           /\ Fields \subseteq DOMAIN requests'[i] /\ requests'[i].served = TRUE
           /\ requests'[i].kind = requests[i].kind /\ requests'[i].about = requests[i].about
           /\ requests[i].kind \notin {"load", "reload"} => requests'[i].value = requests[i].value
           /\ requests[i].kind \in {"load", "reload"} /\ requests[i].about = Settings =>
                 requests'[i].value = kept
           /\ requests[i].kind \in {"load", "reload"} /\ requests[i].about # Settings =>
                 requests'[i].value[requests[i].about] = keptList[requests[i].about]
           /\ UNCHANGED <<shown, shownList, edited, loaded, excused>>
<1> DEFINE value == IF requests[i].kind \notin {"load", "reload"} THEN requests[i].value
                    ELSE IF requests[i].about = Settings THEN kept
                    ELSE [l \in {requests[i].about} |-> keptList[l]]
<1>1. requests' = [requests EXCEPT ![i].served = TRUE, ![i].value = value]
    BY DEF Serve
<1>2. /\ requests[i].kind \notin {"load", "reload"} => value = requests[i].value
      /\ requests[i].kind \in {"load", "reload"} /\ requests[i].about = Settings => value = kept
      /\ requests[i].kind \in {"load", "reload"} /\ requests[i].about # Settings =>
            value[requests[i].about] = keptList[requests[i].about]
    OBVIOUS
<1> HIDE DEF value
<1>3. /\ \E S : requests' \in Seq(S)
      /\ DOMAIN requests' = DOMAIN requests
      /\ \A j \in DOMAIN requests : j # i => requests'[j] = requests[j]
      /\ Fields \subseteq DOMAIN requests'[i]
      /\ requests'[i].kind = requests[i].kind /\ requests'[i].about = requests[i].about
      /\ requests'[i].value = value
      /\ requests'[i].served = TRUE
    BY <1>1, ServedFacts
<1>4. requests[i].served = FALSE
    BY DEF Serve, PrefsTypes, RequestFits
<1>5. UNCHANGED <<shown, shownList, edited, loaded, excused>>
    BY DEF Serve, screenPrefs
<1> QED
    BY <1>2, <1>3, <1>4, <1>5

\* A request is served.
LEMMA ServeStep ==
    ASSUME PrefsInv, NEW i \in DOMAIN requests, Serve(i)
    PROVE  PrefsInv'
<1>1. PrefsTypes
    BY DEF PrefsInv
<1> DEFINE kind == requests[i].kind
           about == requests[i].about
           new == requests'[i]
<1>2. /\ kept' \in Values
      /\ listChanges' \in Nat /\ keptList' \in [ListName -> Nat]
      /\ \A l \in ListName : keptList[l] <= keptList'[l] /\ keptList'[l] <= listChanges'
      /\ \A l \in ListName : keptList'[l] # keptList[l] =>
            (kind \in {"change", "edit"} /\ about = l) \/ kind = "import"
      /\ kind = "save" => kept' = [kept EXCEPT ![about] = requests[i].value[about]]
      /\ kind \notin {"save", "import"} => kept' = kept
    BY <1>1, ServeKeeps
<1>3. /\ requests[i].served = FALSE
      /\ \E S : requests' \in Seq(S)
      /\ DOMAIN requests' = DOMAIN requests
      /\ \A j \in DOMAIN requests : j # i => requests'[j] = requests[j]
      /\ Fields \subseteq DOMAIN new /\ new.served = TRUE
      /\ new.kind = kind /\ new.about = about
      /\ kind \notin {"load", "reload"} => new.value = requests[i].value
      /\ kind \in {"load", "reload"} /\ about = Settings => new.value = kept
      /\ kind \in {"load", "reload"} /\ about # Settings => new.value[about] = keptList[about]
      /\ UNCHANGED <<shown, shownList, edited, loaded, excused>>
    BY <1>1, ServeCarries
<1>4. RequestFits(requests[i])
    BY <1>1 DEF PrefsTypes
<1> HIDE DEF kind, about, new
<1>5. PrefsTypes'
    <2>1. RequestFits(new) /\ ReadFits(new, keptList')
        <3>1. kind \in {"load", "reload"} /\ about # Settings =>
                  /\ about \in ListName /\ keptList[about] \in Nat
                  /\ keptList[about] <= keptList'[about] /\ keptList'[about] \in Nat
            BY <1>1, <1>2, <1>4 DEF RequestFits, PrefsTypes, kind, about
        <3> QED
            <4>1. kept \in Values
                BY <1>1 DEF PrefsTypes
            <4> QED
                BY <1>3, <1>4, <3>1, <4>1 DEF RequestFits, ReadFits, kind, about
    <2>2. ASSUME NEW j \in DOMAIN requests, j # i
          PROVE  RequestFits(requests[j]) /\ ReadFits(requests[j], keptList')
        <3>1. RequestFits(requests[j]) /\ ReadFits(requests[j], keptList)
            BY <1>1 DEF PrefsTypes
        <3>2. requests[j].kind \in {"load", "reload"} /\ requests[j].about # Settings =>
                  /\ requests[j].about \in ListName
                  /\ keptList[requests[j].about] \in Nat /\ keptList'[requests[j].about] \in Nat
                  /\ keptList[requests[j].about] <= keptList'[requests[j].about]
            BY <1>1, <1>2, <3>1 DEF RequestFits, PrefsTypes
        <3> QED
            BY <3>1, <3>2 DEF ReadFits
    <2>3. \A j \in DOMAIN requests' : RequestFits(requests'[j]) /\ ReadFits(requests'[j], keptList')
        BY <1>3, <2>1, <2>2 DEF new
    <2>4. \A j \in DOMAIN requests' : (RequestFits(requests[j]) /\ ReadFits(requests[j], keptList))'
        BY <2>3 DEF RequestFits, ReadFits
    <2> QED
        BY <1>1, <1>2, <1>3, <2>4 DEF PrefsTypes
<1>6. \A j \in DOMAIN requests :
          requests'[j].kind = requests[j].kind /\ requests'[j].about = requests[j].about
    BY <1>3 DEF new, kind, about
<1>7. OneAtATime'
    BY <1>3, <1>6 DEF PrefsInv, OneAtATime
<1>8. ASSUME ~excused
      PROVE  /\ \A j \in DOMAIN requests' : requests'[j].kind = "save" =>
                   /\ shown[requests'[j].about] = requests'[j].value[requests'[j].about]
                   /\ requests'[j].served => kept'[requests'[j].about] = requests'[j].value[requests'[j].about]
             /\ Settings \in loaded /\ (\A j \in DOMAIN requests' : requests'[j].about # Settings) =>
                   \A s \in Setting :
                      \/ shown[s] = kept'[s]
                      \/ \E j \in DOMAIN requests' :
                            requests'[j].kind = "save" /\ requests'[j].about = s /\ ~requests'[j].served
             /\ \A j \in DOMAIN requests' : requests'[j].about = Settings =>
                   /\ requests'[j].kind \in {"load", "reload"} /\ requests'[j].served =>
                         requests'[j].value = kept'
                   /\ requests'[j].kind = "import" /\ ~requests'[j].served /\ Settings \in loaded =>
                         shown = kept'
    <2>1. CASE kind = "save"
        <3>1. about \in Setting /\ kept \in [Setting -> SettingValue]
            BY <1>1, <1>4, <2>1, AboutFacts DEF RequestFits, PrefsTypes, Values, kind, about
        <3>2. /\ kept'[about] = requests[i].value[about]
              /\ \A s \in Setting : s # about => kept'[s] = kept[s]
            BY <1>2, <2>1, <3>1
        <3>3. \A j \in DOMAIN requests : requests[j].about # Settings
            BY <1>8, <2>1 DEF PrefsInv, OneAtATime, kind
        <3>4. \A j \in DOMAIN requests : requests[j].kind = "save" /\ j # i =>
                  requests[j].about \in Setting /\ requests[j].about # about
            BY <1>1, <1>8, <2>1, AboutFacts DEF PrefsInv, OneAtATime, PrefsTypes, RequestFits, kind, about
        <3>5. shown[about] = requests[i].value[about]
            BY <1>8, <2>1 DEF PrefsInv, SettingsFit, kind, about
        <3>6. ASSUME NEW j \in DOMAIN requests', requests'[j].kind = "save"
              PROVE  /\ shown[requests'[j].about] = requests'[j].value[requests'[j].about]
                     /\ requests'[j].served => kept'[requests'[j].about] = requests'[j].value[requests'[j].about]
            <4>1. CASE j = i
                BY <1>3, <2>1, <3>2, <3>5, <4>1 DEF new
            <4>2. CASE j # i
                <5>1. requests'[j] = requests[j] /\ j \in DOMAIN requests
                    BY <1>3, <4>2
                <5>2. requests[j].about \in Setting /\ requests[j].about # about
                    BY <3>4, <3>6, <4>2, <5>1
                <5>3. kept'[requests[j].about] = kept[requests[j].about]
                    BY <3>2, <5>2
                <5> QED
                    BY <1>8, <3>6, <5>1, <5>3 DEF PrefsInv, SettingsFit
            <4> QED
                BY <4>1, <4>2
        <3>7. ASSUME Settings \in loaded, NEW s \in Setting
              PROVE  \/ shown[s] = kept'[s]
                     \/ \E j \in DOMAIN requests' :
                           requests'[j].kind = "save" /\ requests'[j].about = s /\ ~requests'[j].served
            <4>1. CASE s = about
                BY <3>2, <3>5, <4>1
            <4>2. CASE s # about
                <5>1. \/ shown[s] = kept[s]
                      \/ \E j \in DOMAIN requests :
                            requests[j].kind = "save" /\ requests[j].about = s /\ ~requests[j].served
                    BY <1>8, <3>3, <3>7 DEF PrefsInv, SettingsFit
                <5> QED
                    BY <1>3, <3>2, <4>2, <5>1 DEF about
            <4> QED
                BY <4>1, <4>2
        <3> QED
            BY <1>3, <1>6, <3>3, <3>6, <3>7
    <2>2. CASE kind = "import"
        <3>1. about = Settings
            BY <1>4, <2>2 DEF RequestFits, kind, about
        <3>2. \A j \in DOMAIN requests :
                  requests[j].kind # "save" /\ (j # i => requests[j].about # Settings)
            BY <1>8, <3>1 DEF PrefsInv, OneAtATime, about
        <3> QED
            BY <1>3, <1>6, <2>2, <3>1, <3>2 DEF new, kind, about
    <2>3. CASE kind \notin {"save", "import"}
        <3>1. kept' = kept
            BY <1>2, <2>3
        <3>2. \A j \in DOMAIN requests : requests[j].kind = "save" => requests'[j] = requests[j] /\ j # i
            BY <1>3, <2>3 DEF kind
        <3>3. ASSUME NEW j \in DOMAIN requests, requests[j].about = Settings
              PROVE  /\ requests'[j].kind \in {"load", "reload"} /\ requests'[j].served =>
                           requests'[j].value = kept
                     /\ requests'[j].kind = "import" /\ ~requests'[j].served /\ Settings \in loaded =>
                           shown = kept
            <4>1. CASE j = i
                BY <1>3, <2>3, <3>3, <4>1 DEF new, kind, about
            <4>2. CASE j # i
                BY <1>3, <1>8, <3>3, <4>2 DEF PrefsInv, SettingsFit
            <4> QED
                BY <4>1, <4>2
        <3>4. ASSUME Settings \in loaded, \A j \in DOMAIN requests : requests[j].about # Settings,
                     NEW s \in Setting
              PROVE  \/ shown[s] = kept[s]
                     \/ \E j \in DOMAIN requests' :
                           requests'[j].kind = "save" /\ requests'[j].about = s /\ ~requests'[j].served
            BY <1>3, <1>8, <3>2, <3>4 DEF PrefsInv, SettingsFit
        <3> QED
            BY <1>3, <1>6, <1>8, <3>1, <3>2, <3>3, <3>4 DEF PrefsInv, SettingsFit
    <2> QED
        BY <2>1, <2>2, <2>3
<1>9. SettingsFit'
    BY <1>3, <1>8 DEF SettingsFit
<1>10. ASSUME ~excused, NEW l \in ListName
       PROVE  shownList[l] = keptList'[l] \/ \E j \in DOMAIN requests' : Brings(requests'[j], l, keptList'[l])
    <2>1. CASE keptList'[l] # keptList[l]
        <3>1. Brings(new, l, keptList'[l])
            BY <1>2, <1>3, <2>1 DEF Brings
        <3> QED
            BY <1>3, <3>1 DEF new
    <2>2. CASE keptList'[l] = keptList[l]
        <3>1. \/ shownList[l] = keptList[l]
              \/ \E j \in DOMAIN requests : Brings(requests[j], l, keptList[l])
            BY <1>10 DEF PrefsInv, ListsFit
        <3>2. Brings(requests[i], l, keptList[l]) => Brings(new, l, keptList[l])
            BY <1>3, AboutFacts DEF Brings, kind, about
        <3> QED
            BY <1>3, <2>2, <3>1, <3>2 DEF new
    <2> QED
        BY <2>1, <2>2
<1>11. ListsFit'
    <2>1. ASSUME ~excused, NEW l \in ListName
          PROVE  shownList[l] = keptList'[l] \/ (\E j \in DOMAIN requests : Brings(requests[j], l, keptList[l]))'
        BY <1>10, <2>1 DEF Brings
    <2> QED
        BY <1>3, <2>1 DEF ListsFit
<1> QED
    BY <1>5, <1>7, <1>9, <1>11 DEF PrefsInv

-----------------------------------------------------------------------------
(* Steps of answers and failures.                                           *)

\* Loads that take a request's place: all settings are loaded after an import only.
AreLoads(more, r) ==
    /\ \E S : more \in Seq(S)
    /\ \A k \in 1 .. Len(more) :
          RequestFits(more[k]) /\ more[k].kind \in {"load", "reload"} /\ more[k].served = FALSE
    /\ \A k, m \in 1 .. Len(more) :
          more[k].about = Settings /\ more[m].about = Settings => k = m /\ r.kind = "import"

\* All is loaded that was changed.
LoadTheChanged(more, r) ==
    /\ r.kind \in {"change", "edit"} => \E k \in 1 .. Len(more) : more[k].about = r.about
    /\ r.kind = "import" =>
          \A l \in ListName \cup {Settings} : \E k \in 1 .. Len(more) : more[k].about = l

\* A load that has just been sent.
LEMMA LoadFits ==
    ASSUME NEW kind \in {"load", "reload"}, NEW about \in ListName \cup {Settings}
    PROVE  LET r == Sending(kind, about, <<>>) IN
               RequestFits(r) /\ r.kind = kind /\ r.about = about /\ r.served = FALSE
BY DEF Sending, RequestFits, Fields

\* The loads of all lists.
LEMMA ReloadsFacts ==
    LET more == SetToSeq({Sending("reload", l, <<>>) : l \in ListName}) IN
        /\ \E S : more \in Seq(S)
        /\ \A k \in 1 .. Len(more) : \E l \in ListName : more[k] = Sending("reload", l, <<>>)
        /\ \A l \in ListName : \E k \in 1 .. Len(more) : more[k] = Sending("reload", l, <<>>)
<1> DEFINE f == [l \in ListName |-> Sending("reload", l, <<>>)]
           Q == {f[l] : l \in ListName}
           R == {Sending("reload", l, <<>>) : l \in ListName}
<1>1. Q = R
    OBVIOUS
<1>2. IsFiniteSet(Q)
    <2>1. ListName \subseteq DOMAIN f /\ IsFiniteSet(ListName)
        BY AboutFacts
    <2> HIDE DEF f
    <2> QED
        BY <2>1, ImageIsFinite
<1>3. IsFiniteSet(R)
    BY <1>1, <1>2
<1> HIDE DEF R
<1>4. /\ SetToSeq(R) \in Seq(R) /\ Len(SetToSeq(R)) = Cardinality(R)
      /\ \A x \in R : \E k \in 1 .. Len(SetToSeq(R)) : SetToSeq(R)[k] = x
    BY <1>3, SetToSeqFacts, SetToSeqOnto
<1>5. \A k \in 1 .. Len(SetToSeq(R)) : SetToSeq(R)[k] \in R
    BY <1>4, ElementOfSeq
<1>6. \A l \in ListName : Sending("reload", l, <<>>) \in R
    BY DEF R
<1>7. \A x \in R : \E l \in ListName : x = Sending("reload", l, <<>>)
    BY DEF R
<1>8. /\ \E S : SetToSeq(R) \in Seq(S)
      /\ \A k \in 1 .. Len(SetToSeq(R)) : \E l \in ListName : SetToSeq(R)[k] = Sending("reload", l, <<>>)
      /\ \A l \in ListName : \E k \in 1 .. Len(SetToSeq(R)) : SetToSeq(R)[k] = Sending("reload", l, <<>>)
    BY <1>4, <1>5, <1>6, <1>7
<1> QED
    BY <1>8 DEF R

\* Loads(r) are such loads.
LEMMA LoadsAreLoads ==
    ASSUME NEW r, RequestFits(r)
    PROVE  AreLoads(Loads(r), r) /\ LoadTheChanged(Loads(r), r)
<1>1. CASE r.kind \in {"change", "edit"}
    <2> DEFINE one == Sending("load", r.about, <<>>)
    <2>1. r.about \in ListName
        BY <1>1 DEF RequestFits
    <2>2. RequestFits(one) /\ one.kind = "load" /\ one.about = r.about /\ one.served = FALSE
        BY <2>1, LoadFits
    <2>3. Loads(r) = <<one>>
        BY <1>1 DEF Loads
    <2> HIDE DEF one
    <2> DEFINE more == <<one>>
    <2>4. \E S : more \in Seq(S)
        <3>1. <<one>> \in Seq({one})
            OBVIOUS
        <3> QED
            BY <3>1
    <2>5. Len(more) = 1 /\ more[1] = one /\ 1 .. Len(more) = {1}
        OBVIOUS
    <2> HIDE DEF more
    <2>6. r.about # Settings /\ r.kind # "import"
        BY <1>1, <2>1, AboutFacts
    <2>7. AreLoads(more, r) /\ LoadTheChanged(more, r)
        BY <2>2, <2>4, <2>5, <2>6 DEF AreLoads, LoadTheChanged
    <2> QED
        BY <2>3, <2>7 DEF more
<1>2. CASE r.kind = "import"
    <2> DEFINE one == Sending("reload", Settings, <<>>)
               rest == SetToSeq({Sending("reload", l, <<>>) : l \in ListName})
    <2>1. RequestFits(one) /\ one.kind = "reload" /\ one.about = Settings /\ one.served = FALSE
        BY LoadFits
    <2>2. Loads(r) = <<one>> \o rest
        BY <1>2 DEF Loads
    <2>3. /\ \E S : rest \in Seq(S)
          /\ \A k \in 1 .. Len(rest) : \E l \in ListName : rest[k] = Sending("reload", l, <<>>)
          /\ \A l \in ListName : \E k \in 1 .. Len(rest) : rest[k] = Sending("reload", l, <<>>)
        BY ReloadsFacts
    <2> HIDE DEF one, rest
    <2>4. PICK S : rest \in Seq(S)
        BY <2>3
    <2>5. \A k \in 1 .. Len(rest) :
              /\ RequestFits(rest[k]) /\ rest[k].kind = "reload" /\ rest[k].served = FALSE
              /\ rest[k].about \in ListName
        <3>1. \A l \in ListName :
                  /\ RequestFits(Sending("reload", l, <<>>)) /\ Sending("reload", l, <<>>).kind = "reload"
                  /\ Sending("reload", l, <<>>).about = l /\ Sending("reload", l, <<>>).served = FALSE
            BY DEF Sending, RequestFits, Fields
        <3> QED
            BY <2>3, <3>1
    <2>6. \A l \in ListName : \E k \in 1 .. Len(rest) : rest[k].about = l
        <3>1. \A l \in ListName : Sending("reload", l, <<>>).about = l
            BY DEF Sending
        <3> QED
            BY <2>3, <3>1
    <2>7. rest \in Seq(S \cup {one}) /\ <<one>> \in Seq(S \cup {one}) /\ Len(rest) \in Nat
          /\ Len(<<one>>) = 1 /\ <<one>>[1] = one
        BY <2>4, SeqMonotonic, LenProperties
    <2>8. /\ Loads(r) \in Seq(S \cup {one}) /\ Len(Loads(r)) = 1 + Len(rest)
          /\ Loads(r)[1] = one /\ \A k \in 1 .. Len(rest) : Loads(r)[k + 1] = rest[k]
        <3> DEFINE all == S \cup {one}
        <3>1. rest \in Seq(all) /\ <<one>> \in Seq(all)
            BY <2>7
        <3> HIDE DEF all
        <3>2. /\ Loads(r) \in Seq(all) /\ Len(Loads(r)) = 1 + Len(rest)
              /\ \A k \in 1 .. 1 + Len(rest) :
                    Loads(r)[k] = IF k <= 1 THEN <<one>>[k] ELSE rest[k - 1]
            BY <2>2, <2>7, <3>1, ConcatProperties
        <3>3. Loads(r)[1] = one
            BY <2>7, <3>2
        <3>4. ASSUME NEW k \in 1 .. Len(rest)
              PROVE  Loads(r)[k + 1] = rest[k]
            <4>1. k + 1 \in 1 .. 1 + Len(rest) /\ ~(k + 1 <= 1) /\ (k + 1) - 1 = k
                BY <2>7
            <4> QED
                BY <3>2, <4>1
        <3> QED
            BY <3>2, <3>3, <3>4 DEF all
    <2>9. \A k \in 1 .. Len(Loads(r)) : k = 1 \/ \E m \in 1 .. Len(rest) : k = m + 1
        <3>1. ASSUME NEW k \in 1 .. 1 + Len(rest), k # 1
              PROVE  \E m \in 1 .. Len(rest) : k = m + 1
            <4>1. k - 1 \in 1 .. Len(rest) /\ k = (k - 1) + 1
                BY <2>7, <3>1
            <4> QED
                BY <4>1
        <3> QED
            BY <2>8, <3>1
    <2>10. ASSUME NEW k \in 1 .. Len(Loads(r))
           PROVE  /\ RequestFits(Loads(r)[k]) /\ Loads(r)[k].kind \in {"load", "reload"}
                  /\ Loads(r)[k].served = FALSE
                  /\ Loads(r)[k].about = Settings => k = 1
        <3>1. CASE k = 1
            BY <2>1, <2>8, <3>1
        <3>2. CASE k # 1
            <4>1. PICK m \in 1 .. Len(rest) : k = m + 1
                BY <2>9, <3>2
            <4>2. Loads(r)[k] = rest[m]
                BY <2>8, <4>1
            <4> QED
                BY <2>5, <4>2, AboutFacts
        <3> QED
            BY <3>1, <3>2
    <2>11. ASSUME NEW l \in ListName \cup {Settings}
           PROVE  \E k \in 1 .. Len(Loads(r)) : Loads(r)[k].about = l
        <3>1. CASE l = Settings
            <4>1. 1 \in 1 .. Len(Loads(r))
                BY <2>7, <2>8
            <4> QED
                BY <2>1, <2>8, <3>1, <4>1
        <3>2. CASE l \in ListName
            <4>1. PICK k \in 1 .. Len(rest) : rest[k].about = l
                BY <2>6, <3>2
            <4>2. k + 1 \in 1 .. Len(Loads(r))
                BY <2>7, <2>8
            <4> QED
                BY <2>8, <4>1, <4>2
        <3> QED
            BY <3>1, <3>2
    <2>12. r.kind \notin {"change", "edit"}
        BY <1>2
    <2> QED
        BY <1>2, <2>8, <2>10, <2>11, <2>12 DEF AreLoads, LoadTheChanged
<1>3. CASE r.kind \notin {"change", "edit", "import"}
    <2>1. Loads(r) = <<>>
        BY <1>3 DEF Loads
    <2>2. <<>> \in Seq({}) /\ Len(<<>>) = 0
        OBVIOUS
    <2> QED
        BY <1>3, <2>1, <2>2 DEF AreLoads, LoadTheChanged
<1> QED
    BY <1>1, <1>2, <1>3

\* All requests but i are left, and loads may follow them.
OthersLeft(i, more) ==
    /\ \A j \in DOMAIN requests : j # i => \E k \in DOMAIN requests' : requests'[k] = requests[j]
    /\ \A k \in 1 .. Len(more) : \E m \in DOMAIN requests' : requests'[m] = more[k]
    /\ \A k \in DOMAIN requests' :
          \/ \E j \in DOMAIN requests : j # i /\ requests'[k] = requests[j]
          \/ \E m \in 1 .. Len(more) : requests'[k] = more[m]

\* What an end of a request cannot disturb.
LEMMA EndKeeps ==
    ASSUME PrefsInv, NEW i \in DOMAIN requests, NEW more, AreLoads(more, requests[i]),
           requests' = RemoveAt(requests, i) \o more,
           UNCHANGED serverPrefs, excused => excused', excused' \in BOOLEAN,
           shown' \in Values, shownList' \in [ListName -> Nat],
           edited' \in ListName \cup {NoEntry}, loaded' \subseteq ListName \cup {Settings}
    PROVE  PrefsTypes' /\ OneAtATime' /\ OthersLeft(i, more)
<1>1. PrefsTypes
    BY DEF PrefsInv
<1>2. PICK S : more \in Seq(S)
    BY DEF AreLoads
<1>3. PICK n \in Nat : \E at : EndedAt(i, more, n, at)
    BY <1>1, <1>2, RequestEnded DEF PrefsTypes
<1>4. PICK at : EndedAt(i, more, n, at)
    BY <1>3
<1>5. Len(more) \in Nat
    BY <1>2, LenProperties
<1>6. /\ \E T : requests' \in Seq(T)
      /\ DOMAIN requests' = 1 .. n + Len(more)
      /\ \A k \in 1 .. n : at[k] \in DOMAIN requests /\ at[k] # i /\ requests'[k] = requests[at[k]]
      /\ \A k, m \in 1 .. n : at[k] = at[m] => k = m
      /\ \A j \in DOMAIN requests : j # i => \E k \in 1 .. n : at[k] = j
      /\ \A k \in 1 .. Len(more) : requests'[n + k] = more[k]
    BY <1>4 DEF EndedAt
<1>7. \A k \in DOMAIN requests' : k \in 1 .. n \/ \E m \in 1 .. Len(more) : k = n + m
    <2>1. ASSUME NEW k \in 1 .. n + Len(more), k \notin 1 .. n
          PROVE  \E m \in 1 .. Len(more) : k = n + m
        <3>1. k - n \in 1 .. Len(more) /\ k = n + (k - n)
            BY <1>5, <2>1
        <3> QED
            BY <3>1
    <2> QED
        BY <1>6, <2>1
<1>8. (\A k \in 1 .. n : k \in DOMAIN requests') /\ \A k \in 1 .. Len(more) : n + k \in DOMAIN requests'
    BY <1>5, <1>6
<1>9. OthersLeft(i, more)
    <2>1. ASSUME NEW j \in DOMAIN requests, j # i
          PROVE  \E k \in DOMAIN requests' : requests'[k] = requests[j]
        BY <1>6, <1>8, <2>1
    <2>2. ASSUME NEW k \in 1 .. Len(more)
          PROVE  \E m \in DOMAIN requests' : requests'[m] = more[k]
        BY <1>6, <1>8
    <2>3. ASSUME NEW k \in DOMAIN requests'
          PROVE  \/ \E j \in DOMAIN requests : j # i /\ requests'[k] = requests[j]
                 \/ \E m \in 1 .. Len(more) : requests'[k] = more[m]
        <3>1. CASE k \in 1 .. n
            <4>1. at[k] \in DOMAIN requests /\ at[k] # i /\ requests'[k] = requests[at[k]]
                BY <1>6, <3>1
            <4> QED
                BY <4>1
        <3>2. CASE \E m \in 1 .. Len(more) : k = n + m
            <4>1. PICK m \in 1 .. Len(more) : k = n + m
                BY <3>2
            <4>2. requests'[n + m] = more[m]
                BY <1>6
            <4> QED
                BY <4>1, <4>2
        <3> QED
            BY <1>7, <3>1, <3>2
    <2> QED
        BY <2>1, <2>2, <2>3 DEF OthersLeft
<1>10. UNCHANGED <<kept, keptList, listChanges>>
    BY DEF serverPrefs
<1>11. PrefsTypes'
    <2>1. ASSUME NEW k \in DOMAIN requests'
          PROVE  RequestFits(requests'[k]) /\ ReadFits(requests'[k], keptList)
        <3>1. CASE \E j \in DOMAIN requests : j # i /\ requests'[k] = requests[j]
            BY <1>1, <3>1 DEF PrefsTypes
        <3>2. CASE \E m \in 1 .. Len(more) : requests'[k] = more[m]
            BY <3>2 DEF AreLoads, ReadFits
        <3> QED
            BY <1>9, <3>1, <3>2 DEF OthersLeft
    <2>2. \A k \in DOMAIN requests' : (RequestFits(requests[k]) /\ ReadFits(requests[k], keptList))'
        BY <1>10, <2>1 DEF RequestFits, ReadFits
    <2> QED
        BY <1>1, <1>6, <1>10, <2>2 DEF PrefsTypes
<1>12. OneAtATime'
    <2>1. SUFFICES ASSUME ~excused'
                   PROVE  /\ \A k, m \in DOMAIN requests' :
                                requests'[k].about = Settings /\ requests'[m].about = Settings => k = m
                          /\ \A k, m \in DOMAIN requests' :
                                requests'[k].kind = "save" => requests'[m].about # Settings
                          /\ \A k, m \in DOMAIN requests' :
                                /\ requests'[k].kind = "save" /\ requests'[m].kind = "save"
                                /\ requests'[k].about = requests'[m].about
                                => k = m
        BY DEF OneAtATime
    <2>2. /\ \A k, m \in DOMAIN requests :
                requests[k].about = Settings /\ requests[m].about = Settings => k = m
          /\ \A k, m \in DOMAIN requests : requests[k].kind = "save" => requests[m].about # Settings
          /\ \A k, m \in DOMAIN requests :
                /\ requests[k].kind = "save" /\ requests[m].kind = "save"
                /\ requests[k].about = requests[m].about
                => k = m
        BY <2>1 DEF PrefsInv, OneAtATime
    <2>3. requests[i].kind = "import" => requests[i].about = Settings
        BY <1>1 DEF PrefsTypes, RequestFits
    <2>4. \A m \in 1 .. Len(more) :
              /\ more[m].kind # "save"
              /\ more[m].about = Settings => requests[i].about = Settings
        BY <2>3 DEF AreLoads
    <2>5. ASSUME NEW k \in 1 .. n
          PROVE  at[k] \in DOMAIN requests /\ at[k] # i /\ requests'[k] = requests[at[k]]
        BY <1>6
    <2>6. ASSUME NEW k \in DOMAIN requests', k \notin 1 .. n
          PROVE  \E m \in 1 .. Len(more) : k = n + m /\ requests'[k] = more[m]
        BY <1>6, <1>7, <2>6
    <2>7. ASSUME NEW k \in 1 .. n, NEW m \in 1 .. n, at[k] = at[m]
          PROVE  k = m
        BY <1>6, <2>7
    <2>8. i \in DOMAIN requests
        OBVIOUS
    <2>9. ASSUME NEW k \in DOMAIN requests', NEW m \in DOMAIN requests',
                 requests'[k].about = Settings, requests'[m].about = Settings
          PROVE  k = m
        <3>1. CASE k \in 1 .. n /\ m \in 1 .. n
            <4>1. requests[at[k]].about = Settings /\ requests[at[m]].about = Settings
                BY <2>5, <2>9, <3>1
            <4> QED
                BY <2>2, <2>5, <2>7, <3>1, <4>1
        <3>2. ASSUME NEW a \in 1 .. n, NEW b \in DOMAIN requests', b \notin 1 .. n,
                     requests'[a].about = Settings, requests'[b].about = Settings
              PROVE  FALSE
            <4>1. requests[at[a]].about = Settings
                BY <2>5, <3>2
            <4>2. requests[i].about = Settings
                BY <2>4, <2>6, <3>2
            <4> QED
                BY <2>2, <2>5, <2>8, <4>1, <4>2
        <3>3. CASE k \notin 1 .. n /\ m \notin 1 .. n
            <4>1. PICK a \in 1 .. Len(more) : k = n + a /\ requests'[k] = more[a]
                BY <2>6, <3>3
            <4>2. PICK b \in 1 .. Len(more) : m = n + b /\ requests'[m] = more[b]
                BY <2>6, <3>3
            <4>3. a = b
                BY <2>9, <4>1, <4>2 DEF AreLoads
            <4> QED
                BY <4>1, <4>2, <4>3
        <3> QED
            BY <2>9, <3>1, <3>2, <3>3
    <2>10. ASSUME NEW k \in DOMAIN requests', requests'[k].kind = "save"
           PROVE  k \in 1 .. n /\ requests[at[k]].kind = "save"
        <3>1. k \in 1 .. n
            BY <2>4, <2>6, <2>10
        <3> QED
            BY <2>5, <2>10, <3>1
    <2>11. ASSUME NEW k \in DOMAIN requests', NEW m \in DOMAIN requests',
                  requests'[k].kind = "save", requests'[m].about = Settings
           PROVE  FALSE
        <3>1. at[k] \in DOMAIN requests /\ requests[at[k]].kind = "save"
            BY <2>5, <2>10, <2>11
        <3>2. CASE m \in 1 .. n
            <4>1. at[m] \in DOMAIN requests /\ requests[at[m]].about = Settings
                BY <2>5, <2>11, <3>2
            <4> QED
                BY <2>2, <3>1, <4>1
        <3>3. CASE m \notin 1 .. n
            <4>1. requests[i].about = Settings
                BY <2>4, <2>6, <2>11, <3>3
            <4> QED
                BY <2>2, <2>8, <3>1, <4>1
        <3> QED
            BY <3>2, <3>3
    <2>12. ASSUME NEW k \in DOMAIN requests', NEW m \in DOMAIN requests',
                  requests'[k].kind = "save", requests'[m].kind = "save",
                  requests'[k].about = requests'[m].about
           PROVE  k = m
        <3>1. /\ k \in 1 .. n /\ requests[at[k]].kind = "save"
              /\ m \in 1 .. n /\ requests[at[m]].kind = "save"
            BY <2>10, <2>12
        <3>2. requests[at[k]].about = requests[at[m]].about
            BY <2>5, <2>12, <3>1
        <3>3. at[k] = at[m]
            BY <2>2, <2>5, <3>1, <3>2
        <3> QED
            BY <2>7, <3>1, <3>3
    <2> QED
        BY <2>9, <2>11, <2>12
<1> QED
    BY <1>9, <1>11, <1>12

\* What is shown of the settings still fits when a request has ended that is
\* neither a save to come nor what all settings wait for.
LEMMA OthersFit ==
    ASSUME PrefsInv, NEW i \in DOMAIN requests, ~excused,
           NEW more, OthersLeft(i, more), AreLoads(more, requests[i]),
           UNCHANGED <<shown, kept>>, Settings \in loaded' <=> Settings \in loaded,
           requests[i].kind = "save" => requests[i].served,
           requests[i].about = Settings =>
               \/ \E k \in 1 .. Len(more) : more[k].about = Settings
               \/ (Settings \in loaded => shown = kept)
    PROVE  SettingsFit'
<1>1. /\ \A j \in DOMAIN requests : j # i => \E k \in DOMAIN requests' : requests'[k] = requests[j]
      /\ \A k \in 1 .. Len(more) : \E m \in DOMAIN requests' : requests'[m] = more[k]
      /\ \A k \in DOMAIN requests' :
            \/ \E j \in DOMAIN requests : j # i /\ requests'[k] = requests[j]
            \/ \E m \in 1 .. Len(more) : requests'[k] = more[m]
    BY DEF OthersLeft
<1>2. \A m \in 1 .. Len(more) : more[m].kind \in {"load", "reload"} /\ more[m].served = FALSE
    BY DEF AreLoads
<1>3. ASSUME NEW k \in DOMAIN requests', requests'[k].kind = "save"
      PROVE  /\ shown[requests'[k].about] = requests'[k].value[requests'[k].about]
             /\ requests'[k].served =>
                   kept[requests'[k].about] = requests'[k].value[requests'[k].about]
    <2>1. PICK j \in DOMAIN requests : requests'[k] = requests[j]
        BY <1>1, <1>2, <1>3
    <2> QED
        BY <1>3, <2>1 DEF PrefsInv, SettingsFit
<1>4. ASSUME Settings \in loaded, \A k \in DOMAIN requests' : requests'[k].about # Settings,
             NEW s \in Setting
      PROVE  \/ shown[s] = kept[s]
             \/ \E k \in DOMAIN requests' :
                   requests'[k].kind = "save" /\ requests'[k].about = s /\ ~requests'[k].served
    <2>1. CASE requests[i].about = Settings
        BY <1>1, <1>4, <2>1
    <2>2. CASE requests[i].about # Settings
        <3>1. \A j \in DOMAIN requests : requests[j].about # Settings
            BY <1>1, <1>4, <2>2
        <3>2. \/ shown[s] = kept[s]
              \/ \E j \in DOMAIN requests :
                    requests[j].kind = "save" /\ requests[j].about = s /\ ~requests[j].served
            BY <1>4, <3>1 DEF PrefsInv, SettingsFit
        <3> QED
            BY <1>1, <3>2
    <2> QED
        BY <2>1, <2>2
<1>5. ASSUME NEW k \in DOMAIN requests', requests'[k].about = Settings
      PROVE  /\ requests'[k].kind \in {"load", "reload"} /\ requests'[k].served =>
                   requests'[k].value = kept
             /\ requests'[k].kind = "import" /\ ~requests'[k].served /\ Settings \in loaded =>
                   shown = kept
    <2>1. CASE \E j \in DOMAIN requests : requests'[k] = requests[j]
        BY <1>5, <2>1 DEF PrefsInv, SettingsFit
    <2>2. CASE \E m \in 1 .. Len(more) : requests'[k] = more[m]
        BY <1>2, <2>2
    <2> QED
        BY <1>1, <2>1, <2>2
<1> QED
    BY <1>3, <1>4, <1>5 DEF SettingsFit

\* No loads at all.
LEMMA NoLoads ==
    ASSUME PrefsTypes, NEW i \in DOMAIN requests
    PROVE  /\ \A r : AreLoads(<<>>, r)
           /\ RemoveAt(requests, i) \o <<>> = RemoveAt(requests, i)
<1>1. PICK S : requests \in Seq(S)
    BY DEF PrefsTypes
<1>2. Len(requests) \in Nat /\ DOMAIN requests = 1 .. Len(requests)
    BY <1>1, LenProperties
<1>3. RemoveAt(requests, i) \in Seq(S)
    BY <1>1, <1>2, RemoveAtFacts
<1>4. <<>> \in Seq({}) /\ Len(<<>>) = 0
    OBVIOUS
<1> QED
    BY <1>3, <1>4, ConcatEmptySeq DEF AreLoads

\* All settings have been loaded.
LEMMA SettingsLoadedStep ==
    ASSUME PrefsInv, NEW i \in DOMAIN requests, Answered(i), SettingsLoaded(i)
    PROVE  PrefsInv'
<1>1. PrefsTypes /\ RequestFits(requests[i])
    BY DEF PrefsInv, PrefsTypes
<1>2. /\ requests[i].kind \in {"load", "reload"} /\ requests[i].about = Settings /\ requests[i].served
      /\ shown' = requests[i].value
      /\ loaded' = loaded \cup {Settings}
      /\ requests' = RemoveAt(requests, i) \o Loads(requests[i])
      /\ UNCHANGED <<excused, shownList, edited, kept, keptList, listChanges>>
    BY DEF Answered, SettingsLoaded, Ended, serverPrefs
<1>3. Loads(requests[i]) = <<>> /\ AreLoads(<<>>, requests[i])
    BY <1>1, <1>2, NoLoads DEF Loads
<1>4. ~excused => /\ requests[i].value = kept
                  /\ \A j \in DOMAIN requests : j # i => requests[j].about # Settings
                  /\ \A j \in DOMAIN requests : requests[j].kind # "save"
    BY <1>2 DEF PrefsInv, OneAtATime, SettingsFit
<1>5. excused' = excused
    BY <1>2
<1>6. shown' \in Values /\ shownList' \in [ListName -> Nat] /\ excused' \in BOOLEAN
      /\ edited' \in ListName \cup {NoEntry} /\ loaded' \subseteq ListName \cup {Settings}
    <2>1. requests[i].value \in Values
        BY <1>1, <1>2 DEF PrefsTypes, ReadFits
    <2> QED
        BY <1>1, <1>2, <2>1 DEF PrefsTypes
<1>7. PrefsTypes' /\ OneAtATime' /\ OthersLeft(i, <<>>)
    <2>1. requests' = RemoveAt(requests, i) \o <<>> /\ UNCHANGED serverPrefs
        BY <1>2, <1>3 DEF serverPrefs
    <2> QED
        BY <1>3, <1>5, <1>6, <2>1, EndKeeps
<1>8. /\ \A j \in DOMAIN requests : j # i => \E k \in DOMAIN requests' : requests'[k] = requests[j]
      /\ \A k \in DOMAIN requests' : \E j \in DOMAIN requests : j # i /\ requests'[k] = requests[j]
    BY <1>7 DEF OthersLeft
<1>9. SettingsFit'
    <2>1. ASSUME ~excused
          PROVE  /\ \A k \in DOMAIN requests' : requests'[k].kind # "save" /\ requests'[k].about # Settings
                 /\ shown' = kept
        BY <1>2, <1>4, <1>8, <2>1
    <2> QED
        BY <1>2, <2>1 DEF SettingsFit
<1>10. ListsFit'
    <2>1. ASSUME NEW l \in ListName, NEW change
          PROVE  ~Brings(requests[i], l, change)
        BY <1>2, AboutFacts DEF Brings
    <2>2. ASSUME ~excused, NEW l \in ListName
          PROVE  shownList[l] = keptList[l] \/ \E k \in DOMAIN requests' : Brings(requests'[k], l, keptList[l])
        <3>1. \/ shownList[l] = keptList[l]
              \/ \E j \in DOMAIN requests : j # i /\ Brings(requests[j], l, keptList[l])
            BY <2>1, <2>2 DEF PrefsInv, ListsFit
        <3> QED
            BY <1>8, <3>1
    <2>3. ASSUME ~excused, NEW l \in ListName
          PROVE  shownList[l] = keptList[l] \/ (\E k \in DOMAIN requests : Brings(requests[k], l, keptList[l]))'
        BY <1>2, <2>2, <2>3 DEF Brings
    <2> QED
        BY <1>2, <2>3 DEF ListsFit
<1> QED
    BY <1>7, <1>9, <1>10 DEF PrefsInv

\* A list has been loaded.
LEMMA ListLoadedStep ==
    ASSUME PrefsInv, NEW i \in DOMAIN requests, Answered(i), ListLoaded(i)
    PROVE  PrefsInv'
<1>1. PrefsTypes /\ RequestFits(requests[i])
    BY DEF PrefsInv, PrefsTypes
<1> DEFINE list == requests[i].about
           read == requests[i].value[list]
<1>2. /\ requests[i].kind \in {"load", "reload"} /\ list # Settings /\ requests[i].served
      /\ shownList' = [shownList EXCEPT ![list] = read]
      /\ loaded' = loaded \cup {list}
      /\ excused' = (excused \/ shownList'[list] < shownList[list])
      /\ requests' = RemoveAt(requests, i) \o Loads(requests[i])
      /\ UNCHANGED <<shown, edited, kept, keptList, listChanges>>
    BY DEF Answered, ListLoaded, Ended, serverPrefs
<1>3. Loads(requests[i]) = <<>> /\ AreLoads(<<>>, requests[i])
    BY <1>1, <1>2, NoLoads DEF Loads
<1>4. list \in ListName /\ read \in Nat /\ read <= keptList[list]
    BY <1>1, <1>2 DEF RequestFits, PrefsTypes, ReadFits
<1> HIDE DEF list, read
<1>5. /\ shownList' \in [ListName -> Nat] /\ shownList'[list] = read
      /\ \A l \in ListName : l # list => shownList'[l] = shownList[l]
    BY <1>1, <1>2, <1>4 DEF PrefsTypes
<1>6. PrefsTypes' /\ OneAtATime' /\ OthersLeft(i, <<>>)
    <2>1. requests' = RemoveAt(requests, i) \o <<>> /\ UNCHANGED serverPrefs
        BY <1>2, <1>3 DEF serverPrefs
    <2>2. shown' \in Values /\ excused' \in BOOLEAN /\ edited' \in ListName \cup {NoEntry}
          /\ loaded' \subseteq ListName \cup {Settings}
        BY <1>1, <1>2, <1>4 DEF PrefsTypes
    <2>3. excused => excused'
        BY <1>2
    <2> QED
        BY <1>3, <1>5, <2>1, <2>2, <2>3, EndKeeps
<1>7. /\ \A j \in DOMAIN requests : j # i => \E k \in DOMAIN requests' : requests'[k] = requests[j]
      /\ \A k \in DOMAIN requests' : \E j \in DOMAIN requests : j # i /\ requests'[k] = requests[j]
    BY <1>6 DEF OthersLeft
<1>8. ~excused' => ~excused /\ shownList[list] <= read
    <2> DEFINE older == read < shownList[list]
    <2>1. excused' = (excused \/ older) /\ (~older => shownList[list] <= read)
        BY <1>1, <1>2, <1>4, <1>5 DEF PrefsTypes
    <2> HIDE DEF older
    <2> QED
        BY <2>1
<1>9. SettingsFit'
    <2>1. requests[i].kind # "save" /\ requests[i].about # Settings
        BY <1>2 DEF list
    <2>2. Settings \in loaded' <=> Settings \in loaded
        BY <1>2
    <2>3. CASE excused'
        BY <2>3 DEF SettingsFit
    <2>4. CASE ~excused'
        BY <1>2, <1>3, <1>6, <1>8, <2>1, <2>2, <2>4, OthersFit
    <2> QED
        BY <2>3, <2>4
<1>10. ListsFit'
    <2>1. ASSUME ~excused', NEW l \in ListName
          PROVE  shownList'[l] = keptList[l] \/ \E k \in DOMAIN requests' : Brings(requests'[k], l, keptList[l])
        <3>1. \/ shownList[l] = keptList[l]
              \/ \E j \in DOMAIN requests : Brings(requests[j], l, keptList[l])
            BY <1>8, <2>1 DEF PrefsInv, ListsFit
        <3>2. CASE l # list
            <4>1. ~Brings(requests[i], l, keptList[l])
                BY <1>2, <3>2 DEF Brings, list
            <4> QED
                BY <1>5, <1>7, <3>1, <3>2, <4>1
        <3>3. CASE l = list /\ read # keptList[l]
            <4>1. ~Brings(requests[i], l, keptList[l])
                BY <1>2, <3>3 DEF Brings, list, read
            <4>2. shownList[l] # keptList[l]
                BY <1>1, <1>4, <1>8, <2>1, <3>3 DEF PrefsTypes
            <4> QED
                BY <1>7, <3>1, <4>1, <4>2
        <3> QED
            BY <1>5, <3>2, <3>3
    <2>2. ASSUME ~excused', NEW l \in ListName
          PROVE  shownList'[l] = keptList[l] \/ (\E k \in DOMAIN requests : Brings(requests[k], l, keptList[l]))'
        BY <1>2, <2>1, <2>2 DEF Brings
    <2> QED
        BY <1>2, <2>2 DEF ListsFit
<1> QED
    BY <1>6, <1>9, <1>10 DEF PrefsInv

\* A change has been answered: what it changed is loaded.
LEMMA DoneStep ==
    ASSUME PrefsInv, NEW i \in DOMAIN requests, Answered(i), Done(i)
    PROVE  PrefsInv'
<1>1. PrefsTypes /\ RequestFits(requests[i])
    BY DEF PrefsInv, PrefsTypes
<1> DEFINE r == requests[i]
           more == Loads(r)
<1>2. /\ r.kind \in {"save", "change", "edit", "import"} /\ r.served
      /\ edited' = IF r.kind = "edit" THEN NoEntry ELSE edited
      /\ requests' = RemoveAt(requests, i) \o more
      /\ UNCHANGED <<shown, shownList, loaded, excused, kept, keptList, listChanges>>
    BY DEF Answered, Done, Ended, serverPrefs
<1>3. AreLoads(more, r) /\ LoadTheChanged(more, r)
    BY <1>1, LoadsAreLoads
<1> HIDE DEF more
<1>4. PrefsTypes' /\ OneAtATime' /\ OthersLeft(i, more)
    <2>1. UNCHANGED serverPrefs
        BY <1>2 DEF serverPrefs
    <2>2. shown' \in Values /\ shownList' \in [ListName -> Nat] /\ excused' \in BOOLEAN
          /\ edited' \in ListName \cup {NoEntry} /\ loaded' \subseteq ListName \cup {Settings}
        BY <1>1, <1>2 DEF PrefsTypes
    <2>3. excused => excused'
        BY <1>2
    <2> QED
        BY <1>2, <1>3, <2>1, <2>2, <2>3, EndKeeps
<1>5. /\ \A j \in DOMAIN requests : j # i => \E k \in DOMAIN requests' : requests'[k] = requests[j]
      /\ \A k \in 1 .. Len(more) : \E m \in DOMAIN requests' : requests'[m] = more[k]
      /\ \A k \in DOMAIN requests' :
            \/ \E j \in DOMAIN requests : j # i /\ requests'[k] = requests[j]
            \/ \E m \in 1 .. Len(more) : requests'[k] = more[m]
    BY <1>4 DEF OthersLeft
<1>6. /\ \A m \in 1 .. Len(more) : more[m].kind \in {"load", "reload"} /\ more[m].served = FALSE
      /\ r.kind \in {"change", "edit"} => \E k \in 1 .. Len(more) : more[k].about = r.about
      /\ r.kind = "import" =>
            \A l \in ListName \cup {Settings} : \E k \in 1 .. Len(more) : more[k].about = l
    BY <1>3 DEF AreLoads, LoadTheChanged
<1>7. SettingsFit'
    <2>1. CASE excused
        BY <1>2, <2>1 DEF SettingsFit
    <2>2. CASE ~excused
        <3>1. r.about = Settings => \E k \in 1 .. Len(more) : more[k].about = Settings
            BY <1>1, <1>2, <1>6, AboutFacts DEF RequestFits
        <3> QED
            BY <1>2, <1>3, <1>4, <2>2, <3>1, OthersFit
    <2> QED
        BY <2>1, <2>2
<1>8. ListsFit'
    <2>1. ASSUME ~excused, NEW l \in ListName
          PROVE  shownList[l] = keptList[l] \/ \E k \in DOMAIN requests' : Brings(requests'[k], l, keptList[l])
        <3>1. \/ shownList[l] = keptList[l]
              \/ \E j \in DOMAIN requests : Brings(requests[j], l, keptList[l])
            BY <2>1 DEF PrefsInv, ListsFit
        <3>2. CASE Brings(r, l, keptList[l])
            <4>1. PICK m \in 1 .. Len(more) : more[m].about = l
                BY <1>2, <1>6, <2>1, <3>2 DEF Brings
            <4>2. Brings(more[m], l, keptList[l])
                BY <1>6, <4>1 DEF Brings
            <4> QED
                BY <1>5, <4>2
        <3> QED
            BY <1>5, <3>1, <3>2
    <2>2. ASSUME ~excused, NEW l \in ListName
          PROVE  shownList[l] = keptList[l] \/ (\E k \in DOMAIN requests : Brings(requests[k], l, keptList[l]))'
        BY <1>2, <2>1, <2>2 DEF Brings
    <2> QED
        BY <1>2, <2>2 DEF ListsFit
<1> QED
    BY <1>4, <1>7, <1>8 DEF PrefsInv

\* A request has failed.
LEMMA FailedStep ==
    ASSUME PrefsInv, NEW i \in DOMAIN requests, Failed(i)
    PROVE  PrefsInv'
<1>1. PrefsTypes /\ RequestFits(requests[i])
    BY DEF PrefsInv, PrefsTypes
<1>2. /\ requests' = RemoveAt(requests, i)
      /\ excused' = (excused \/ requests[i].kind \in {"save", "load", "reload"} \/ requests[i].served)
      /\ UNCHANGED <<shown, shownList, edited, loaded, kept, keptList, listChanges>>
    BY DEF Failed, serverPrefs
<1>3. RemoveAt(requests, i) \o <<>> = RemoveAt(requests, i) /\ AreLoads(<<>>, requests[i])
    BY <1>1, NoLoads
<1>4. PrefsTypes' /\ OneAtATime' /\ OthersLeft(i, <<>>)
    <2>1. requests' = RemoveAt(requests, i) \o <<>> /\ UNCHANGED serverPrefs
        BY <1>2, <1>3 DEF serverPrefs
    <2>2. shown' \in Values /\ shownList' \in [ListName -> Nat]
          /\ edited' \in ListName \cup {NoEntry} /\ loaded' \subseteq ListName \cup {Settings}
        BY <1>1, <1>2 DEF PrefsTypes
    <2>3. (excused => excused') /\ excused' \in BOOLEAN
        BY <1>2
    <2> QED
        BY <1>3, <2>1, <2>2, <2>3, EndKeeps
<1>5. ~excused' => /\ ~excused /\ requests[i].served = FALSE
                   /\ requests[i].kind \in {"change", "edit", "import"}
    BY <1>1, <1>2 DEF RequestFits
<1>6. SettingsFit'
    <2>1. CASE excused'
        BY <2>1 DEF SettingsFit
    <2>2. CASE ~excused'
        <3>1. requests[i].about = Settings => (Settings \in loaded => shown = kept)
            BY <1>1, <1>5, <2>2, AboutFacts DEF RequestFits, PrefsInv, SettingsFit
        <3> QED
            BY <1>2, <1>3, <1>4, <1>5, <2>2, <3>1, OthersFit
    <2> QED
        BY <2>1, <2>2
<1>7. ListsFit'
    <2>1. ASSUME ~excused', NEW l \in ListName
          PROVE  shownList[l] = keptList[l] \/ \E k \in DOMAIN requests' : Brings(requests'[k], l, keptList[l])
        <3>1. \/ shownList[l] = keptList[l]
              \/ \E j \in DOMAIN requests : Brings(requests[j], l, keptList[l])
            BY <1>5, <2>1 DEF PrefsInv, ListsFit
        <3>2. ~Brings(requests[i], l, keptList[l])
            BY <1>5, <2>1 DEF Brings
        <3> QED
            BY <1>4, <3>1, <3>2 DEF OthersLeft
    <2>2. ASSUME ~excused', NEW l \in ListName
          PROVE  shownList[l] = keptList[l] \/ (\E k \in DOMAIN requests : Brings(requests[k], l, keptList[l]))'
        BY <1>2, <2>1, <2>2 DEF Brings
    <2> QED
        BY <1>2, <2>2 DEF ListsFit
<1> QED
    BY <1>4, <1>6, <1>7 DEF PrefsInv

-----------------------------------------------------------------------------
(* The theorem.                                                             *)

\* At first all settings are being loaded.
LEMMA PrefsInvInitially == PreferencesInit => PrefsInv
<1> SUFFICES ASSUME PreferencesInit
             PROVE  PrefsInv
    OBVIOUS
<1> DEFINE r == Sending("load", Settings, <<>>)
<1>1. RequestFits(r) /\ r.kind = "load" /\ r.about = Settings /\ r.served = FALSE
    BY LoadFits
<1> HIDE DEF r
<1>2. requests = <<r>>
    BY DEF PreferencesInit, r
<1>3. (\E S : requests \in Seq(S)) /\ DOMAIN requests = {1} /\ requests[1] = r
    <2>1. <<r>> \in Seq({r}) /\ Len(<<r>>) = 1 /\ <<r>>[1] = r
        OBVIOUS
    <2>2. requests \in Seq({r}) /\ Len(requests) = 1
        BY <1>2, <2>1
    <2>3. DOMAIN requests = 1 .. 1
        BY <2>2, LenProperties
    <2>4. \E S : requests \in Seq(S)
        BY <2>2
    <2>5. requests[1] = r /\ 1 .. 1 = {1}
        BY <1>2, <2>1
    <2> QED
        BY <2>3, <2>4, <2>5
<1>4. PrefsTypes
    <2>1. \A i \in DOMAIN requests : RequestFits(requests[i]) /\ ReadFits(requests[i], keptList)
        BY <1>1, <1>3 DEF ReadFits
    <2>2. kept \in Values /\ shown \in Values /\ keptList \in [ListName -> Nat] /\ shownList \in [ListName -> Nat]
        BY AboutFacts DEF PreferencesInit, Values
    <2>3. listChanges = 0 /\ (\A l \in ListName : keptList[l] = 0) /\ loaded = {} /\ edited = NoEntry
          /\ excused = FALSE
        BY DEF PreferencesInit
    <2> QED
        <3>1. \A l \in ListName : keptList[l] <= listChanges
            BY <2>3
        <3>2. listChanges \in Nat /\ edited \in ListName \cup {NoEntry} /\ loaded \subseteq ListName \cup {Settings}
            BY <2>3
        <3>3. excused \in BOOLEAN
            BY <2>3
        <3>4. \E S : requests \in Seq(S)
            BY <1>3
        <3> QED
            BY <2>1, <2>2, <3>1, <3>2, <3>3, <3>4 DEF PrefsTypes
<1>5. OneAtATime
    BY <1>1, <1>3 DEF OneAtATime
<1>6. SettingsFit
    BY <1>1, <1>3 DEF PreferencesInit, SettingsFit
<1>7. ListsFit
    BY DEF PreferencesInit, ListsFit
<1> QED
    BY <1>4, <1>5, <1>6, <1>7 DEF PrefsInv

\* Every step keeps the invariant.
LEMMA PrefsInvKept == PrefsInv /\ [PreferencesNext]_prefsVars => PrefsInv'
<1> SUFFICES ASSUME PrefsInv, [PreferencesNext]_prefsVars
             PROVE  PrefsInv'
    OBVIOUS
<1>1. ASSUME NEW setting \in Setting, NEW value \in SettingValue, SaveSetting(setting, value)
      PROVE  PrefsInv'
    BY <1>1, SaveStep
<1>2. ASSUME NEW value \in SettingValue, SetMode(value)
      PROVE  PrefsInv'
    <2>1. edited \in ListName \cup {NoEntry}
        BY DEF PrefsInv, PrefsTypes
    <2>2. UNCHANGED <<kept, keptList, listChanges, shown, shownList, requests, loaded, excused>> /\ edited' = edited
        BY <1>2 DEF SetMode, serverPrefs
    <2> QED
        BY <2>1, <2>2, ScreenStep
<1>3. ASSUME NEW list \in ListName, LoadList(list) \/ StartEdit(list) \/ ChangeList(list)
      PROVE  PrefsInv'
    <2>1. CASE StartEdit(list)
        BY <2>1, ScreenStep DEF StartEdit, serverPrefs
    <2>2. CASE LoadList(list) \/ ChangeList(list)
        BY <2>2, AskListStep
    <2> QED
        BY <1>3, <2>1, <2>2
<1>4. CASE CancelEdit
    BY <1>4, ScreenStep DEF CancelEdit, StartEdit, serverPrefs
<1>5. CASE SaveEdit
    <2>1. edited \in ListName
        BY <1>5 DEF SaveEdit, PrefsInv, PrefsTypes
    <2> QED
        BY <1>5, <2>1, AskListStep
<1>6. ASSUME NEW values \in [Setting -> SettingValue], ImportSettingsFile(values)
      PROVE  PrefsInv'
    BY <1>6, ImportStep DEF Values
<1>7. ASSUME NEW i \in DOMAIN requests, Serve(i)
      PROVE  PrefsInv'
    BY <1>7, ServeStep
<1>8. ASSUME NEW i \in DOMAIN requests, Answered(i)
      PROVE  PrefsInv'
    BY <1>8, SettingsLoadedStep, ListLoadedStep, DoneStep DEF Answered
<1>9. ASSUME NEW i \in DOMAIN requests, Failed(i)
      PROVE  PrefsInv'
    BY <1>9, FailedStep
<1>10. CASE UNCHANGED prefsVars
    BY <1>10 DEF prefsVars, serverPrefs, screenPrefs, PrefsInv, PrefsTypes, OneAtATime, SettingsFit,
                 ListsFit, RequestFits, ReadFits, Brings
<1> QED
    BY <1>1, <1>2, <1>3, <1>4, <1>5, <1>6, <1>7, <1>8, <1>9, <1>10 DEF PreferencesNext

\* Nothing is on its way: the panels show what is kept.
LEMMA NothingOnItsWay == PrefsInv => PanelsShowWhatIsKept
<1> SUFFICES ASSUME PrefsInv, requests = <<>>, ~excused
             PROVE  /\ Settings \in loaded => shown = kept
                    /\ \A l \in loaded \ {Settings} : shownList[l] = keptList[l]
    BY DEF PanelsShowWhatIsKept
<1>1. DOMAIN requests = {}
    OBVIOUS
<1>2. shown \in Values /\ kept \in Values /\ loaded \subseteq ListName \cup {Settings}
    BY DEF PrefsInv, PrefsTypes
<1>3. Settings \in loaded => shown = kept
    <2>1. Settings \in loaded => \A s \in Setting : shown[s] = kept[s]
        BY <1>1 DEF PrefsInv, SettingsFit
    <2> QED
        BY <1>2, <2>1 DEF Values
<1>4. \A l \in ListName : shownList[l] = keptList[l]
    BY <1>1 DEF PrefsInv, ListsFit
<1> QED
    BY <1>2, <1>3, <1>4

\* Once no request is in flight, the panels show what the server keeps, for all
\* that has been loaded, unless a request failed or overlapped another that
\* touched the same: the load that follows each change, and the order in which
\* answers come (App.svelte, loadAppSettings and the handlers of the settings).
THEOREM PanelsShowTheKept == PreferencesSpec => []PanelsShowWhatIsKept
<1>1. PreferencesInit => PrefsInv
    BY PrefsInvInitially
<1>2. PrefsInv /\ [PreferencesNext]_prefsVars => PrefsInv'
    BY PrefsInvKept
<1>3. PrefsInv => PanelsShowWhatIsKept
    BY NothingOnItsWay
<1> QED
    BY <1>1, <1>2, <1>3, PTL DEF PreferencesSpec
===============================================================================
