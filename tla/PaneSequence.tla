---------------------------- MODULE PaneSequence ----------------------------
(***************************************************************************)
(* What the operations on a layout promise: the panes of a workspace, read *)
(* from left to right and from top to bottom, are a sequence, and an       *)
(* operation changes it only where the user asked for it.                  *)
(***************************************************************************)
EXTENDS SequencesExt

CONSTANTS
    Content,      \* sessions with their hosts
    EmptyPane     \* an empty pane

VARIABLE panes

FirstIn(seq, s) == CHOOSE i \in DOMAIN seq : seq[i] = s /\ \A j \in 1 .. i - 1 : seq[j] # s

\* A new empty pane comes after the pane that is split.
Split(i) == panes' = InsertAt(panes, i + 1, EmptyPane)

\* The last pane stays.
Close(i) ==
    /\ Len(panes) > 1
    /\ panes' = RemoveAt(panes, i)

Assign(i, s) == panes' = [panes EXCEPT ![i] = s]

\* A pane goes next to another; of a session shown twice, the first goes.
MoveNextTo(s, t, before) ==
    LET rest == RemoveAt(panes, FirstIn(panes, s))
        i == FirstIn(rest, t)
    IN  panes' = InsertAt(rest, IF before THEN i ELSE i + 1, s)

Swap(s, t) == panes' = [panes EXCEPT ![FirstIn(panes, s)] = t, ![FirstIn(panes, t)] = s]

Init == panes = <<EmptyPane>>

Next ==
    \/ \E i \in DOMAIN panes :
          \/ Split(i)
          \/ Close(i)
          \/ \E s \in Content : Assign(i, s)
    \/ \E s, t \in Content \cap ToSet(panes) :
          /\ s # t
          /\ \/ \E before \in BOOLEAN : MoveNextTo(s, t, before)
             \/ Swap(s, t)

Spec == Init /\ [][Next]_panes
=============================================================================
