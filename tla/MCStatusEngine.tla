--------------------------- MODULE MCStatusEngine ---------------------------
(* The status engine with the times of the code, in tenths of a second.      *)
EXTENDS StatusEngine

TenthsOfSecond == [unknown |-> 0, idle |-> 5, working |-> 3,
                   asking |-> 10, done |-> 20, error |-> 20]
=============================================================================
