---------------------------- MODULE TerminalPool ----------------------------
(***************************************************************************)
(* What the terminal registry promises, apart from how it keeps it: a pool *)
(* of at most Limit live terminals.  A terminal enters the pool once, when *)
(* its socket arrives, under a name; a terminal of the same name gives way *)
(* to it; if the pool is full the oldest leaves; and everything else that  *)
(* leaves does so because its name was ended.                              *)
(***************************************************************************)
EXTENDS Naturals, FiniteSets

CONSTANTS
    MaxConn,    \* bound: terminals that arrive
    Id,         \* names
    NoId,       \* the name of a terminal that was not admitted
    Limit       \* terminals the pool holds

VARIABLES
    live,       \* the terminals in the pool
    arrived,    \* how many have arrived
    name        \* [1 .. MaxConn -> the name under which each was admitted]

poolVars == <<live, arrived, name>>

PoolInit ==
    /\ live = {}
    /\ arrived = 0
    /\ name = [c \in 1 .. MaxConn |-> NoId]

Others(i) == {c \in live : name[c] # i}

\* Admits the next terminal; only a full pool loses terminals of other names,
\* and then its oldest.
Admit(i) ==
    LET new == arrived + 1
    IN  /\ arrived < MaxConn
        /\ arrived' = new
        /\ name' = [name EXCEPT ![new] = i]
        /\ new \in live'
        /\ live' \subseteq Others(i) \cup {new}
        /\ Cardinality(live') <= Limit
        /\ \A c \in Others(i) \ live' :
              /\ \A d \in live' : c < d
              /\ Cardinality(live') = Limit

Refuse ==
    /\ arrived < MaxConn
    /\ arrived' = arrived + 1
    /\ UNCHANGED <<live, name>>

End(i) ==
    /\ live' = Others(i)
    /\ UNCHANGED <<arrived, name>>

PoolNext ==
    \/ \E i \in Id : Admit(i) \/ End(i)
    \/ Refuse

PoolSpec == PoolInit /\ [][PoolNext]_poolVars

=============================================================================
