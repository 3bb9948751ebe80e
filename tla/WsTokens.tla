------------------------------ MODULE WsTokens ------------------------------
(***************************************************************************)
(* The short-lived tokens with which a browser opens terminal sockets      *)
(* (createWsTokenStore in lib/ws-utils.js).  Tokens are random and never   *)
(* repeat: they are numbered in the order in which they are made, which is *)
(* also the order of the map.  Time is discrete and ages saturate where    *)
(* the code no longer tells them apart.                                    *)
(***************************************************************************)
EXTENDS Naturals, FiniteSets

CONSTANTS
    Ttl,          \* ttlMs
    MaxTokens,    \* maxTokens
    MaxIssued     \* bound: tokens made in a behaviour

ASSUME TokenAssumption ==
    /\ Ttl \in Nat \ {0}
    /\ MaxTokens \in Nat \ {0}
    /\ MaxIssued \in Nat

Token == 1 .. MaxIssued
NoToken == 0

VARIABLES
    tokens,       \* the keys of the map
    tokenAge,     \* now() - created, for every token made so far
    issued        \* how many have been made

tokenVars == <<tokens, tokenAge, issued>>

TokensInit ==
    /\ tokens = {}
    /\ tokenAge = [t \in Token |-> 0]
    /\ issued = 0

\* pruneExpired.
Unexpired(ts) == {t \in ts : tokenAge[t] <= Ttl}

\* Faulty variant: a full map refuses the newest.
NewestTokensOldest(ts) == {t \in ts : Cardinality({u \in ts : u < t}) < MaxTokens}

\* pruneOldest: what the loop leaves of the map.
NewestTokens(ts) == {t \in ts : Cardinality({u \in ts : u > t}) < MaxTokens}

\* generate.
Generate ==
    /\ issued < MaxIssued
    /\ issued' = issued + 1
    /\ tokens' = NewestTokens(Unexpired(tokens \cup {issued'}))
    /\ UNCHANGED tokenAge

\* validate: whatever the answer, a token that is known is used up.
Validate(t) ==
    /\ tokens' = tokens \ {t}
    /\ UNCHANGED <<tokenAge, issued>>

TokensAge ==
    /\ tokenAge' = [t \in Token |-> IF t <= issued /\ tokenAge[t] <= Ttl
                                    THEN tokenAge[t] + 1 ELSE tokenAge[t]]
    /\ UNCHANGED <<tokens, issued>>
=============================================================================
