--------------------------- MODULE LoginAttempts ---------------------------
(***************************************************************************)
(* The tracker of failed logins (src/src/lib/auth.js) around the login     *)
(* route, which checks a key, awaits the verification of the password and  *)
(* records the outcome: other logins of the same key come in between.  A   *)
(* key is a client address with a user name.  A login that is refused      *)
(* because of the lock changes nothing and is not an action.               *)
(***************************************************************************)
EXTENDS Integers, SequencesExt

CONSTANTS
  Key,           \* the keys that log in
  MaxFailures,   \* MAX_LOGIN_FAILURES
  LockMs,        \* LOGIN_LOCK_MS
  MaxKeys,       \* MAX_LOGIN_ATTEMPT_KEYS
  MaxVerifying,  \* bound: passwords of one key being verified at a time
  MaxClock       \* bound on time

ASSUME LoginAssumption ==
  /\ MaxFailures \in Nat \ {0} /\ LockMs \in Nat \ {0} /\ MaxKeys \in Nat
  /\ MaxVerifying \in Nat \ {0} /\ MaxClock \in Nat

VARIABLES
  attempts,   \* the entry of each key; NoFailures stands for a key without one
  order,      \* the keys of the map in the order they were set
  verifying,  \* how many passwords of a key are being verified
  clock

loginVars == <<attempts, order, verifying, clock>>

NoFailures == [failures |-> 0, lockedUntil |-> 0]

LoginInit == /\ attempts = [k \in Key |-> NoFailures]
             /\ order = <<>>
             /\ verifying = [k \in Key |-> 0]
             /\ clock = 1

Without(keys, k) == SelectSeq(keys, LAMBDA other : other # k)

Expired(k) == attempts[k].lockedUntil \in 1 .. clock
EntryFor(k) == IF Expired(k) THEN NoFailures ELSE attempts[k]

\* Faulty variant: the lock begins one failure too late.
LockAfterOneMore(failures) == IF failures > MaxFailures THEN clock + LockMs ELSE 0

LockAfter(failures) == IF failures >= MaxFailures THEN clock + LockMs ELSE 0

(* Sets the entry of k, last in the order, and drops the oldest keys.      *)
RecordFailure(k) ==
  LET failures == EntryFor(k).failures + 1
      keys     == Append(Without(order, k), k)
      dropped  == IF Len(keys) > MaxKeys THEN Len(keys) - MaxKeys ELSE 0
      kept     == SubSeq(keys, dropped + 1, Len(keys))
  IN  /\ order' = kept
      /\ attempts' = [other \in Key |->
           IF other \notin ToSet(kept) THEN NoFailures
           ELSE IF other = k THEN [failures |-> failures, lockedUntil |-> LockAfter(failures)]
           ELSE attempts[other]]

Forget(k) == /\ order' = Without(order, k)
             /\ attempts' = [attempts EXCEPT ![k] = NoFailures]

Unlocked(k) == EntryFor(k).lockedUntil = 0

(* A known user: the check drops an expired entry, then the await.         *)
LoginStarts(k) ==
  /\ Unlocked(k) /\ verifying[k] < MaxVerifying
  /\ verifying' = [verifying EXCEPT ![k] = @ + 1]
  /\ IF Expired(k) THEN Forget(k) ELSE UNCHANGED <<attempts, order>>
  /\ UNCHANGED clock

(* An unknown user fails in the same turn.                                 *)
UnknownUser(k) ==
  /\ Unlocked(k)
  /\ RecordFailure(k)
  /\ UNCHANGED <<verifying, clock>>

PasswordIsRight(k) ==
  /\ verifying[k] > 0
  /\ verifying' = [verifying EXCEPT ![k] = @ - 1]
  /\ Forget(k)
  /\ UNCHANGED clock

PasswordIsWrong(k) ==
  /\ verifying[k] > 0
  /\ verifying' = [verifying EXCEPT ![k] = @ - 1]
  /\ RecordFailure(k)
  /\ UNCHANGED clock

LoginTick == /\ clock < MaxClock
             /\ clock' = clock + 1
             /\ UNCHANGED <<attempts, order, verifying>>

LoginNext ==
  \/ \E k \in Key : LoginStarts(k) \/ UnknownUser(k) \/ PasswordIsRight(k) \/ PasswordIsWrong(k)
  \/ LoginTick

LoginSpec == LoginInit /\ [][LoginNext]_loginVars

----------------------------------------------------------------------------
(* However many logins of a key passed the check together before the first *)
(* of them failed, and whatever locks began, ended or were pruned during   *)
(* the awaits, the failures on record and those that may still come exceed *)
(* the limit by no more than the logins that were under way at once.       *)
FailuresAreBounded ==
  \A k \in Key : attempts[k].failures + verifying[k] <= MaxFailures + MaxVerifying
=============================================================================
