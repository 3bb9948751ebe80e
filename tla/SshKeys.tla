------------------------------ MODULE SshKeys ------------------------------
(***************************************************************************)
(* The directory of managed SSH keys (src/src/services/ssh-keys.js) and    *)
(* the routes that save and delete them.  A key is two files, written and  *)
(* removed one after the other without a file system transaction: a write  *)
(* may fail before or after it has created the file, an unlink may fail,   *)
(* and the server may crash in between.  An operation runs in one turn, so *)
(* it is one action, with the outcomes that failures leave behind.  Names  *)
(* and contents have passed the validation; a file holds the number of the *)
(* save it was written by.  Requests that are refused change nothing.      *)
(***************************************************************************)
EXTENDS Integers

CONSTANTS
  KeyName,   \* names of keys
  MaxSaves   \* bound: saves that wrote something

VARIABLES
  files,      \* what the files name and name.pub of each name hold
  usedKeys,   \* the names whose path is the identity file of some host
  saves,      \* how many saves have written something
  torn        \* history: names with a save or deletion that was cut short

keyVars == <<files, usedKeys, saves, torn>>

Absent == 0
Partial == -1     \* created, and not written to the end

KeysInit == /\ files = [n \in KeyName |-> [private |-> Absent, public |-> Absent]]
            /\ usedKeys = {}
            /\ saves = 0
            /\ torn = {}

(* A file that is not a whole private key is not listed.                   *)
Listed(n) == files[n].private > Absent

Writable(n, withPublic) == /\ files[n].private = Absent
                           /\ withPublic => files[n].public = Absent

Put(n, private, public) ==
  files' = [files EXCEPT ![n] = [private |-> private, public |-> public]]

SaveSucceeds(n, withPublic) ==
  /\ Writable(n, withPublic)
  /\ Put(n, saves + 1, IF withPublic THEN saves + 1 ELSE files[n].public)
  /\ saves' = saves + 1
  /\ UNCHANGED torn

(* A file cannot be created, or one that was written cannot be made        *)
(* private: what this save has created is removed again.                   *)
SaveFails(n, withPublic) ==
  /\ Writable(n, withPublic)
  /\ UNCHANGED <<files, saves, torn>>

(* A write stops half way, before the flag of its file is set, so that the *)
(* file stays; or the server stops between or during the two writes.       *)
SaveIsTorn(n, withPublic) ==
  /\ Writable(n, withPublic)
  /\ \/ Put(n, Partial, files[n].public)
     \/ withPublic /\ Put(n, Absent, Partial)
     \/ withPublic /\ \E public \in {Absent, Partial} : Put(n, saves + 1, public)
  /\ saves' = saves + 1
  /\ torn' = torn \cup {n}

(* Only a key that is listed is protected by the hosts that use it.        *)
Deletable(n) == /\ files[n].private # Absent
                /\ Listed(n) => n \notin usedKeys

\* Faulty variant: the public key stays.
DeleteKeepsPublic(n) == Deletable(n) /\ Put(n, Absent, files[n].public) /\ UNCHANGED <<saves, torn>>

DeleteSshKey(n) == Deletable(n) /\ Put(n, Absent, Absent) /\ UNCHANGED <<saves, torn>>

(* The private key is gone; the public key cannot be removed, or the       *)
(* server stops before.                                                    *)
DeleteIsTorn(n) ==
  /\ Deletable(n) /\ files[n].public # Absent
  /\ Put(n, Absent, files[n].public)
  /\ torn' = torn \cup {n}
  /\ UNCHANGED saves

(* A host is saved with the path of a key, which is not looked for, or     *)
(* without it.                                                             *)
IdentityFileChosen(n) == usedKeys' = usedKeys \cup {n} /\ UNCHANGED <<files, saves, torn>>
IdentityFileLeft(n) == usedKeys' = usedKeys \ {n} /\ UNCHANGED <<files, saves, torn>>

KeysNext == \E n \in KeyName :
  \/ /\ saves < MaxSaves
     /\ \E withPublic \in BOOLEAN :
          SaveSucceeds(n, withPublic) \/ SaveFails(n, withPublic) \/ SaveIsTorn(n, withPublic)
     /\ UNCHANGED usedKeys
  \/ (DeleteSshKey(n) \/ DeleteIsTorn(n)) /\ UNCHANGED usedKeys
  \/ IdentityFileChosen(n) \/ IdentityFileLeft(n)

KeysSpec == KeysInit /\ [][KeysNext]_keyVars

----------------------------------------------------------------------------
(* Whatever saves fail and keys are deleted and saved anew, a public key   *)
(* is the one saved with the private key beside it, except after a write   *)
(* or a deletion of that name was cut short.                               *)
PublicKeyMatches ==
  \A n \in KeyName \ torn : files[n].public \in {Absent, files[n].private}
=============================================================================
