---------------------------- MODULE SessionList ----------------------------
(***************************************************************************)
(* The list of the sessions of all hosts that the browser shows            *)
(* (frontend/src/App.svelte, lib/session-utils.js).  It is loaded as a     *)
(* whole, which takes three rounds of requests, and retried host by host;  *)
(* loads and retries may overlap.  The sessions of a host are one item,    *)
(* and it is told how often an item is in the list, not where.             *)
(***************************************************************************)
EXTENDS Integers, SequencesExt

CONSTANTS
    Local,         \* DEFAULT_HOST
    RemoteHost,    \* the other hosts
    MaxLoads       \* bound: loads of the list in flight

\* A host with the default name is a local one, whatever its address (isLocalHost).
ASSUME SessionListAssumption == Local \notin RemoteHost

Host == {Local} \cup RemoteHost

VARIABLES
    listed,        \* sessions: how often those of each host are in the list
    hostErrors,    \* sessionHostErrors
    loads,         \* runs of loadSessions
    retries,       \* hosts that are being retried, sessionHostLoading
    overlapped     \* history: a load or a retry began during a load

listVars == <<listed, hostErrors, loads, retries, overlapped>>

OnceEach(hosts) == [h \in Host |-> IF h \in hosts THEN 1 ELSE 0]

ListInit ==
    /\ listed = OnceEach({})
    /\ hostErrors = {}
    /\ loads = <<>>
    /\ retries = {}
    /\ overlapped = FALSE

\* loadSessions: at the start and after everything that changes sessions or
\* hosts (create, rename, delete, save, import, ...).
LoadSessions ==
    /\ Len(loads) < MaxLoads
    /\ hostErrors' = {}
    /\ loads' = Append(loads, [stage |-> "local", waiting |-> {}, found |-> {}])
    /\ overlapped' = (overlapped \/ loads # <<>> \/ retries # {})
    /\ UNCHANGED <<listed, retries>>

\* The answer for the local host replaces the list, even by nothing.
LocalAnswers(i) ==
    /\ loads[i].stage = "local"
    /\ loads' = [loads EXCEPT ![i].stage = "hosts"]
    /\ \/ listed' = OnceEach({Local}) /\ UNCHANGED hostErrors
       \/ listed' = OnceEach({}) /\ hostErrors' = hostErrors \cup {Local}
    /\ UNCHANGED <<retries, overlapped>>

\* The list of hosts: every remote one of them is asked, if there are any.
HostsAnswer(i) ==
    /\ loads[i].stage = "hosts"
    /\ \E remote \in SUBSET RemoteHost :
          loads' = IF remote = {} THEN RemoveAt(loads, i)
                   ELSE [loads EXCEPT ![i].stage = "remote", ![i].waiting = remote]
    /\ UNCHANGED <<listed, hostErrors, retries, overlapped>>

\* A remote host answers or fails; with the last of them, the sessions of all
\* that answered are appended.  A run is over when the list of hosts fails, too.
RemoteAnswers(i, h) ==
    /\ h \in loads[i].waiting
    /\ \E ok \in BOOLEAN :
          LET load == [loads[i] EXCEPT !.waiting = @ \ {h},
                                       !.found = IF ok THEN @ \cup {h} ELSE @]
          IN  /\ hostErrors' = IF ok THEN hostErrors ELSE hostErrors \cup {h}
              /\ IF load.waiting = {}
                 THEN /\ listed' = [other \in Host |-> listed[other] + OnceEach(load.found)[other]]
                      /\ loads' = RemoveAt(loads, i)
                 ELSE /\ loads' = [loads EXCEPT ![i] = load]
                      /\ UNCHANGED listed
    /\ UNCHANGED <<retries, overlapped>>

\* retrySessionHost.
RetrySessionHost(h) ==
    /\ h \in hostErrors \ retries
    /\ retries' = retries \cup {h}
    /\ overlapped' = (overlapped \/ loads # <<>>)
    /\ UNCHANGED <<listed, hostErrors, loads>>

\* Faulty variant: as loadSessions does, the sessions are appended.
RetrySucceedsAppends(h) ==
    /\ h \in retries
    /\ retries' = retries \ {h}
    /\ listed' = [listed EXCEPT ![h] = @ + 1]
    /\ UNCHANGED <<hostErrors, loads, overlapped>>

\* Its answer: replaceHostSessions and clearHostError.
RetrySucceeds(h) ==
    /\ h \in retries
    /\ retries' = retries \ {h}
    /\ listed' = [listed EXCEPT ![h] = 1]
    /\ hostErrors' = hostErrors \ {h}
    /\ UNCHANGED <<loads, overlapped>>

\* removeHostSessions and setHostError.
RetryFails(h) ==
    /\ h \in retries
    /\ retries' = retries \ {h}
    /\ listed' = [listed EXCEPT ![h] = 0]
    /\ hostErrors' = hostErrors \cup {h}
    /\ UNCHANGED <<loads, overlapped>>

ListNext ==
    \/ LoadSessions
    \/ \E i \in DOMAIN loads :
          LocalAnswers(i) \/ HostsAnswer(i) \/ \E h \in RemoteHost : RemoteAnswers(i, h)
    \/ \E h \in Host : RetrySessionHost(h) \/ RetrySucceeds(h) \/ RetryFails(h)

ListSpec == ListInit /\ [][ListNext]_listVars

-----------------------------------------------------------------------------
(* Safety.                                                                  *)

\* As long as no load of the list was overlapped by another or by a retry, the
\* sessions of a host are listed once, and not together with an error of it.
HostIsListedOnce ==
    ~overlapped =>
        \A h \in Host : listed[h] <= IF h \in hostErrors THEN 0 ELSE 1
=============================================================================
