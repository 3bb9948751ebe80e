---------------------------- MODULE ManagedHosts ----------------------------
(***************************************************************************)
(* The table of managed hosts (src/src/lib/managed-host-store.js) under    *)
(* its routes (src/src/routes/managed-hosts.js) and the import of settings *)
(* (src/src/services/settings-backup.js).  A host may be reached through   *)
(* another, its gateway; following gateways must come to an end.  A        *)
(* request works on the table in one turn, except for the tests of hosts,  *)
(* which await an answer while hosts are changed, deleted and created.     *)
(* Addresses and the other columns are left out, requests that are refused *)
(* change nothing, and a host that is disabled is left out of a test of    *)
(* all by choice.                                                          *)
(***************************************************************************)
EXTENDS Integers, SequencesExt

CONSTANTS
  HostName,         \* names of hosts
  TestConcurrency,  \* MANAGED_HOST_TEST_CONCURRENCY
  MaxHostId,        \* bound: ids that are given
  MaxTests,         \* bound: tests of single hosts in flight
  MaxEntries        \* bound: hosts of an import

ASSUME HostsAssumption == /\ IsFiniteSet(HostName)
                          /\ TestConcurrency \in Nat \ {0}
                          /\ {MaxHostId, MaxEntries} \subseteq Nat

VARIABLES
  hostRows,     \* managed_hosts: the rows that exist, by id
  lastId,       \* sqlite_sequence: the largest id ever given
  births,       \* history: how many rows there have been
  tests,        \* tests that await an answer, each with the birth of its row
  waiting       \* what a test of all has not started yet

hostVars == <<hostRows, lastId, births, tests, waiting>>

NoGateway == 0
Untested == 0
HostId == 1 .. MaxHostId

HostRow == [name : HostName, gateway : HostId \cup {NoGateway},
            born : Nat, tested : Nat]   \* tested: the birth of the row that was tested

HostsInit == /\ hostRows = <<>>
             /\ lastId = 0
             /\ births = 0
             /\ tests = {}
             /\ waiting = {}

HostNames(table) == {table[h].name : h \in DOMAIN table}
IdOf(table, name) == CHOOSE h \in DOMAIN table : table[h].name = name

----------------------------------------------------------------------------
(* The walk along the gateways.                                            *)

Closed(table, hosts) ==
  \A h \in hosts : table[h].gateway # NoGateway => table[h].gateway \in hosts

(* The hosts that the walk from h comes through.                           *)
Chain(table, h) ==
  {x \in DOMAIN table :
     \A hosts \in SUBSET DOMAIN table : h \in hosts /\ Closed(table, hosts) => x \in hosts}

(* Each of these has its gateway among them: a walk inside never ends.     *)
Endless(table, hosts) ==
  hosts # {} /\ \A h \in hosts : table[h].gateway \in hosts

\* Faulty variant: only the gateway itself is looked at, not where it leads.
CycleOfTwo(h, gateway) == gateway = h \/ hostRows[gateway].gateway = h

WouldCreateGatewayCycle(h, gateway) ==
  \/ h \in Chain(hostRows, gateway)
  \/ \E hosts \in SUBSET Chain(hostRows, gateway) : Endless(hostRows, hosts)

FindGatewayCycle(table) == \E hosts \in SUBSET DOMAIN table : Endless(table, hosts)

----------------------------------------------------------------------------
(* Rows.                                                                   *)

\* Faulty variant: an id is given again when the newest row is gone.
IdAfterLargest == IF hostRows = <<>> THEN 1 ELSE 1 + Max(DOMAIN hostRows)

NextHostId == lastId + 1

CreateHost(name, gateway) ==
  LET h == NextHostId IN
  /\ h \in HostId /\ name \notin HostNames(hostRows)
  /\ gateway \in DOMAIN hostRows \cup {NoGateway}
  /\ hostRows' = [x \in DOMAIN hostRows \cup {h} |->
       IF x = h THEN [name |-> name, gateway |-> gateway, born |-> births + 1, tested |-> Untested]
       ELSE hostRows[x]]
  /\ lastId' = h /\ births' = births + 1
  /\ UNCHANGED <<tests, waiting>>

(* A request without a gateway of its own keeps the one there is.          *)
UpdateHost(h, name, gateway) ==
  /\ name \notin HostNames(hostRows) \/ name = hostRows[h].name
  /\ \/ gateway = NoGateway
     \/ /\ gateway \in DOMAIN hostRows \ {h}
        /\ ~ WouldCreateGatewayCycle(h, gateway)
  /\ hostRows' = [hostRows EXCEPT ![h].name = name, ![h].gateway = gateway]
  /\ UNCHANGED <<lastId, births, tests, waiting>>

(* ON DELETE SET NULL.                                                     *)
DeleteHost(h) ==
  /\ hostRows' = [x \in DOMAIN hostRows \ {h} |->
       IF hostRows[x].gateway = h THEN [hostRows[x] EXCEPT !.gateway = NoGateway] ELSE hostRows[x]]
  /\ UNCHANGED <<lastId, births, tests, waiting>>

(* The table with rows for these names, whose ids follow in some order.    *)
WithNewHosts(names, id) ==
  [x \in DOMAIN hostRows \cup {id[n] : n \in names} |->
     IF x \in DOMAIN hostRows THEN hostRows[x]
     ELSE [name |-> CHOOSE n \in names : id[n] = x, gateway |-> NoGateway,
           born |-> births + x - NextHostId + 1, tested |-> Untested]]

NewIds(names) ==
  {id \in [names -> NextHostId .. NextHostId + Cardinality(names) - 1] :
     \A m, n \in names : m # n => id[m] # id[n]}

Insert(names) == /\ lastId' = NextHostId + Cardinality(names) - 1
                 /\ births' = births + Cardinality(names)
                 /\ lastId' <= MaxHostId

ImportSshConfigHosts(names) ==
  LET new == names \ HostNames(hostRows) IN
  /\ Insert(new)
  /\ \E id \in NewIds(new) : hostRows' = WithNewHosts(new, id)
  /\ UNCHANGED <<tests, waiting>>

(* An imported host: its name, the name of its gateway, which may be its   *)
(* own or unknown, and whether the other columns are accepted.             *)
ImportEntry == [name : HostName, via : HostName, valid : BOOLEAN]

(* The second pass sets the gateways one entry after the other, and does   *)
(* not ask which entries were accepted by the first.                       *)
GatewayAfter(table, entries, h) ==
  LET deciding == {i \in DOMAIN entries : /\ entries[i].name = table[h].name
                                          /\ entries[i].via \in HostNames(table) \ {table[h].name}}
  IN  IF deciding = {} THEN table[h].gateway
      ELSE IdOf(table, entries[CHOOSE i \in deciding : \A j \in deciding : j <= i].via)

WithGateways(table, entries) ==
  [h \in DOMAIN table |-> [table[h] EXCEPT !.gateway = GatewayAfter(table, entries, h)]]

(* Rows that exist keep their ids and gateways in the first pass.  A cycle *)
(* rolls everything back.                                                  *)
ImportSettingsExport(entries) ==
  LET accepted == {entries[i].name : i \in {j \in DOMAIN entries : entries[j].valid}}
      new      == accepted \ HostNames(hostRows)
  IN  /\ Insert(new)
      /\ \E id \in NewIds(new) :
           /\ hostRows' = WithGateways(WithNewHosts(new, id), entries)
           /\ ~ FindGatewayCycle(hostRows')
      /\ UNCHANGED <<tests, waiting>>

----------------------------------------------------------------------------
(* Tests of hosts.                                                         *)

Test(h, ofAll) == [id |-> h, born |-> hostRows[h].born, ofAll |-> ofAll]
OfAll == {t \in tests : t.ofAll}

(* A test, or an installation of tmux, which ends with one.                *)
TestHost(h) ==
  /\ Cardinality(tests \ OfAll) < MaxTests
  /\ tests' = tests \cup {Test(h, FALSE)}
  /\ UNCHANGED <<hostRows, lastId, births, waiting>>

(* The rows are read once, and as many workers as the limit allows start   *)
(* with one each; the next is taken by the worker that is done.            *)
TestAll(hosts) ==
  LET all == {Test(h, TRUE) : h \in hosts} IN
  /\ OfAll = {} /\ waiting = {}
  /\ \E first \in SUBSET all :
       /\ Cardinality(first) = Min({TestConcurrency, Cardinality(all)})
       /\ tests' = tests \cup first
       /\ waiting' = all \ first
  /\ UNCHANGED <<hostRows, lastId, births>>

TestEnds(t) ==
  IF t.ofAll /\ waiting # {}
  THEN \E next \in waiting : tests' = (tests \ {t}) \cup {next} /\ waiting' = waiting \ {next}
  ELSE tests' = tests \ {t} /\ UNCHANGED waiting

(* The result goes to the row that has the id now, if there is one.        *)
TestAnswers(t) ==
  /\ TestEnds(t)
  /\ hostRows' = [h \in DOMAIN hostRows |->
       IF h = t.id THEN [hostRows[h] EXCEPT !.tested = t.born] ELSE hostRows[h]]
  /\ UNCHANGED <<lastId, births>>

TestFails(t) == TestEnds(t) /\ UNCHANGED <<hostRows, lastId, births>>

HostsNext ==
  \/ \E name \in HostName, gateway \in HostId \cup {NoGateway} :
       CreateHost(name, gateway) \/ \E h \in DOMAIN hostRows : UpdateHost(h, name, gateway)
  \/ \E h \in DOMAIN hostRows : DeleteHost(h) \/ TestHost(h)
  \/ \E names \in SUBSET HostName : ImportSshConfigHosts(names)
  \/ \E n \in 1 .. MaxEntries : \E entries \in [1 .. n -> ImportEntry] : ImportSettingsExport(entries)
  \/ \E hosts \in SUBSET DOMAIN hostRows : TestAll(hosts)
  \/ \E t \in tests : TestAnswers(t) \/ TestFails(t)

HostsSpec == HostsInit /\ [][HostsNext]_hostVars

----------------------------------------------------------------------------
(* Whatever hosts are created, changed, deleted and imported, a gateway is *)
(* a host that exists, and following the gateways comes to an end.         *)
GatewaysEnd ==
  /\ \A h \in DOMAIN hostRows : hostRows[h].gateway \in DOMAIN hostRows \cup {NoGateway}
  /\ ~ FindGatewayCycle(hostRows)

(* The result that a row holds is of a test of this very host, although it *)
(* was awaited while hosts were deleted and created.                       *)
ResultIsOfThisHost == \A h \in DOMAIN hostRows : hostRows[h].tested \in {Untested, hostRows[h].born}
=============================================================================
