----------------------------- MODULE ServerProofs -----------------------------
(***************************************************************************)
(* Tables and trackers of the server: managed hosts, logins, SSH keys,     *)
(* diagnoses of hosts, the tables that are exported and imported, and the  *)
(* SSH configuration.                                                      *)
(***************************************************************************)
EXTENDS ManagedHosts, LoginAttempts, SshKeys, HostDiagnostics, SettingsTables,
        HostRows, SshConfig, ListLemmas, NaturalsInduction

-----------------------------------------------------------------------------
(***************************************************************************)
(* Gateways and results of tests of managed hosts (ManagedHosts), for      *)
(* every finite set of names, every limit of concurrent tests and every    *)
(* size of an import.                                                      *)
(***************************************************************************)

Row == [name : HostName, gateway : Nat, born : Nat, tested : Nat]
TestRecord == [id : Nat, born : Nat, ofAll : BOOLEAN]

HostsTypes ==
    /\ lastId \in Nat
    /\ births \in Nat
    /\ DOMAIN hostRows \subseteq 1 .. lastId
    /\ hostRows \in [DOMAIN hostRows -> Row]
    /\ tests \cup waiting \subseteq TestRecord

\* A test is of a host that had an id by then, and if there still is a row with
\* the id, it is that host.
TestsAreOfTheirHosts ==
    \A t \in tests \cup waiting :
        /\ t.id <= lastId
        /\ t.id \in DOMAIN hostRows => hostRows[t.id].born = t.born

HostsInv == HostsTypes /\ GatewaysEnd /\ TestsAreOfTheirHosts /\ ResultIsOfThisHost

-----------------------------------------------------------------------------
(* Tables.                                                                  *)

Table(t) == DOMAIN t \subseteq Nat \ {0} /\ t \in [DOMAIN t -> Row]

\* A change that gives no host another gateway makes no cycle: the rows it adds
\* or releases have none (lib/managed-host-store.js).
LEMMA SameGatewaysNoCycle ==
    ASSUME NEW t, NEW u, ~FindGatewayCycle(t),
           \A h \in DOMAIN u : u[h].gateway \in DOMAIN u =>
               h \in DOMAIN t /\ t[h].gateway = u[h].gateway
    PROVE  ~FindGatewayCycle(u)
<1> SUFFICES ASSUME NEW S \in SUBSET DOMAIN u, Endless(u, S)
             PROVE  FALSE
    BY DEF FindGatewayCycle
<1>1. \A h \in S : h \in DOMAIN t /\ t[h].gateway \in S
    BY DEF Endless
<1>2. Endless(t, S) /\ S \in SUBSET DOMAIN t
    BY <1>1 DEF Endless
<1> QED
    BY <1>2 DEF FindGatewayCycle

\* A row that is new may have a gateway, since no row has it for one
\* (lib/managed-host-store.js createHost).
LEMMA NewRowNoCycle ==
    ASSUME NEW t, NEW u, NEW h, NEW none, ~FindGatewayCycle(t),
           h \notin DOMAIN t, h # none, none \notin DOMAIN u,
           DOMAIN u = DOMAIN t \cup {h},
           u[h].gateway \in DOMAIN t \cup {none},
           \A x \in DOMAIN t : u[x] = t[x] /\ t[x].gateway \in DOMAIN t \cup {none}
    PROVE  ~FindGatewayCycle(u)
<1> SUFFICES ASSUME NEW S \in SUBSET DOMAIN u, Endless(u, S)
             PROVE  FALSE
    BY DEF FindGatewayCycle
<1>1. \A x \in S : u[x].gateway \in S \ {h}
    BY DEF Endless
<1>2. S \ {h} # {}
    BY <1>1 DEF Endless
<1>3. Endless(t, S \ {h}) /\ S \ {h} \in SUBSET DOMAIN t
    BY <1>1, <1>2 DEF Endless
<1> QED
    BY <1>3 DEF FindGatewayCycle

\* A gateway may be set when the walk from it neither comes through the host
\* nor goes round (lib/managed-host-store.js wouldCreateGatewayCycle).
LEMMA GatewaySetNoCycle ==
    ASSUME NEW t, NEW u, NEW h \in DOMAIN t, NEW gateway \in DOMAIN t, NEW none,
           none \notin DOMAIN t, none = NoGateway, ~FindGatewayCycle(t),
           h \notin Chain(t, gateway),
           DOMAIN u = DOMAIN t, u[h].gateway = gateway,
           \A x \in DOMAIN t \ {h} : u[x].gateway = t[x].gateway
    PROVE  ~FindGatewayCycle(u)
<1> SUFFICES ASSUME NEW S \in SUBSET DOMAIN u, Endless(u, S)
             PROVE  FALSE
    BY DEF FindGatewayCycle
<1>1. CASE h \notin S
    <2>1. Endless(t, S)
        BY <1>1 DEF Endless
    <2> QED
        BY <2>1 DEF FindGatewayCycle
<1>2. CASE h \in S
    <2> DEFINE C == Chain(t, gateway)
    <2>1. gateway \in C /\ C \subseteq DOMAIN t /\ h \notin C
        BY DEF Chain
    <2>2. gateway \in S
        BY <1>2 DEF Endless
    <2>3. ASSUME NEW x \in S \cap C
          PROVE  t[x].gateway \in S \cap C
        <3>1. x # h /\ x \in DOMAIN t
            BY <2>1
        <3>2. t[x].gateway \in S
            BY <3>1 DEF Endless
        <3>3. t[x].gateway \in DOMAIN t /\ t[x].gateway # NoGateway
            BY <3>2
        <3>4. ASSUME NEW hosts \in SUBSET DOMAIN t, gateway \in hosts, Closed(t, hosts)
              PROVE  t[x].gateway \in hosts
            <4>1. x \in hosts
                BY <2>3, <3>4 DEF Chain
            <4> QED
                BY <3>3, <3>4, <4>1 DEF Closed
        <3>5. t[x].gateway \in C
            BY <3>3, <3>4 DEF Chain
        <3> QED
            BY <3>2, <3>5
    <2> HIDE DEF C
    <2>4. Endless(t, S \cap C)
        BY <2>1, <2>2, <2>3 DEF Endless
    <2> QED
        BY <2>1, <2>4 DEF FindGatewayCycle
<1> QED
    BY <1>1, <1>2

-----------------------------------------------------------------------------
(* Imports.                                                                 *)

\* How many ids are given to new rows.
LEMMA NameCount ==
    ASSUME NEW names \in SUBSET HostName
    PROVE  Cardinality(names) \in Nat
BY HostsAssumption, FS_Subset, FS_CardinalityType

\* The table with the rows of an import (routes/managed-hosts.js, the import of
\* the ssh configuration; services/settings-backup.js, the first pass).
LEMMA NewHostsFacts ==
    ASSUME HostsTypes, NEW names \in SUBSET HostName, NEW id \in NewIds(names)
    PROVE  LET u == WithNewHosts(names, id) IN
           /\ DOMAIN hostRows \subseteq DOMAIN u
           /\ DOMAIN u \subseteq 1 .. lastId + Cardinality(names)
           /\ u \in [DOMAIN u -> Row]
           /\ \A x \in DOMAIN hostRows : u[x] = hostRows[x]
           /\ \A x \in DOMAIN u \ DOMAIN hostRows :
                  x > lastId /\ u[x].gateway = NoGateway /\ u[x].tested = Untested
<1> DEFINE u == WithNewHosts(names, id)
           ids == {id[n] : n \in names}
<1>1. Cardinality(names) \in Nat
    BY NameCount
<1>2. id \in [names -> lastId + 1 .. lastId + Cardinality(names)]
    BY <1>1 DEF NewIds, NextHostId, HostsTypes
<1>3. \A x \in ids : x \in lastId + 1 .. lastId + Cardinality(names)
    BY <1>2
<1>4. DOMAIN u = DOMAIN hostRows \cup ids
    BY DEF WithNewHosts
<1>5. \A x \in DOMAIN hostRows : u[x] = hostRows[x] /\ u[x] \in Row
    BY DEF WithNewHosts, HostsTypes
<1>6. ASSUME NEW x \in DOMAIN u \ DOMAIN hostRows
      PROVE  /\ x > lastId /\ u[x].gateway = NoGateway /\ u[x].tested = Untested
             /\ u[x] \in Row
    <2>1. x \in ids
        BY <1>4
    <2>2. u[x] = [name |-> CHOOSE n \in names : id[n] = x, gateway |-> NoGateway,
                  born |-> births + x - NextHostId + 1, tested |-> Untested]
        BY <1>4 DEF WithNewHosts
    <2>3. x \in Nat /\ x > lastId
        <3>1. x \in lastId + 1 .. lastId + Cardinality(names)
            BY <1>3, <2>1
        <3> QED
            BY <1>1, <3>1 DEF HostsTypes
    <2>4. births + x - NextHostId + 1 \in Nat
        BY <2>3 DEF HostsTypes, NextHostId
    <2>5. (CHOOSE n \in names : id[n] = x) \in HostName
        BY <2>1
    <2> QED
        BY <2>2, <2>3, <2>4, <2>5 DEF Row, NoGateway, Untested
<1>7. DOMAIN u \subseteq 1 .. lastId + Cardinality(names)
    <2>1. \A x \in DOMAIN hostRows : x \in 1 .. lastId + Cardinality(names)
        BY <1>1 DEF HostsTypes
    <2>2. \A x \in ids : x \in 1 .. lastId + Cardinality(names)
        BY <1>1, <1>3 DEF HostsTypes
    <2> QED
        BY <1>4, <2>1, <2>2
<1>8. u = [x \in DOMAIN u |-> u[x]]
    BY DEF WithNewHosts
<1>9. \A x \in DOMAIN u : u[x] \in Row
    BY <1>5, <1>6
<1>10. u \in [DOMAIN u -> Row]
    <2> HIDE DEF u
    <2> QED
        BY <1>8, <1>9
<1>11. DOMAIN hostRows \subseteq DOMAIN u
    BY <1>4
<1>12. \A x \in DOMAIN u \ DOMAIN hostRows :
           x > lastId /\ u[x].gateway = NoGateway /\ u[x].tested = Untested
    BY <1>6
<1> HIDE DEF u
<1>13. /\ DOMAIN hostRows \subseteq DOMAIN u
       /\ DOMAIN u \subseteq 1 .. lastId + Cardinality(names)
       /\ u \in [DOMAIN u -> Row]
       /\ \A x \in DOMAIN hostRows : u[x] = hostRows[x]
       /\ \A x \in DOMAIN u \ DOMAIN hostRows :
              x > lastId /\ u[x].gateway = NoGateway /\ u[x].tested = Untested
    BY <1>5, <1>7, <1>10, <1>11, <1>12
<1> QED
    BY <1>13 DEF u

\* The second pass gives a host a gateway of the table
\* (services/settings-backup.js).
LEMMA GatewayOfImport ==
    ASSUME NEW t, NEW n \in Nat, NEW entries \in [1 .. n -> ImportEntry], NEW h \in DOMAIN t,
           t[h].gateway \in DOMAIN t \cup {NoGateway}
    PROVE  GatewayAfter(t, entries, h) \in DOMAIN t \cup {NoGateway}
<1> DEFINE deciding == {i \in DOMAIN entries : /\ entries[i].name = t[h].name
                                               /\ entries[i].via \in HostNames(t) \ {t[h].name}}
<1>1. CASE deciding = {}
    BY <1>1 DEF GatewayAfter
<1>2. CASE deciding # {}
    <2>1. deciding \in SUBSET Nat /\ \A i \in deciding : i <= n
        OBVIOUS
    <2>2. \E i \in deciding : \A j \in deciding : j <= i
        <3> HIDE DEF deciding
        <3> QED
            BY <1>2, <2>1, LargestExists
    <2> DEFINE last == CHOOSE i \in deciding : \A j \in deciding : j <= i
    <2>3. last \in deciding
        <3> HIDE DEF deciding
        <3> QED
            BY <2>2
    <2>4. entries[last].via \in HostNames(t)
        <3> HIDE DEF last
        <3> QED
            BY <2>3
    <2>5. IdOf(t, entries[last].via) \in DOMAIN t
        <3> HIDE DEF last
        <3> QED
            BY <2>4 DEF IdOf, HostNames
    <2>6. GatewayAfter(t, entries, h) = IdOf(t, entries[last].via)
        BY <1>2 DEF GatewayAfter
    <2> QED
        BY <2>5, <2>6
<1> QED
    BY <1>1, <1>2

-----------------------------------------------------------------------------
(* The steps.                                                               *)

\* No host has the id that stands for no gateway (lib/managed-host-store.js).
LEMMA IdFacts ==
    ASSUME HostsTypes
    PROVE  /\ NoGateway \notin DOMAIN hostRows
           /\ DOMAIN hostRows \subseteq Nat
           /\ \A h \in DOMAIN hostRows : hostRows[h] \in Row /\ h <= lastId
BY DEF HostsTypes, NoGateway

\* A row is created (lib/managed-host-store.js createHost).
LEMMA CreateHostStep ==
    ASSUME HostsInv, NEW name \in HostName, NEW gateway \in HostId \cup {NoGateway},
           CreateHost(name, gateway)
    PROVE  HostsInv'
<1> DEFINE h == lastId + 1
           row == [name |-> name, gateway |-> gateway, born |-> births + 1, tested |-> Untested]
<1>1. /\ hostRows' = [x \in DOMAIN hostRows \cup {h} |-> IF x = h THEN row ELSE hostRows[x]]
      /\ lastId' = h /\ births' = births + 1 /\ tests' = tests /\ waiting' = waiting
      /\ gateway \in DOMAIN hostRows \cup {NoGateway}
    BY DEF CreateHost, NextHostId
<1>2. h \in Nat /\ h # NoGateway /\ h > lastId /\ h \notin DOMAIN hostRows
    BY IdFacts DEF HostsInv, HostsTypes, NoGateway
<1>3. row \in Row
    BY <1>1, IdFacts DEF HostsInv, HostsTypes, Row, NoGateway, Untested
<1>4. /\ DOMAIN hostRows' = DOMAIN hostRows \cup {h}
      /\ hostRows'[h] = row
      /\ \A x \in DOMAIN hostRows : hostRows'[x] = hostRows[x]
    BY <1>1, <1>2
<1>5. HostsTypes'
    <2>1. \A x \in DOMAIN hostRows' : hostRows'[x] \in Row
        BY <1>3, <1>4, IdFacts DEF HostsInv
    <2>2. hostRows' \in [DOMAIN hostRows' -> Row]
        BY <1>1, <2>1
    <2>3. DOMAIN hostRows' \subseteq 1 .. lastId'
        BY <1>1, <1>2, <1>4 DEF HostsInv, HostsTypes
    <2> QED
        BY <1>1, <1>2, <2>2, <2>3 DEF HostsInv, HostsTypes
<1>6. GatewaysEnd'
    <2>1. \A x \in DOMAIN hostRows : hostRows[x].gateway \in DOMAIN hostRows \cup {NoGateway}
        BY DEF HostsInv, GatewaysEnd
    <2>2. NoGateway \notin DOMAIN hostRows'
        BY <1>2, <1>4, IdFacts DEF HostsInv
    <2>3. hostRows'[h].gateway \in DOMAIN hostRows \cup {NoGateway}
        BY <1>1, <1>4
    <2> HIDE DEF h, row
    <2>4. ~FindGatewayCycle(hostRows')
        BY <1>2, <1>4, <2>1, <2>2, <2>3, NewRowNoCycle DEF HostsInv, GatewaysEnd
    <2> QED
        BY <1>4, <2>1, <2>3, <2>4 DEF GatewaysEnd
<1>7. TestsAreOfTheirHosts'
    BY <1>1, <1>2, <1>4 DEF HostsInv, HostsTypes, TestRecord, TestsAreOfTheirHosts
<1>8. ResultIsOfThisHost'
    BY <1>4 DEF HostsInv, ResultIsOfThisHost
<1> QED
    BY <1>5, <1>6, <1>7, <1>8 DEF HostsInv

\* A row is changed (lib/managed-host-store.js updateHost).
LEMMA UpdateHostStep ==
    ASSUME HostsInv, NEW h \in DOMAIN hostRows, NEW name \in HostName,
           NEW gateway \in HostId \cup {NoGateway}, UpdateHost(h, name, gateway)
    PROVE  HostsInv'
<1>1. /\ hostRows' = [hostRows EXCEPT ![h].name = name, ![h].gateway = gateway]
      /\ UNCHANGED <<lastId, births, tests, waiting>>
    BY DEF UpdateHost
<1>2. gateway \in DOMAIN hostRows \cup {NoGateway}
    BY DEF UpdateHost
<1>3. gateway \in Nat
    BY <1>2, IdFacts DEF HostsInv, NoGateway
<1>4. /\ DOMAIN hostRows' = DOMAIN hostRows
      /\ \A x \in DOMAIN hostRows \ {h} : hostRows'[x] = hostRows[x]
      /\ hostRows'[h] \in Row /\ hostRows'[h].gateway = gateway
      /\ hostRows'[h].born = hostRows[h].born /\ hostRows'[h].tested = hostRows[h].tested
    <2>1. hostRows[h] \in Row
        BY IdFacts DEF HostsInv
    <2> QED
        BY <1>1, <1>3, <2>1 DEF Row
<1>5. HostsTypes'
    <2>1. \A x \in DOMAIN hostRows' : hostRows'[x] \in Row
        BY <1>4, IdFacts DEF HostsInv
    <2>2. hostRows' \in [DOMAIN hostRows' -> Row]
        BY <1>1, <2>1
    <2> QED
        BY <1>1, <1>4, <2>2 DEF HostsInv, HostsTypes
<1>6. GatewaysEnd'
    <2>1. NoGateway \notin DOMAIN hostRows
        BY IdFacts DEF HostsInv
    <2>2. \A x \in DOMAIN hostRows' : hostRows'[x].gateway \in DOMAIN hostRows' \cup {NoGateway}
        BY <1>2, <1>4 DEF HostsInv, GatewaysEnd
    <2>3. CASE gateway = NoGateway
        <3>1. ~FindGatewayCycle(hostRows')
            BY <1>4, <2>1, <2>3, SameGatewaysNoCycle DEF HostsInv, GatewaysEnd
        <3> QED
            BY <2>2, <3>1 DEF GatewaysEnd
    <2>4. CASE gateway # NoGateway
        <3>1. gateway \in DOMAIN hostRows /\ h \notin Chain(hostRows, gateway)
            BY <1>2, <2>4 DEF UpdateHost, WouldCreateGatewayCycle
        <3>2. \A x \in DOMAIN hostRows \ {h} : hostRows'[x].gateway = hostRows[x].gateway
            BY <1>4
        <3>3. ~FindGatewayCycle(hostRows')
            BY <1>4, <2>1, <3>1, <3>2, GatewaySetNoCycle DEF HostsInv, GatewaysEnd
        <3> QED
            BY <2>2, <3>3 DEF GatewaysEnd
    <2> QED
        BY <2>3, <2>4
<1>7. \A x \in DOMAIN hostRows : /\ hostRows'[x].born = hostRows[x].born
                                 /\ hostRows'[x].tested = hostRows[x].tested
    BY <1>4
<1>8. TestsAreOfTheirHosts' /\ ResultIsOfThisHost'
    BY <1>1, <1>4, <1>7 DEF HostsInv, TestsAreOfTheirHosts, ResultIsOfThisHost
<1> QED
    BY <1>5, <1>6, <1>8 DEF HostsInv

\* A row is deleted, and hosts behind it have no gateway any more
\* (lib/managed-host-store.js deleteHost, lib/db.js).
LEMMA DeleteHostStep ==
    ASSUME HostsInv, NEW h \in DOMAIN hostRows, DeleteHost(h)
    PROVE  HostsInv'
<1>1. /\ hostRows' = [x \in DOMAIN hostRows \ {h} |->
             IF hostRows[x].gateway = h THEN [hostRows[x] EXCEPT !.gateway = NoGateway]
             ELSE hostRows[x]]
      /\ UNCHANGED <<lastId, births, tests, waiting>>
    BY DEF DeleteHost
<1>2. DOMAIN hostRows' = DOMAIN hostRows \ {h}
    BY <1>1
<1>3. ASSUME NEW x \in DOMAIN hostRows'
      PROVE  /\ hostRows'[x] \in Row
             /\ hostRows'[x].gateway \in {NoGateway, hostRows[x].gateway} \ {h}
             /\ hostRows'[x].born = hostRows[x].born
             /\ hostRows'[x].tested = hostRows[x].tested
    <2>1. hostRows[x] \in Row /\ h # NoGateway
        BY <1>2, IdFacts DEF HostsInv
    <2> QED
        BY <1>1, <1>2, <2>1 DEF Row, NoGateway
<1>4. HostsTypes'
    <2>1. hostRows' \in [DOMAIN hostRows' -> Row]
        BY <1>1, <1>3
    <2> QED
        BY <1>1, <1>2, <2>1 DEF HostsInv, HostsTypes
<1>5. GatewaysEnd'
    <2>1. NoGateway \notin DOMAIN hostRows'
        BY <1>2, IdFacts DEF HostsInv
    <2>2. ~FindGatewayCycle(hostRows')
        BY <1>2, <1>3, <2>1, SameGatewaysNoCycle DEF HostsInv, GatewaysEnd
    <2>3. \A x \in DOMAIN hostRows' : hostRows'[x].gateway \in DOMAIN hostRows' \cup {NoGateway}
        BY <1>2, <1>3 DEF HostsInv, GatewaysEnd
    <2> QED
        BY <2>2, <2>3 DEF GatewaysEnd
<1>6. TestsAreOfTheirHosts' /\ ResultIsOfThisHost'
    BY <1>1, <1>2, <1>3 DEF HostsInv, TestsAreOfTheirHosts, ResultIsOfThisHost
<1> QED
    BY <1>4, <1>5, <1>6 DEF HostsInv

\* What the two imports have in common: rows are added, and gateways may change.
LEMMA ImportStep ==
    ASSUME HostsInv, NEW names \in SUBSET HostName, NEW id \in NewIds(names),
           Insert(names), UNCHANGED <<tests, waiting>>,
           LET u == WithNewHosts(names, id) IN
               /\ DOMAIN hostRows' = DOMAIN u
               /\ hostRows' \in [DOMAIN u -> Row]
               /\ \A x \in DOMAIN u : /\ hostRows'[x].born = u[x].born
                                      /\ hostRows'[x].tested = u[x].tested
    PROVE  HostsTypes' /\ TestsAreOfTheirHosts' /\ ResultIsOfThisHost'
<1> DEFINE u == WithNewHosts(names, id)
           k == Cardinality(names)
<1>1. /\ DOMAIN hostRows \subseteq DOMAIN u
      /\ DOMAIN u \subseteq 1 .. lastId + k
      /\ \A x \in DOMAIN hostRows : u[x] = hostRows[x]
      /\ \A x \in DOMAIN u \ DOMAIN hostRows : x > lastId /\ u[x].tested = Untested
    BY NewHostsFacts DEF HostsInv
<1>2. /\ DOMAIN hostRows' = DOMAIN u
      /\ hostRows' \in [DOMAIN u -> Row]
      /\ \A x \in DOMAIN u : /\ hostRows'[x].born = u[x].born
                             /\ hostRows'[x].tested = u[x].tested
    OBVIOUS
<1> HIDE DEF u
<1>3. k \in Nat
    BY NameCount
<1>4. lastId' = lastId + k /\ births' = births + k
    BY <1>3 DEF Insert, NextHostId, HostsInv, HostsTypes
<1>5. HostsTypes'
    BY <1>1, <1>2, <1>3, <1>4 DEF HostsInv, HostsTypes
<1>6. TestsAreOfTheirHosts'
    <2> SUFFICES ASSUME NEW t \in tests \cup waiting
                 PROVE  t.id <= lastId' /\ (t.id \in DOMAIN hostRows' => hostRows'[t.id].born = t.born)
        BY DEF TestsAreOfTheirHosts
    <2>1. t.id \in Nat /\ t.id <= lastId
        BY DEF HostsInv, HostsTypes, TestRecord, TestsAreOfTheirHosts
    <2>2. t.id \in DOMAIN hostRows' => t.id \in DOMAIN hostRows
        BY <1>1, <1>2, <2>1 DEF HostsInv, HostsTypes
    <2>3. t.id <= lastId'
        BY <1>3, <1>4, <2>1 DEF HostsInv, HostsTypes
    <2> QED
        BY <1>1, <1>2, <2>2, <2>3 DEF HostsInv, TestsAreOfTheirHosts
<1>7. ResultIsOfThisHost'
    BY <1>1, <1>2 DEF HostsInv, ResultIsOfThisHost
<1> QED
    BY <1>5, <1>6, <1>7

\* Rows without a gateway are added (routes/managed-hosts.js).
LEMMA ImportSshConfigStep ==
    ASSUME HostsInv, NEW names \in SUBSET HostName, ImportSshConfigHosts(names)
    PROVE  HostsInv'
<1> DEFINE new == names \ HostNames(hostRows)
<1>1. Insert(new) /\ UNCHANGED <<tests, waiting>>
    BY DEF ImportSshConfigHosts
<1>2. PICK id \in NewIds(new) : hostRows' = WithNewHosts(new, id)
    BY DEF ImportSshConfigHosts
<1>3. new \in SUBSET HostName
    OBVIOUS
<1> HIDE DEF new
<1>4. /\ DOMAIN hostRows \subseteq DOMAIN hostRows'
      /\ DOMAIN hostRows' \subseteq 1 .. lastId + Cardinality(new)
      /\ hostRows' \in [DOMAIN hostRows' -> Row]
      /\ \A x \in DOMAIN hostRows : hostRows'[x] = hostRows[x]
      /\ \A x \in DOMAIN hostRows' \ DOMAIN hostRows : hostRows'[x].gateway = NoGateway
    BY <1>2, <1>3, NewHostsFacts DEF HostsInv
<1>5. HostsTypes' /\ TestsAreOfTheirHosts' /\ ResultIsOfThisHost'
    BY <1>1, <1>2, <1>3, <1>4, ImportStep
<1>6. GatewaysEnd'
    <2>1. NoGateway \notin DOMAIN hostRows'
        BY <1>5 DEF HostsTypes, NoGateway
    <2>2. ~FindGatewayCycle(hostRows')
        BY <1>4, <2>1, SameGatewaysNoCycle DEF HostsInv, GatewaysEnd
    <2> QED
        BY <1>4, <2>2 DEF HostsInv, GatewaysEnd
<1> QED
    BY <1>5, <1>6 DEF HostsInv

\* Rows are added and gateways set; a cycle rolls everything back
\* (services/settings-backup.js).
LEMMA ImportSettingsStep ==
    ASSUME HostsInv, NEW n \in Nat, NEW entries \in [1 .. n -> ImportEntry],
           ImportSettingsExport(entries)
    PROVE  HostsInv'
<1> DEFINE taken == {entries[i].name : i \in {j \in DOMAIN entries : entries[j].valid}}
           new == taken \ HostNames(hostRows)
<1>1. Insert(new) /\ UNCHANGED <<tests, waiting>>
    BY DEF ImportSettingsExport
<1>2. PICK id \in NewIds(new) : /\ hostRows' = WithGateways(WithNewHosts(new, id), entries)
                                /\ ~FindGatewayCycle(hostRows')
    BY DEF ImportSettingsExport
<1>3. new \in SUBSET HostName
    BY DEF ImportEntry
<1> HIDE DEF new
<1> DEFINE u == WithNewHosts(new, id)
<1>4. /\ DOMAIN hostRows \subseteq DOMAIN u
      /\ DOMAIN u \subseteq 1 .. lastId + Cardinality(new)
      /\ u \in [DOMAIN u -> Row]
      /\ \A x \in DOMAIN hostRows : u[x] = hostRows[x]
      /\ \A x \in DOMAIN u \ DOMAIN hostRows : u[x].gateway = NoGateway
    BY <1>3, NewHostsFacts DEF HostsInv
<1>5. hostRows' = [h \in DOMAIN u |-> [u[h] EXCEPT !.gateway = GatewayAfter(u, entries, h)]]
    BY <1>2 DEF WithGateways
<1> HIDE DEF u
<1>6. \A h \in DOMAIN u : u[h].gateway \in DOMAIN u \cup {NoGateway}
    BY <1>4 DEF HostsInv, GatewaysEnd
<1>7. \A h \in DOMAIN u : GatewayAfter(u, entries, h) \in DOMAIN u \cup {NoGateway}
    BY <1>6, GatewayOfImport
<1>8. Cardinality(new) \in Nat
    BY <1>3, NameCount
<1>9. DOMAIN u \subseteq Nat
    BY <1>4, <1>8 DEF HostsInv, HostsTypes
<1>10. ASSUME NEW h \in DOMAIN u
       PROVE  /\ hostRows'[h] \in Row
              /\ hostRows'[h].gateway = GatewayAfter(u, entries, h)
              /\ hostRows'[h].born = u[h].born
              /\ hostRows'[h].tested = u[h].tested
    <2>1. u[h] \in Row
        BY <1>4
    <2>2. GatewayAfter(u, entries, h) \in Nat
        BY <1>7, <1>9 DEF NoGateway
    <2>3. hostRows'[h] = [u[h] EXCEPT !.gateway = GatewayAfter(u, entries, h)]
        BY <1>5
    <2> QED
        BY <2>1, <2>2, <2>3 DEF Row
<1>11. hostRows' \in [DOMAIN u -> Row] /\ DOMAIN hostRows' = DOMAIN u
    BY <1>5, <1>10
<1>12. HostsTypes' /\ TestsAreOfTheirHosts' /\ ResultIsOfThisHost'
    BY <1>1, <1>3, <1>10, <1>11, ImportStep DEF u
<1>13. GatewaysEnd'
    BY <1>2, <1>7, <1>10, <1>11 DEF GatewaysEnd
<1> QED
    BY <1>12, <1>13 DEF HostsInv

\* A test begins (routes/managed-hosts.js).
LEMMA TestBeginsStep ==
    ASSUME HostsInv, UNCHANGED <<hostRows, lastId, births>>,
           NEW begun, \A t \in begun : \E h \in DOMAIN hostRows, all \in BOOLEAN : t = Test(h, all),
           tests' \cup waiting' \subseteq tests \cup waiting \cup begun
    PROVE  HostsInv'
<1>1. \A t \in begun : /\ t \in TestRecord /\ t.id \in DOMAIN hostRows
                       /\ t.id <= lastId /\ hostRows[t.id].born = t.born
    <2> SUFFICES ASSUME NEW t \in begun
                 PROVE  /\ t \in TestRecord /\ t.id \in DOMAIN hostRows
                        /\ t.id <= lastId /\ hostRows[t.id].born = t.born
        OBVIOUS
    <2>1. PICK h \in DOMAIN hostRows, all \in BOOLEAN : t = Test(h, all)
        OBVIOUS
    <2>2. h \in Nat /\ h <= lastId /\ hostRows[h].born \in Nat
        BY IdFacts DEF HostsInv, Row
    <2> QED
        BY <2>1, <2>2 DEF Test, TestRecord
<1>2. HostsTypes'
    BY <1>1 DEF HostsInv, HostsTypes
<1>3. TestsAreOfTheirHosts'
    BY <1>1 DEF HostsInv, TestsAreOfTheirHosts
<1> QED
    BY <1>2, <1>3 DEF HostsInv, GatewaysEnd, FindGatewayCycle, Endless, ResultIsOfThisHost

\* A test ends: none is in flight that was not before (routes/managed-hosts.js,
\* lib/concurrency.js).
LEMMA TestEndsFacts ==
    ASSUME NEW t \in tests, TestEnds(t)
    PROVE  tests' \cup waiting' \subseteq tests \cup waiting
<1>1. CASE t.ofAll /\ waiting # {}
    BY <1>1 DEF TestEnds
<1>2. CASE ~(t.ofAll /\ waiting # {})
    BY <1>2 DEF TestEnds
<1> QED
    BY <1>1, <1>2

\* The result goes to the row that has the id (lib/managed-host-store.js).
LEMMA TestAnswersStep ==
    ASSUME HostsInv, NEW t \in tests, TestAnswers(t)
    PROVE  HostsInv'
<1>1. /\ hostRows' = [h \in DOMAIN hostRows |->
             IF h = t.id THEN [hostRows[h] EXCEPT !.tested = t.born] ELSE hostRows[h]]
      /\ UNCHANGED <<lastId, births>>
      /\ tests' \cup waiting' \subseteq tests \cup waiting
    BY TestEndsFacts DEF TestAnswers
<1>2. t.born \in Nat /\ (t.id \in DOMAIN hostRows => hostRows[t.id].born = t.born)
    BY DEF HostsInv, HostsTypes, TestRecord, TestsAreOfTheirHosts
<1>3. ASSUME NEW h \in DOMAIN hostRows
      PROVE  /\ hostRows'[h] \in Row
             /\ hostRows'[h].gateway = hostRows[h].gateway
             /\ hostRows'[h].born = hostRows[h].born
             /\ hostRows'[h].tested \in {hostRows[h].tested, hostRows[h].born}
    <2>1. hostRows[h] \in Row
        BY IdFacts DEF HostsInv
    <2> QED
        BY <1>1, <1>2, <2>1 DEF Row
<1>4. DOMAIN hostRows' = DOMAIN hostRows /\ hostRows' \in [DOMAIN hostRows -> Row]
    BY <1>1, <1>3
<1>5. HostsTypes'
    BY <1>1, <1>4 DEF HostsInv, HostsTypes
<1>6. GatewaysEnd'
    <2>1. ~FindGatewayCycle(hostRows')
        BY <1>3, <1>4, SameGatewaysNoCycle DEF HostsInv, GatewaysEnd
    <2> QED
        BY <1>3, <1>4, <2>1 DEF HostsInv, GatewaysEnd
<1>7. TestsAreOfTheirHosts' /\ ResultIsOfThisHost'
    BY <1>1, <1>3, <1>4 DEF HostsInv, TestsAreOfTheirHosts, ResultIsOfThisHost
<1> QED
    BY <1>5, <1>6, <1>7 DEF HostsInv

\* The invariant is kept by every step.
LEMMA HostsInvStep == HostsInv /\ [HostsNext]_hostVars => HostsInv'
<1> SUFFICES ASSUME HostsInv, [HostsNext]_hostVars
             PROVE  HostsInv'
    OBVIOUS
<1>1. ASSUME NEW name \in HostName, NEW gateway \in HostId \cup {NoGateway},
             CreateHost(name, gateway)
      PROVE  HostsInv'
    BY <1>1, CreateHostStep
<1>2. ASSUME NEW name \in HostName, NEW gateway \in HostId \cup {NoGateway},
             NEW h \in DOMAIN hostRows, UpdateHost(h, name, gateway)
      PROVE  HostsInv'
    BY <1>2, UpdateHostStep
<1>3. ASSUME NEW h \in DOMAIN hostRows, DeleteHost(h)
      PROVE  HostsInv'
    BY <1>3, DeleteHostStep
<1>4. ASSUME NEW h \in DOMAIN hostRows, TestHost(h)
      PROVE  HostsInv'
    <2> DEFINE begun == {Test(h, FALSE)}
    <2>1. UNCHANGED <<hostRows, lastId, births>>
              /\ tests' \cup waiting' \subseteq tests \cup waiting \cup begun
        BY <1>4 DEF TestHost
    <2>2. \A t \in begun : \E x \in DOMAIN hostRows, a \in BOOLEAN : t = Test(x, a)
        OBVIOUS
    <2> HIDE DEF begun
    <2> QED
        BY <2>1, <2>2, TestBeginsStep
<1>5. ASSUME NEW names \in SUBSET HostName, ImportSshConfigHosts(names)
      PROVE  HostsInv'
    BY <1>5, ImportSshConfigStep
<1>6. ASSUME NEW n \in 1 .. MaxEntries, NEW entries \in [1 .. n -> ImportEntry],
             ImportSettingsExport(entries)
      PROVE  HostsInv'
    <2>1. n \in Nat
        BY HostsAssumption
    <2> QED
        BY <1>6, <2>1, ImportSettingsStep
<1>7. ASSUME NEW hosts \in SUBSET DOMAIN hostRows, TestAll(hosts)
      PROVE  HostsInv'
    <2> DEFINE all == {Test(h, TRUE) : h \in hosts}
    <2>1. UNCHANGED <<hostRows, lastId, births>>
              /\ tests' \cup waiting' \subseteq tests \cup waiting \cup all
        BY <1>7 DEF TestAll
    <2>2. \A t \in all : \E h \in DOMAIN hostRows, a \in BOOLEAN : t = Test(h, a)
        OBVIOUS
    <2> HIDE DEF all
    <2> QED
        BY <2>1, <2>2, TestBeginsStep
<1>8. ASSUME NEW t \in tests, TestAnswers(t)
      PROVE  HostsInv'
    BY <1>8, TestAnswersStep
<1>9. ASSUME NEW t \in tests, TestFails(t)
      PROVE  HostsInv'
    <2> DEFINE begun == {}
    <2>1. UNCHANGED <<hostRows, lastId, births>>
              /\ tests' \cup waiting' \subseteq tests \cup waiting \cup begun
        BY <1>9, TestEndsFacts DEF TestFails
    <2>2. \A d \in begun : \E x \in DOMAIN hostRows, a \in BOOLEAN : d = Test(x, a)
        OBVIOUS
    <2> HIDE DEF begun
    <2> QED
        BY <2>1, <2>2, TestBeginsStep
<1>10. CASE UNCHANGED hostVars
    BY <1>10 DEF hostVars, HostsInv, HostsTypes, GatewaysEnd, FindGatewayCycle, Endless,
                 TestsAreOfTheirHosts, ResultIsOfThisHost
<1> QED
    BY <1>1, <1>2, <1>3, <1>4, <1>5, <1>6, <1>7, <1>8, <1>9, <1>10 DEF HostsNext

\* An empty table.
LEMMA HostsInvInit == HostsInit => HostsInv
<1> SUFFICES ASSUME HostsInit
             PROVE  HostsInv
    OBVIOUS
<1>1. DOMAIN hostRows = {}
    BY DEF HostsInit
<1>2. hostRows \in [DOMAIN hostRows -> Row]
    BY <1>1 DEF HostsInit
<1>3. HostsTypes
    BY <1>1, <1>2 DEF HostsInit, HostsTypes
<1>4. GatewaysEnd
    BY <1>1 DEF GatewaysEnd, FindGatewayCycle, Endless
<1> QED
    BY <1>1, <1>3, <1>4 DEF HostsInit, HostsInv, TestsAreOfTheirHosts, ResultIsOfThisHost

-----------------------------------------------------------------------------
(* The theorems.                                                            *)

\* Whatever hosts are created, changed, deleted and imported, the walk along the
\* gateways ends (lib/managed-host-store.js, services/settings-backup.js).
THEOREM GatewaysComeToAnEnd == HostsSpec => []GatewaysEnd
<1>1. HostsInv => GatewaysEnd
    BY DEF HostsInv
<1> QED
    BY <1>1, HostsInvInit, HostsInvStep, PTL DEF HostsSpec

\* A result that was awaited while hosts were deleted and created is kept for
\* no other host: an id is not given again (lib/db.js AUTOINCREMENT).
THEOREM ResultsAreOfTheirHosts == HostsSpec => []ResultIsOfThisHost
<1>1. HostsInv => ResultIsOfThisHost
    BY DEF HostsInv
<1> QED
    BY <1>1, HostsInvInit, HostsInvStep, PTL DEF HostsSpec

-----------------------------------------------------------------------------
(***************************************************************************)
(* The bound on failed logins (LoginAttempts), for every limit, lock and   *)
(* number of logins under way that the assumption of the module admits,    *)
(* and for every set of keys, however many of them the tracker forgets.    *)
(***************************************************************************)

LoginEntry == [failures : Nat, lockedUntil : Nat]

\* The part of the type that the bound needs; the order of the keys, from
\* which RecordFailure drops the oldest, can be anything.
LoginTypes ==
    /\ attempts \in [Key -> LoginEntry]
    /\ verifying \in [Key -> 0 .. MaxVerifying]
    /\ clock \in Nat \ {0}

\* A key at the limit has a lock, which may have ended.
LimitIsLocked ==
    \A k \in Key : attempts[k].failures >= MaxFailures => attempts[k].lockedUntil > 0

LoginInv == LoginTypes /\ LimitIsLocked /\ FailuresAreBounded

\* What a login of k that passes the check is told: a key that is not locked
\* has fewer failures than the limit (auth.js check).
LEMMA UnlockedFacts ==
    ASSUME LoginInv, NEW k \in Key, Unlocked(k)
    PROVE  /\ EntryFor(k) \in LoginEntry
           /\ EntryFor(k).failures < MaxFailures
BY LoginAssumption
   DEF LoginInv, LoginTypes, LimitIsLocked, Unlocked, EntryFor, Expired, NoFailures, LoginEntry

\* The entry a login of k finds when its verification ends, expired or not
\* (auth.js recordFailure).
LEMMA EntryForFacts ==
    ASSUME LoginTypes, NEW k \in Key
    PROVE  /\ EntryFor(k) \in LoginEntry
           /\ EntryFor(k).failures <= attempts[k].failures
BY DEF LoginTypes, EntryFor, Expired, NoFailures, LoginEntry

\* RecordFailure gives k one failure more than it had and a lock at the limit,
\* and leaves each other key as it is or forgets it (auth.js recordFailure).
LEMMA RecordFailureFacts ==
    ASSUME LoginTypes, NEW k \in Key, RecordFailure(k)
    PROVE  /\ attempts' \in [Key -> LoginEntry]
           /\ \A other \in Key :
                \/ attempts'[other] = NoFailures
                \/ attempts'[other] = attempts[other]
                \/ /\ other = k
                   /\ attempts'[k].failures = EntryFor(k).failures + 1
                   /\ attempts'[k].failures >= MaxFailures => attempts'[k].lockedUntil > 0
<1> DEFINE new == [failures |-> EntryFor(k).failures + 1,
                   lockedUntil |-> LockAfter(EntryFor(k).failures + 1)]
<1>1. new \in LoginEntry /\ (new.failures >= MaxFailures => new.lockedUntil > 0)
    BY EntryForFacts, LoginAssumption DEF LockAfter, LoginTypes, LoginEntry
<1>2. NoFailures \in LoginEntry
    BY DEF NoFailures, LoginEntry
<1>3. PICK forgotten :
          attempts' = [other \in Key |->
              IF other \in forgotten THEN NoFailures
              ELSE IF other = k THEN new ELSE attempts[other]]
    <2> DEFINE keys == Append(Without(order, k), k)
               dropped == IF Len(keys) > MaxKeys THEN Len(keys) - MaxKeys ELSE 0
               kept == ToSet(SubSeq(keys, dropped + 1, Len(keys)))
    <2>1. attempts' = [other \in Key |->
              IF other \notin kept THEN NoFailures
              ELSE IF other = k THEN new ELSE attempts[other]]
        BY Zenon DEF RecordFailure
    <2> HIDE DEF kept, new
    <2>2. \A other \in Key : other \notin kept <=> other \in Key \ kept
        OBVIOUS
    <2>3. attempts' = [other \in Key |->
              IF other \in Key \ kept THEN NoFailures
              ELSE IF other = k THEN new ELSE attempts[other]]
        BY <2>1, <2>2
    <2> QED
        BY <2>3
<1> HIDE DEF new
<1>4. attempts' \in [Key -> LoginEntry]
    BY <1>1, <1>2, <1>3 DEF LoginTypes
<1>5. ASSUME NEW other \in Key, attempts'[other] # NoFailures,
             attempts'[other] # attempts[other]
      PROVE  other = k /\ attempts'[k] = new
    BY <1>3, <1>5
<1> QED
    BY <1>1, <1>4, <1>5 DEF new

-----------------------------------------------------------------------------
(* Each step keeps the invariant.                                           *)

\* A failure of k, recorded when the failures of k and the logins that remain
\* leave room for one more (routes/auth.js, the login route).
LEMMA FailureIsRecorded ==
    ASSUME LoginInv, NEW k \in Key, RecordFailure(k),
           clock' = clock, verifying' \in [Key -> 0 .. MaxVerifying],
           \A other \in Key \ {k} : verifying'[other] = verifying[other],
           verifying'[k] <= verifying[k],
           EntryFor(k).failures + 1 + verifying'[k] <= MaxFailures + MaxVerifying
    PROVE  LoginInv'
<1>1. attempts' \in [Key -> LoginEntry]
    BY RecordFailureFacts DEF LoginInv
<1>2. LoginTypes'
    BY <1>1 DEF LoginInv, LoginTypes
<1>3. ASSUME NEW other \in Key
      PROVE  /\ attempts'[other].failures >= MaxFailures => attempts'[other].lockedUntil > 0
             /\ attempts'[other].failures + verifying'[other] <= MaxFailures + MaxVerifying
    <2>1. CASE attempts'[other] = NoFailures
        BY <2>1, LoginAssumption DEF NoFailures
    <2>2. CASE attempts'[other] = attempts[other]
        <3>1. verifying'[other] <= verifying[other]
            BY DEF LoginInv, LoginTypes
        <3> QED
            BY <2>2, <3>1, LoginAssumption
            DEF LoginInv, LoginTypes, LimitIsLocked, FailuresAreBounded, LoginEntry
    <2>3. CASE /\ other = k
               /\ attempts'[k].failures = EntryFor(k).failures + 1
               /\ attempts'[k].failures >= MaxFailures => attempts'[k].lockedUntil > 0
        BY <2>3
    <2> QED
        BY <2>1, <2>2, <2>3, RecordFailureFacts DEF LoginInv
<1> QED
    BY <1>2, <1>3 DEF LoginInv, LimitIsLocked, FailuresAreBounded

\* A key that is forgotten has room for every login (auth.js clear).
LEMMA ForgetFacts ==
    ASSUME LoginInv, NEW k \in Key, Forget(k),
           clock' = clock, verifying' \in [Key -> 0 .. MaxVerifying],
           \A other \in Key \ {k} : verifying'[other] = verifying[other]
    PROVE  LoginInv'
<1>1. attempts' = [attempts EXCEPT ![k] = NoFailures]
    BY DEF Forget
<1> QED
    BY <1>1, LoginAssumption
    DEF LoginInv, LoginTypes, LimitIsLocked, FailuresAreBounded, NoFailures, LoginEntry

\* Every step of the tracker (src/src/lib/auth.js, src/src/routes/auth.js).
LEMMA LoginInvStep == LoginInv /\ [LoginNext]_loginVars => LoginInv'
<1> SUFFICES ASSUME LoginInv, [LoginNext]_loginVars
             PROVE  LoginInv'
    OBVIOUS
<1>1. ASSUME NEW k \in Key, LoginStarts(k)
      PROVE  LoginInv'
    <2>1. verifying' \in [Key -> 0 .. MaxVerifying]
        BY <1>1, LoginAssumption DEF LoginStarts, LoginInv, LoginTypes
    <2>2. CASE Expired(k)
        BY <1>1, <2>1, <2>2, ForgetFacts DEF LoginStarts, LoginInv, LoginTypes
    <2>3. CASE ~Expired(k)
        <3>1. attempts' = attempts /\ clock' = clock
            BY <1>1, <2>3 DEF LoginStarts
        <3>2. attempts[k].failures < MaxFailures
            BY <1>1, <2>3, UnlockedFacts DEF LoginStarts, EntryFor
        <3>3. verifying' = [verifying EXCEPT ![k] = verifying[k] + 1]
            BY <1>1 DEF LoginStarts
        <3> QED
            BY <2>1, <3>1, <3>2, <3>3, LoginAssumption
            DEF LoginInv, LoginTypes, LimitIsLocked, FailuresAreBounded, LoginEntry
    <2> QED
        BY <2>2, <2>3
<1>2. ASSUME NEW k \in Key, UnknownUser(k)
      PROVE  LoginInv'
    <2>1. EntryFor(k).failures + 1 + verifying[k] <= MaxFailures + MaxVerifying
        BY <1>2, UnlockedFacts, LoginAssumption
        DEF UnknownUser, LoginInv, LoginTypes, LoginEntry
    <2> QED
        BY <1>2, <2>1, FailureIsRecorded DEF UnknownUser, LoginInv, LoginTypes
<1>3. ASSUME NEW k \in Key, PasswordIsRight(k)
      PROVE  LoginInv'
    <2>1. verifying' \in [Key -> 0 .. MaxVerifying]
        BY <1>3, LoginAssumption DEF PasswordIsRight, LoginInv, LoginTypes
    <2> QED
        BY <1>3, <2>1, ForgetFacts DEF PasswordIsRight, LoginInv, LoginTypes
<1>4. ASSUME NEW k \in Key, PasswordIsWrong(k)
      PROVE  LoginInv'
    <2>1. verifying' = [verifying EXCEPT ![k] = verifying[k] - 1] /\ verifying[k] > 0
        BY <1>4 DEF PasswordIsWrong
    <2>2. verifying' \in [Key -> 0 .. MaxVerifying] /\ verifying'[k] = verifying[k] - 1
        BY <2>1, LoginAssumption DEF LoginInv, LoginTypes
    <2>3. EntryFor(k).failures + 1 + verifying'[k] <= MaxFailures + MaxVerifying
        BY <2>2, EntryForFacts, LoginAssumption
        DEF LoginInv, LoginTypes, FailuresAreBounded, LoginEntry
    <2> QED
        BY <1>4, <2>1, <2>2, <2>3, FailureIsRecorded
        DEF PasswordIsWrong, LoginInv, LoginTypes
<1>5. CASE LoginTick
    BY <1>5 DEF LoginTick, LoginInv, LoginTypes, LimitIsLocked, FailuresAreBounded
<1>6. CASE UNCHANGED loginVars
    BY <1>6 DEF loginVars, LoginInv, LoginTypes, LimitIsLocked, FailuresAreBounded
<1> QED
    BY <1>1, <1>2, <1>3, <1>4, <1>5, <1>6 DEF LoginNext

-----------------------------------------------------------------------------
(* The theorem.                                                             *)

\* Logins of one key that pass the check together can take its failures past
\* the limit by no more than the number of them (auth.js, the login route).
THEOREM FailuresStayBounded == LoginSpec => []FailuresAreBounded
<1>1. LoginInit => LoginInv
    BY LoginAssumption
    DEF LoginInit, LoginInv, LoginTypes, LimitIsLocked, FailuresAreBounded, NoFailures, LoginEntry
<1>2. LoginInv => FailuresAreBounded
    BY DEF LoginInv
<1> QED
    BY <1>1, <1>2, LoginInvStep, PTL DEF LoginSpec

-----------------------------------------------------------------------------
(***************************************************************************)
(* The files of SSH keys (SshKeys), for every set of names and number of   *)
(* saves.                                                                  *)
(***************************************************************************)

KeysInv ==
    /\ files \in [KeyName -> [private : Int, public : Int]]
    /\ saves \in Int
    /\ PublicKeyMatches

\* What a name's files hold when one operation has put them (ssh-keys.js).
LEMMA PutFacts ==
    ASSUME KeysInv, NEW n \in KeyName, NEW private \in Int, NEW public \in Int, Put(n, private, public)
    PROVE  /\ files' \in [KeyName -> [private : Int, public : Int]]
           /\ files'[n].private = private /\ files'[n].public = public
           /\ \A m \in KeyName : m # n => files'[m] = files[m]
BY DEF KeysInv, Put

\* An operation that leaves a pair of files, or remembers that it was cut short.
LEMMA PairStep ==
    ASSUME KeysInv, NEW n \in KeyName, NEW private \in Int, NEW public \in Int, Put(n, private, public),
           saves' \in Int,
           \/ torn' = torn \cup {n}
           \/ torn' = torn /\ (n \notin torn => public \in {Absent, private})
    PROVE  KeysInv'
BY PutFacts DEF KeysInv, PublicKeyMatches

\* Every operation on keys, and every failure (ssh-keys.js).
LEMMA KeysInvStep == KeysInv /\ [KeysNext]_keyVars => KeysInv'
<1> SUFFICES ASSUME KeysInv, [KeysNext]_keyVars
             PROVE  KeysInv'
    OBVIOUS
<1> USE DEF Absent, Partial
<1>1. \A n \in KeyName : files[n].private \in Int /\ files[n].public \in Int
    BY DEF KeysInv
<1>2. saves \in Int /\ saves + 1 \in Int /\ Absent \in Int /\ Partial \in Int
    BY DEF KeysInv
<1>3. ASSUME NEW n \in KeyName, NEW withPublic \in BOOLEAN, SaveSucceeds(n, withPublic)
      PROVE  KeysInv'
    <2> DEFINE public == IF withPublic THEN saves + 1 ELSE files[n].public
    <2>1. /\ files[n].private = Absent /\ Put(n, saves + 1, public)
          /\ saves' = saves + 1 /\ torn' = torn
        BY <1>3 DEF SaveSucceeds, Writable
    <2>2. public \in Int /\ (n \notin torn => public \in {Absent, saves + 1})
        BY <1>1, <1>2, <2>1 DEF KeysInv, PublicKeyMatches
    <2> HIDE DEF public
    <2> QED
        BY <1>2, <2>1, <2>2, PairStep
<1>4. ASSUME NEW n \in KeyName, NEW withPublic \in BOOLEAN, SaveIsTorn(n, withPublic)
      PROVE  KeysInv'
    <2>1. PICK private \in Int, public \in Int : Put(n, private, public)
        BY <1>1, <1>2, <1>4 DEF SaveIsTorn
    <2>2. saves' = saves + 1 /\ torn' = torn \cup {n}
        BY <1>4 DEF SaveIsTorn
    <2> QED
        BY <1>2, <2>1, <2>2, PairStep
<1>5. ASSUME NEW n \in KeyName, DeleteSshKey(n) \/ DeleteIsTorn(n)
      PROVE  KeysInv'
    <2>1. saves' = saves
        BY <1>5 DEF DeleteSshKey, DeleteIsTorn
    <2>2. CASE DeleteSshKey(n)
        BY <1>2, <2>1, <2>2, PairStep DEF DeleteSshKey
    <2>3. CASE DeleteIsTorn(n)
        BY <1>1, <1>2, <2>1, <2>3, PairStep DEF DeleteIsTorn
    <2> QED
        BY <1>5, <2>2, <2>3
<1>6. ASSUME UNCHANGED <<files, saves, torn>>
      PROVE  KeysInv'
    BY <1>6 DEF KeysInv, PublicKeyMatches
<1>7. CASE UNCHANGED keyVars
    BY <1>6, <1>7 DEF keyVars
<1> QED
    BY <1>3, <1>4, <1>5, <1>6, <1>7 DEF KeysNext, SaveFails, IdentityFileChosen, IdentityFileLeft

\* Whatever saves fail and keys are deleted and saved anew, a public key is the
\* one of the private key beside it (ssh-keys.js saveSshKey, deleteSshKey).
THEOREM PublicKeysMatch == KeysSpec => []PublicKeyMatches
<1>1. KeysInit => KeysInv
    BY DEF KeysInit, KeysInv, PublicKeyMatches, Absent
<1>2. KeysInv => PublicKeyMatches
    BY DEF KeysInv
<1> QED
    BY <1>1, <1>2, KeysInvStep, PTL DEF KeysSpec

-----------------------------------------------------------------------------
(***************************************************************************)
(* The diagnosis of a host (HostDiagnostics), for every number of changes  *)
(* of the host.                                                            *)
(***************************************************************************)

Diagnosis == [status : {"ok", "error"}, tmuxAvailable : BOOLEAN,
              osId : {"supported", "unsupported", "none"}, command : BOOLEAN]

DiagnosticsTypes ==
    /\ hostKind \in {"docker", "local", "ssh"}
    /\ gated \in BOOLEAN
    /\ osRelease \in {"supported", "unsupported", "no ID", "none"}
    /\ world \in World
    /\ probe \in {"done", "gateway", "connection", "tmux", "os", "uname"}
    /\ diagnosis \in Diagnosis

\* A test runs by itself, or before or after the command of an installation.
InstallIsInStep ==
    /\ install \in {"before", "after"} => probe # "done"
    /\ install = "command" => probe = "done"

\* What is there while something runs has been seen.
WorldIsSeen == Running => Facts(world) \subseteq seen

Absence == seen \cap {"no tmux", "down"} # {}

\* What a test that is not at its end has found out.
FoundSoFar ==
    /\ probe \in {"gateway", "connection"} => diagnosis = Undiagnosed
    /\ probe \in {"tmux", "os", "uname"} =>
         /\ hostKind = "local" \/ ("up" \in seen /\ diagnosis.status = "ok")
         /\ diagnosis.osId = "none" /\ ~diagnosis.command
    /\ probe = "tmux" => ~diagnosis.tmuxAvailable
    /\ probe \in {"os", "uname"} =>
         /\ diagnosis.tmuxAvailable => "tmux" \in seen
         /\ ~diagnosis.tmuxAvailable => Absence
    /\ probe = "uname" => diagnosis.status = "ok"

DiagnosticsInv ==
    DiagnosticsTypes /\ InstallIsInStep /\ WorldIsSeen /\ FoundSoFar /\ DiagnosisWasTrue

-----------------------------------------------------------------------------
\* What is there is among what has been seen, as long as something runs.
LEMMA SeenFacts ==
    ASSUME DiagnosticsInv, Running
    PROVE  /\ Answers(world) => "up" \in seen
           /\ ~Answers(world) => "down" \in seen
           /\ world.tmux => "tmux" \in seen
           /\ ~world.tmux => "no tmux" \in seen
           /\ ~world.gateway => "gateway down" \in seen
BY DEF DiagnosticsInv, WorldIsSeen, Facts

\* A test begins with nothing found (managed-host-diagnostics.js testHost).
LEMMA BeginStep ==
    ASSUME DiagnosticsInv, probe' = FirstProbe, diagnosis' = Undiagnosed, seen' = Facts(world'),
           world' \in World, install' \in {"none", "before", "after"},
           UNCHANGED <<hostKind, gated, osRelease>>
    PROVE  DiagnosticsInv'
<1>1. probe' \in {"gateway", "connection"} /\ Undiagnosed \in Diagnosis
    BY DEF FirstProbe, Undiagnosed, Diagnosis
<1>2. DiagnosticsTypes'
    BY <1>1 DEF DiagnosticsInv, DiagnosticsTypes
<1>3. Facts(world)' = Facts(world')
    BY DEF Facts, Answers
<1> QED
    BY <1>1, <1>2, <1>3
       DEF DiagnosticsInv, InstallIsInStep, WorldIsSeen, FoundSoFar, DiagnosisWasTrue

\* A test ends with a result (managed-host-diagnostics.js testHost, installTmux).
LEMMA FinishStep ==
    ASSUME DiagnosticsInv, probe # "done", NEW result \in Diagnosis, Finish(result),
           UNCHANGED <<hostKind, gated, osRelease, world, seen>>,
           result.status = "ok", hostKind = "local" \/ "up" \in seen,
           result.tmuxAvailable => "tmux" \in seen,
           ~result.tmuxAvailable => Absence,
           result.osId = "supported" => osRelease = "supported"
    PROVE  DiagnosticsInv'
<1> DEFINE final == [result EXCEPT !.command = ~result.tmuxAvailable /\ result.osId # "none"]
<1>1. /\ probe' = "done" /\ diagnosis' = final
      /\ install' = CASE install = "before" -> InstallAfterTest(result)
                      [] install = "after"  -> IF result.tmuxAvailable THEN "installed" ELSE "not installed"
                      [] OTHER              -> install
    BY DEF Finish
<1>2. /\ final \in Diagnosis /\ final.status = result.status
      /\ final.tmuxAvailable = result.tmuxAvailable /\ final.osId = result.osId
      /\ final.command => ~result.tmuxAvailable
    BY DEF Diagnosis
<1> HIDE DEF final
<1>3. DiagnosticsTypes'
    BY <1>1, <1>2 DEF DiagnosticsInv, DiagnosticsTypes
<1>4. /\ install' \notin {"before", "after"}
      /\ install' = "command" => ~result.tmuxAvailable /\ result.osId = "supported"
      /\ install' \in {"installed", "already installed"} =>
            result.tmuxAvailable \/ install \in {"installed", "already installed"}
    <2>1. CASE install = "before"
        BY <1>1, <2>1 DEF InstallAfterTest
    <2>2. CASE install = "after"
        BY <1>1, <2>2
    <2>3. CASE install \notin {"before", "after"}
        BY <1>1, <2>3 DEF DiagnosticsInv, InstallIsInStep
    <2> QED
        BY <2>1, <2>2, <2>3
<1>5. InstallIsInStep' /\ FoundSoFar'
    BY <1>1, <1>4 DEF InstallIsInStep, FoundSoFar
<1>6. WorldIsSeen'
    <2>1. Facts(world)' = Facts(world) /\ Running
        BY DEF Facts, Answers, Running
    <2> QED
        BY <2>1 DEF DiagnosticsInv, WorldIsSeen
<1>7. DiagnosisWasTrue'
    BY <1>1, <1>2, <1>4 DEF DiagnosticsInv, DiagnosisWasTrue, Absence
<1> QED
    BY <1>3, <1>5, <1>6, <1>7 DEF DiagnosticsInv

\* A test ends because the host, or its gateway, is away.
LEMMA DiagnosisFailStep ==
    ASSUME DiagnosticsInv, probe \in {"gateway", "connection"}, Fail,
           UNCHANGED <<hostKind, gated, osRelease, world, seen>>,
           seen \cap {"down", "gateway down"} # {}
    PROVE  DiagnosticsInv'
<1>1. diagnosis = Undiagnosed
    BY DEF DiagnosticsInv, FoundSoFar
<1>2. probe' = "done" /\ diagnosis' = Undiagnosed
    BY <1>1 DEF Fail, Undiagnosed
<1>3. /\ install' \notin {"before", "after"}
      /\ install' \in {"command", "installed", "already installed"} => install' = install
    <2>1. CASE install = "before"
        BY <2>1 DEF Fail
    <2>2. CASE install = "after"
        BY <2>2 DEF Fail
    <2>3. CASE install \notin {"before", "after"}
        BY <2>3 DEF Fail
    <2> QED
        BY <2>1, <2>2, <2>3
<1>4. DiagnosticsTypes'
    BY <1>2 DEF DiagnosticsInv, DiagnosticsTypes, Undiagnosed, Diagnosis
<1>5. InstallIsInStep' /\ FoundSoFar'
    BY <1>2, <1>3 DEF InstallIsInStep, FoundSoFar
<1>6. WorldIsSeen'
    <2>1. Facts(world)' = Facts(world) /\ Running
        BY DEF Facts, Answers, Running
    <2> QED
        BY <2>1 DEF DiagnosticsInv, WorldIsSeen
<1>7. DiagnosisWasTrue'
    <2>1. install' \in {"installed", "already installed"} => "tmux" \in seen'
        BY <1>3 DEF DiagnosticsInv, DiagnosisWasTrue
    <2>2. install' # "command"
        BY <1>3 DEF DiagnosticsInv, InstallIsInStep
    <2> QED
        BY <1>2, <2>1, <2>2 DEF DiagnosisWasTrue, Undiagnosed
<1> QED
    BY <1>4, <1>5, <1>6, <1>7 DEF DiagnosticsInv

\* A command of a test that is not the last has answered.
LEMMA ProbeStep ==
    ASSUME DiagnosticsInv, probe # "done", probe' \in {"connection", "tmux", "os", "uname"},
           diagnosis' \in Diagnosis, install' = install,
           UNCHANGED <<hostKind, gated, osRelease, world, seen>>, FoundSoFar'
    PROVE  DiagnosticsInv'
<1>1. DiagnosticsTypes' /\ InstallIsInStep'
    BY DEF DiagnosticsInv, DiagnosticsTypes, InstallIsInStep
<1>2. WorldIsSeen'
    <2>1. Facts(world)' = Facts(world) /\ Running
        BY DEF Facts, Answers, Running
    <2> QED
        BY <2>1 DEF DiagnosticsInv, WorldIsSeen
<1>3. DiagnosisWasTrue'
    BY DEF DiagnosticsInv, DiagnosisWasTrue, InstallIsInStep
<1> QED
    BY <1>1, <1>2, <1>3 DEF DiagnosticsInv

-----------------------------------------------------------------------------
\* The gateway, and then the connection (managed-host-diagnostics.js testHost).
LEMMA ConnectionStep ==
    ASSUME DiagnosticsInv, GatewayAnswers \/ ConnectionAnswers
    PROVE  DiagnosticsInv'
<1>1. CASE GatewayAnswers
    <2>1. /\ probe = "gateway" /\ Running
          /\ UNCHANGED <<hostKind, gated, osRelease, world, seen>>
        BY <1>1 DEF GatewayAnswers, Running
    <2>2. CASE world.gateway
        <3>1. probe' = "connection" /\ diagnosis' = diagnosis /\ install' = install
            BY <1>1, <2>2 DEF GatewayAnswers
        <3>2. FoundSoFar' /\ diagnosis' \in Diagnosis
            BY <2>1, <3>1 DEF DiagnosticsInv, DiagnosticsTypes, FoundSoFar
        <3> QED
            BY <2>1, <3>1, <3>2, ProbeStep
    <2>3. CASE ~world.gateway
        BY <1>1, <2>1, <2>3, SeenFacts, DiagnosisFailStep DEF GatewayAnswers
    <2> QED
        BY <2>2, <2>3
<1>2. CASE ConnectionAnswers
    <2>1. /\ probe = "connection" /\ Running /\ diagnosis = Undiagnosed
          /\ UNCHANGED <<hostKind, gated, osRelease, world, seen>>
        BY <1>2 DEF ConnectionAnswers, Running, DiagnosticsInv, FoundSoFar
    <2>2. CASE hostKind = "local" \/ Answers(world)
        <3>1. /\ probe' = "tmux" /\ install' = install
              /\ diagnosis' = [diagnosis EXCEPT !.status = IF hostKind = "local" THEN @ ELSE "ok"]
            BY <1>2, <2>2 DEF ConnectionAnswers
        <3>2. /\ diagnosis' \in Diagnosis /\ ~diagnosis'.tmuxAvailable /\ diagnosis'.osId = "none"
              /\ ~diagnosis'.command
              /\ hostKind # "local" => diagnosis'.status = "ok"
            BY <2>1, <3>1 DEF Undiagnosed, Diagnosis
        <3>3. hostKind # "local" => "up" \in seen
            BY <2>1, <2>2, SeenFacts
        <3>4. hostKind' = "local" \/ ("up" \in seen' /\ diagnosis'.status = "ok")
            BY <2>1, <3>2, <3>3
        <3>5. FoundSoFar'
            BY <3>1, <3>2, <3>4 DEF FoundSoFar
        <3> QED
            BY <2>1, <3>1, <3>2, <3>5, ProbeStep
    <2>3. CASE ~(hostKind = "local" \/ Answers(world))
        BY <1>2, <2>1, <2>3, SeenFacts, DiagnosisFailStep DEF ConnectionAnswers
    <2> QED
        BY <2>2, <2>3
<1> QED
    BY <1>1, <1>2

\* tmux is looked for.
LEMMA TmuxStep ==
    ASSUME DiagnosticsInv, TmuxAnswers
    PROVE  DiagnosticsInv'
<1> DEFINE found == Answers(world) /\ world.tmux
           result == [diagnosis EXCEPT !.tmuxAvailable = found]
<1>1. /\ probe = "tmux" /\ Running
      /\ IF found /\ hostKind # "local" THEN Finish(result)
         ELSE probe' = "os" /\ diagnosis' = result /\ UNCHANGED install
      /\ UNCHANGED <<hostKind, gated, osRelease, world, seen>>
    BY DEF TmuxAnswers, Running
<1>2. /\ diagnosis \in Diagnosis /\ diagnosis.osId = "none" /\ ~diagnosis.command
      /\ hostKind = "local" \/ ("up" \in seen /\ diagnosis.status = "ok")
    BY <1>1 DEF DiagnosticsInv, DiagnosticsTypes, FoundSoFar
<1>3. found \in BOOLEAN
    BY DEF Answers, DiagnosticsInv, DiagnosticsTypes, World
<1>4. /\ result \in Diagnosis /\ result.tmuxAvailable = found /\ result.osId = "none"
      /\ ~result.command /\ result.status = diagnosis.status
    BY <1>2, <1>3 DEF Diagnosis
<1>5. (found => "tmux" \in seen) /\ (~found => Absence)
    BY <1>1, SeenFacts DEF Absence
<1> HIDE DEF found, result
<1>6. CASE found /\ hostKind # "local"
    <2>1. Finish(result) /\ result.status = "ok" /\ "up" \in seen
        BY <1>1, <1>2, <1>4, <1>6
    <2> QED
        BY <1>1, <1>4, <1>5, <1>6, <2>1, FinishStep
<1>7. CASE ~(found /\ hostKind # "local")
    <2>1. probe' = "os" /\ diagnosis' = result /\ install' = install
        BY <1>1, <1>7
    <2>2. Absence' = Absence
        BY <1>1 DEF Absence
    <2>3. FoundSoFar'
        BY <1>1, <1>2, <1>4, <1>5, <2>1, <2>2 DEF FoundSoFar
    <2> QED
        BY <1>1, <1>4, <2>1, <2>3, ProbeStep
<1> QED
    BY <1>6, <1>7

\* The system of the host is asked for.
LEMMA OsStep ==
    ASSUME DiagnosticsInv, OsAnswers \/ UnameAnswers
    PROVE  DiagnosticsInv'
<1>1. CASE OsAnswers
    <2> DEFINE read == Answers(world) /\ osRelease # "none"
               result == [diagnosis EXCEPT !.status = "ok",
                            !.osId = IF read /\ osRelease # "no ID" THEN osRelease ELSE "none"]
    <2>1. /\ probe = "os"
          /\ IF read \/ hostKind # "ssh" THEN Finish(result)
             ELSE probe' = "uname" /\ UNCHANGED <<diagnosis, install>>
          /\ UNCHANGED <<hostKind, gated, osRelease, world, seen>>
        BY <1>1 DEF OsAnswers
    <2>2. /\ diagnosis \in Diagnosis
          /\ hostKind = "local" \/ ("up" \in seen /\ diagnosis.status = "ok")
          /\ diagnosis.tmuxAvailable => "tmux" \in seen
          /\ ~diagnosis.tmuxAvailable => Absence
          /\ diagnosis.osId = "none" /\ ~diagnosis.command
        BY <2>1 DEF DiagnosticsInv, DiagnosticsTypes, FoundSoFar
    <2>3. /\ result \in Diagnosis /\ result.status = "ok"
          /\ result.tmuxAvailable = diagnosis.tmuxAvailable
          /\ result.osId = "supported" => osRelease = "supported"
        BY <2>2 DEF Diagnosis, DiagnosticsInv, DiagnosticsTypes
    <2> HIDE DEF read, result
    <2>4. CASE read \/ hostKind # "ssh"
        BY <2>1, <2>2, <2>3, <2>4, FinishStep
    <2>5. CASE ~(read \/ hostKind # "ssh")
        <3>1. probe' = "uname" /\ diagnosis' = diagnosis /\ install' = install /\ hostKind # "local"
            BY <2>1, <2>5
        <3>2. Absence' = Absence
            BY <2>1 DEF Absence
        <3>3. FoundSoFar'
            BY <2>1, <2>2, <3>1, <3>2 DEF FoundSoFar
        <3> QED
            BY <2>1, <2>2, <3>1, <3>3, ProbeStep
    <2> QED
        BY <2>4, <2>5
<1>2. CASE UnameAnswers
    <2>1. /\ probe = "uname" /\ Finish(diagnosis)
          /\ UNCHANGED <<hostKind, gated, osRelease, world, seen>>
        BY <1>2 DEF UnameAnswers
    <2> QED
        BY <2>1, FinishStep DEF DiagnosticsInv, DiagnosticsTypes, FoundSoFar
<1> QED
    BY <1>1, <1>2

\* The command that installs tmux ends (managed-host-diagnostics.js installTmux).
LEMMA CommandStep ==
    ASSUME DiagnosticsInv, CommandEnds
    PROVE  DiagnosticsInv'
<1>1. install = "command" /\ probe = "done" /\ Running /\ world \in World
          /\ UNCHANGED <<hostKind, gated, osRelease>>
    BY DEF CommandEnds, DiagnosticsInv, DiagnosticsTypes, InstallIsInStep, Running
<1>2. [world EXCEPT !.tmux = TRUE] \in World
    BY <1>1 DEF World
<1>3. CASE install' = "after"
    <2>1. /\ world' = [world EXCEPT !.tmux = TRUE]
          /\ probe' = FirstProbe /\ diagnosis' = Undiagnosed /\ seen' = Facts(world')
        BY <1>3 DEF CommandEnds
    <2> QED
        BY <1>1, <1>2, <1>3, <2>1, BeginStep
<1>4. CASE install' # "after"
    <2>1. /\ world' \in World /\ install' = "failed" /\ seen' = seen \cup Facts(world')
          /\ probe' = probe /\ diagnosis' = diagnosis
        BY <1>1, <1>2, <1>4 DEF CommandEnds
    <2>2. DiagnosticsTypes'
        BY <1>1, <2>1 DEF DiagnosticsInv, DiagnosticsTypes
    <2>3. InstallIsInStep' /\ FoundSoFar' /\ WorldIsSeen'
        BY <1>1, <2>1 DEF InstallIsInStep, FoundSoFar, WorldIsSeen, Running
    <2>4. DiagnosisWasTrue'
        BY <1>1, <2>1 DEF DiagnosticsInv, DiagnosisWasTrue
    <2> QED
        BY <2>2, <2>3, <2>4 DEF DiagnosticsInv
<1> QED
    BY <1>3, <1>4

\* The host, its gateway or its tmux comes or goes.
LEMMA WorldStep ==
    ASSUME DiagnosticsInv, NEW part \in {"host", "gateway", "tmux"}, WorldChanges(part)
    PROVE  DiagnosticsInv'
<1>1. /\ world' = [world EXCEPT ![part] = ~@]
      /\ seen' = IF Running THEN seen \cup Facts(world') ELSE seen
      /\ UNCHANGED <<hostKind, gated, osRelease, probe, diagnosis, install>>
    BY DEF WorldChanges
<1>2. world' \in World
    BY <1>1 DEF DiagnosticsInv, DiagnosticsTypes, World
<1>3. seen \subseteq seen'
    BY <1>1 DEF Facts
<1>4. DiagnosticsTypes' /\ InstallIsInStep'
    BY <1>1, <1>2, <1>3 DEF DiagnosticsInv, DiagnosticsTypes, InstallIsInStep
<1>5. WorldIsSeen'
    <2>1. Facts(world)' = Facts(world') /\ Running' = Running
        BY <1>1 DEF Facts, Answers, Running
    <2> QED
        BY <1>1, <2>1 DEF WorldIsSeen
<1>6. FoundSoFar'
    BY <1>1, <1>3 DEF DiagnosticsInv, FoundSoFar, Absence
<1>7. DiagnosisWasTrue'
    BY <1>1, <1>3 DEF DiagnosticsInv, DiagnosisWasTrue
<1> QED
    BY <1>4, <1>5, <1>6, <1>7 DEF DiagnosticsInv

\* Every step of a test, of an installation, and of everybody else.
LEMMA DiagnosticsInvStep == DiagnosticsInv /\ [DiagnosticsNext]_diagnosticsVars => DiagnosticsInv'
<1> SUFFICES ASSUME DiagnosticsInv, [DiagnosticsNext]_diagnosticsVars
             PROVE  DiagnosticsInv'
    OBVIOUS
<1>1. CASE TestStarts \/ InstallStarts
    <2>1. /\ probe' = FirstProbe /\ diagnosis' = Undiagnosed /\ seen' = Facts(world)
          /\ install' \in {"none", "before"} /\ UNCHANGED <<hostKind, gated, osRelease, world>>
        BY <1>1 DEF TestStarts, InstallStarts, BeginTest
    <2>2. world' \in World /\ seen' = Facts(world')
        BY <2>1 DEF DiagnosticsInv, DiagnosticsTypes
    <2> QED
        BY <2>1, <2>2, BeginStep
<1>2. CASE UNCHANGED diagnosticsVars
    <2>1. /\ UNCHANGED <<hostKind, gated, osRelease, world, probe, diagnosis, install, seen>>
          /\ Facts(world)' = Facts(world) /\ Absence' = Absence /\ Running' = Running
        BY <1>2 DEF diagnosticsVars, Facts, Answers, Absence, Running
    <2>2. DiagnosticsTypes' /\ InstallIsInStep' /\ WorldIsSeen'
        BY <2>1 DEF DiagnosticsInv, DiagnosticsTypes, InstallIsInStep, WorldIsSeen
    <2>3. FoundSoFar'
        BY <2>1 DEF DiagnosticsInv, FoundSoFar
    <2>4. DiagnosisWasTrue'
        BY <2>1 DEF DiagnosticsInv, DiagnosisWasTrue
    <2> QED
        BY <2>2, <2>3, <2>4 DEF DiagnosticsInv
<1> QED
    BY <1>1, <1>2, ConnectionStep, TmuxStep, OsStep, CommandStep, WorldStep DEF DiagnosticsNext

\* What a test or an installation reports was so while it ran
\* (managed-host-diagnostics.js testHost, installTmux).
THEOREM DiagnosesWereTrue == DiagnosticsSpec => []DiagnosisWasTrue
<1>1. DiagnosticsInit => DiagnosticsInv
    <2> SUFFICES ASSUME DiagnosticsInit
                 PROVE  DiagnosticsInv
        OBVIOUS
    <2>1. /\ probe = "done" /\ install = "none" /\ diagnosis = Undiagnosed /\ seen = {"down"}
          /\ Undiagnosed \in Diagnosis
        BY DEF DiagnosticsInit, Undiagnosed, Diagnosis
    <2>2. DiagnosticsTypes
        BY <2>1 DEF DiagnosticsInit, DiagnosticsTypes
    <2>3. InstallIsInStep /\ WorldIsSeen /\ FoundSoFar
        BY <2>1 DEF InstallIsInStep, WorldIsSeen, FoundSoFar, Running
    <2>4. DiagnosisWasTrue
        BY <2>1 DEF DiagnosisWasTrue, Undiagnosed
    <2> QED
        BY <2>2, <2>3, <2>4 DEF DiagnosticsInv
<1>2. DiagnosticsInv => DiagnosisWasTrue
    BY DEF DiagnosticsInv
<1> QED
    BY <1>1, <1>2, DiagnosticsInvStep, PTL DEF DiagnosticsSpec

-----------------------------------------------------------------------------
(***************************************************************************)
(* Seeding, export and import of the tables (SettingsTables), for every    *)
(* finite set of names and every length of an import.                      *)
(***************************************************************************)

\* Rows and entries, of which no more is known than that they have a look.
TypeRow(row) == "look" \in DOMAIN row /\ row.look # BadLook

TypesFit == \A name \in DOMAIN types : name # BadName /\ TypeRow(types[name])
TemplatesFit == \A name \in DOMAIN templates : name # BadName /\ templates[name] # BadLook

EntryList(entries) ==
    /\ \E S : entries \in Seq(S)
    /\ \A i \in DOMAIN entries : entries[i] = [name |-> entries[i].name, row |-> entries[i].row]

FileFits(file) ==
    /\ EntryList(file.settings) /\ EntryList(file.types) /\ EntryList(file.templates)
    /\ EntryList(file.hosts)
    /\ \A i \in DOMAIN file.types : "look" \in DOMAIN file.types[i].row

\* Whatever is wrong in a file came there after it was exported.
GoodFile(file) ==
    /\ file = [settings |-> file.settings, types |-> file.types,
               templates |-> file.templates, hosts |-> file.hosts]
    /\ FileFits(file)
    /\ \A i \in DOMAIN file.types : file.types[i].row.look # BadLook
    /\ \A i \in DOMAIN file.templates : file.templates[i].row # BadLook

TablesFit ==
    /\ IsFiniteSet(DOMAIN settings) /\ IsFiniteSet(DOMAIN types) /\ IsFiniteSet(DOMAIN templates)
    /\ TypesFit /\ TemplatesFit

ExportIsGood == exported # NoFile => GoodFile(exported)

\* While the server starts, the types to be written yet are the last of the
\* defaults, all of them only if there is no type.
SeedingIsInOrder ==
    /\ phase \in {"down", "starting", "up"}
    /\ phase # "starting" => toSeed = <<>>
    /\ toSeed \in Seq(TypeName) /\ Len(toSeed) <= Len(DefaultTypes)
    /\ Len(toSeed) = Len(DefaultTypes) /\ toSeed # <<>> => types = <<>>

AreThere == ToSet(DefaultTypes) \subseteq DOMAIN types \cup typesDeleted

\* The defaults are there, or they are yet to be written.
DefaultsAreToCome ==
    ~cutShort =>
        /\ phase = "down" => types = <<>> \/ AreThere
        /\ phase = "starting" =>
              ToSet(DefaultTypes) \subseteq DOMAIN types \cup typesDeleted \cup ToSet(toSeed)
        /\ phase = "up" => AreThere

TablesInv == TablesFit /\ ExportIsGood /\ SeedingIsInOrder /\ DefaultsAreToCome

\* Of any hosts, one has no gateway among them that the file names.
HostsOfFileEnd(file) ==
    \A hosts : hosts # {} =>
        \E h \in hosts : \A e \in ToSet(file.hosts) : e.name = h => e.row \notin hosts

\* Neither the hosts there are nor those of an exported file make a cycle.
GatewaysFit == IsFiniteSet(DOMAIN gateways) /\ ~GatewayCycle(gateways)
GatewaysInv == GatewaysFit /\ (exported # NoFile => HostsOfFileEnd(exported))

-----------------------------------------------------------------------------
(* Upserts.                                                                 *)

\* The loop over the entries, for which there is a function because each of its
\* values is made from the one before it.
LEMMA UpsertLoop ==
    ASSUME NEW table, NEW entries, Len(entries) \in Nat
    PROVE  UpsertedBy(table, entries) =
               [n \in 0 .. Len(entries) |->
                   IF n = 0 THEN table
                   ELSE IF entries[n].name = BadName THEN UpsertedBy(table, entries)[n - 1]
                   ELSE With(UpsertedBy(table, entries)[n - 1], entries[n].name, entries[n].row)]
<1> DEFINE Loop(t, n) == IF entries[n].name = BadName THEN t
                          ELSE With(t, entries[n].name, entries[n].row)
           Fits(f, m) == f = [n \in 0 .. m |-> IF n = 0 THEN table ELSE Loop(f[n - 1], n)]
           Short == {m \in 0 .. Len(entries) : ~ \E f : Fits(f, m)}
<1>1. Short = {}
    <2> SUFFICES ASSUME Short # {}
                 PROVE  FALSE
        OBVIOUS
    <2>1. PICK m \in Short : \A k \in Short : m <= k
        <3>1. Short \in SUBSET Nat
            OBVIOUS
        <3> HIDE DEF Short
        <3> QED
            BY <3>1, SmallestExists
    <2>2. m \in 0 .. Len(entries) /\ ~ \E f : Fits(f, m)
        BY <2>1
    <2>3. m # 0
        <3>1. Fits([n \in 0 .. 0 |-> table], 0)
            OBVIOUS
        <3> QED
            BY <2>2, <3>1
    <2>4. m - 1 \in 0 .. Len(entries) /\ m - 1 \notin Short
        BY <2>1, <2>2, <2>3
    <2>5. PICK f : Fits(f, m - 1)
        BY <2>4
    <2>6. f = [n \in 0 .. m - 1 |-> IF n = 0 THEN table ELSE Loop(f[n - 1], n)]
        BY <2>5
    <2> DEFINE g == [n \in 0 .. m |-> IF n = m THEN Loop(f[m - 1], m) ELSE f[n]]
    <2> HIDE DEF Loop
    <2>7. \A n \in 0 .. m : g[n] = IF n = 0 THEN table ELSE Loop(g[n - 1], n)
        <3> SUFFICES ASSUME NEW n \in 0 .. m
                     PROVE  g[n] = IF n = 0 THEN table ELSE Loop(g[n - 1], n)
            OBVIOUS
        <3>1. CASE n = m
            <4>1. g[n] = Loop(f[m - 1], m) /\ m - 1 \in 0 .. m /\ m - 1 # m
                BY <2>2, <2>3, <3>1
            <4>2. g[m - 1] = f[m - 1]
                BY <4>1
            <4> QED
                BY <2>3, <3>1, <4>1, <4>2
        <3>2. CASE n # m /\ n = 0
            BY <2>2, <2>3, <2>6, <3>2
        <3>3. CASE n # m /\ n # 0
            <4>1. n \in 0 .. m - 1 /\ n - 1 \in 0 .. m /\ n - 1 # m /\ n - 1 \in 0 .. m - 1
                BY <2>2, <3>3
            <4>2. g[n] = f[n] /\ g[n - 1] = f[n - 1]
                BY <3>3, <4>1
            <4>3. f[n] = Loop(f[n - 1], n)
                BY <2>6, <3>3, <4>1
            <4> QED
                BY <3>3, <4>2, <4>3
        <3> QED
            BY <3>1, <3>2, <3>3
    <2>8. g = [n \in 0 .. m |-> IF n = 0 THEN table ELSE Loop(g[n - 1], n)]
        BY <2>7
    <2> HIDE DEF g
    <2>9. Fits(g, m)
        BY <2>8
    <2> QED
        BY <2>2, <2>9
<1>2. \E f : Fits(f, Len(entries))
    BY <1>1
<1>3. \E f : f = [n \in 0 .. Len(entries) |->
                   IF n = 0 THEN table
                   ELSE IF entries[n].name = BadName THEN f[n - 1]
                   ELSE With(f[n - 1], entries[n].name, entries[n].row)]
    BY <1>2
<1> QED
    BY <1>3 DEF UpsertedBy

\* The table after n entries: its rows are those of entries, or as they were.
MadeOf(after, n, table, entries) ==
    /\ DOMAIN table \subseteq DOMAIN after
    /\ \A i \in 1 .. n : entries[i].name # BadName => entries[i].name \in DOMAIN after
    /\ \A name \in DOMAIN after :
          \/ \E i \in 1 .. n : /\ entries[i].name = name /\ name # BadName
                               /\ after[name] = entries[i].row
          \/ /\ name \in DOMAIN table /\ after[name] = table[name]
             /\ \A i \in 1 .. n : entries[i].name # BadName => entries[i].name # name

\* The next entry.
LEMMA UpsertOne ==
    ASSUME NEW t, NEW n \in Nat \ {0}, NEW table, NEW entries, MadeOf(t, n - 1, table, entries),
           NEW after,
           after = IF entries[n].name = BadName THEN t ELSE With(t, entries[n].name, entries[n].row)
    PROVE  MadeOf(after, n, table, entries)
<1> DEFINE name == entries[n].name
           row == entries[n].row
<1>1. /\ n - 1 \in Nat /\ \A i \in 1 .. n - 1 : i \in 1 .. n
      /\ \A i \in 1 .. n : i \in 1 .. n - 1 \/ i = n
      /\ n \in 1 .. n
    OBVIOUS
<1>2. CASE name = BadName
    BY <1>1, <1>2 DEF MadeOf
<1>3. CASE name # BadName
    <2>1. after = [m \in DOMAIN t \cup {name} |-> IF m = name THEN row ELSE t[m]]
        BY <1>3 DEF With
    <2>2. DOMAIN after = DOMAIN t \cup {name} /\ after[name] = row
        BY <2>1
    <2>3. \A m \in DOMAIN t : m # name => after[m] = t[m]
        BY <2>1
    <2>4. ASSUME NEW m \in DOMAIN after
          PROVE  \/ \E i \in 1 .. n : entries[i].name = m /\ m # BadName /\ after[m] = entries[i].row
                 \/ /\ m \in DOMAIN table /\ after[m] = table[m]
                    /\ \A i \in 1 .. n : entries[i].name # BadName => entries[i].name # m
        <3>1. CASE m = name
            BY <1>1, <1>3, <2>2, <3>1
        <3>2. CASE m # name
            <4>1. m \in DOMAIN t /\ after[m] = t[m]
                BY <2>2, <2>3, <3>2
            <4>2. CASE \E i \in 1 .. n - 1 : entries[i].name = m /\ m # BadName /\ t[m] = entries[i].row
                BY <1>1, <4>1, <4>2
            <4>3. CASE /\ m \in DOMAIN table /\ t[m] = table[m]
                       /\ \A i \in 1 .. n - 1 : entries[i].name # BadName => entries[i].name # m
                BY <1>1, <3>2, <4>1, <4>3
            <4> QED
                BY <4>1, <4>2, <4>3 DEF MadeOf
        <3> QED
            BY <3>1, <3>2
    <2>5. DOMAIN table \subseteq DOMAIN after
        BY <2>2 DEF MadeOf
    <2>6. \A i \in 1 .. n : entries[i].name # BadName => entries[i].name \in DOMAIN after
        BY <1>1, <2>2 DEF MadeOf
    <2> QED
        BY <2>4, <2>5, <2>6 DEF MadeOf
<1> QED
    BY <1>2, <1>3

\* What all entries make of a table.
LEMMA UpsertFacts ==
    ASSUME NEW table, NEW entries, Len(entries) \in Nat
    PROVE  MadeOf(Upsert(table, entries), Len(entries), table, entries)
<1> DEFINE after == UpsertedBy(table, entries)
           Not == {n \in 0 .. Len(entries) : ~ MadeOf(after[n], n, table, entries)}
<1>1. after = [n \in 0 .. Len(entries) |->
                  IF n = 0 THEN table
                  ELSE IF entries[n].name = BadName THEN after[n - 1]
                  ELSE With(after[n - 1], entries[n].name, entries[n].row)]
    BY UpsertLoop
<1> HIDE DEF after
<1>2. Not = {}
    <2> SUFFICES ASSUME Not # {}
                 PROVE  FALSE
        OBVIOUS
    <2>1. PICK n \in Not : \A k \in Not : n <= k
        <3>1. Not \in SUBSET Nat
            OBVIOUS
        <3> HIDE DEF Not
        <3> QED
            BY <3>1, SmallestExists
    <2>2. n \in 0 .. Len(entries) /\ ~ MadeOf(after[n], n, table, entries)
        BY <2>1
    <2>3. n # 0
        <3>1. after[0] = table
            BY <1>1
        <3>2. MadeOf(table, 0, table, entries)
            BY DEF MadeOf
        <3> QED
            BY <2>2, <3>1, <3>2
    <2>4. n \in Nat \ {0} /\ n - 1 \in 0 .. Len(entries) /\ n - 1 \notin Not
        BY <2>1, <2>2, <2>3
    <2>5. MadeOf(after[n - 1], n - 1, table, entries)
        BY <2>4
    <2>6. after[n] = IF entries[n].name = BadName THEN after[n - 1]
                     ELSE With(after[n - 1], entries[n].name, entries[n].row)
        BY <1>1, <2>2, <2>3
    <2> HIDE DEF Not
    <2> QED
        BY <2>2, <2>4, <2>5, <2>6, UpsertOne
<1>3. Len(entries) \notin Not /\ Len(entries) \in 0 .. Len(entries)
    BY <1>2
<1> QED
    BY <1>3 DEF Upsert, after

\* The names that a list of entries has are finitely many, and so are those of
\* the table after it.
LEMMA UpsertIsFinite ==
    ASSUME NEW table, NEW entries, Len(entries) \in Nat, IsFiniteSet(DOMAIN table)
    PROVE  IsFiniteSet(DOMAIN Upsert(table, entries))
<1> DEFINE after == Upsert(table, entries)
           f == [i \in 1 .. Len(entries) |-> entries[i].name]
           names == {f[i] : i \in 1 .. Len(entries)}
<1>1. IsFiniteSet(1 .. Len(entries))
    BY FS_Interval
<1>2. IsFiniteSet(names)
    <2>1. DOMAIN f = 1 .. Len(entries)
        OBVIOUS
    <2> HIDE DEF f
    <2> QED
        BY <1>1, <2>1, ImageIsFinite
<1>3. DOMAIN after \subseteq DOMAIN table \cup names
    <2>1. MadeOf(after, Len(entries), table, entries)
        BY UpsertFacts
    <2> HIDE DEF after
    <2> QED
        BY <2>1 DEF MadeOf
<1>4. IsFiniteSet(DOMAIN table \cup names)
    <2> HIDE DEF names
    <2> QED
        BY <1>2, FS_Union
<1> HIDE DEF after, names
<1>5. IsFiniteSet(DOMAIN after)
    BY <1>3, <1>4, FS_Subset
<1> QED
    BY <1>5 DEF after

\* An import of entries restores them (settings-backup.js, upsertSessionTypes,
\* upsertTemplates).
LEMMA UpsertRestores ==
    ASSUME NEW table, NEW entries, EntryList(entries)
    PROVE  Restored(table, Upsert(table, entries), entries)
<1> DEFINE after == Upsert(table, entries)
           inFile == {entry.name : entry \in Named(entries)}
<1>1. Len(entries) \in Nat /\ DOMAIN entries = 1 .. Len(entries)
    BY LenProperties DEF EntryList
<1>2. MadeOf(after, Len(entries), table, entries)
    BY <1>1, UpsertFacts
<1> HIDE DEF after
<1>3. \A i \in DOMAIN entries : entries[i].name # BadName => entries[i].name \in inFile
    BY DEF Named, ToSet
<1>4. ASSUME NEW name \in inFile
      PROVE  name # BadName /\ \E i \in DOMAIN entries : entries[i].name = name
    BY DEF Named, ToSet
<1> HIDE DEF inFile
<1>5. DOMAIN after = DOMAIN table \cup inFile
    <2>1. DOMAIN after \subseteq DOMAIN table \cup inFile
        BY <1>1, <1>2, <1>3 DEF MadeOf
    <2>2. inFile \subseteq DOMAIN after
        BY <1>1, <1>2, <1>4 DEF MadeOf
    <2>3. DOMAIN table \subseteq DOMAIN after
        BY <1>2 DEF MadeOf
    <2> QED
        BY <2>1, <2>2, <2>3
<1>6. ASSUME NEW name \in DOMAIN after, name \in inFile
      PROVE  Entry(after, name) \in ToSet(entries)
    <2>1. PICK i \in DOMAIN entries : entries[i].name = name /\ after[name] = entries[i].row
        BY <1>1, <1>2, <1>4, <1>6 DEF MadeOf
    <2>2. Entry(after, name) = entries[i]
        BY <2>1 DEF Entry, EntryList
    <2> QED
        BY <2>2 DEF ToSet
<1>7. ASSUME NEW name \in DOMAIN after, name \notin inFile
      PROVE  after[name] = table[name]
    BY <1>1, <1>2, <1>3, <1>7 DEF MadeOf
<1>8. Restored(table, after, entries)
    BY <1>5, <1>6, <1>7 DEF Restored, inFile
<1> QED
    BY <1>8 DEF after

-----------------------------------------------------------------------------
(* Export and import.                                                       *)

\* The entries of a table are those of its rows.
LEMMA EntriesFacts ==
    ASSUME NEW table, IsFiniteSet(DOMAIN table)
    PROVE  /\ EntryList(FileEntries(table))
           /\ \A i \in DOMAIN FileEntries(table) : \E name \in DOMAIN table :
                 FileEntries(table)[i] = [name |-> name, row |-> table[name]]
<1> DEFINE f == [name \in DOMAIN table |-> Entry(table, name)]
           S == EntriesOf(table)
           entries == FileEntries(table)
<1>1. S = {f[name] : name \in DOMAIN table}
    BY DEF EntriesOf
<1>2. IsFiniteSet(S)
    <2>1. DOMAIN f = DOMAIN table
        OBVIOUS
    <2> HIDE DEF f, S
    <2> QED
        BY <1>1, <2>1, ImageIsFinite
<1>3. entries \in Seq(S)
    <2> HIDE DEF S
    <2>1. SetToSeq(S) \in Seq(S)
        BY <1>2, SetToSeqFacts
    <2> QED
        BY <2>1 DEF FileEntries, S
<1> HIDE DEF entries, S
<1>4. \A i \in DOMAIN entries : entries[i] \in S
    BY <1>3, LenProperties, ElementOfSeq
<1>5. \A i \in DOMAIN entries : \E name \in DOMAIN table :
          entries[i] = [name |-> name, row |-> table[name]]
    BY <1>4 DEF S, EntriesOf, Entry
<1>6. \A i \in DOMAIN entries : entries[i] = [name |-> entries[i].name, row |-> entries[i].row]
    BY <1>5
<1> QED
    BY <1>3, <1>5, <1>6 DEF EntryList, entries

\* What is exported is good.
LEMMA FileIsGood ==
    ASSUME TablesFit, GatewaysFit
    PROVE  GoodFile(File) /\ HostsOfFileEnd(File)
<1>1. File = [settings |-> File.settings, types |-> File.types,
              templates |-> File.templates, hosts |-> File.hosts]
    BY DEF File
<1>2. /\ File.settings = FileEntries(settings) /\ File.types = FileEntries(types)
      /\ File.templates = FileEntries(templates) /\ File.hosts = FileEntries(gateways)
    BY DEF File
<1>3. /\ EntryList(File.settings) /\ EntryList(File.types) /\ EntryList(File.templates)
      /\ EntryList(File.hosts)
    BY <1>2, EntriesFacts DEF TablesFit, GatewaysFit
<1>4. ASSUME NEW i \in DOMAIN File.types
      PROVE  TypeRow(File.types[i].row)
    <2>1. PICK name \in DOMAIN types : File.types[i] = [name |-> name, row |-> types[name]]
        BY <1>2, EntriesFacts DEF TablesFit
    <2> QED
        BY <2>1 DEF TablesFit, TypesFit
<1>5. ASSUME NEW i \in DOMAIN File.templates
      PROVE  File.templates[i].row # BadLook
    <2>1. PICK name \in DOMAIN templates : File.templates[i] = [name |-> name, row |-> templates[name]]
        BY <1>2, EntriesFacts DEF TablesFit
    <2> QED
        BY <2>1 DEF TablesFit, TemplatesFit
<1>6. GoodFile(File)
    BY <1>1, <1>3, <1>4, <1>5 DEF GoodFile, FileFits, TypeRow
<1>7. HostsOfFileEnd(File)
    <2> SUFFICES ASSUME NEW hosts, hosts # {},
                        \A h \in hosts : \E e \in ToSet(File.hosts) : e.name = h /\ e.row \in hosts
                 PROVE  FALSE
        BY DEF HostsOfFileEnd
    <2>1. ASSUME NEW h \in hosts
          PROVE  h \in DOMAIN gateways /\ gateways[h] \in hosts
        <3>1. PICK i \in DOMAIN File.hosts : File.hosts[i].name = h /\ File.hosts[i].row \in hosts
            BY DEF ToSet
        <3>2. PICK name \in DOMAIN gateways : File.hosts[i] = [name |-> name, row |-> gateways[name]]
            BY <1>2, EntriesFacts DEF GatewaysFit
        <3> QED
            BY <3>1, <3>2
    <2> QED
        BY <2>1 DEF GatewaysFit, GatewayCycle
<1> QED
    BY <1>6, <1>7

\* A file that was edited has entries as it should.
LEMMA EditedFits ==
    ASSUME NEW f, GoodFile(f), NEW file \in FilesFrom(f)
    PROVE  FileFits(file)
<1> DEFINE Plain(e) == e = [name |-> e.name, row |-> e.row]
<1>1. ASSUME NEW list, EntryList(list), NEW e, Plain(e)
      PROVE  /\ EntryList(Append(list, e))
             /\ \A i \in DOMAIN Append(list, e) :
                   Append(list, e)[i] = e \/ \E j \in DOMAIN list : Append(list, e)[i] = list[j]
    <2> DEFINE more == Append(list, e)
    <2>1. PICK S : list \in Seq(S)
        BY <1>1 DEF EntryList
    <2>2. list \in Seq(S \cup {e}) /\ Len(list) \in Nat /\ DOMAIN list = 1 .. Len(list)
        BY <2>1, SeqMonotonic, LenProperties
    <2>3. /\ more \in Seq(S \cup {e}) /\ Len(more) = Len(list) + 1
          /\ more[Len(list) + 1] = e
          /\ \A j \in 1 .. Len(list) : more[j] = list[j]
        BY <2>2, AppendProperties
    <2> HIDE DEF more
    <2>4. DOMAIN more = 1 .. Len(list) + 1
        BY <2>3, LenProperties
    <2>5. \A i \in DOMAIN more : more[i] = e \/ \E j \in DOMAIN list : more[i] = list[j]
        BY <2>2, <2>3, <2>4
    <2>6. \A i \in DOMAIN more : more[i] = [name |-> more[i].name, row |-> more[i].row]
        BY <1>1, <2>5 DEF EntryList
    <2> QED
        BY <2>3, <2>5, <2>6 DEF EntryList, more
<1>2. /\ f = [settings |-> f.settings, types |-> f.types, templates |-> f.templates, hosts |-> f.hosts]
      /\ FileFits(f)
    BY DEF GoodFile
<1>3. CASE file = f
    BY <1>2, <1>3
<1>4. ASSUME NEW e \in AddedType, file = [f EXCEPT !.types = Append(@, e)]
      PROVE  FileFits(file)
    <2>1. Plain(e) /\ "look" \in DOMAIN e.row
        BY DEF AddedType
    <2>2. /\ file.settings = f.settings /\ file.types = Append(f.types, e)
          /\ file.templates = f.templates /\ file.hosts = f.hosts
        BY <1>2, <1>4
    <2>3. EntryList(file.types) /\ \A i \in DOMAIN file.types :
              file.types[i] = e \/ \E j \in DOMAIN f.types : file.types[i] = f.types[j]
        BY <1>1, <1>2, <2>1, <2>2 DEF FileFits
    <2> QED
        BY <1>2, <2>1, <2>2, <2>3 DEF FileFits
<1>5. ASSUME NEW e \in AddedTemplate, file = [f EXCEPT !.templates = Append(@, e)]
      PROVE  FileFits(file)
    <2>1. Plain(e)
        BY DEF AddedTemplate
    <2>2. /\ file.settings = f.settings /\ file.types = f.types
          /\ file.templates = Append(f.templates, e) /\ file.hosts = f.hosts
        BY <1>2, <1>5
    <2>3. EntryList(file.templates)
        BY <1>1, <1>2, <2>1, <2>2 DEF FileFits
    <2> QED
        BY <1>2, <2>2, <2>3 DEF FileFits
<1>6. ASSUME NEW e \in AddedHost, file = [f EXCEPT !.hosts = Append(@, e)]
      PROVE  FileFits(file)
    <2>1. Plain(e)
        BY DEF AddedHost
    <2>2. /\ file.settings = f.settings /\ file.types = f.types
          /\ file.templates = f.templates /\ file.hosts = Append(f.hosts, e)
        BY <1>2, <1>6
    <2>3. EntryList(file.hosts)
        BY <1>1, <1>2, <2>1, <2>2 DEF FileFits
    <2> QED
        BY <1>2, <2>2, <2>3 DEF FileFits
<1> QED
    BY <1>3, <1>4, <1>5, <1>6 DEF FilesFrom

\* A file as it was exported is accepted unless it is too long or its hosts make
\* a cycle with others.
LEMMA GoodIsAccepted ==
    ASSUME NEW f, GoodFile(f), HostsOfFileEnd(f), ~ Accepted(f)
    PROVE  TooLong(f) \/ CycleWithOthers(f)
<1> DEFINE after == GatewaysAfter(gateways, f.hosts)
<1> HIDE DEF after
<1>1. ASSUME GatewayCycle(after)
      PROVE  CycleWithOthers(f)
    <2>1. PICK hosts \in SUBSET DOMAIN after : hosts # {} /\ \A h \in hosts : after[h] \in hosts
        BY <1>1 DEF GatewayCycle
    <2>2. PICK h \in hosts : \A e \in ToSet(f.hosts) : e.name = h => e.row \notin hosts
        BY <2>1 DEF HostsOfFileEnd
    <2>3. Entry(after, h).name = h /\ Entry(after, h).row \in hosts
        BY <2>1 DEF Entry
    <2>4. Entry(after, h) \notin ToSet(f.hosts)
        BY <2>2, <2>3
    <2> QED
        BY <2>1, <2>4 DEF CycleWithOthers, after
<1>3. \A entry \in Named(f.types) : entry.row.look # BadLook
    BY DEF GoodFile, Named, ToSet
<1>4. \A entry \in Named(f.templates) : entry.row # BadLook
    BY DEF GoodFile, Named, ToSet
<1> QED
    BY <1>1, <1>3, <1>4 DEF Accepted, after

\* The gateways after an import are those of the file, where it names one
\* (settings-backup.js, upsertManagedHosts).
LEMMA GatewaysRestored ==
    ASSUME NEW entries, EntryList(entries), gateways' = GatewaysAfter(gateways, entries),
           ~GatewayCycle(gateways')
    PROVE  HostsRestored(entries)
<1> DEFINE all == DOMAIN gateways \cup {entries[i].name : i \in DOMAIN entries}
           naming(h) == {i \in DOMAIN entries : entries[i].name = h /\ entries[i].row \in all \ {h}}
           named(h) == {e \in ToSet(entries) : e.name = h /\ e.row \in all \ {h}}
<1>1. gateways' = [h \in all |-> IF naming(h) # {} THEN entries[Max(naming(h))].row
                                 ELSE IF h \in DOMAIN gateways THEN gateways[h]
                                 ELSE Direct]
    BY DEF GatewaysAfter
<1>2. Len(entries) \in Nat /\ DOMAIN entries = 1 .. Len(entries)
    BY LenProperties DEF EntryList
<1>3. all = DOMAIN gateways \cup {e.name : e \in ToSet(entries)}
    BY DEF ToSet
<1> HIDE DEF all
<1>4. DOMAIN gateways' = all
    BY <1>1
<1>5. ASSUME NEW h \in all, named(h) # {}
      PROVE  Entry(gateways', h) \in named(h)
    <2>1. naming(h) # {}
        BY <1>5 DEF ToSet
    <2>2. naming(h) \in SUBSET Nat /\ \A i \in naming(h) : i <= Len(entries)
        BY <1>2
    <2>3. gateways'[h] = entries[Max(naming(h))].row
        BY <1>1, <2>1
    <2> HIDE DEF naming
    <2>4. PICK i \in naming(h) : i = Max(naming(h))
        BY <1>2, <2>1, <2>2, MaxFacts
    <2>5. i \in DOMAIN entries /\ entries[i].name = h /\ entries[i].row \in all \ {h}
        BY DEF naming
    <2>6. Entry(gateways', h) = entries[i]
        BY <2>3, <2>4, <2>5 DEF Entry, EntryList
    <2> QED
        BY <2>5, <2>6 DEF ToSet
<1>6. ASSUME NEW h \in all, named(h) = {}
      PROVE  gateways'[h] = IF h \in DOMAIN gateways THEN gateways[h] ELSE Direct
    <2>1. naming(h) = {}
        BY <1>6 DEF ToSet
    <2> QED
        BY <1>1, <2>1
<1> QED
    BY <1>3, <1>4, <1>5, <1>6 DEF HostsRestored

\* There are finitely many hosts after an import.
LEMMA GatewaysAreFinite ==
    ASSUME NEW entries, EntryList(entries), IsFiniteSet(DOMAIN gateways)
    PROVE  IsFiniteSet(DOMAIN GatewaysAfter(gateways, entries))
<1> DEFINE f == [i \in DOMAIN entries |-> entries[i].name]
           names == {f[i] : i \in DOMAIN entries}
<1>1. IsFiniteSet(DOMAIN entries)
    BY LenProperties, FS_Interval DEF EntryList
<1>2. IsFiniteSet(names)
    <2>1. DOMAIN f = DOMAIN entries
        OBVIOUS
    <2> HIDE DEF f
    <2> QED
        BY <1>1, <2>1, ImageIsFinite
<1>3. names = {entries[i].name : i \in DOMAIN entries}
    OBVIOUS
<1>4. DOMAIN GatewaysAfter(gateways, entries) = DOMAIN gateways \cup names
    BY <1>3 DEF GatewaysAfter
<1> HIDE DEF names
<1> QED
    BY <1>2, <1>4, FS_Union

\* What an import makes of the tables.
LEMMA ImportFacts ==
    ASSUME TablesInv, GatewaysInv, exported # NoFile, NEW file \in FilesFrom(exported),
           ImportSettings(file)
    PROVE  ImportRestores /\ TablesFit' /\ GatewaysFit'
<1>1. GoodFile(exported) /\ FileFits(file)
    BY EditedFits DEF TablesInv, ExportIsGood
<1>2. received' = file /\ accepted' = Accepted(file)
    BY DEF ImportSettings
<1>3. TablesFit
    BY DEF TablesInv
<1>4. CASE ~ Accepted(file)
    <2>1. UNCHANGED <<tables, gateways>>
        BY <1>4 DEF ImportSettings
    <2>2. file = exported => TooLong(exported) \/ CycleWithOthers(exported)
        BY <1>1, <1>4, GoodIsAccepted DEF GatewaysInv
    <2>3. ImportRestores
        BY <1>2, <1>4, <2>1, <2>2 DEF ImportRestores
    <2> QED
        BY <1>3, <2>1, <2>3 DEF tables, TablesFit, TypesFit, TemplatesFit, GatewaysInv, GatewaysFit,
                                GatewayCycle
<1>5. CASE Accepted(file)
    <2>1. /\ settings' = Upsert(settings, file.settings)
          /\ types' = Upsert(types, file.types)
          /\ templates' = Upsert(templates, file.templates)
          /\ gateways' = GatewaysAfter(gateways, file.hosts)
        BY <1>5 DEF ImportSettings, UpsertTypes
    <2>2. /\ Restored(settings, settings', file.settings)
          /\ Restored(types, types', file.types)
          /\ Restored(templates, templates', file.templates)
        BY <1>1, <2>1, UpsertRestores DEF FileFits
    <2>8. GatewaysFit' /\ HostsRestored(file.hosts)
        <3>1. ~GatewayCycle(gateways')
            BY <1>5, <2>1 DEF Accepted
        <3>2. EntryList(file.hosts)
            BY <1>1 DEF FileFits
        <3>3. HostsRestored(file.hosts)
            BY <2>1, <3>1, <3>2, GatewaysRestored
        <3>4. IsFiniteSet(DOMAIN gateways')
            BY <2>1, <3>2, GatewaysAreFinite DEF GatewaysInv, GatewaysFit
        <3> QED
            BY <3>1, <3>3, <3>4 DEF GatewaysFit, GatewayCycle
    <2>3. ImportRestores
        BY <1>2, <1>5, <2>2, <2>8 DEF ImportRestores
    <2>4. /\ Len(file.settings) \in Nat /\ Len(file.types) \in Nat /\ Len(file.templates) \in Nat
          /\ DOMAIN file.types = 1 .. Len(file.types)
          /\ DOMAIN file.templates = 1 .. Len(file.templates)
        BY <1>1, LenProperties DEF FileFits, EntryList
    <2>5. /\ IsFiniteSet(DOMAIN settings') /\ IsFiniteSet(DOMAIN types') /\ IsFiniteSet(DOMAIN templates')
        BY <1>3, <2>1, <2>4, UpsertIsFinite DEF TablesFit
    <2>6. TypesFit'
        <3>1. MadeOf(types', Len(file.types), types, file.types)
            BY <2>1, <2>4, UpsertFacts
        <3>2. \A i \in DOMAIN file.types : file.types[i].name # BadName => TypeRow(file.types[i].row)
            BY <1>1, <1>5 DEF Accepted, Named, ToSet, FileFits, TypeRow
        <3>3. \A name \in DOMAIN types : name # BadName /\ TypeRow(types[name])
            BY <1>3 DEF TablesFit, TypesFit
        <3>4. \A name \in DOMAIN types' : name # BadName /\ TypeRow(types'[name])
            BY <2>4, <3>1, <3>2, <3>3 DEF MadeOf
        <3> QED
            BY <3>4 DEF TypesFit, TypeRow
    <2>7. TemplatesFit'
        <3>1. MadeOf(templates', Len(file.templates), templates, file.templates)
            BY <2>1, <2>4, UpsertFacts
        <3>2. \A i \in DOMAIN file.templates :
                  file.templates[i].name # BadName => file.templates[i].row # BadLook
            BY <1>5 DEF Accepted, Named, ToSet
        <3>3. \A name \in DOMAIN templates : name # BadName /\ templates[name] # BadLook
            BY <1>3 DEF TablesFit, TemplatesFit
        <3> QED
            BY <2>4, <3>1, <3>2, <3>3 DEF MadeOf, TemplatesFit
    <2> QED
        BY <2>3, <2>5, <2>6, <2>7, <2>8 DEF TablesFit
<1> QED
    BY <1>4, <1>5

-----------------------------------------------------------------------------
(* Rows one by one.                                                         *)

\* A table with one more row.
LEMMA WithFacts ==
    ASSUME NEW table, IsFiniteSet(DOMAIN table), NEW name, NEW row
    PROVE  /\ IsFiniteSet(DOMAIN With(table, name, row))
           /\ DOMAIN With(table, name, row) = DOMAIN table \cup {name}
<1>1. DOMAIN With(table, name, row) = DOMAIN table \cup {name}
    BY DEF With
<1>2. IsFiniteSet(DOMAIN table \cup {name})
    BY FS_AddElement
<1> QED
    BY <1>1, <1>2

\* A table with one row less.
LEMMA WithoutFacts ==
    ASSUME NEW table, IsFiniteSet(DOMAIN table), NEW name
    PROVE  /\ IsFiniteSet(DOMAIN RowsWithout(table, name))
           /\ DOMAIN RowsWithout(table, name) = DOMAIN table \ {name}
           /\ \A n \in DOMAIN RowsWithout(table, name) : RowsWithout(table, name)[n] = table[n]
<1>1. DOMAIN RowsWithout(table, name) = DOMAIN table \ {name}
    BY DEF RowsWithout
<1>2. IsFiniteSet(DOMAIN table \ {name})
    BY FS_RemoveElement
<1>3. \A n \in DOMAIN RowsWithout(table, name) : RowsWithout(table, name)[n] = table[n]
    BY DEF RowsWithout
<1> QED
    BY <1>1, <1>2, <1>3

\* Who has a name and a look.
LEMMA NameFacts ==
    /\ \A name \in SettingKey \cup TypeName \cup TemplateName : name # BadName
    /\ \A look \in Look : look # BadLook
    /\ DefaultLook \in Look
BY SettingsAssumption

\* A type that is added or shown otherwise.
LEMMA TypeStep ==
    ASSUME TablesFit, NEW name \in TypeName, NEW row, TypeRow(row),
           UNCHANGED <<settings, templates>>, types' = With(types, name, row)
    PROVE  TablesFit' /\ DOMAIN types' = DOMAIN types \cup {name}
<1> DEFINE new == With(types, name, row)
<1>1. IsFiniteSet(DOMAIN types)
    BY DEF TablesFit
<1>2. /\ IsFiniteSet(DOMAIN new) /\ DOMAIN new = DOMAIN types \cup {name}
      /\ \A n \in DOMAIN new : new[n] = IF n = name THEN row ELSE types[n]
    <2>1. IsFiniteSet(DOMAIN new) /\ DOMAIN new = DOMAIN types \cup {name}
        BY <1>1, WithFacts
    <2>2. \A n \in DOMAIN new : new[n] = IF n = name THEN row ELSE types[n]
        BY DEF With
    <2> QED
        BY <2>1, <2>2
<1>3. types' = new
    OBVIOUS
<1> HIDE DEF new
<1>4. TypesFit'
    BY <1>2, <1>3, NameFacts DEF TablesFit, TypesFit, TypeRow
<1> QED
    BY <1>2, <1>3, <1>4 DEF TablesFit, TemplatesFit

\* A template that is added.
LEMMA TemplateStep ==
    ASSUME TablesFit, NEW name \in TemplateName, NEW look \in Look, NEW old,
           IsFiniteSet(DOMAIN old), \A n \in DOMAIN old : n \in DOMAIN templates /\ old[n] = templates[n],
           UNCHANGED <<settings, types>>, templates' = With(old, name, look)
    PROVE  TablesFit'
<1> DEFINE new == With(old, name, look)
<1>1. /\ IsFiniteSet(DOMAIN new) /\ DOMAIN new = DOMAIN old \cup {name}
      /\ \A n \in DOMAIN new : new[n] = IF n = name THEN look ELSE old[n]
    <2>1. IsFiniteSet(DOMAIN new) /\ DOMAIN new = DOMAIN old \cup {name}
        BY WithFacts
    <2>2. \A n \in DOMAIN new : new[n] = IF n = name THEN look ELSE old[n]
        BY DEF With
    <2> QED
        BY <2>1, <2>2
<1>2. templates' = new
    OBVIOUS
<1> HIDE DEF new
<1>3. TemplatesFit'
    BY <1>1, <1>2, NameFacts DEF TablesFit, TemplatesFit
<1> QED
    BY <1>1, <1>2, <1>3 DEF TablesFit, TypesFit, TypeRow

\* Fewer rows.
LEMMA FewerRows ==
    ASSUME TablesFit, NEW name,
           \/ types' = RowsWithout(types, name) /\ UNCHANGED <<settings, templates>>
           \/ templates' = RowsWithout(templates, name) /\ UNCHANGED <<settings, types>>
    PROVE  TablesFit'
<1>1. CASE types' = RowsWithout(types, name) /\ UNCHANGED <<settings, templates>>
    <2>1. /\ IsFiniteSet(DOMAIN types') /\ DOMAIN types' = DOMAIN types \ {name}
          /\ \A n \in DOMAIN types' : types'[n] = types[n]
        BY <1>1, WithoutFacts DEF TablesFit
    <2> QED
        BY <1>1, <2>1 DEF TablesFit, TypesFit, TemplatesFit, TypeRow
<1>2. CASE templates' = RowsWithout(templates, name) /\ UNCHANGED <<settings, types>>
    <2>1. /\ IsFiniteSet(DOMAIN templates') /\ DOMAIN templates' = DOMAIN templates \ {name}
          /\ \A n \in DOMAIN templates' : templates'[n] = templates[n]
        BY <1>2, WithoutFacts DEF TablesFit
    <2> QED
        BY <1>2, <2>1 DEF TablesFit, TypesFit, TemplatesFit, TypeRow
<1> QED
    BY <1>1, <1>2

-----------------------------------------------------------------------------
(* Steps.                                                                   *)

\* While requests are answered, the defaults that are not deleted stay.
LEMMA UpStep ==
    ASSUME TablesInv, phase = "up", UNCHANGED <<phase, toSeed, cutShort, exported>>, TablesFit',
           DOMAIN types \cup typesDeleted \subseteq DOMAIN types' \cup typesDeleted'
    PROVE  TablesInv'
<1>1. toSeed = <<>> /\ toSeed' = <<>>
    BY DEF TablesInv, SeedingIsInOrder
<1>2. SeedingIsInOrder'
    BY <1>1 DEF TablesInv, SeedingIsInOrder
<1>3. DefaultsAreToCome'
    BY DEF TablesInv, DefaultsAreToCome, AreThere
<1>4. ExportIsGood'
    BY DEF TablesInv, ExportIsGood
<1> QED
    BY <1>2, <1>3, <1>4 DEF TablesInv

\* A request that changes one row, or none.
LEMMA RequestStep ==
    ASSUME TablesInv,
           \/ \E key \in SettingKey, look \in Look : UpsertAppSetting(key, look)
           \/ \E name \in TypeName, look \in Look : CreateSessionType(name, look)
           \/ \E name \in DOMAIN types :
                 DeleteSessionType(name) \/ \E look \in Look : UpdateSessionType(name, look)
           \/ \E name \in TemplateName, look \in Look :
                 \/ CreateTemplate(name, look)
                 \/ \E old \in DOMAIN templates : UpdateTemplate(old, name, look)
           \/ \E name \in DOMAIN templates : DeleteTemplate(name)
           \/ ScanSessionTypes
           \/ \E table \in HostTables : ChangeHosts(table)
    PROVE  TablesInv'
<1>0. TablesFit
    BY DEF TablesInv
<1>1. CASE \E key \in SettingKey, look \in Look : UpsertAppSetting(key, look)
    <2>1. PICK key \in SettingKey, look \in Look : UpsertAppSetting(key, look)
        BY <1>1
    <2>2. /\ phase = "up" /\ UNCHANGED <<phase, toSeed, cutShort, exported, types, templates, typesDeleted>>
          /\ settings' = With(settings, key, look)
        BY <2>1 DEF UpsertAppSetting, TableRequest, Request
    <2>3. IsFiniteSet(DOMAIN settings')
        BY <1>0, <2>2, WithFacts DEF TablesFit
    <2>4. TablesFit'
        BY <1>0, <2>2, <2>3 DEF TablesFit, TypesFit, TemplatesFit, TypeRow
    <2> QED
        BY <2>2, <2>4, UpStep
<1>2. CASE \E name \in TypeName, look \in Look : CreateSessionType(name, look)
    <2>1. PICK name \in TypeName, look \in Look : CreateSessionType(name, look)
        BY <1>2
    <2> DEFINE row == [look |-> look, order |-> NextSortOrder]
    <2>2. /\ phase = "up" /\ UNCHANGED <<phase, toSeed, cutShort, exported, settings, templates, typesDeleted>>
          /\ types' = With(types, name, row)
        BY <2>1 DEF CreateSessionType, TableRequest, Request
    <2>3. TypeRow(row)
        BY NameFacts DEF TypeRow
    <2> HIDE DEF row
    <2>4. TablesFit' /\ DOMAIN types' = DOMAIN types \cup {name}
        BY <1>0, <2>2, <2>3, TypeStep
    <2> QED
        BY <2>2, <2>4, UpStep
<1>3. CASE \E name \in DOMAIN types : DeleteSessionType(name)
    <2>1. PICK name \in DOMAIN types : DeleteSessionType(name)
        BY <1>3
    <2>2. /\ phase = "up" /\ UNCHANGED <<phase, toSeed, cutShort, exported, settings, templates>>
          /\ types' = RowsWithout(types, name) /\ typesDeleted' = typesDeleted \cup {name}
        BY <2>1 DEF DeleteSessionType, TableRequest, Request
    <2>3. DOMAIN types' = DOMAIN types \ {name}
        BY <2>2 DEF RowsWithout
    <2>4. TablesFit'
        BY <1>0, <2>2, FewerRows
    <2> QED
        BY <2>2, <2>3, <2>4, UpStep
<1>4. CASE \E name \in DOMAIN types, look \in Look : UpdateSessionType(name, look)
    <2>1. PICK name \in DOMAIN types, look \in Look : UpdateSessionType(name, look)
        BY <1>4
    <2> DEFINE row == [types[name] EXCEPT !.look = look]
    <2>2. /\ phase = "up" /\ UNCHANGED <<phase, toSeed, cutShort, exported, settings, templates, typesDeleted>>
          /\ types' = [types EXCEPT ![name] = row]
        BY <2>1 DEF UpdateSessionType, TableRequest, Request
    <2>3. TypeRow(types[name])
        BY <1>0 DEF TablesFit, TypesFit
    <2>4. TypeRow(row)
        BY <2>3, NameFacts DEF TypeRow
    <2> HIDE DEF row
    <2>5. DOMAIN types' = DOMAIN types /\ \A n \in DOMAIN types' : types'[n] = IF n = name THEN row ELSE types[n]
        BY <2>2
    <2>6. TablesFit'
        BY <1>0, <2>2, <2>4, <2>5 DEF TablesFit, TypesFit, TemplatesFit, TypeRow
    <2> QED
        BY <2>2, <2>5, <2>6, UpStep
<1>5. CASE \E name \in TemplateName, look \in Look : CreateTemplate(name, look)
    <2>1. PICK name \in TemplateName, look \in Look : CreateTemplate(name, look)
        BY <1>5
    <2>2. /\ phase = "up" /\ UNCHANGED <<phase, toSeed, cutShort, exported, settings, types, typesDeleted>>
          /\ templates' = With(templates, name, look)
        BY <2>1 DEF CreateTemplate, TableRequest, Request
    <2>3. IsFiniteSet(DOMAIN templates)
        BY <1>0 DEF TablesFit
    <2>4. TablesFit'
        BY <1>0, <2>2, <2>3, TemplateStep
    <2> QED
        BY <2>2, <2>4, UpStep
<1>6. CASE \E name \in TemplateName, look \in Look, old \in DOMAIN templates : UpdateTemplate(old, name, look)
    <2>1. PICK name \in TemplateName, look \in Look, old \in DOMAIN templates : UpdateTemplate(old, name, look)
        BY <1>6
    <2> DEFINE rest == RowsWithout(templates, old)
    <2>2. /\ phase = "up" /\ UNCHANGED <<phase, toSeed, cutShort, exported, settings, types, typesDeleted>>
          /\ templates' = With(rest, name, look)
        BY <2>1 DEF UpdateTemplate, TableRequest, Request
    <2>3. /\ IsFiniteSet(DOMAIN rest) /\ DOMAIN rest = DOMAIN templates \ {old}
          /\ \A n \in DOMAIN rest : rest[n] = templates[n]
        BY <1>0, WithoutFacts DEF TablesFit
    <2> HIDE DEF rest
    <2>4. TablesFit'
        BY <1>0, <2>2, <2>3, TemplateStep
    <2> QED
        BY <2>2, <2>4, UpStep
<1>7. CASE \E name \in DOMAIN templates : DeleteTemplate(name)
    <2>1. PICK name \in DOMAIN templates : DeleteTemplate(name)
        BY <1>7
    <2>2. /\ phase = "up" /\ UNCHANGED <<phase, toSeed, cutShort, exported, settings, types, typesDeleted>>
          /\ templates' = RowsWithout(templates, name)
        BY <2>1 DEF DeleteTemplate, TableRequest, Request
    <2>3. TablesFit'
        BY <1>0, <2>2, FewerRows
    <2> QED
        BY <2>2, <2>3, UpStep
<1>8. CASE ScanSessionTypes \/ \E table \in HostTables : ChangeHosts(table)
    <2>1. /\ phase = "up" /\ UNCHANGED <<phase, toSeed, cutShort, exported, typesDeleted>>
          /\ UNCHANGED <<settings, types, templates>>
        BY <1>8 DEF ScanSessionTypes, ChangeHosts, TableRequest, Request, tables
    <2>2. TablesFit'
        BY <1>0, <2>1 DEF TablesFit, TypesFit, TemplatesFit, TypeRow
    <2> QED
        BY <2>1, <2>2, UpStep
<1> QED
    BY <1>1, <1>2, <1>3, <1>4, <1>5, <1>6, <1>7, <1>8

\* The end of a scan.
LEMMA ScanStep ==
    ASSUME TablesInv, NEW found \in SUBSET TypeName, ScanEnds(found)
    PROVE  TablesInv'
<1>1. TablesFit
    BY DEF TablesInv
<1>2. /\ phase = "up" /\ UNCHANGED <<phase, toSeed, cutShort, exported, settings, templates, typesDeleted>>
      /\ DOMAIN types' = DOMAIN types \cup found
      /\ \A n \in DOMAIN types' :
            \/ n \in DOMAIN types /\ types'[n] = types[n]
            \/ n \in found /\ TypeRow(types'[n])
    <2> DEFINE new == SetToSeq(found \ DOMAIN types)
               place(n) == NextSortOrder + (CHOOSE i \in DOMAIN new : new[i] = n) - 1
    <2>1. /\ phase = "up" /\ UNCHANGED <<phase, toSeed, cutShort, exported, settings, templates, typesDeleted>>
          /\ types' = [n \in DOMAIN types \cup found |->
                          IF n \in DOMAIN types THEN types[n]
                          ELSE [look |-> DefaultLook, order |-> place(n)]]
        BY DEF ScanEnds, TableRequest, Request
    <2> HIDE DEF place
    <2>2. \A n \in found : TypeRow([look |-> DefaultLook, order |-> place(n)])
        BY NameFacts DEF TypeRow
    <2>3. DOMAIN types' = DOMAIN types \cup found
        BY <2>1
    <2>4. ASSUME NEW n \in DOMAIN types'
          PROVE  \/ n \in DOMAIN types /\ types'[n] = types[n]
                 \/ n \in found /\ TypeRow(types'[n])
        <3>1. types'[n] = IF n \in DOMAIN types THEN types[n]
                          ELSE [look |-> DefaultLook, order |-> place(n)]
            BY <2>1, <2>3
        <3>2. CASE n \in DOMAIN types
            <4>1. types'[n] = types[n]
                BY <3>1, <3>2
            <4> QED
                BY <3>2, <4>1
        <3>3. CASE n \notin DOMAIN types
            <4>1. n \in found
                BY <2>3, <3>3
            <4>2. types'[n] = [look |-> DefaultLook, order |-> place(n)]
                BY <3>1, <3>3
            <4> QED
                BY <2>2, <4>1, <4>2
        <3> QED
            BY <3>2, <3>3
    <2> QED
        BY <2>1, <2>3, <2>4
<1>3. IsFiniteSet(DOMAIN types')
    <2>1. IsFiniteSet(found) /\ IsFiniteSet(DOMAIN types)
        BY <1>1, SettingsAssumption, FS_Subset DEF TablesFit
    <2>2. IsFiniteSet(DOMAIN types \cup found)
        BY <2>1, FS_Union
    <2> QED
        BY <1>2, <2>2
<1>4. TypesFit'
    BY <1>1, <1>2, NameFacts DEF TablesFit, TypesFit, TypeRow
<1>5. TablesFit'
    BY <1>1, <1>2, <1>3, <1>4 DEF TablesFit, TemplatesFit
<1> QED
    BY <1>2, <1>5, UpStep

\* An import.
LEMMA TablesImportStep ==
    ASSUME TablesInv, GatewaysInv, exported # NoFile, NEW file \in FilesFrom(exported), ImportSettings(file)
    PROVE  TablesInv'
<1>1. TablesFit'
    BY ImportFacts
<1>2. phase = "up" /\ UNCHANGED <<phase, toSeed, cutShort, exported, typesDeleted>>
    BY DEF ImportSettings, Request
<1>3. DOMAIN types \subseteq DOMAIN types'
    <2>1. CASE Accepted(file)
        <3>1. types' = Upsert(types, file.types)
            BY <2>1 DEF ImportSettings, UpsertTypes
        <3>2. Len(file.types) \in Nat
            BY EditedFits, LenProperties DEF TablesInv, ExportIsGood, FileFits, EntryList
        <3> QED
            BY <3>1, <3>2, UpsertFacts DEF MadeOf
    <2>2. CASE ~ Accepted(file)
        BY <2>2 DEF ImportSettings, tables
    <2> QED
        BY <2>1, <2>2
<1> QED
    BY <1>1, <1>2, <1>3, UpStep

\* An export.
LEMMA ExportStep ==
    ASSUME TablesInv, GatewaysInv, CreateSettingsExport
    PROVE  TablesInv'
<1>1. /\ exported' = File
      /\ UNCHANGED <<settings, types, templates, phase, toSeed, cutShort, typesDeleted>>
    BY DEF CreateSettingsExport, Request, tables
<1>2. GoodFile(File)
    BY FileIsGood DEF TablesInv, GatewaysInv
<1>3. ExportIsGood'
    <2>1. GoodFile(exported')
        BY <1>1, <1>2
    <2> QED
        BY <2>1 DEF ExportIsGood, GoodFile, FileFits, EntryList
<1>4. TablesFit'
    BY <1>1 DEF TablesInv, TablesFit, TypesFit, TemplatesFit, TypeRow
<1> QED
    BY <1>1, <1>3, <1>4 DEF TablesInv, SeedingIsInOrder, DefaultsAreToCome, AreThere

\* The first of a sequence and the others are all of it.
LEMMA HeadAndTail ==
    ASSUME NEW S, NEW q \in Seq(S), q # <<>>
    PROVE  /\ Head(q) \in S /\ Tail(q) \in Seq(S) /\ Len(Tail(q)) = Len(q) - 1 /\ Len(q) > 0
           /\ ToSet(q) \subseteq {Head(q)} \cup ToSet(Tail(q))
<1>1. /\ Head(q) \in S /\ Tail(q) \in Seq(S) /\ Len(Tail(q)) = Len(q) - 1
      /\ \A i \in 1 .. Len(Tail(q)) : Tail(q)[i] = q[i + 1]
    BY HeadTailProperties
<1>2. Len(q) \in Nat /\ Len(q) > 0 /\ DOMAIN q = 1 .. Len(q) /\ Head(q) = q[1]
    BY LenProperties, EmptySeq
<1>3. DOMAIN Tail(q) = 1 .. Len(q) - 1
    BY <1>1, LenProperties
<1>4. ASSUME NEW i \in DOMAIN q
      PROVE  q[i] \in {Head(q)} \cup ToSet(Tail(q))
    <2>1. CASE i = 1
        BY <1>2, <2>1
    <2>2. CASE i # 1
        <3>1. i - 1 \in 1 .. Len(q) - 1 /\ (i - 1) + 1 = i
            BY <1>2, <2>2
        <3>2. Tail(q)[i - 1] = q[i]
            BY <1>1, <3>1
        <3> QED
            BY <1>3, <3>1, <3>2 DEF ToSet
    <2> QED
        BY <2>1, <2>2
<1> QED
    BY <1>1, <1>2, <1>4 DEF ToSet

\* The server starts, writes defaults, is up, and ends.
LEMMA ServerStep ==
    ASSUME TablesInv, StartServer \/ SeedType \/ ServerIsUp \/ ServerEnds
    PROVE  TablesInv'
<1>1. /\ TablesFit /\ ExportIsGood
      /\ phase # "starting" => toSeed = <<>>
      /\ toSeed \in Seq(TypeName) /\ Len(toSeed) \in Nat /\ Len(toSeed) <= Len(DefaultTypes)
      /\ Len(toSeed) = Len(DefaultTypes) /\ toSeed # <<>> => types = <<>>
      /\ phase \in {"down", "starting", "up"}
    BY LenProperties DEF TablesInv, SeedingIsInOrder
<1>2. DefaultTypes \in Seq(TypeName) /\ Len(DefaultTypes) \in Nat
    BY SettingsAssumption, LenProperties
<1>3. <<>> \in Seq(TypeName) /\ Len(<<>>) = 0 /\ ToSet(<<>>) = {} /\ DOMAIN <<>> = {}
    BY EmptySeq DEF ToSet
<1>4. UNCHANGED exported /\ ExportIsGood'
    BY <1>1 DEF StartServer, SeedType, ServerIsUp, ServerEnds, ExportIsGood, GoodFile, FileFits, EntryList
<1>5. CASE StartServer
    <2>1. /\ phase = "down" /\ phase' = "starting"
          /\ toSeed' = IF types = <<>> THEN DefaultTypes ELSE <<>>
          /\ UNCHANGED <<settings, types, templates, cutShort, typesDeleted>>
        BY <1>5 DEF StartServer, tables
    <2>2. TablesFit'
        BY <1>1, <2>1 DEF TablesFit, TypesFit, TemplatesFit, TypeRow
    <2>3. SeedingIsInOrder'
        BY <1>2, <1>3, <2>1 DEF SeedingIsInOrder
    <2>4. DefaultsAreToCome'
        BY <1>3, <2>1 DEF TablesInv, DefaultsAreToCome, AreThere
    <2> QED
        BY <1>4, <2>2, <2>3, <2>4 DEF TablesInv
<1>6. CASE SeedType
    <2> DEFINE row == [look |-> DefaultLook, order |-> Len(DefaultTypes) - Len(toSeed) + 1]
    <2>1. /\ phase = "starting" /\ phase' = "starting" /\ toSeed # <<>>
          /\ types' = With(types, Head(toSeed), row) /\ toSeed' = Tail(toSeed)
          /\ UNCHANGED <<settings, templates, cutShort, typesDeleted>>
        BY <1>6 DEF SeedType
    <2>2. TypeRow(row)
        BY NameFacts DEF TypeRow
    <2> HIDE DEF row
    <2>3. /\ Head(toSeed) \in TypeName /\ Tail(toSeed) \in Seq(TypeName)
          /\ Len(Tail(toSeed)) = Len(toSeed) - 1 /\ Len(toSeed) > 0
          /\ ToSet(toSeed) \subseteq {Head(toSeed)} \cup ToSet(Tail(toSeed))
        BY <1>1, <2>1, HeadAndTail
    <2>4. TablesFit' /\ DOMAIN types' = DOMAIN types \cup {Head(toSeed)}
        BY <1>1, <2>1, <2>2, <2>3, TypeStep
    <2>5. SeedingIsInOrder'
        BY <1>1, <1>2, <2>1, <2>3 DEF SeedingIsInOrder
    <2>6. DefaultsAreToCome'
        <3>1. ASSUME ~cutShort
              PROVE  ToSet(DefaultTypes) \subseteq DOMAIN types' \cup typesDeleted \cup ToSet(Tail(toSeed))
            BY <2>1, <2>3, <2>4, <3>1 DEF TablesInv, DefaultsAreToCome
        <3> QED
            BY <2>1, <3>1 DEF DefaultsAreToCome
    <2> QED
        BY <1>4, <2>4, <2>5, <2>6 DEF TablesInv
<1>7. CASE ServerIsUp
    <2>1. /\ phase = "starting" /\ phase' = "up" /\ toSeed = <<>>
          /\ settings' = settings \/ settings' = With(settings, AccentKey, DefaultLook)
          /\ UNCHANGED <<types, templates, toSeed, cutShort, typesDeleted>>
        BY <1>7 DEF ServerIsUp
    <2>2. IsFiniteSet(DOMAIN settings')
        BY <1>1, <2>1, WithFacts DEF TablesFit
    <2>3. TablesFit'
        BY <1>1, <2>1, <2>2 DEF TablesFit, TypesFit, TemplatesFit, TypeRow
    <2>4. SeedingIsInOrder'
        BY <1>1, <2>1 DEF SeedingIsInOrder
    <2>5. DefaultsAreToCome'
        BY <1>3, <2>1 DEF TablesInv, DefaultsAreToCome, AreThere
    <2> QED
        BY <1>4, <2>3, <2>4, <2>5 DEF TablesInv
<1>8. CASE ServerEnds
    <2>1. /\ phase # "down" /\ phase' = "down" /\ toSeed' = <<>>
          /\ cutShort' = (cutShort \/ toSeed \notin {<<>>, DefaultTypes})
          /\ UNCHANGED <<settings, types, templates, typesDeleted>>
        BY <1>8 DEF ServerEnds, tables
    <2>2. TablesFit'
        BY <1>1, <2>1 DEF TablesFit, TypesFit, TemplatesFit, TypeRow
    <2>3. SeedingIsInOrder'
        BY <1>2, <1>3, <2>1 DEF SeedingIsInOrder
    <2>4. ASSUME ~cutShort'
          PROVE  types = <<>> \/ AreThere
        <3>1. ~cutShort /\ (toSeed = <<>> \/ toSeed = DefaultTypes)
            BY <2>1, <2>4
        <3>2. CASE toSeed = <<>>
            BY <1>1, <1>3, <2>1, <3>1, <3>2 DEF TablesInv, DefaultsAreToCome, AreThere
        <3>3. CASE toSeed # <<>> /\ toSeed = DefaultTypes
            BY <1>1, <3>3
        <3> QED
            BY <3>1, <3>2, <3>3
    <2>5. DefaultsAreToCome'
        BY <2>1, <2>4 DEF DefaultsAreToCome, AreThere
    <2> QED
        BY <1>4, <2>2, <2>3, <2>5 DEF TablesInv
<1> QED
    BY <1>5, <1>6, <1>7, <1>8

\* Gateways and the hosts of the exported file.
LEMMA GatewaysStep ==
    ASSUME TablesInv, GatewaysInv, SettingsNext
    PROVE  GatewaysInv'
<1>1. CASE exported # NoFile /\ \E file \in FilesFrom(exported) : ImportSettings(file)
    <2>1. GatewaysFit'
        BY <1>1, ImportFacts
    <2>2. UNCHANGED exported
        BY <1>1 DEF ImportSettings
    <2> QED
        BY <2>1, <2>2 DEF GatewaysInv, HostsOfFileEnd
<1>2. CASE CreateSettingsExport
    <2>1. exported' = File /\ UNCHANGED gateways
        BY <1>2 DEF CreateSettingsExport
    <2>2. HostsOfFileEnd(exported')
        BY <2>1, FileIsGood DEF TablesInv, GatewaysInv
    <2> QED
        BY <2>1, <2>2 DEF GatewaysInv, GatewaysFit, GatewayCycle, HostsOfFileEnd
<1>3. CASE \E table \in HostTables : ChangeHosts(table)
    <2>1. PICK table \in HostTables : gateways' = table /\ UNCHANGED exported
        BY <1>3 DEF ChangeHosts
    <2>2. ~GatewayCycle(table) /\ DOMAIN table \in SUBSET SavedHost
        BY DEF HostTables
    <2>3. IsFiniteSet(DOMAIN table)
        BY <2>2, SettingsAssumption, FS_Subset
    <2> QED
        BY <2>1, <2>2, <2>3 DEF GatewaysInv, GatewaysFit, GatewayCycle, HostsOfFileEnd
<1>4. CASE UNCHANGED <<gateways, exported>>
    BY <1>4 DEF GatewaysInv, GatewaysFit, GatewayCycle, HostsOfFileEnd
<1> QED
    BY <1>1, <1>2, <1>3, <1>4
       DEF SettingsNext, StartServer, SeedType, ServerIsUp, ServerEnds, UpsertAppSetting,
           CreateSessionType, DeleteSessionType, UpdateSessionType, CreateTemplate, UpdateTemplate,
           DeleteTemplate, ScanSessionTypes, ScanEnds

\* The invariants hold in every state.
LEMMA TablesInvHolds == SettingsSpec => [](TablesInv /\ GatewaysInv)
<1>1. SettingsInit => TablesInv /\ GatewaysInv
    <2> SUFFICES ASSUME SettingsInit
                 PROVE  TablesInv /\ GatewaysInv
        OBVIOUS
    <2>1. /\ settings = <<>> /\ types = <<>> /\ templates = <<>> /\ gateways = <<>>
          /\ phase = "down" /\ toSeed = <<>> /\ exported = NoFile
        BY DEF SettingsInit
    <2>2. DOMAIN <<>> = {} /\ IsFiniteSet({})
        BY FS_EmptySet
    <2>3. TablesFit
        BY <2>1, <2>2 DEF TablesFit, TypesFit, TemplatesFit
    <2>4. <<>> \in Seq(TypeName) /\ Len(<<>>) = 0 /\ Len(DefaultTypes) \in Nat
        BY SettingsAssumption, EmptySeq, LenProperties
    <2>5. SeedingIsInOrder
        BY <2>1, <2>4 DEF SeedingIsInOrder
    <2>6. GatewaysInv
        BY <2>1, <2>2 DEF GatewaysInv, GatewaysFit, GatewayCycle
    <2> QED
        BY <2>1, <2>3, <2>5, <2>6 DEF TablesInv, ExportIsGood, DefaultsAreToCome
<1>2. TablesInv /\ GatewaysInv /\ [SettingsNext]_settingsVars => TablesInv' /\ GatewaysInv'
    <2>1. ASSUME TablesInv, GatewaysInv, SettingsNext
          PROVE  TablesInv' /\ GatewaysInv'
        BY <2>1, GatewaysStep, ServerStep, RequestStep, ScanStep, ExportStep, TablesImportStep DEF SettingsNext
    <2>2. ASSUME TablesInv, GatewaysInv, UNCHANGED settingsVars
          PROVE  TablesInv' /\ GatewaysInv'
        <3>1. UNCHANGED <<settings, types, templates, gateways, phase, toSeed, exported, cutShort, typesDeleted>>
            BY <2>2 DEF settingsVars, tables
        <3>3. GatewaysInv'
            BY <2>2, <3>1 DEF GatewaysInv, GatewaysFit, GatewayCycle, HostsOfFileEnd
        <3>2. TablesFit' /\ ExportIsGood'
            BY <2>2, <3>1 DEF TablesInv, TablesFit, TypesFit, TemplatesFit, TypeRow, ExportIsGood, GoodFile, FileFits, EntryList
        <3> QED
            BY <2>2, <3>1, <3>2, <3>3 DEF TablesInv, SeedingIsInOrder, DefaultsAreToCome, AreThere
    <2> QED
        BY <2>1, <2>2
<1> QED
    BY <1>1, <1>2, PTL DEF SettingsSpec

\* A server that answers requests has every default type that was not deleted,
\* however often it was stopped, unless a start was cut short (lib/db.js).
THEOREM DefaultsAreSeeded == SettingsSpec => []DefaultTypesAreThere
<1>1. TablesInv => DefaultTypesAreThere
    BY DEF TablesInv, DefaultsAreToCome, AreThere, DefaultTypesAreThere
<1> QED
    BY <1>1, TablesInvHolds, PTL

\* An import brings every row of its file back, or changes nothing, for tables
\* and files of any length and any gateways; the file as it was exported is
\* refused only if it is too long or if gateways that were set since make a cycle
\* with its own (services/settings-backup.js, importSettingsExport).
THEOREM ImportsRestore == SettingsSpec => ImportRestoresExport
<1>1. TablesInv /\ GatewaysInv /\ SettingsNext => ImportRestores
    <2> SUFFICES ASSUME TablesInv, GatewaysInv, SettingsNext
                 PROVE  ImportRestores
        OBVIOUS
    <2>1. CASE exported # NoFile /\ \E file \in FilesFrom(exported) : ImportSettings(file)
        BY <2>1, ImportFacts
    <2>2. CASE received' = NoFile
        BY <2>2 DEF ImportRestores
    <2> QED
        BY <2>1, <2>2
           DEF SettingsNext, StartServer, SeedType, ServerIsUp, ServerEnds, UpsertAppSetting,
               CreateSessionType, DeleteSessionType, UpdateSessionType, CreateTemplate, UpdateTemplate,
               DeleteTemplate, ChangeHosts, ScanSessionTypes, ScanEnds, CreateSettingsExport,
               TableRequest, NoImport
<1>2. TablesInv /\ GatewaysInv /\ [SettingsNext]_settingsVars => [ImportRestores]_settingsVars
    BY <1>1
<1> QED
    BY <1>2, TablesInvHolds, PTL DEF SettingsSpec, ImportRestoresExport

-----------------------------------------------------------------------------
(***************************************************************************)
(* The rows of managed hosts in the browser (HostRows), for every set of   *)
(* hosts and every number of requests.                                     *)
(***************************************************************************)

\* The requests in flight.
InFlight == Range(exchanges)

Changers == {"import", "create", "update", "delete"}
Testers == {"test", "install", "test all"}
Kinds == Changers \cup Testers \cup {"load", "count", "sessions"}
ExchangeFields == {"kind", "host", "served", "at", "rows", "todo", "next"}

\* What is known of each request: a change is followed by a load.
ExchangeFits(e, newest) ==
    /\ ExchangeFields \subseteq DOMAIN e
    /\ e.kind \in Kinds
    /\ e.served \in BOOLEAN
    /\ e.at \in Nat /\ e.at <= newest
    /\ e.rows \in [DOMAIN e.rows -> Nat]
    /\ \A h \in DOMAIN e.rows : e.rows[h] <= e.at
    /\ e.next \in Seq({"load", "sessions", "test"})
    /\ e.kind \in Changers => e.next # <<>> /\ Head(e.next) = "load"
    /\ e.kind # "test all" => e.todo = {}

RowsTypes ==
    /\ rowChanges \in Nat /\ FirstChange <= rowChanges
    /\ rowsAsOf \in Nat /\ rowsAsOf <= rowChanges
    /\ rowsExcused \in BOOLEAN
    /\ rowsKept \in [DOMAIN rowsKept -> Nat]
    /\ \A h \in DOMAIN rowsKept : rowsKept[h] <= rowChanges
    /\ rowsShown \in [DOMAIN rowsShown -> Nat]
    /\ \E S : exchanges \in Seq(S)
    /\ \A e \in InFlight : ExchangeFits(e, rowChanges)

IsList(e) == e.kind = "load" /\ e.served

\* A list and a table agree that there is a host, or that there is none.
Agree(rows, kept, h) == h \in DOMAIN rows <=> h \in DOMAIN kept

\* A list has the rows that were not changed since, and its hosts are those of
\* the table unless that was changed since.
ListTrue(e, kept, newest) ==
    IsList(e) =>
        /\ FirstChange <= e.at
        /\ \A h \in DOMAIN kept : kept[h] <= e.at => h \in DOMAIN e.rows /\ e.rows[h] = kept[h]
        /\ \A h : ~Agree(e.rows, kept, h) => e.at < newest

\* The results of tests are no newer than the rows.
ResultOld(e, kept) ==
    e.kind \in Testers =>
        /\ \A h \in DOMAIN e.rows \cap DOMAIN kept : e.rows[h] <= kept[h]
        /\ \A h \in e.todo : h \notin DOMAIN e.rows
        /\ e.kind # "test all" /\ ~e.served => DOMAIN e.rows = {}

AnswersAreTrue == \A e \in InFlight : ListTrue(e, rowsKept, rowChanges) /\ ResultOld(e, rowsKept)

\* A load will follow that sees the table as it is, or a list is excused.
Loads(e, asOf) ==
    \/ e.kind \in Changers /\ e.served
    \/ e.kind = "load" /\ (e.served => e.at < asOf)

WillLoad == \E e \in InFlight : Loads(e, rowsAsOf)

\* An answer on its way that brings change c of host h.
Carries(e, h, c) ==
    \/ IsList(e) /\ c <= e.at
    \/ e.kind \in Testers /\ h \in DOMAIN e.rows /\ e.rows[h] = c

Carried(h) == \E e \in InFlight : Carries(e, h, rowsKept[h])

\* An answer on its way that agrees about host h.
Lists(e, h, kept) == IsList(e) /\ Agree(e.rows, kept, h)

ListedAt(h) == \E e \in InFlight : Lists(e, h, rowsKept)

ChangesAreCarried ==
    \A h \in DOMAIN rowsKept : rowsAsOf < rowsKept[h] /\ FirstChange < rowsKept[h] => Carried(h)

\* A list that is wrong about a host is followed by one that is right.
ListsAreFollowed ==
    \A e \in InFlight : IsList(e) => \A h :
        Agree(e.rows, rowsKept, h) \/ \E f \in InFlight : Lists(f, h, rowsKept) /\ e.at < f.at

RowsAreRight == \A h \in DOMAIN rowsKept \cap DOMAIN rowsShown : rowsShown[h] = rowsKept[h] \/ Carried(h)

HostsAreRight == \A h : Agree(rowsShown, rowsKept, h) \/ ListedAt(h)

ShownIsFollowed == rowsShown # <<>> => RowsAreRight /\ HostsAreRight

\* As long as nothing is excused and no load is to come, the answers on their
\* way bring all that is not shown.
RowsFollow == ~rowsExcused /\ ~WillLoad => ChangesAreCarried /\ ListsAreFollowed /\ ShownIsFollowed

RowsInv == RowsTypes /\ AnswersAreTrue /\ RowsFollow

-----------------------------------------------------------------------------
(* Sequences of requests.                                                   *)

\* A table without rows is the empty list.
LEMMA EmptyRows ==
    ASSUME NEW f, NEW S, f \in [DOMAIN f -> S], DOMAIN f = {}
    PROVE  f = <<>>
<1>1. f \in [1 .. 0 -> S]
    OBVIOUS
<1>2. f \in Seq(S) /\ Len(f) = 0
    BY <1>1, LenProperties, SeqDef
<1> QED
    BY <1>2, EmptySeq

\* The empty list is a table of anything.
LEMMA NoRowsAtAll == DOMAIN <<>> = {} /\ \A S : <<>> \in [DOMAIN <<>> -> S]
OBVIOUS

\* A request in flight becomes another.
LEMMA ExchangeChanged ==
    ASSUME RowsTypes, NEW i \in DOMAIN exchanges, NEW new, exchanges' = [exchanges EXCEPT ![i] = new]
    PROVE  /\ \E S : exchanges' \in Seq(S)
           /\ InFlight' \subseteq InFlight \cup {new} /\ new \in InFlight'
           /\ \A e \in InFlight : e # exchanges[i] => e \in InFlight'
<1>1. PICK S : exchanges \in Seq(S)
    BY DEF RowsTypes
<1> DEFINE all == S \cup {new}
<1>2. exchanges \in Seq(all) /\ i \in 1 .. Len(exchanges) /\ DOMAIN exchanges = 1 .. Len(exchanges) /\ new \in all
    BY <1>1, SeqMonotonic, LenProperties
<1> HIDE DEF all
<1>3. [exchanges EXCEPT ![i] = new] \in Seq(all)
    BY <1>2, ExceptSeq
<1>4. exchanges' \in Seq(all) /\ DOMAIN exchanges' = DOMAIN exchanges /\ exchanges'[i] = new
      /\ \A j \in DOMAIN exchanges : j # i => exchanges'[j] = exchanges[j]
    BY <1>3
<1>5. InFlight' \subseteq InFlight \cup {new} /\ new \in InFlight'
    BY <1>4 DEF InFlight, Range
<1>6. ASSUME NEW e \in InFlight, e # exchanges[i] PROVE e \in InFlight'
    BY <1>4, <1>6 DEF InFlight, Range
<1> QED
    BY <1>4, <1>5, <1>6

\* A request more in flight.
LEMMA ExchangeSent ==
    ASSUME RowsTypes, NEW new, exchanges' = Append(exchanges, new)
    PROVE  /\ \E S : exchanges' \in Seq(S)
           /\ InFlight' = InFlight \cup {new}
<1>1. PICK S : exchanges \in Seq(S)
    BY DEF RowsTypes
<1> DEFINE all == S \cup {new}
<1>2. exchanges \in Seq(all) /\ new \in all /\ Len(exchanges) \in Nat /\ DOMAIN exchanges = 1 .. Len(exchanges)
    BY <1>1, SeqMonotonic, LenProperties
<1> HIDE DEF all
<1>3. /\ exchanges' \in Seq(all)
      /\ Len(exchanges) + 1 \in 1 .. Len(exchanges') /\ exchanges'[Len(exchanges) + 1] = new
      /\ \A j \in 1 .. Len(exchanges) : j \in 1 .. Len(exchanges') /\ exchanges'[j] = exchanges[j]
      /\ \A j \in 1 .. Len(exchanges') : j \in 1 .. Len(exchanges) \/ j = Len(exchanges) + 1
    BY <1>2, AppendFacts
<1>4. DOMAIN exchanges' = 1 .. Len(exchanges')
    BY <1>3, LenProperties
<1>5. InFlight' \subseteq InFlight \cup {new}
    BY <1>2, <1>3, <1>4 DEF InFlight, Range
<1>6. InFlight \subseteq InFlight' /\ new \in InFlight'
    BY <1>2, <1>3, <1>4 DEF InFlight, Range
<1> QED
    BY <1>3, <1>5, <1>6

\* A request is over.
LEMMA ExchangeRemoved ==
    ASSUME RowsTypes, NEW i \in DOMAIN exchanges
    PROVE  /\ \E S : RemoveAt(exchanges, i) \in Seq(S)
           /\ Range(RemoveAt(exchanges, i)) \subseteq InFlight
           /\ \A e \in InFlight : e # exchanges[i] => e \in Range(RemoveAt(exchanges, i))
<1>1. PICK S : exchanges \in Seq(S)
    BY DEF RowsTypes
<1> DEFINE q == RemoveAt(exchanges, i)
<1>2. i \in 1 .. Len(exchanges) /\ DOMAIN exchanges = 1 .. Len(exchanges)
    BY <1>1, LenProperties
<1>3. /\ q \in Seq(S)
      /\ \A x \in 1 .. Len(q) : \E j \in 1 .. Len(exchanges) : j # i /\ q[x] = exchanges[j]
      /\ \A j \in 1 .. Len(exchanges) : j # i => \E x \in 1 .. Len(q) : q[x] = exchanges[j]
    BY <1>1, <1>2, RemoveFacts
<1> HIDE DEF q
<1>4. DOMAIN q = 1 .. Len(q)
    BY <1>3, LenProperties
<1>5. \A x \in DOMAIN q : q[x] \in InFlight
    BY <1>2, <1>3, <1>4 DEF InFlight, Range
<1>6. ASSUME NEW e \in InFlight, e # exchanges[i]
      PROVE  e \in Range(q)
    <2>1. PICK j \in 1 .. Len(exchanges) : e = exchanges[j]
        BY <1>2 DEF InFlight, Range
    <2>2. PICK x \in 1 .. Len(q) : q[x] = exchanges[j]
        BY <1>3, <1>6, <2>1
    <2> QED
        BY <1>4, <2>1, <2>2 DEF Range
<1>7. Range(q) \subseteq InFlight
    BY <1>5 DEF Range
<1> QED
    BY <1>3, <1>6, <1>7 DEF q

\* A request is over, and another one follows.
LEMMA ExchangeFollowed ==
    ASSUME RowsTypes, NEW i \in DOMAIN exchanges, NEW new,
           exchanges' = Append(RemoveAt(exchanges, i), new)
    PROVE  /\ \E S : exchanges' \in Seq(S)
           /\ InFlight' \subseteq InFlight \cup {new} /\ new \in InFlight'
           /\ \A e \in InFlight : e # exchanges[i] => e \in InFlight'
<1> DEFINE q == RemoveAt(exchanges, i)
<1>1. /\ \E S : q \in Seq(S)
      /\ Range(q) \subseteq InFlight
      /\ \A e \in InFlight : e # exchanges[i] => e \in Range(q)
    BY ExchangeRemoved
<1>2. exchanges' = Append(q, new)
    OBVIOUS
<1> HIDE DEF q
<1>3. PICK S : q \in Seq(S)
    BY <1>1
<1> DEFINE all == S \cup {new}
<1>4. q \in Seq(all) /\ new \in all /\ DOMAIN q = 1 .. Len(q)
    BY <1>3, SeqMonotonic, LenProperties
<1> HIDE DEF all
<1>5. /\ exchanges' \in Seq(all)
      /\ Len(q) + 1 \in 1 .. Len(exchanges') /\ exchanges'[Len(q) + 1] = new
      /\ \A j \in 1 .. Len(q) : j \in 1 .. Len(exchanges') /\ exchanges'[j] = q[j]
      /\ \A j \in 1 .. Len(exchanges') : j \in 1 .. Len(q) \/ j = Len(q) + 1
    BY <1>2, <1>4, AppendFacts
<1>6. DOMAIN exchanges' = 1 .. Len(exchanges')
    BY <1>5, LenProperties
<1>7. InFlight' \subseteq Range(q) \cup {new}
    BY <1>4, <1>5, <1>6 DEF InFlight, Range
<1>8. new \in InFlight' /\ Range(q) \subseteq InFlight'
    BY <1>4, <1>5, <1>6 DEF InFlight, Range
<1> QED
    BY <1>1, <1>5, <1>7, <1>8

-----------------------------------------------------------------------------
(* What several steps have in common.                                       *)

\* Rows of the table are changed under the number of a new change.
TableMoves ==
    /\ rowChanges' \in Nat /\ rowChanges <= rowChanges'
    /\ rowsKept' \in [DOMAIN rowsKept' -> Nat]
    /\ \A h \in DOMAIN rowsKept' :
          \/ h \in DOMAIN rowsKept /\ rowsKept'[h] = rowsKept[h]
          \/ rowChanges < rowChanges' /\ rowsKept'[h] = rowChanges'
    /\ DOMAIN rowsKept' # DOMAIN rowsKept => rowChanges < rowChanges'

\* A request that fits the table.
TrueAnswer(e, kept, newest) == ExchangeFits(e, newest) /\ ListTrue(e, kept, newest) /\ ResultOld(e, kept)

\* Answers on their way stay true, whatever is changed.
LEMMA AnswersStayTrue ==
    ASSUME RowsTypes, AnswersAreTrue, TableMoves,
           \A e \in InFlight' : e \in InFlight \/ TrueAnswer(e, rowsKept', rowChanges')
    PROVE  /\ AnswersAreTrue'
           /\ \A e \in InFlight' : ExchangeFits(e, rowChanges')
           /\ rowChanges' \in Nat /\ FirstChange <= rowChanges'
           /\ rowsKept' \in [DOMAIN rowsKept' -> Nat]
           /\ \A h \in DOMAIN rowsKept' : rowsKept'[h] <= rowChanges'
<1>1. /\ rowChanges \in Nat /\ rowChanges' \in Nat /\ rowChanges <= rowChanges'
      /\ \A h \in DOMAIN rowsKept : rowsKept[h] \in Nat /\ rowsKept[h] <= rowChanges
    BY DEF RowsTypes, TableMoves
<1>2. ASSUME NEW e \in InFlight
      PROVE  TrueAnswer(e, rowsKept', rowChanges')
    <2>1. ExchangeFits(e, rowChanges) /\ ListTrue(e, rowsKept, rowChanges) /\ ResultOld(e, rowsKept)
        BY DEF RowsTypes, AnswersAreTrue
    <2>2. e.at \in Nat /\ e.at <= rowChanges /\ \A h \in DOMAIN e.rows : e.rows[h] \in Nat /\ e.rows[h] <= e.at
        BY <2>1 DEF ExchangeFits
    <2>3. ExchangeFits(e, rowChanges')
        <3>1. e.at <= rowChanges'
            BY <1>1, <2>2
        <3> QED
            BY <2>1, <3>1 DEF ExchangeFits
    <2>4. ListTrue(e, rowsKept', rowChanges')
        <3>1. ASSUME IsList(e), NEW h \in DOMAIN rowsKept', rowsKept'[h] <= e.at
              PROVE  h \in DOMAIN e.rows /\ e.rows[h] = rowsKept'[h]
            <4>1. h \in DOMAIN rowsKept /\ rowsKept'[h] = rowsKept[h]
                BY <1>1, <2>2, <3>1 DEF TableMoves
            <4> QED
                BY <2>1, <3>1, <4>1 DEF ListTrue
        <3>2. ASSUME IsList(e), NEW h, ~Agree(e.rows, rowsKept', h)
              PROVE  e.at < rowChanges'
            <4>1. CASE Agree(e.rows, rowsKept, h)
                <5>1. rowChanges < rowChanges'
                    BY <3>2, <4>1 DEF Agree, TableMoves
                <5> QED
                    BY <1>1, <2>2, <5>1
            <4>2. CASE ~Agree(e.rows, rowsKept, h)
                BY <1>1, <2>1, <2>2, <3>2, <4>2 DEF ListTrue
            <4> QED
                BY <4>1, <4>2
        <3> QED
            BY <2>1, <3>1, <3>2 DEF ListTrue
    <2>5. ResultOld(e, rowsKept')
        <3>1. ASSUME e.kind \in Testers, NEW h \in DOMAIN e.rows \cap DOMAIN rowsKept'
              PROVE  e.rows[h] <= rowsKept'[h]
            <4>1. CASE h \in DOMAIN rowsKept /\ rowsKept'[h] = rowsKept[h]
                BY <2>1, <3>1, <4>1 DEF ResultOld
            <4>2. CASE rowsKept'[h] = rowChanges'
                BY <1>1, <2>2, <4>2
            <4> QED
                BY <4>1, <4>2 DEF TableMoves
        <3> QED
            BY <2>1, <3>1 DEF ResultOld
    <2> QED
        BY <2>3, <2>4, <2>5 DEF TrueAnswer
<1>3. \A e \in InFlight' : TrueAnswer(e, rowsKept', rowChanges')
    BY <1>2
<1>4. \A h \in DOMAIN rowsKept' : rowsKept'[h] <= rowChanges'
    BY <1>1 DEF TableMoves
<1>5. FirstChange <= rowChanges'
    BY <1>1 DEF RowsTypes, FirstChange
<1>6. AnswersAreTrue' /\ \A e \in InFlight' : ExchangeFits(e, rowChanges')
    BY <1>3 DEF AnswersAreTrue, TrueAnswer
<1> QED
    BY <1>1, <1>4, <1>5, <1>6 DEF TableMoves

\* Nothing is shown; rows of the table that change are carried, and what brings
\* the others stays in flight.
LEMMA RolesStay ==
    ASSUME RowsFollow, UNCHANGED <<rowsShown, rowsAsOf>>, ~rowsExcused' => ~rowsExcused,
           DOMAIN rowsKept' = DOMAIN rowsKept,
           \A h \in DOMAIN rowsKept : \/ rowsKept'[h] = rowsKept[h]
                                      \/ \E f \in InFlight' : Carries(f, h, rowsKept'[h]),
           \A e \in InFlight : Loads(e, rowsAsOf) \/ IsList(e) => e \in InFlight',
           \A e \in InFlight : e.kind \in Testers => \A h \in DOMAIN e.rows :
               \E f \in InFlight' : f.kind \in Testers /\ h \in DOMAIN f.rows /\ f.rows[h] = e.rows[h],
           \A f \in InFlight' : IsList(f) => f \in InFlight
    PROVE  RowsFollow'
<1> SUFFICES ASSUME ~rowsExcused', ~WillLoad'
             PROVE  (ChangesAreCarried /\ ListsAreFollowed /\ ShownIsFollowed)'
    BY DEF RowsFollow
<1> DEFINE V == InFlight'
           kept == rowsKept'
<1>1. /\ \A e \in InFlight : IsList(e) => e \in V
      /\ \A e \in InFlight : e.kind \in Testers => \A h \in DOMAIN e.rows :
            \E f \in V : f.kind \in Testers /\ h \in DOMAIN f.rows /\ f.rows[h] = e.rows[h]
      /\ \A f \in V : IsList(f) => f \in InFlight
    OBVIOUS
<1>2. DOMAIN kept = DOMAIN rowsKept /\ \A h \in DOMAIN rowsKept :
          kept[h] = rowsKept[h] \/ \E f \in V : Carries(f, h, kept[h])
    OBVIOUS
<1>3. ChangesAreCarried /\ ListsAreFollowed /\ ShownIsFollowed
    BY DEF RowsFollow, WillLoad
<1> HIDE DEF V, kept
<1>4. \A rows, h : Agree(rows, kept, h) <=> Agree(rows, rowsKept, h)
    BY <1>2 DEF Agree
<1>5. ASSUME NEW h \in DOMAIN rowsKept, Carried(h)
      PROVE  \E f \in V : Carries(f, h, kept[h])
    <2>1. CASE kept[h] = rowsKept[h]
        <3>1. PICK e \in InFlight : Carries(e, h, rowsKept[h])
            BY <1>5 DEF Carried
        <3>2. CASE IsList(e)
            BY <1>1, <2>1, <3>1, <3>2
        <3>3. CASE e.kind \in Testers /\ h \in DOMAIN e.rows /\ e.rows[h] = rowsKept[h]
            <4>1. PICK f \in V : f.kind \in Testers /\ h \in DOMAIN f.rows /\ f.rows[h] = e.rows[h]
                BY <1>1, <3>3
            <4> QED
                BY <2>1, <3>3, <4>1 DEF Carries
        <3> QED
            BY <3>1, <3>2, <3>3 DEF Carries
    <2> QED
        BY <1>2, <2>1
<1>6. ASSUME NEW h, NEW e \in InFlight, Lists(e, h, rowsKept)
      PROVE  e \in V /\ Lists(e, h, kept)
    BY <1>1, <1>4, <1>6 DEF Lists
<1>7. \A h \in DOMAIN kept : rowsAsOf < kept[h] /\ FirstChange < kept[h] => \E f \in V : Carries(f, h, kept[h])
    BY <1>2, <1>3, <1>5 DEF ChangesAreCarried
<1>8. ASSUME NEW e \in V, IsList(e), NEW h, ~Agree(e.rows, kept, h)
      PROVE  \E f \in V : Lists(f, h, kept) /\ e.at < f.at
    <2>1. PICK f \in InFlight : Lists(f, h, rowsKept) /\ e.at < f.at
        BY <1>1, <1>3, <1>4, <1>8 DEF ListsAreFollowed
    <2> QED
        BY <1>6, <2>1
<1>9. ASSUME rowsShown # <<>>, NEW h
      PROVE  /\ h \in DOMAIN kept \cap DOMAIN rowsShown =>
                    rowsShown[h] = kept[h] \/ \E f \in V : Carries(f, h, kept[h])
             /\ Agree(rowsShown, kept, h) \/ \E e \in V : Lists(e, h, kept)
    <2>1. h \in DOMAIN kept \cap DOMAIN rowsShown =>
              rowsShown[h] = kept[h] \/ \E f \in V : Carries(f, h, kept[h])
        BY <1>2, <1>3, <1>5, <1>9 DEF ShownIsFollowed, RowsAreRight
    <2>2. Agree(rowsShown, kept, h) \/ \E e \in V : Lists(e, h, kept)
        BY <1>3, <1>4, <1>6, <1>9 DEF ShownIsFollowed, HostsAreRight, ListedAt
    <2> QED
        BY <2>1, <2>2
<1>10. ChangesAreCarried'
    BY <1>7 DEF ChangesAreCarried, Carried, V, kept
<1>11. ListsAreFollowed'
    BY <1>8 DEF ListsAreFollowed, V, kept
<1>12. ShownIsFollowed'
    BY <1>9 DEF ShownIsFollowed, RowsAreRight, HostsAreRight, Carried, ListedAt, V, kept
<1> QED
    BY <1>10, <1>11, <1>12


\* The types and the answers, after a step.
LEMMA TypesStay ==
    ASSUME RowsInv, TableMoves, \E S : exchanges' \in Seq(S),
           \A e \in InFlight' : e \in InFlight \/ TrueAnswer(e, rowsKept', rowChanges'),
           rowsAsOf' \in Nat, rowsAsOf' <= rowChanges',
           rowsShown' \in [DOMAIN rowsShown' -> Nat], rowsExcused' \in BOOLEAN
    PROVE  RowsTypes' /\ AnswersAreTrue'
<1>1. RowsTypes /\ AnswersAreTrue
    BY DEF RowsInv
<1>2. /\ AnswersAreTrue'
      /\ \A e \in InFlight' : ExchangeFits(e, rowChanges')
      /\ rowChanges' \in Nat /\ FirstChange <= rowChanges'
      /\ rowsKept' \in [DOMAIN rowsKept' -> Nat]
      /\ \A h \in DOMAIN rowsKept' : rowsKept'[h] <= rowChanges'
    BY <1>1, AnswersStayTrue
<1> QED
    BY <1>2 DEF RowsTypes

\* The table is as it was.
LEMMA TableStays == RowsTypes /\ UNCHANGED <<rowsKept, rowChanges>> => TableMoves
BY DEF RowsTypes, TableMoves

\* A request as it is sent.
LEMMA SentFits ==
    ASSUME NEW kind \in Kinds, NEW host, NEW next \in Seq({"load", "sessions", "test"}),
           kind \in Changers => next # <<>> /\ Head(next) = "load",
           NEW kept, NEW newest \in Nat
    PROVE  /\ Sent(kind, host, next).kind = kind /\ Sent(kind, host, next).served = FALSE
           /\ TrueAnswer(Sent(kind, host, next), kept, newest)
<1> DEFINE e == Sent(kind, host, next)
<1>1. /\ e.kind = kind /\ e.served = FALSE /\ e.at = 0 /\ e.rows = <<>> /\ e.todo = {} /\ e.next = next
      /\ ExchangeFields \subseteq DOMAIN e
    BY DEF Sent, NoResult, ExchangeFields
<1> HIDE DEF e
<1>2. DOMAIN e.rows = {} /\ e.rows \in [DOMAIN e.rows -> Nat]
    BY <1>1, NoRowsAtAll
<1>3. ExchangeFits(e, newest)
    <2>1. e.at \in Nat /\ e.at <= newest /\ \A h \in DOMAIN e.rows : e.rows[h] <= e.at
        BY <1>1, <1>2
    <2>2. e.served \in BOOLEAN
        BY <1>1
    <2>3. e.next \in Seq({"load", "sessions", "test"}) /\ (e.kind \in Changers => e.next # <<>> /\ Head(e.next) = "load")
        BY <1>1
    <2> QED
        BY <1>1, <1>2, <2>1, <2>2, <2>3 DEF ExchangeFits
<1>4. ListTrue(e, kept, newest)
    BY <1>1 DEF ListTrue, IsList
<1>5. ResultOld(e, kept)
    BY <1>1, <1>2 DEF ResultOld
<1> QED
    BY <1>1, <1>3, <1>4, <1>5 DEF TrueAnswer, e

\* A request is sent; what changes rows has a load after it.
LEMMA SendStep ==
    ASSUME RowsInv, NEW kind \in Kinds, NEW host, NEW next \in Seq({"load", "sessions", "test"}),
           kind \in Changers => next # <<>> /\ Head(next) = "load",
           Send(kind, host, next)
    PROVE  RowsInv'
<1> DEFINE new == Sent(kind, host, next)
<1>1. RowsTypes /\ AnswersAreTrue /\ RowsFollow /\ rowChanges \in Nat
    BY DEF RowsInv, RowsTypes
<1>2. exchanges' = Append(exchanges, new) /\ UNCHANGED <<rowsKept, rowChanges, rowsShown, rowsAsOf, rowsExcused>>
    BY DEF Send, tableVars
<1>3. new.kind = kind /\ new.served = FALSE /\ TrueAnswer(new, rowsKept, rowChanges)
    BY <1>1, SentFits
<1> HIDE DEF new
<1>4. (\E S : exchanges' \in Seq(S)) /\ InFlight' = InFlight \cup {new}
    BY <1>1, <1>2, ExchangeSent
<1>5. RowsTypes' /\ AnswersAreTrue'
    <2>1. TableMoves
        BY <1>1, <1>2, TableStays
    <2>2. \A e \in InFlight' : e \in InFlight \/ TrueAnswer(e, rowsKept', rowChanges')
        BY <1>2, <1>3, <1>4
    <2>3. /\ rowsAsOf' \in Nat /\ rowsAsOf' <= rowChanges'
          /\ rowsShown' \in [DOMAIN rowsShown' -> Nat] /\ rowsExcused' \in BOOLEAN
        BY <1>1, <1>2 DEF RowsTypes
    <2> QED
        BY <1>4, <2>1, <2>2, <2>3, TypesStay
<1>6. RowsFollow'
    <2>1. /\ \A e \in InFlight : e \in InFlight'
          /\ \A f \in InFlight' : IsList(f) => f \in InFlight
        BY <1>3, <1>4 DEF IsList
    <2>2. \A e \in InFlight : e.kind \in Testers => \A h \in DOMAIN e.rows :
              \E f \in InFlight' : f.kind \in Testers /\ h \in DOMAIN f.rows /\ f.rows[h] = e.rows[h]
        BY <2>1
    <2> QED
        BY <1>1, <1>2, <2>1, <2>2, RolesStay
<1> QED
    BY <1>5, <1>6 DEF RowsInv

-----------------------------------------------------------------------------
(* Steps of the server.                                                     *)

\* A request that the server is done with.
ServedAs(new, old, rows, newest) ==
    /\ ExchangeFields \subseteq DOMAIN new
    /\ new.kind = old.kind /\ new.served = TRUE /\ new.at = newest
    /\ new.rows = rows /\ new.todo = old.todo /\ new.next = old.next

\* The requests in flight once one of them is another.
Becomes(i, new) ==
    /\ InFlight' \subseteq InFlight \cup {new} /\ new \in InFlight'
    /\ \A e \in InFlight : e # exchanges[i] => e \in InFlight'

\* The server has served a request.
LEMMA ServedFacts ==
    ASSUME RowsTypes, NEW i \in DOMAIN exchanges, NEW rows, Served(i, rows)
    PROVE  /\ \E S : exchanges' \in Seq(S)
           /\ \E new : Becomes(i, new) /\ ServedAs(new, exchanges[i], rows, rowChanges')
<1> DEFINE was == exchanges[i]
           newest == rowChanges'
           new == [was EXCEPT !.served = TRUE, !.at = newest, !.rows = rows]
<1>1. exchanges' = [exchanges EXCEPT ![i] = new]
    BY DEF Served
<1>2. ExchangeFields \subseteq DOMAIN was
    <2>1. was \in InFlight
        BY DEF InFlight, Range
    <2>2. ExchangeFits(was, rowChanges)
        BY <2>1 DEF RowsTypes
    <2> QED
        BY <2>2 DEF ExchangeFits
<1>3. ServedAs(new, was, rows, newest)
    <2> HIDE DEF was, newest
    <2> QED
        BY <1>2 DEF ServedAs, ExchangeFields
<1> HIDE DEF new
<1>4. (\E S : exchanges' \in Seq(S)) /\ Becomes(i, new)
    BY <1>1, ExchangeChanged DEF Becomes
<1> QED
    BY <1>3, <1>4

\* It fits the table if its rows do.
LEMMA ServedFits ==
    ASSUME NEW old, NEW new, NEW rows, NEW newest \in Nat, NEW before,
           ExchangeFits(old, before), ServedAs(new, old, rows, newest),
           rows \in [DOMAIN rows -> Nat], \A h \in DOMAIN rows : rows[h] <= newest
    PROVE  ExchangeFits(new, newest)
<1>1. /\ ExchangeFields \subseteq DOMAIN new /\ new.kind = old.kind /\ new.served = TRUE
      /\ new.at = newest /\ new.rows = rows /\ new.todo = old.todo /\ new.next = old.next
    BY DEF ServedAs
<1>2. new.at \in Nat /\ new.at <= newest /\ \A h \in DOMAIN new.rows : new.rows[h] <= new.at
    BY <1>1
<1>3. new.rows \in [DOMAIN new.rows -> Nat]
    BY <1>1
<1>4. new.served \in BOOLEAN
    BY <1>1
<1>5. /\ new.kind \in Kinds /\ new.next \in Seq({"load", "sessions", "test"})
      /\ new.kind \in Changers => new.next # <<>> /\ Head(new.next) = "load"
      /\ new.kind # "test all" => new.todo = {}
    BY <1>1 DEF ExchangeFits
<1> QED
    BY <1>1, <1>2, <1>3, <1>4, <1>5 DEF ExchangeFits

\* The list is read as the table is now.
LEMMA ServeLoadStep ==
    ASSUME RowsInv, NEW i \in DOMAIN exchanges, exchanges[i].kind = "load",
           Served(i, rowsKept), UNCHANGED tableVars, UNCHANGED screenVars
    PROVE  RowsInv'
<1> DEFINE old == exchanges[i]
<1>1. RowsTypes /\ AnswersAreTrue /\ RowsFollow /\ rowChanges \in Nat /\ old \in InFlight
    BY DEF RowsInv, RowsTypes, InFlight, Range
<1>2. UNCHANGED <<rowsKept, rowChanges, rowsShown, rowsAsOf, rowsExcused>>
    BY DEF tableVars, screenVars
<1>3. PICK new : Becomes(i, new) /\ ServedAs(new, old, rowsKept, rowChanges')
    BY <1>1, ServedFacts
<1>4. new.kind = "load" /\ new.served = TRUE /\ new.at = rowChanges /\ new.rows = rowsKept /\ new \in InFlight'
    BY <1>2, <1>3 DEF ServedAs, Becomes
<1>5. TrueAnswer(new, rowsKept, rowChanges)
    <2>1. ExchangeFits(new, rowChanges)
        <3>1. ExchangeFits(old, rowChanges) /\ rowsKept \in [DOMAIN rowsKept -> Nat]
              /\ \A h \in DOMAIN rowsKept : rowsKept[h] <= rowChanges
            BY <1>1 DEF RowsTypes
        <3>2. ServedAs(new, old, rowsKept, rowChanges)
            BY <1>2, <1>3
        <3> QED
            BY <1>1, <3>1, <3>2, ServedFits
    <2>2. ListTrue(new, rowsKept, rowChanges)
        BY <1>1, <1>4 DEF ListTrue, Agree, RowsTypes
    <2>3. ResultOld(new, rowsKept)
        BY <1>4 DEF ResultOld, Testers
    <2> QED
        BY <2>1, <2>2, <2>3 DEF TrueAnswer
<1>6. RowsTypes' /\ AnswersAreTrue'
    <2>1. TableMoves
        BY <1>1, <1>2, TableStays
    <2>2. \A e \in InFlight' : e \in InFlight \/ TrueAnswer(e, rowsKept', rowChanges')
        BY <1>2, <1>3, <1>5 DEF Becomes
    <2>3. /\ rowsAsOf' \in Nat /\ rowsAsOf' <= rowChanges'
          /\ rowsShown' \in [DOMAIN rowsShown' -> Nat] /\ rowsExcused' \in BOOLEAN
        BY <1>1, <1>2 DEF RowsTypes
    <2>4. \E S : exchanges' \in Seq(S)
        BY <1>1, ServedFacts
    <2> QED
        BY <2>1, <2>2, <2>3, <2>4, TypesStay
<1>7. /\ \A h \in DOMAIN rowsKept : Carries(new, h, rowsKept[h])
      /\ \A h : Lists(new, h, rowsKept)
    BY <1>1, <1>4 DEF Carries, Lists, IsList, Agree, RowsTypes
<1>8. ASSUME NEW e \in InFlight', IsList(e), NEW h, ~Agree(e.rows, rowsKept, h)
      PROVE  e.at < new.at
    <2>1. e \in InFlight
        BY <1>3, <1>4, <1>8 DEF Becomes, Agree
    <2> QED
        BY <1>1, <1>4, <1>8, <2>1 DEF AnswersAreTrue, ListTrue
<1>9. (ChangesAreCarried /\ ListsAreFollowed /\ ShownIsFollowed)'
    <2> DEFINE V == InFlight'
    <2>1. new \in V /\ rowsKept' = rowsKept
        BY <1>2, <1>4
    <2>2. \A e \in V : IsList(e) => \A h : Agree(e.rows, rowsKept, h) \/ e.at < new.at
        BY <1>8
    <2> HIDE DEF V
    <2>3. ChangesAreCarried'
        BY <1>7, <2>1 DEF ChangesAreCarried, Carried, V
    <2>4. ListsAreFollowed'
        BY <1>7, <2>1, <2>2 DEF ListsAreFollowed, V
    <2>5. ShownIsFollowed'
        BY <1>7, <2>1 DEF ShownIsFollowed, RowsAreRight, HostsAreRight, Carried, ListedAt, V
    <2> QED
        BY <2>3, <2>4, <2>5
<1> QED
    BY <1>6, <1>9 DEF RowsInv, RowsFollow

\* Other reads matter to nobody here.
LEMMA ServeReadStep ==
    ASSUME RowsInv, NEW i \in DOMAIN exchanges, ServeRead(i), UNCHANGED screenVars
    PROVE  RowsInv'
<1>1. CASE exchanges[i].kind = "load"
    <2>1. Served(i, rowsKept) /\ UNCHANGED tableVars
        BY <1>1 DEF ServeRead
    <2> QED
        BY <1>1, <2>1, ServeLoadStep
<1>2. CASE exchanges[i].kind \in {"count", "sessions"}
    <2> DEFINE old == exchanges[i]
               rows == IF old.kind = "sessions" THEN <<>> ELSE rowsKept
    <2>1. RowsTypes /\ AnswersAreTrue /\ RowsFollow /\ rowChanges \in Nat /\ old \in InFlight
        BY DEF RowsInv, RowsTypes, InFlight, Range
    <2>2. UNCHANGED <<rowsKept, rowChanges, rowsShown, rowsAsOf, rowsExcused>> /\ Served(i, rows)
        BY DEF tableVars, screenVars, ServeRead
    <2>3. rows \in [DOMAIN rows -> Nat] /\ \A h \in DOMAIN rows : rows[h] <= rowChanges
        BY <2>1, NoRowsAtAll DEF RowsTypes
    <2> HIDE DEF rows
    <2>4. PICK new : Becomes(i, new) /\ ServedAs(new, old, rows, rowChanges')
        BY <2>1, <2>2, ServedFacts
    <2>5. new.kind \in {"count", "sessions"} /\ ServedAs(new, old, rows, rowChanges)
        BY <1>2, <2>2, <2>4 DEF ServedAs
    <2>6. TrueAnswer(new, rowsKept, rowChanges)
        <3>1. ExchangeFits(old, rowChanges)
            BY <2>1 DEF RowsTypes
        <3>2. ExchangeFits(new, rowChanges)
            BY <2>1, <2>3, <2>5, <3>1, ServedFits
        <3> QED
            BY <2>5, <3>2 DEF TrueAnswer, ListTrue, ResultOld, IsList, Testers
    <2>7. RowsTypes' /\ AnswersAreTrue'
        <3>1. TableMoves
            BY <2>1, <2>2, TableStays
        <3>2. \A e \in InFlight' : e \in InFlight \/ TrueAnswer(e, rowsKept', rowChanges')
            BY <2>2, <2>4, <2>6 DEF Becomes
        <3>3. /\ rowsAsOf' \in Nat /\ rowsAsOf' <= rowChanges'
              /\ rowsShown' \in [DOMAIN rowsShown' -> Nat] /\ rowsExcused' \in BOOLEAN
            BY <2>1, <2>2 DEF RowsTypes
        <3>4. \E S : exchanges' \in Seq(S)
            BY <2>1, <2>2, ServedFacts
        <3> QED
            BY <3>1, <3>2, <3>3, <3>4, TypesStay
    <2>8. RowsFollow'
        <3>1. \A e \in InFlight : Loads(e, rowsAsOf) \/ IsList(e) \/ e.kind \in Testers => e \in InFlight'
            BY <1>2, <2>4 DEF Becomes, Loads, IsList, Testers, Changers
        <3>2. \A f \in InFlight' : IsList(f) => f \in InFlight
            BY <2>4, <2>5 DEF Becomes, IsList
        <3>3. \A e \in InFlight : e.kind \in Testers => \A h \in DOMAIN e.rows :
                  \E f \in InFlight' : f.kind \in Testers /\ h \in DOMAIN f.rows /\ f.rows[h] = e.rows[h]
            BY <3>1
        <3> QED
            BY <2>1, <2>2, <3>1, <3>2, <3>3, RolesStay
    <2> QED
        BY <2>7, <2>8 DEF RowsInv
<1> QED
    BY <1>1, <1>2 DEF ServeRead


\* A change that is followed by a load.
LEMMA ServeChangeStep ==
    ASSUME RowsInv, NEW i \in DOMAIN exchanges, exchanges[i].kind \in Changers,
           Served(i, <<>>), TableMoves, UNCHANGED screenVars
    PROVE  RowsInv'
<1> DEFINE old == exchanges[i]
<1>1. RowsTypes /\ AnswersAreTrue /\ old \in InFlight
    BY DEF RowsInv, InFlight, Range
<1>2. UNCHANGED <<rowsShown, rowsAsOf, rowsExcused>> /\ rowChanges' \in Nat /\ rowChanges <= rowChanges'
    BY DEF screenVars, TableMoves
<1>3. PICK new : Becomes(i, new) /\ ServedAs(new, old, <<>>, rowChanges')
    BY <1>1, ServedFacts
<1>4. new.kind \in Changers /\ new.served = TRUE /\ new \in InFlight'
    BY <1>3 DEF ServedAs, Becomes
<1>5. TrueAnswer(new, rowsKept', rowChanges')
    <2>1. ExchangeFits(old, rowChanges)
        BY <1>1 DEF RowsTypes
    <2> DEFINE none == <<>>
    <2>2. none \in [DOMAIN none -> Nat] /\ \A h \in DOMAIN none : none[h] <= rowChanges'
        BY NoRowsAtAll
    <2>3. ServedAs(new, old, none, rowChanges')
        BY <1>3
    <2> HIDE DEF none
    <2>4. ExchangeFits(new, rowChanges')
        BY <1>2, <2>1, <2>2, <2>3, ServedFits
    <2> QED
        BY <1>4, <2>4 DEF TrueAnswer, ListTrue, ResultOld, IsList, Testers, Changers
<1>6. RowsTypes' /\ AnswersAreTrue'
    <2>1. \A e \in InFlight' : e \in InFlight \/ TrueAnswer(e, rowsKept', rowChanges')
        BY <1>3, <1>5 DEF Becomes
    <2>2. /\ rowsAsOf' \in Nat /\ rowsAsOf' <= rowChanges'
          /\ rowsShown' \in [DOMAIN rowsShown' -> Nat] /\ rowsExcused' \in BOOLEAN
        BY <1>1, <1>2 DEF RowsTypes
    <2>3. \E S : exchanges' \in Seq(S)
        BY <1>1, ServedFacts
    <2> QED
        BY <2>1, <2>2, <2>3, TypesStay
<1>7. RowsFollow'
    <2>1. Loads(new, rowsAsOf')
        BY <1>4 DEF Loads
    <2>2. WillLoad'
        BY <1>4, <2>1 DEF WillLoad
    <2> QED
        BY <2>2 DEF RowsFollow
<1> QED
    BY <1>6, <1>7 DEF RowsInv

\* One row is put under the number of a new change.
LEMMA PutMoves ==
    ASSUME RowsTypes, NEW host, Change, PutRow(host)
    PROVE  /\ TableMoves
           /\ DOMAIN rowsKept' = DOMAIN rowsKept \cup {host}
           /\ rowsKept'[host] = rowChanges'
           /\ \A h \in DOMAIN rowsKept : h # host => rowsKept'[h] = rowsKept[h]
<1> DEFINE hosts == DOMAIN rowsKept \cup {host}
<1>1. rowChanges \in Nat /\ rowChanges' \in Nat /\ rowChanges < rowChanges' /\ rowChanges <= rowChanges'
    BY DEF RowsTypes, Change
<1>2. rowsKept' = [h \in hosts |-> IF h = host THEN rowChanges' ELSE rowsKept[h]]
    BY DEF PutRow
<1>3. host \in hosts /\ \A h \in hosts : h # host => h \in DOMAIN rowsKept
    OBVIOUS
<1>4. DOMAIN rowsKept \subseteq hosts /\ \A h \in DOMAIN rowsKept : rowsKept[h] \in Nat
    BY DEF RowsTypes
<1>5. hosts = DOMAIN rowsKept \cup {host}
    OBVIOUS
<1> HIDE DEF hosts
<1>6. DOMAIN rowsKept' = hosts /\ rowsKept'[host] = rowChanges'
      /\ \A h \in hosts : h # host => rowsKept'[h] = rowsKept[h]
    BY <1>2, <1>3
<1>7. rowsKept' \in [DOMAIN rowsKept' -> Nat]
    BY <1>1, <1>2, <1>3, <1>4, <1>6
<1>8. TableMoves
    BY <1>1, <1>3, <1>6, <1>7 DEF TableMoves
<1> QED
    BY <1>4, <1>5, <1>6, <1>8

\* A change that is a new number, and a row that is put if there is one.
LEMMA PutIfThereMoves ==
    ASSUME RowsTypes, NEW host, Change, PutIfThere(host)
    PROVE  /\ TableMoves /\ DOMAIN rowsKept' = DOMAIN rowsKept
           /\ host \in DOMAIN rowsKept => rowsKept'[host] = rowChanges'
           /\ \A h \in DOMAIN rowsKept : h # host => rowsKept'[h] = rowsKept[h]
<1>1. CASE host \in DOMAIN rowsKept
    <2>1. PutRow(host)
        BY <1>1 DEF PutIfThere
    <2> QED
        BY <1>1, <2>1, PutMoves
<1>2. CASE host \notin DOMAIN rowsKept
    <2>1. rowsKept' = rowsKept
        BY <1>2 DEF PutIfThere
    <2>2. TableMoves
        BY <2>1 DEF TableMoves, RowsTypes, Change
    <2> QED
        BY <1>2, <2>1, <2>2
<1> QED
    BY <1>1, <1>2

\* The server imports hosts; the request in flight remembers the state that
\* it has seen.
LEMMA ServeImportStep ==
    ASSUME RowsInv, NEW i \in DOMAIN exchanges, ServeImport(i), UNCHANGED screenVars
    PROVE  RowsInv'
<1> DEFINE hosts == DOMAIN rowsKept \cup (RowId \ rowsGone)
<1>1. RowsTypes
    BY DEF RowsInv
<1>2. rowChanges \in Nat /\ rowChanges' \in Nat /\ rowChanges < rowChanges' /\ rowChanges <= rowChanges'
    BY <1>1 DEF RowsTypes, Change, ServeImport
<1>3. rowsKept' = [h \in hosts |-> IF h \in DOMAIN rowsKept THEN rowsKept[h] ELSE rowChanges']
    BY DEF ServeImport
<1>4. DOMAIN rowsKept \subseteq hosts /\ \A h \in DOMAIN rowsKept : rowsKept[h] \in Nat
    BY <1>1 DEF RowsTypes
<1> HIDE DEF hosts
<1>5. DOMAIN rowsKept' = hosts /\ \A h \in hosts :
          rowsKept'[h] = IF h \in DOMAIN rowsKept THEN rowsKept[h] ELSE rowChanges'
    BY <1>3
<1>6. rowsKept' \in [DOMAIN rowsKept' -> Nat]
    BY <1>2, <1>3, <1>4, <1>5
<1>7. TableMoves
    BY <1>2, <1>5, <1>6 DEF TableMoves
<1>8. exchanges[i].kind \in Changers /\ Served(i, <<>>)
    BY DEF ServeImport, Changers
<1> QED
    BY <1>7, <1>8, ServeChangeStep

\* The server saves a host.
LEMMA ServeSaveStep ==
    ASSUME RowsInv, NEW i \in DOMAIN exchanges, ServeSave(i), UNCHANGED screenVars
    PROVE  RowsInv'
<1> DEFINE host == exchanges[i].host
<1>1. RowsTypes
    BY DEF RowsInv
<1>2. exchanges[i].kind \in Changers /\ Change /\ PutRow(host) /\ Served(i, <<>>)
    BY DEF ServeSave, Changers
<1> HIDE DEF host
<1>3. TableMoves
    BY <1>1, <1>2, PutMoves
<1> QED
    BY <1>2, <1>3, ServeChangeStep

\* The server deletes a host.
LEMMA ServeDeleteStep ==
    ASSUME RowsInv, NEW i \in DOMAIN exchanges, ServeDelete(i), UNCHANGED screenVars
    PROVE  RowsInv'
<1> DEFINE hosts == DOMAIN rowsKept \ {exchanges[i].host}
<1>1. RowsTypes
    BY DEF RowsInv
<1>2. exchanges[i].kind \in Changers /\ Change /\ rowsKept' = [h \in hosts |-> rowsKept[h]] /\ Served(i, <<>>)
    BY DEF ServeDelete, Changers
<1>3. hosts \subseteq DOMAIN rowsKept /\ \A h \in DOMAIN rowsKept : rowsKept[h] \in Nat
    BY <1>1 DEF RowsTypes
<1> HIDE DEF hosts
<1>4. DOMAIN rowsKept' = hosts /\ \A h \in hosts : rowsKept'[h] = rowsKept[h]
    BY <1>2
<1>5. rowsKept' \in [DOMAIN rowsKept' -> Nat]
    BY <1>2, <1>3, <1>4
<1>6. TableMoves
    BY <1>1, <1>2, <1>3, <1>4, <1>5 DEF TableMoves, Change, RowsTypes
<1> QED
    BY <1>2, <1>6, ServeChangeStep


\* Results of a test are added to a request, and kept in the table or not.
LEMMA TestMoves ==
    ASSUME RowsInv, NEW i \in DOMAIN exchanges, exchanges[i].kind \in Testers,
           \E S : exchanges' \in Seq(S),
           NEW new, Becomes(i, new), new.kind \in Testers,
           \A h \in DOMAIN exchanges[i].rows : h \in DOMAIN new.rows /\ new.rows[h] = exchanges[i].rows[h],
           TrueAnswer(new, rowsKept', rowChanges'),
           TableMoves, DOMAIN rowsKept' = DOMAIN rowsKept,
           \A h \in DOMAIN rowsKept : \/ rowsKept'[h] = rowsKept[h]
                                      \/ h \in DOMAIN new.rows /\ new.rows[h] = rowsKept'[h],
           UNCHANGED screenVars
    PROVE  RowsInv'
<1> DEFINE old == exchanges[i]
           V == InFlight'
           kept == rowsKept'
<1>1. RowsTypes /\ AnswersAreTrue /\ RowsFollow /\ old \in InFlight
    BY DEF RowsInv, InFlight, Range
<1>2. UNCHANGED <<rowsShown, rowsAsOf, rowsExcused>> /\ rowChanges' \in Nat /\ rowChanges <= rowChanges'
    BY DEF screenVars, TableMoves
<1>3. RowsTypes' /\ AnswersAreTrue'
    <2>1. \A e \in InFlight' : e \in InFlight \/ TrueAnswer(e, rowsKept', rowChanges')
        BY DEF Becomes
    <2>2. /\ rowsAsOf' \in Nat /\ rowsAsOf' <= rowChanges'
          /\ rowsShown' \in [DOMAIN rowsShown' -> Nat] /\ rowsExcused' \in BOOLEAN
        BY <1>1, <1>2 DEF RowsTypes
    <2> QED
        BY <2>1, <2>2, TypesStay
<1>4. new \in V /\ (\A e \in InFlight : e # old => e \in V) /\ \A e \in V : e \in InFlight \/ e = new
    BY DEF Becomes
<1>5. /\ DOMAIN kept = DOMAIN rowsKept
      /\ \A h \in DOMAIN rowsKept : kept[h] = rowsKept[h] \/ (h \in DOMAIN new.rows /\ new.rows[h] = kept[h])
      /\ \A h \in DOMAIN old.rows : h \in DOMAIN new.rows /\ new.rows[h] = old.rows[h]
    OBVIOUS
<1> HIDE DEF V, kept
<1>6. \A h \in DOMAIN rowsKept : kept[h] = rowsKept[h] \/ \E f \in V : Carries(f, h, kept[h])
    BY <1>4, <1>5 DEF Carries
<1>7. \A e \in InFlight : Loads(e, rowsAsOf) \/ IsList(e) => e \in V
    BY <1>4 DEF Loads, IsList, Testers, Changers
<1>8. \A f \in V : IsList(f) => f \in InFlight
    BY <1>4 DEF IsList, Testers
<1>9. \A e \in InFlight : e.kind \in Testers => \A h \in DOMAIN e.rows :
          \E f \in V : f.kind \in Testers /\ h \in DOMAIN f.rows /\ f.rows[h] = e.rows[h]
    BY <1>4, <1>5
<1>10. RowsFollow'
    BY <1>1, <1>2, <1>5, <1>6, <1>7, <1>8, <1>9, RolesStay DEF V, kept
<1> QED
    BY <1>3, <1>10 DEF RowsInv

\* The server has tested a host.
LEMMA ServeTestStep ==
    ASSUME RowsInv, NEW i \in DOMAIN exchanges, ~exchanges[i].served, ServeTest(i), UNCHANGED screenVars
    PROVE  RowsInv'
<1> DEFINE old == exchanges[i]
           host == old.host
           rows == [h \in {host} |-> rowChanges']
<1>1. RowsTypes /\ AnswersAreTrue /\ old \in InFlight
    BY DEF RowsInv, InFlight, Range
<1>2. old.kind \in {"test", "install"} /\ Change /\ PutIfThere(host) /\ Served(i, rows) /\ ~old.served
    BY DEF ServeTest
<1>3. rowChanges \in Nat /\ rowChanges' \in Nat
    BY <1>1, <1>2 DEF RowsTypes, Change
<1>4. DOMAIN rows = {host} /\ rows[host] = rowChanges' /\ rows \in [DOMAIN rows -> Nat]
    BY <1>3
<1>5. DOMAIN old.rows = {} /\ ExchangeFits(old, rowChanges)
    BY <1>1, <1>2 DEF AnswersAreTrue, ResultOld, Testers, RowsTypes
<1>6. old.todo = {}
    BY <1>2, <1>5 DEF ExchangeFits
<1> HIDE DEF host, rows
<1>7. PICK new : Becomes(i, new) /\ ServedAs(new, old, rows, rowChanges')
    BY <1>1, <1>2, ServedFacts
<1>8. /\ TableMoves /\ DOMAIN rowsKept' = DOMAIN rowsKept
      /\ host \in DOMAIN rowsKept => rowsKept'[host] = rowChanges'
      /\ \A h \in DOMAIN rowsKept : h # host => rowsKept'[h] = rowsKept[h]
    BY <1>1, <1>2, PutIfThereMoves
<1>9. new.kind = old.kind /\ new.rows = rows /\ new.served = TRUE /\ new.todo = {}
    BY <1>6, <1>7 DEF ServedAs
<1>10. TrueAnswer(new, rowsKept', rowChanges')
    <2>1. \A h \in DOMAIN rows : rows[h] <= rowChanges'
        BY <1>3, <1>4
    <2>2. ExchangeFits(new, rowChanges')
        BY <1>3, <1>4, <1>5, <1>7, <2>1, ServedFits
    <2>3. ListTrue(new, rowsKept', rowChanges')
        BY <1>2, <1>9 DEF ListTrue, IsList
    <2>4. ResultOld(new, rowsKept')
        <3>1. \A h \in DOMAIN new.rows \cap DOMAIN rowsKept' : new.rows[h] <= rowsKept'[h]
            BY <1>3, <1>4, <1>8, <1>9
        <3> QED
            BY <1>9, <3>1 DEF ResultOld
    <2> QED
        BY <2>2, <2>3, <2>4 DEF TrueAnswer
<1>11. \A h \in DOMAIN rowsKept : \/ rowsKept'[h] = rowsKept[h]
                                  \/ h \in DOMAIN new.rows /\ new.rows[h] = rowsKept'[h]
    BY <1>4, <1>8, <1>9
<1>12. old.kind \in Testers /\ new.kind \in Testers
    BY <1>2, <1>9 DEF Testers
<1>13. \E S : exchanges' \in Seq(S)
    BY <1>1, <1>2, ServedFacts
<1> QED
    BY <1>5, <1>7, <1>8, <1>10, <1>11, <1>12, <1>13, TestMoves

\* The server begins to test all hosts that are enabled.
LEMMA StartTestAllStep ==
    ASSUME RowsInv, NEW i \in DOMAIN exchanges, NEW enabled, StartTestAll(i, enabled), UNCHANGED screenVars
    PROVE  RowsInv'
<1> DEFINE old == exchanges[i]
           done == (enabled = {})
           new == [old EXCEPT !.todo = enabled, !.served = done]
<1>1. RowsTypes /\ AnswersAreTrue /\ old \in InFlight
    BY DEF RowsInv, InFlight, Range
<1>2. /\ old.kind = "test all" /\ old.rows = <<>>
      /\ exchanges' = [exchanges EXCEPT ![i] = new]
      /\ UNCHANGED <<rowsKept, rowChanges>>
    BY DEF StartTestAll, tableVars
<1>3. ExchangeFits(old, rowChanges)
    BY <1>1 DEF RowsTypes
<1>4. /\ ExchangeFields \subseteq DOMAIN new /\ new.kind = old.kind /\ new.served = done /\ new.at = old.at
      /\ new.rows = old.rows /\ new.next = old.next
    <2> HIDE DEF old, done
    <2> QED
        BY <1>3 DEF ExchangeFits, ExchangeFields
<1>5. done \in BOOLEAN
    OBVIOUS
<1> HIDE DEF new, done
<1>6. DOMAIN new.rows = {}
    BY <1>2, <1>4, NoRowsAtAll
<1>7. ExchangeFits(new, rowChanges)
    BY <1>2, <1>3, <1>4, <1>5 DEF ExchangeFits, Changers
<1>8. TrueAnswer(new, rowsKept', rowChanges')
    BY <1>2, <1>4, <1>6, <1>7 DEF TrueAnswer, ListTrue, ResultOld, IsList
<1>9. (\E S : exchanges' \in Seq(S)) /\ Becomes(i, new)
    BY <1>1, <1>2, ExchangeChanged DEF Becomes
<1>10. TableMoves
    BY <1>1, <1>2, TableStays
<1>11. old.kind \in Testers /\ new.kind \in Testers
    BY <1>2, <1>4 DEF Testers
<1>12. \A h \in DOMAIN old.rows : h \in DOMAIN new.rows /\ new.rows[h] = old.rows[h]
    BY <1>4
<1> QED
    BY <1>2, <1>8, <1>9, <1>10, <1>11, <1>12, TestMoves

\* One host of a test of all, with its result.
LEMMA TestedOneStep ==
    ASSUME RowsInv, NEW i \in DOMAIN exchanges, NEW host \in exchanges[i].todo, NEW result \in Nat,
           TestedOneOfAll(i, host, result),
           TableMoves, DOMAIN rowsKept' = DOMAIN rowsKept,
           result <= rowChanges',
           host \in DOMAIN rowsKept => result <= rowsKept'[host],
           \A h \in DOMAIN rowsKept : \/ rowsKept'[h] = rowsKept[h]
                                      \/ h = host /\ result = rowsKept'[h],
           UNCHANGED screenVars
    PROVE  RowsInv'
<1> DEFINE old == exchanges[i]
           hosts == DOMAIN old.rows \cup {host}
           rows == [h \in hosts |-> IF h = host THEN result ELSE old.rows[h]]
           todo == old.todo \ {host}
           done == (old.todo = {host})
           newest == rowChanges'
           new == [old EXCEPT !.todo = todo, !.rows = rows, !.at = newest, !.served = done]
<1>1. RowsTypes /\ AnswersAreTrue /\ old \in InFlight
    BY DEF RowsInv, InFlight, Range
<1>2. exchanges' = [exchanges EXCEPT ![i] = new]
    BY DEF TestedOneOfAll
<1>3. ExchangeFits(old, rowChanges) /\ ResultOld(old, rowsKept)
    BY <1>1 DEF RowsTypes, AnswersAreTrue
<1>4. old.kind = "test all" /\ host \notin DOMAIN old.rows
    BY <1>3 DEF ExchangeFits, ResultOld, Testers
<1>5. rowChanges \in Nat /\ newest \in Nat /\ rowChanges <= newest /\ result <= newest
    BY <1>1 DEF RowsTypes, TableMoves
<1>6. /\ \A h \in DOMAIN old.rows : old.rows[h] \in Nat /\ old.rows[h] <= newest
      /\ \A h \in hosts : h = host \/ h \in DOMAIN old.rows
      /\ host \in hosts /\ DOMAIN old.rows \subseteq hosts
      /\ \A h \in todo : h \in old.todo /\ h # host
    <2>1. /\ old.at \in Nat /\ old.at <= rowChanges
          /\ \A h \in DOMAIN old.rows : old.rows[h] \in Nat /\ old.rows[h] <= old.at
        BY <1>3 DEF ExchangeFits
    <2>2. \A h \in DOMAIN old.rows : old.rows[h] \in Nat /\ old.rows[h] <= newest
        BY <1>5, <2>1
    <2> QED
        BY <2>2
<1>7. done \in BOOLEAN
    OBVIOUS
<1> HIDE DEF hosts, todo, done, newest
<1>8. /\ DOMAIN rows = hosts /\ rows[host] = result
      /\ \A h \in DOMAIN old.rows : rows[h] = old.rows[h]
      /\ \A h \in hosts : rows[h] \in Nat /\ rows[h] <= newest
      /\ rows \in [hosts -> Nat]
    BY <1>4, <1>5, <1>6
<1> HIDE DEF rows
<1>9. /\ ExchangeFields \subseteq DOMAIN new /\ new.kind = old.kind /\ new.served = done /\ new.at = newest
      /\ new.rows = rows /\ new.todo = todo /\ new.next = old.next
    <2> HIDE DEF old
    <2> QED
        BY <1>3 DEF ExchangeFits, ExchangeFields
<1> HIDE DEF new
<1>10. ExchangeFits(new, newest)
    <2>1. new.at \in Nat /\ new.at <= newest /\ \A h \in DOMAIN new.rows : new.rows[h] <= new.at
        BY <1>5, <1>8, <1>9
    <2>2. new.rows \in [DOMAIN new.rows -> Nat] /\ new.served \in BOOLEAN
        BY <1>7, <1>8, <1>9
    <2>3. new.kind \in Kinds /\ new.kind \notin Changers /\ new.kind = "test all"
        BY <1>4, <1>9 DEF Kinds, Changers, Testers
    <2>4. new.next \in Seq({"load", "sessions", "test"})
        BY <1>3, <1>9 DEF ExchangeFits
    <2> QED
        BY <1>9, <2>1, <2>2, <2>3, <2>4 DEF ExchangeFits
<1>11. ResultOld(new, rowsKept')
    <2>1. ASSUME NEW h \in DOMAIN rows \cap DOMAIN rowsKept'
          PROVE  rows[h] <= rowsKept'[h]
        <3>1. CASE h = host
            BY <1>8, <3>1
        <3>2. CASE h # host
            BY <1>3, <1>4, <1>6, <1>8, <3>2 DEF ResultOld, Testers
        <3> QED
            BY <3>1, <3>2
    <2>2. \A h \in todo : h \notin DOMAIN rows
        BY <1>3, <1>4, <1>6, <1>8 DEF ResultOld, Testers
    <2> QED
        BY <1>4, <1>9, <2>1, <2>2 DEF ResultOld
<1>12. TrueAnswer(new, rowsKept', rowChanges')
    BY <1>4, <1>9, <1>10, <1>11 DEF TrueAnswer, ListTrue, IsList, newest
<1>13. (\E S : exchanges' \in Seq(S)) /\ Becomes(i, new)
    BY <1>1, <1>2, ExchangeChanged DEF Becomes
<1>14. old.kind \in Testers /\ new.kind \in Testers
    BY <1>4, <1>9 DEF Testers
<1>15. \A h \in DOMAIN old.rows : h \in DOMAIN new.rows /\ new.rows[h] = old.rows[h]
    BY <1>6, <1>8, <1>9
<1>16. \A h \in DOMAIN rowsKept : \/ rowsKept'[h] = rowsKept[h]
                                  \/ h \in DOMAIN new.rows /\ new.rows[h] = rowsKept'[h]
    BY <1>6, <1>8, <1>9
<1> QED
    BY <1>12, <1>13, <1>14, <1>15, <1>16, TestMoves

\* One of them has been tested.
LEMMA TestOneStep ==
    ASSUME RowsInv, NEW i \in DOMAIN exchanges, NEW host \in exchanges[i].todo, TestOneOfAll(i, host),
           UNCHANGED screenVars
    PROVE  RowsInv'
<1>1. RowsTypes
    BY DEF RowsInv
<1>2. CASE Change /\ PutIfThere(host) /\ TestedOneOfAll(i, host, rowChanges')
    <2> DEFINE result == rowChanges'
    <2>1. result \in Nat /\ result <= rowChanges'
        BY <1>1, <1>2 DEF Change, RowsTypes
    <2>2. /\ TableMoves /\ DOMAIN rowsKept' = DOMAIN rowsKept
          /\ host \in DOMAIN rowsKept => rowsKept'[host] = result
          /\ \A h \in DOMAIN rowsKept : h # host => rowsKept'[h] = rowsKept[h]
        BY <1>1, <1>2, PutIfThereMoves
    <2>3. TestedOneOfAll(i, host, result)
        BY <1>2
    <2>4. host \in DOMAIN rowsKept => result <= rowsKept'[host]
        BY <2>1, <2>2
    <2>5. \A h \in DOMAIN rowsKept : rowsKept'[h] = rowsKept[h] \/ (h = host /\ result = rowsKept'[h])
        BY <2>2
    <2> HIDE DEF result
    <2> QED
        BY <2>1, <2>2, <2>3, <2>4, <2>5, TestedOneStep
<1>3. CASE UNCHANGED <<rowsKept, rowChanges>> /\ TestedOneOfAll(i, host, NoResult)
    <2>1. NoResult \in Nat /\ NoResult <= rowChanges'
        BY <1>1, <1>3 DEF NoResult, RowsTypes
    <2>2. TableMoves /\ rowsKept' = rowsKept
        BY <1>1, <1>3, TableStays
    <2>3. host \in DOMAIN rowsKept => NoResult <= rowsKept'[host]
        BY <1>1, <2>2 DEF NoResult, RowsTypes
    <2> QED
        BY <1>3, <2>1, <2>2, <2>3, TestedOneStep
<1> QED
    BY <1>2, <1>3 DEF TestOneOfAll

\* Whatever is served keeps the invariant.
LEMMA ServeStep ==
    ASSUME RowsInv, NEW i \in DOMAIN exchanges, Serve(i)
    PROVE  RowsInv'
<1>1. ~exchanges[i].served /\ UNCHANGED screenVars
    BY DEF Serve
<1> QED
    BY <1>1, ServeReadStep, ServeImportStep, ServeSaveStep, ServeDeleteStep, ServeTestStep, StartTestAllStep,
       TestOneStep DEF Serve


-----------------------------------------------------------------------------
(* What a handler asks for next.                                            *)

\* The requests that a handler may still send: an import is followed by a load.
Chained(next) ==
    next # <<>> =>
        /\ Tail(next) \in Seq({"load", "sessions", "test"})
        /\ \/ Head(next) \in {"load", "sessions", "test"}
           \/ Head(next) = "import" /\ Tail(next) # <<>> /\ Head(Tail(next)) = "load"

\* Requests follow on each other in lists.
LEMMA ChainedSeq == \A next \in Seq({"load", "sessions", "test"}) : Chained(next)
<1> DEFINE C == {"load", "sessions", "test"}
<1>1. ASSUME NEW next \in Seq(C), next # <<>>
      PROVE  Tail(next) \in Seq(C) /\ Head(next) \in C
    BY <1>1, HeadTailProperties
<1> QED
    BY <1>1 DEF Chained

\* An import and a load come before what there is.
LEMMA ChainedImport ==
    ASSUME NEW rest \in Seq({"load", "sessions", "test"})
    PROVE  Chained(<<"import", "load">> \o rest)
<1> DEFINE C == {"load", "sessions", "test"}
           all == C \cup {"import"}
           first == <<"import", "load">>
           q == first \o rest
<1>1. first \in Seq(all) /\ Len(first) = 2 /\ first[1] = "import" /\ first[2] = "load"
    OBVIOUS
<1>2. rest \in Seq(all) /\ Len(rest) \in Nat /\ \A k \in 1 .. Len(rest) : rest[k] \in C
    BY SeqMonotonic, LenProperties, ElementOfSeq
<1> HIDE DEF all, first
<1>3. /\ q \in Seq(all) /\ Len(q) = Len(first) + Len(rest)
      /\ \A k \in 1 .. Len(first) + Len(rest) : q[k] = IF k <= Len(first) THEN first[k] ELSE rest[k - Len(first)]
    BY <1>1, <1>2, ConcatProperties
<1> HIDE DEF q
<1>4. Len(q) = 2 + Len(rest) /\ q[1] = "import" /\ q[2] = "load" /\ q # <<>>
    BY <1>1, <1>2, <1>3
<1>5. /\ Head(q) = "import" /\ Tail(q) \in Seq(all) /\ Len(Tail(q)) = Len(q) - 1
      /\ \A k \in 1 .. Len(q) - 1 : Tail(q)[k] = q[k + 1]
    BY <1>3, <1>4, HeadTailProperties
<1> DEFINE t == Tail(q)
<1>6. /\ t \in Seq(all) /\ Len(t) = 1 + Len(rest) /\ t[1] = "load"
      /\ \A k \in 2 .. 1 + Len(rest) : t[k] = q[k + 1]
    BY <1>2, <1>4, <1>5
<1> HIDE DEF t
<1>7. ASSUME NEW k \in 1 .. Len(t)
      PROVE  t[k] \in C
    <2>1. CASE k = 1
        BY <1>6, <2>1
    <2>2. CASE k # 1
        <3>1. k \in 2 .. 1 + Len(rest) /\ k + 1 \in 1 .. 2 + Len(rest) /\ k - 1 \in 1 .. Len(rest) /\ ~(k + 1 <= 2)
            BY <1>2, <1>6, <2>2
        <3>2. q[k + 1] = rest[k - 1]
            BY <1>1, <1>2, <1>3, <3>1
        <3> QED
            BY <1>2, <1>6, <3>1, <3>2
    <2> QED
        BY <2>1, <2>2
<1>8. t \in Seq(C)
    BY <1>6, <1>7, SeqDef, LenProperties
<1>9. t # <<>> /\ Head(t) = "load"
    <2>1. t # <<>>
        BY <1>2, <1>6
    <2> QED
        BY <1>6, <1>8, <2>1, HeadTailProperties
<1> QED
    BY <1>5, <1>8, <1>9 DEF Chained, t, q, first


\* What follows on an answer, and on a failure.
LEMMA FollowersChained ==
    ASSUME RowsTypes, NEW i \in DOMAIN exchanges
    PROVE  /\ Chained(Followers(i)) /\ Chained(FollowersOfFailure(i))
           /\ exchanges[i].kind \in Changers => Followers(i) # <<>> /\ Head(Followers(i)) = "load"
<1> DEFINE old == exchanges[i]
<1>1. ExchangeFits(old, rowChanges)
    BY DEF RowsTypes, InFlight, Range
<1>2. /\ old.next \in Seq({"load", "sessions", "test"})
      /\ old.kind \in Changers => old.next # <<>> /\ Head(old.next) = "load"
    BY <1>1 DEF ExchangeFits
<1>3. Chained(old.next)
    BY <1>2, ChainedSeq
<1>4. Chained(Followers(i))
    <2>1. Chained(<<"import", "load">> \o old.next)
        BY <1>2, ChainedImport
    <2> QED
        BY <1>3, <2>1 DEF Followers
<1>5. Chained(FollowersOfFailure(i))
    <2>1. CASE old.kind = "import"
        <3>1. Tail(old.next) \in Seq({"load", "sessions", "test"})
            BY <1>2, <1>3, <2>1 DEF Changers, Chained
        <3> QED
            BY <2>1, <3>1, ChainedSeq DEF FollowersOfFailure
    <2>2. CASE old.kind = "load"
        BY <1>3, <2>2 DEF FollowersOfFailure
    <2>3. CASE old.kind \notin {"import", "load"}
        <3>1. FollowersOfFailure(i) = <<>>
            BY <2>3 DEF FollowersOfFailure
        <3> QED
            BY <3>1 DEF Chained
    <2> QED
        BY <2>1, <2>2, <2>3
<1>6. old.kind \in Changers => Followers(i) # <<>> /\ Head(Followers(i)) = "load"
    BY <1>2 DEF Followers, Changers
<1> QED
    BY <1>4, <1>5, <1>6

\* A request is over: the others stay, and what follows is not served yet.
Over(i) ==
    /\ \E S : exchanges' \in Seq(S)
    /\ \A e \in InFlight : e # exchanges[i] => e \in InFlight'
    /\ \A f \in InFlight' : f \in InFlight \/ (f.served = FALSE /\ TrueAnswer(f, rowsKept', rowChanges'))

\* An answer is taken and the next request is sent.
LEMMA ContinueFacts ==
    ASSUME RowsTypes, NEW i \in DOMAIN exchanges, NEW next, Chained(next), Continue(i, next),
           UNCHANGED tableVars
    PROVE  /\ Over(i)
           /\ next # <<>> /\ Head(next) = "load" =>
                 \E f \in InFlight' : f.kind = "load" /\ f.served = FALSE
<1> DEFINE kind == Head(next)
           rest == Tail(next)
           new == Sent(kind, exchanges[i].host, rest)
           ends == next = <<>> \/ (Head(next) = "test" /\ ~FollowsAsTest(i, next))
<1>1. exchanges' = IF ends THEN RemoveAt(exchanges, i) ELSE Append(RemoveAt(exchanges, i), new)
    BY DEF Continue
<1>2. CASE ends
    <2>1. InFlight' = Range(RemoveAt(exchanges, i)) /\ exchanges' = RemoveAt(exchanges, i)
        BY <1>1, <1>2 DEF InFlight
    <2>2. /\ \E S : exchanges' \in Seq(S)
          /\ InFlight' \subseteq InFlight
          /\ \A e \in InFlight : e # exchanges[i] => e \in InFlight'
        BY <2>1, ExchangeRemoved
    <2> QED
        BY <1>2, <2>2 DEF Over
<1>3. CASE ~ends
    <2>1. next # <<>>
        BY <1>3
    <2>2. /\ rest \in Seq({"load", "sessions", "test"}) /\ kind \in Kinds
          /\ kind \in Changers => rest # <<>> /\ Head(rest) = "load"
        <3>1. /\ rest \in Seq({"load", "sessions", "test"})
              /\ kind \in {"load", "sessions", "test"} \/ (kind = "import" /\ rest # <<>> /\ Head(rest) = "load")
            BY <2>1 DEF Chained
        <3> HIDE DEF kind, rest
        <3> QED
            BY <3>1 DEF Kinds, Changers, Testers
    <2>3. exchanges' = Append(RemoveAt(exchanges, i), new)
        BY <1>1, <1>3
    <2>4. rowsKept' = rowsKept /\ rowChanges' = rowChanges /\ rowChanges \in Nat
        BY DEF tableVars, RowsTypes
    <2> DEFINE host == exchanges[i].host
    <2>5. Sent(kind, host, rest) = new
        OBVIOUS
    <2> HIDE DEF host, kind, rest, new
    <2>6. new.kind = kind /\ new.served = FALSE /\ TrueAnswer(new, rowsKept, rowChanges)
        BY <2>2, <2>4, <2>5, SentFits
    <2>7. TrueAnswer(new, rowsKept', rowChanges')
        BY <2>4, <2>6
    <2>8. /\ \E S : exchanges' \in Seq(S)
          /\ InFlight' \subseteq InFlight \cup {new} /\ new \in InFlight'
          /\ \A e \in InFlight : e # exchanges[i] => e \in InFlight'
        BY <2>3, ExchangeFollowed
    <2>9. Over(i)
        BY <2>6, <2>7, <2>8 DEF Over
    <2>10. next # <<>> /\ Head(next) = "load" => \E f \in InFlight' : f.kind = "load" /\ f.served = FALSE
        BY <2>6, <2>8 DEF kind
    <2> QED
        BY <2>9, <2>10
<1> QED
    BY <1>2, <1>3

\* The types once a request is over.
LEMMA OverTypes ==
    ASSUME RowsInv, NEW i \in DOMAIN exchanges, Over(i), UNCHANGED tableVars,
           rowsAsOf' \in Nat, rowsAsOf' <= rowChanges,
           rowsShown' \in [DOMAIN rowsShown' -> Nat], rowsExcused' \in BOOLEAN
    PROVE  RowsTypes' /\ AnswersAreTrue'
<1>1. rowsKept' = rowsKept /\ rowChanges' = rowChanges /\ RowsTypes
    BY DEF tableVars, RowsInv
<1>2. TableMoves
    BY <1>1, TableStays
<1>3. \A e \in InFlight' : e \in InFlight \/ TrueAnswer(e, rowsKept', rowChanges')
    BY DEF Over
<1>4. (\E S : exchanges' \in Seq(S)) /\ rowsAsOf' <= rowChanges'
    BY <1>1 DEF Over
<1> QED
    BY <1>2, <1>3, <1>4, TypesStay

\* A request is over that brought nothing, and nothing is shown.
LEMMA OverOtherStep ==
    ASSUME RowsInv, NEW i \in DOMAIN exchanges, Over(i), UNCHANGED tableVars,
           UNCHANGED <<rowsShown, rowsAsOf>>, rowsExcused' \in BOOLEAN, ~rowsExcused' => ~rowsExcused,
           \/ rowsExcused' \/ WillLoad'
           \/ /\ exchanges[i].kind # "load"
              /\ exchanges[i].kind \in Changers => ~exchanges[i].served
              /\ exchanges[i].kind \in Testers => DOMAIN exchanges[i].rows = {}
    PROVE  RowsInv'
<1> DEFINE old == exchanges[i]
<1>1. RowsTypes /\ AnswersAreTrue /\ RowsFollow
    BY DEF RowsInv
<1>2. RowsTypes' /\ AnswersAreTrue'
    <2>1. rowsAsOf' \in Nat /\ rowsAsOf' <= rowChanges /\ rowsShown' \in [DOMAIN rowsShown' -> Nat]
        BY <1>1 DEF RowsTypes
    <2> QED
        BY <2>1, OverTypes
<1>3. CASE rowsExcused' \/ WillLoad'
    BY <1>2, <1>3 DEF RowsInv, RowsFollow
<1>4. CASE /\ old.kind # "load"
           /\ old.kind \in Changers => ~old.served
           /\ old.kind \in Testers => DOMAIN old.rows = {}
    <2>1. rowsKept' = rowsKept
        BY DEF tableVars
    <2>2. \A e \in InFlight : Loads(e, rowsAsOf) \/ IsList(e) => e \in InFlight'
        BY <1>4 DEF Loads, IsList, Over
    <2>3. \A f \in InFlight' : IsList(f) => f \in InFlight
        BY DEF IsList, Over
    <2>4. \A e \in InFlight : e.kind \in Testers => \A h \in DOMAIN e.rows :
              \E f \in InFlight' : f.kind \in Testers /\ h \in DOMAIN f.rows /\ f.rows[h] = e.rows[h]
        BY <1>4 DEF Over
    <2>5. RowsFollow'
        BY <1>1, <2>1, <2>2, <2>3, <2>4, RolesStay
    <2> QED
        BY <1>2, <2>5 DEF RowsInv
<1> QED
    BY <1>3, <1>4

-----------------------------------------------------------------------------
(* Answers.                                                                 *)

\* What stays when an answer that is not late is taken: nothing is excused and no
\* load is to come, neither before.
LEMMA NotLate ==
    ASSUME RowsTypes, RowsFollow, NEW i \in DOMAIN exchanges, Over(i),
           rowsAsOf' \in Nat, rowsAsOf <= rowsAsOf', ~Loads(exchanges[i], rowsAsOf),
           ~rowsExcused, ~WillLoad'
    PROVE  ChangesAreCarried /\ ListsAreFollowed /\ ShownIsFollowed
<1>1. ASSUME NEW e \in InFlight, Loads(e, rowsAsOf)
      PROVE  FALSE
    <2>1. e \in InFlight'
        BY <1>1 DEF Over
    <2>2. Loads(e, rowsAsOf')
        <3>1. e.at \in Nat /\ rowsAsOf \in Nat
            BY DEF RowsTypes, ExchangeFits
        <3>2. e.at < rowsAsOf => e.at < rowsAsOf'
            BY <3>1
        <3> QED
            BY <1>1, <3>2 DEF Loads
    <2> QED
        BY <2>1, <2>2 DEF WillLoad
<1>2. ~WillLoad
    BY <1>1 DEF WillLoad
<1> QED
    BY <1>2 DEF RowsFollow


\* The newest change of which an answer told.
LEMMA ToldFacts ==
    ASSUME RowsTypes, NEW e \in InFlight, rowsAsOf' = Max({rowsAsOf, e.at})
    PROVE  /\ e.at \in Nat /\ e.at <= rowChanges
           /\ rowsAsOf' \in Nat /\ rowsAsOf' <= rowChanges /\ rowsAsOf <= rowsAsOf' /\ e.at <= rowsAsOf'
           /\ rowsAsOf' = rowsAsOf \/ rowsAsOf' = e.at
<1> DEFINE at == e.at
           T == {rowsAsOf, at}
           m == CHOOSE x \in T : \A y \in T : y <= x
<1>1. at \in Nat /\ at <= rowChanges /\ rowsAsOf \in Nat /\ rowsAsOf <= rowChanges
    BY DEF RowsTypes, ExchangeFits
<1> HIDE DEF at
<1>2. \E x \in T : \A y \in T : y <= x
    <2>1. CASE rowsAsOf <= at
        BY <1>1, <2>1
    <2>2. CASE at <= rowsAsOf
        BY <1>1, <2>2
    <2> QED
        BY <1>1, <2>1, <2>2
<1>3. m \in T /\ \A y \in T : y <= m
    BY <1>2
<1>4. rowsAsOf' = m
    BY DEF Max, at
<1> HIDE DEF m
<1> QED
    BY <1>1, <1>3, <1>4 DEF at

\* The rows are shown as the answer has them.
LEMMA LoadAnsweredStep ==
    ASSUME RowsInv, NEW i \in DOMAIN exchanges, exchanges[i].served, LoadAnswered(i), Over(i), UNCHANGED tableVars,
           rowsAsOf' = Max({rowsAsOf, exchanges[i].at})
    PROVE  RowsInv'
<1> DEFINE old == exchanges[i]
           rows == old.rows
           at == old.at
<1>1. RowsTypes /\ AnswersAreTrue /\ RowsFollow /\ old \in InFlight
    BY DEF RowsInv, InFlight, Range
<1>2. old.kind = "load" /\ old.served /\ rowsShown' = rows /\ rowsExcused' = (rowsExcused \/ at < rowsAsOf)
    BY DEF LoadAnswered
<1>3. rowsKept' = rowsKept
    BY DEF tableVars
<1>4. /\ at \in Nat /\ rowsAsOf \in Nat /\ rowsAsOf' \in Nat /\ rowsAsOf' <= rowChanges /\ rowsAsOf <= rowsAsOf'
      /\ rowsAsOf' = rowsAsOf \/ rowsAsOf' = at
      /\ at <= rowsAsOf'
    BY <1>1, ToldFacts DEF RowsTypes
<1>5. RowsTypes' /\ AnswersAreTrue'
    <2>1. rowsShown' \in [DOMAIN rowsShown' -> Nat] /\ rowsExcused' \in BOOLEAN
        BY <1>1, <1>2 DEF RowsTypes, ExchangeFits
    <2> QED
        BY <1>4, <2>1, OverTypes
<1>6. ASSUME ~rowsExcused', ~WillLoad'
      PROVE  (ChangesAreCarried /\ ListsAreFollowed /\ ShownIsFollowed)'
    <2>1. ~rowsExcused /\ ~(at < rowsAsOf) /\ rowsAsOf' = at
        <3> DEFINE late == at < rowsAsOf
        <3>1. rowsExcused' = (rowsExcused \/ late)
            BY <1>2
        <3> HIDE DEF late
        <3>2. ~rowsExcused /\ ~late
            BY <1>6, <3>1
        <3>3. ~(at < rowsAsOf)
            BY <3>2 DEF late
        <3>4. rowsAsOf' = at
            <4> HIDE DEF at
            <4> QED
                BY <1>4, <3>3
        <3> QED
            BY <3>2, <3>3, <3>4
    <2>2. ChangesAreCarried /\ ListsAreFollowed
        <3>1. ~Loads(old, rowsAsOf)
            BY <1>2, <2>1 DEF Loads, Changers
        <3> QED
            BY <1>1, <1>4, <1>6, <2>1, <3>1, NotLate
    <2>3. /\ FirstChange <= at
          /\ \A h \in DOMAIN rowsKept : rowsKept[h] <= at => h \in DOMAIN rows /\ rows[h] = rowsKept[h]
        BY <1>1, <1>2 DEF AnswersAreTrue, ListTrue, IsList
    <2> DEFINE V == InFlight'
    <2>4. /\ \A e \in InFlight : e # old => e \in V
          /\ \A f \in V : f \in InFlight \/ f.served = FALSE
          /\ \A f \in V : ~Loads(f, rowsAsOf')
        BY <1>6 DEF Over, WillLoad
    <2>5. \A h \in DOMAIN rowsKept : rowsKept[h] \in Nat
        BY <1>1 DEF RowsTypes
    <2> HIDE DEF V, at, rows
    <2>6. ASSUME NEW h \in DOMAIN rowsKept, at < rowsKept[h]
          PROVE  \E f \in V : Carries(f, h, rowsKept[h])
        <3>1. Carried(h)
            <4>1. rowsAsOf < rowsKept[h] /\ FirstChange < rowsKept[h]
                BY <1>4, <2>1, <2>3, <2>5, <2>6 DEF FirstChange
            <4> QED
                BY <2>2, <4>1 DEF ChangesAreCarried
        <3>2. PICK f \in InFlight : Carries(f, h, rowsKept[h])
            BY <3>1 DEF Carried
        <3>3. f # old
            <4>1. ~(rowsKept[h] <= at)
                BY <1>4, <2>5, <2>6
            <4> QED
                BY <1>2, <3>2, <4>1 DEF Carries, Testers, at
        <3> QED
            BY <2>4, <3>2, <3>3
    <2>7. ASSUME NEW h, ~Agree(rows, rowsKept, h)
          PROVE  \E f \in V : Lists(f, h, rowsKept)
        <3>1. PICK f \in InFlight : Lists(f, h, rowsKept) /\ at < f.at
            BY <1>1, <1>2, <2>2, <2>7 DEF ListsAreFollowed, IsList, rows, at
        <3>2. f # old
            BY <1>4, <3>1 DEF at
        <3> QED
            BY <2>4, <3>1, <3>2
    <2>8. ASSUME NEW e \in V, IsList(e), NEW h, ~Agree(e.rows, rowsKept, h)
          PROVE  \E f \in V : Lists(f, h, rowsKept) /\ e.at < f.at
        <3>1. e \in InFlight /\ e.at \in Nat
            BY <1>1, <2>4, <2>8 DEF IsList, RowsTypes, ExchangeFits
        <3>2. PICK f \in InFlight : Lists(f, h, rowsKept) /\ e.at < f.at
            BY <2>2, <2>8, <3>1 DEF ListsAreFollowed
        <3>3. f # old
            <4>1. ~(e.at < rowsAsOf')
                BY <2>4, <2>8 DEF Loads, IsList
            <4> QED
                BY <2>1, <3>2, <4>1 DEF at
        <3> QED
            BY <2>4, <3>2, <3>3
    <2>9. ChangesAreCarried'
        <3>1. \A h \in DOMAIN rowsKept : rowsAsOf' < rowsKept[h] => \E f \in V : Carries(f, h, rowsKept[h])
            BY <2>1, <2>6
        <3> QED
            BY <1>3, <3>1 DEF ChangesAreCarried, Carried, V
    <2>10. ListsAreFollowed'
        BY <1>3, <2>8 DEF ListsAreFollowed, V
    <2>11. ShownIsFollowed'
        <3>1. \A h \in DOMAIN rowsKept \cap DOMAIN rows :
                  rows[h] = rowsKept[h] \/ \E f \in V : Carries(f, h, rowsKept[h])
            <4>1. ASSUME NEW h \in DOMAIN rowsKept, h \in DOMAIN rows, rows[h] # rowsKept[h]
                  PROVE  \E f \in V : Carries(f, h, rowsKept[h])
                <5>1. at < rowsKept[h]
                    BY <1>4, <2>3, <2>5, <4>1
                <5> QED
                    BY <2>6, <5>1
            <4> QED
                BY <4>1
        <3>2. rowsShown' = rows
            BY <1>2 DEF rows
        <3> QED
            BY <1>3, <2>7, <3>1, <3>2 DEF ShownIsFollowed, RowsAreRight, HostsAreRight, Carried, ListedAt, V
    <2> QED
        BY <2>9, <2>10, <2>11
<1> QED
    BY <1>5, <1>6 DEF RowsInv, RowsFollow

\* Results of tests go into the rows that are shown.
LEMMA ResultsAnsweredStep ==
    ASSUME RowsInv, NEW i \in DOMAIN exchanges, exchanges[i].kind \in Testers, WithResults(exchanges[i].rows),
           Over(i), UNCHANGED tableVars, rowsAsOf' = Max({rowsAsOf, exchanges[i].at})
    PROVE  RowsInv'
<1> DEFINE old == exchanges[i]
           rows == old.rows
           at == old.at
           shown == rowsShown'
<1>1. RowsTypes /\ AnswersAreTrue /\ RowsFollow /\ old \in InFlight
    BY DEF RowsInv, InFlight, Range
<1>2. /\ shown = [h \in DOMAIN rowsShown |-> IF h \in DOMAIN rows THEN rows[h] ELSE rowsShown[h]]
      /\ rowsExcused' = (rowsExcused \/ \E h \in DOMAIN rowsShown : shown[h] < rowsShown[h])
    <2>1. rowsShown' = [h \in DOMAIN rowsShown |-> IF h \in DOMAIN rows THEN rows[h] ELSE rowsShown[h]]
        BY DEF WithResults
    <2>2. rowsExcused' = (rowsExcused \/ \E h \in DOMAIN rowsShown : rowsShown'[h] < rowsShown[h])
        BY DEF WithResults
    <2> QED
        BY <2>1, <2>2
<1>3. rowsKept' = rowsKept
    BY DEF tableVars
<1>4. /\ at \in Nat /\ rowsAsOf \in Nat /\ rowsAsOf' \in Nat /\ rowsAsOf' <= rowChanges /\ rowsAsOf <= rowsAsOf'
      /\ at <= rowsAsOf'
    BY <1>1, ToldFacts DEF RowsTypes
<1>5. /\ \A h \in DOMAIN rows : rows[h] \in Nat /\ rows[h] <= at
      /\ \A h \in DOMAIN rows \cap DOMAIN rowsKept : rows[h] <= rowsKept[h]
    <2>1. ExchangeFits(old, rowChanges) /\ ResultOld(old, rowsKept)
        BY <1>1 DEF RowsTypes, AnswersAreTrue
    <2>2. rows \in [DOMAIN rows -> Nat] /\ \A h \in DOMAIN rows : rows[h] <= at
        BY <2>1 DEF ExchangeFits
    <2>3. \A h \in DOMAIN rows \cap DOMAIN rowsKept : rows[h] <= rowsKept[h]
        BY <2>1 DEF ResultOld
    <2> HIDE DEF rows
    <2> QED
        BY <2>2, <2>3
<1>6. /\ \A h \in DOMAIN rowsKept : rowsKept[h] \in Nat
      /\ \A h \in DOMAIN rowsShown : rowsShown[h] \in Nat
    BY <1>1 DEF RowsTypes
<1> HIDE DEF rows, at, shown
<1>7. /\ DOMAIN shown = DOMAIN rowsShown
      /\ \A h \in DOMAIN rowsShown : shown[h] = IF h \in DOMAIN rows THEN rows[h] ELSE rowsShown[h]
    BY <1>2
<1>8. shown \in [DOMAIN shown -> Nat] /\ rowsShown \in [DOMAIN rowsShown -> Nat]
    BY <1>1, <1>2, <1>5, <1>6, <1>7 DEF RowsTypes
<1>9. RowsTypes' /\ AnswersAreTrue'
    <2>1. rowsExcused' \in BOOLEAN
        <3> DEFINE late == \E h \in DOMAIN rowsShown : shown[h] < rowsShown[h]
        <3>1. rowsExcused' = (rowsExcused \/ late)
            BY <1>2
        <3> HIDE DEF late
        <3> QED
            BY <1>1, <3>1 DEF RowsTypes
    <2>2. rowsShown' \in [DOMAIN rowsShown' -> Nat]
        BY <1>8 DEF shown
    <2> QED
        BY <1>4, <2>1, <2>2, OverTypes
<1>10. shown # <<>> => rowsShown # <<>>
    <2>1. rowsShown = <<>> => DOMAIN shown = {}
        BY <1>7, NoRowsAtAll
    <2> QED
        BY <1>8, <2>1, EmptyRows
<1>11. ASSUME ~rowsExcused', ~WillLoad'
       PROVE  (ChangesAreCarried /\ ListsAreFollowed /\ ShownIsFollowed)'
    <2>1. ~rowsExcused /\ \A h \in DOMAIN rowsShown : ~(shown[h] < rowsShown[h])
        BY <1>2, <1>11
    <2>2. ChangesAreCarried /\ ListsAreFollowed /\ ShownIsFollowed
        <3>1. ~Loads(old, rowsAsOf)
            BY DEF Loads, Changers, Testers
        <3> QED
            BY <1>1, <1>4, <1>11, <2>1, <3>1, NotLate
    <2> DEFINE V == InFlight'
    <2>3. /\ \A e \in InFlight : e # old => e \in V
          /\ \A f \in V : f \in InFlight \/ f.served = FALSE
        BY DEF Over
    <2> HIDE DEF V
    <2>4. ASSUME NEW f \in InFlight, IsList(f)
          PROVE  f \in V
        BY <2>3, <2>4 DEF IsList, Testers
    <2>5. ASSUME NEW h \in DOMAIN rowsKept, Carried(h),
                 h \in DOMAIN rows => rows[h] # rowsKept[h]
          PROVE  \E f \in V : Carries(f, h, rowsKept[h])
        <3>1. PICK f \in InFlight : Carries(f, h, rowsKept[h])
            BY <2>5 DEF Carried
        <3>2. f # old
            BY <2>5, <3>1 DEF Carries, IsList, Testers, rows
        <3> QED
            BY <2>3, <3>1, <3>2
    <2>6. ASSUME NEW h \in DOMAIN rowsKept, rowsAsOf' < rowsKept[h], FirstChange < rowsKept[h]
          PROVE  \E f \in V : Carries(f, h, rowsKept[h])
        <3>1. rowsAsOf < rowsKept[h] /\ at < rowsKept[h]
            BY <1>4, <1>6, <2>6
        <3>2. h \in DOMAIN rows => rows[h] # rowsKept[h]
            BY <1>4, <1>5, <1>6, <3>1
        <3>3. Carried(h)
            BY <2>2, <2>6, <3>1 DEF ChangesAreCarried
        <3> QED
            BY <2>5, <3>2, <3>3
    <2>7. ASSUME NEW e \in V, IsList(e), NEW h, ~Agree(e.rows, rowsKept, h)
          PROVE  \E f \in V : Lists(f, h, rowsKept) /\ e.at < f.at
        <3>1. e \in InFlight
            BY <2>3, <2>7 DEF IsList
        <3>2. PICK f \in InFlight : Lists(f, h, rowsKept) /\ e.at < f.at
            BY <2>2, <2>7, <3>1 DEF ListsAreFollowed
        <3> QED
            BY <2>4, <3>2 DEF Lists
    <2>8. ASSUME rowsShown # <<>>, NEW h \in DOMAIN rowsKept, h \in DOMAIN rowsShown, shown[h] # rowsKept[h]
          PROVE  \E f \in V : Carries(f, h, rowsKept[h])
        <3>1. h \in DOMAIN rows => rows[h] # rowsKept[h]
            BY <1>7, <2>8
        <3>2. rowsShown[h] # rowsKept[h]
            <4>1. CASE h \in DOMAIN rows
                <5>1. shown[h] = rows[h] /\ rows[h] <= rowsKept[h] /\ rows[h] \in Nat
                    BY <1>5, <1>7, <2>8, <4>1
                <5>2. rowsKept[h] \in Nat /\ rowsShown[h] \in Nat /\ ~(shown[h] < rowsShown[h])
                    BY <1>6, <2>1, <2>8
                <5> QED
                    BY <2>8, <5>1, <5>2
            <4>2. CASE h \notin DOMAIN rows
                BY <1>7, <2>8, <4>2
            <4> QED
                BY <4>1, <4>2
        <3>3. Carried(h)
            BY <2>2, <2>8, <3>2 DEF ShownIsFollowed, RowsAreRight
        <3> QED
            BY <2>5, <3>1, <3>3
    <2>9. ASSUME rowsShown # <<>>, NEW h, ~Agree(shown, rowsKept, h)
          PROVE  \E f \in V : Lists(f, h, rowsKept)
        <3>1. ListedAt(h)
            BY <1>7, <2>2, <2>9 DEF ShownIsFollowed, HostsAreRight, Agree
        <3> QED
            BY <2>4, <3>1 DEF ListedAt, Lists
    <2>10. ChangesAreCarried'
        BY <1>3, <2>6 DEF ChangesAreCarried, Carried, V
    <2>11. ListsAreFollowed'
        BY <1>3, <2>7 DEF ListsAreFollowed, V
    <2>12. ShownIsFollowed'
        <3>1. shown # <<>> => \A h \in DOMAIN rowsKept \cap DOMAIN shown :
                  shown[h] = rowsKept[h] \/ \E f \in V : Carries(f, h, rowsKept[h])
            BY <1>7, <1>10, <2>8
        <3>2. shown # <<>> => \A h : Agree(shown, rowsKept, h) \/ \E f \in V : Lists(f, h, rowsKept)
            BY <1>10, <2>9
        <3> QED
            BY <1>3, <3>1, <3>2 DEF ShownIsFollowed, RowsAreRight, HostsAreRight, Carried, ListedAt, V, shown
    <2> QED
        BY <2>10, <2>11, <2>12
<1> QED
    BY <1>9, <1>11 DEF RowsInv, RowsFollow


\* An answer that brings nothing to show: those of newest are followed by a load.
LEMMA OtherAnsweredStep ==
    ASSUME RowsInv, NEW i \in DOMAIN exchanges, exchanges[i].kind \in Changers \cup {"count", "sessions"},
           UNCHANGED <<rowsShown, rowsAsOf, rowsExcused>>, UNCHANGED tableVars, Continue(i, Followers(i))
    PROVE  RowsInv'
<1> DEFINE old == exchanges[i]
<1>1. RowsTypes /\ rowsExcused' \in BOOLEAN /\ (~rowsExcused' => ~rowsExcused)
    BY DEF RowsInv, RowsTypes
<1>2. /\ Chained(Followers(i))
      /\ old.kind \in Changers => Followers(i) # <<>> /\ Head(Followers(i)) = "load"
    BY <1>1, FollowersChained
<1>3. /\ Over(i)
      /\ old.kind \in Changers => \E f \in InFlight' : f.kind = "load" /\ f.served = FALSE
    BY <1>1, <1>2, ContinueFacts
<1>4. old.kind \in Changers => WillLoad'
    BY <1>3 DEF WillLoad, Loads
<1>5. \/ rowsExcused' \/ WillLoad'
      \/ /\ old.kind # "load"
         /\ old.kind \in Changers => ~old.served
         /\ old.kind \in Testers => DOMAIN old.rows = {}
    BY <1>4 DEF Changers, Testers
<1> QED
    BY <1>1, <1>3, <1>5, OverOtherStep

\* Whatever is answered keeps the invariant.
LEMMA AnswerStep ==
    ASSUME RowsInv, NEW i \in DOMAIN exchanges, AnswerRequest(i)
    PROVE  RowsInv'
<1>1. /\ exchanges[i].served /\ Continue(i, Followers(i)) /\ UNCHANGED tableVars
      /\ LoadAnswered(i) \/ TestAnswered(i) \/ InstallAnswered(i) \/ OtherAnswered(i)
      /\ rowsAsOf' = IF exchanges[i].kind \in {"load", "test", "install", "test all"}
                     THEN Max({rowsAsOf, exchanges[i].at}) ELSE rowsAsOf
    BY DEF AnswerRequest
<1>2. Over(i)
    BY <1>1, FollowersChained, ContinueFacts DEF RowsInv
<1>3. CASE LoadAnswered(i)
    <2>1. rowsAsOf' = Max({rowsAsOf, exchanges[i].at})
        BY <1>1, <1>3 DEF LoadAnswered
    <2> QED
        BY <1>1, <1>2, <1>3, <2>1, LoadAnsweredStep
<1>4. CASE TestAnswered(i) \/ InstallAnswered(i)
    <2>1. exchanges[i].kind \in Testers /\ WithResults(exchanges[i].rows)
        BY <1>4 DEF TestAnswered, InstallAnswered, Testers
    <2>2. rowsAsOf' = Max({rowsAsOf, exchanges[i].at})
        BY <1>1, <2>1 DEF Testers
    <2> QED
        BY <1>1, <1>2, <2>1, <2>2, ResultsAnsweredStep
<1>5. CASE OtherAnswered(i)
    <2>1. exchanges[i].kind \in Changers \cup {"count", "sessions"} /\ UNCHANGED <<rowsShown, rowsExcused>>
        BY <1>5 DEF OtherAnswered, Changers
    <2>2. rowsAsOf' = rowsAsOf
        BY <1>1, <2>1 DEF Changers
    <2> QED
        BY <1>1, <2>1, <2>2, OtherAnsweredStep
<1> QED
    BY <1>1, <1>3, <1>4, <1>5

\* A request that fails is excused if it may have brought something.
LEMMA RowsFailStep ==
    ASSUME RowsInv, NEW i \in DOMAIN exchanges, FailRequest(i)
    PROVE  RowsInv'
<1> DEFINE old == exchanges[i]
           lost == \/ old.kind = "load"
                   \/ old.kind # "count" /\ (old.served \/ old.rows # <<>>)
<1>1. RowsTypes /\ rowsExcused \in BOOLEAN
    BY DEF RowsInv, RowsTypes
<1>2. /\ UNCHANGED tableVars /\ UNCHANGED <<rowsShown, rowsAsOf>> /\ Continue(i, FollowersOfFailure(i))
      /\ old.kind # "sessions"
    BY DEF FailRequest
<1>3. rowsExcused' = (rowsExcused \/ lost)
    BY DEF FailRequest
<1>4. Over(i)
    BY <1>1, <1>2, FollowersChained, ContinueFacts
<1>5. \/ lost
      \/ /\ old.kind # "load"
         /\ old.kind \in Changers => ~old.served
         /\ old.kind \in Testers => DOMAIN old.rows = {}
    BY NoRowsAtAll DEF Changers, Testers
<1> HIDE DEF lost
<1>6. rowsExcused' \in BOOLEAN /\ (~rowsExcused' => ~rowsExcused) /\ (lost => rowsExcused')
    BY <1>1, <1>3
<1> QED
    BY <1>2, <1>4, <1>5, <1>6, OverOtherStep

-----------------------------------------------------------------------------
(* Requests of the user, and the theorem.                                   *)

\* Whatever the user does keeps the invariant.
LEMMA UserStep ==
    ASSUME RowsInv,
           \/ LoadManagedHosts \/ ImportSshConfig
           \/ \E host \in RowId \cup {NoRow} : AutoImportIfEmpty(host)
           \/ \E host \in RowId : SaveHostRow(host) \/ DeleteHostRow(host) \/ TestHostRow(host)
                                  \/ InstallTmuxOnHost(host)
           \/ \E enabled \in SUBSET DOMAIN rowsShown : TestAllHosts(enabled)
    PROVE  RowsInv'
<1> DEFINE C == {"load", "sessions", "test"}
<1>1. /\ <<>> \in Seq(C) /\ <<"load">> \in Seq(C) /\ <<"load", "test">> \in Seq(C) /\ <<"load", "sessions">> \in Seq(C)
      /\ <<"load">> # <<>> /\ Head(<<"load">>) = "load"
      /\ <<"load", "sessions">> # <<>> /\ Head(<<"load", "sessions">>) = "load"
    OBVIOUS
<1>2. CASE LoadManagedHosts
    BY <1>1, <1>2, SendStep DEF LoadManagedHosts, Kinds, Changers
<1>3. CASE ImportSshConfig
    BY <1>1, <1>3, SendStep DEF ImportSshConfig, Kinds, Changers
<1>4. ASSUME NEW host, AutoImportIfEmpty(host)
      PROVE  RowsInv'
    <2>1. CASE Send("count", host, <<"load">>)
        BY <1>1, <2>1, SendStep DEF Kinds, Changers
    <2>2. CASE Send("count", host, <<"load", "test">>)
        BY <1>1, <2>2, SendStep DEF Kinds, Changers
    <2> QED
        BY <1>4, <2>1, <2>2 DEF AutoImportIfEmpty
<1>5. ASSUME NEW host, SaveHostRow(host)
      PROVE  RowsInv'
    <2>1. CASE Send("update", host, <<"load", "sessions">>)
        BY <1>1, <2>1, SendStep DEF Kinds, Changers
    <2>2. CASE Send("create", host, <<"load", "sessions">>)
        BY <1>1, <2>2, SendStep DEF Kinds, Changers
    <2> QED
        BY <1>5, <2>1, <2>2 DEF SaveHostRow
<1>6. ASSUME NEW host, DeleteHostRow(host)
      PROVE  RowsInv'
    BY <1>1, <1>6, SendStep DEF DeleteHostRow, Kinds, Changers
<1>7. ASSUME NEW host, TestHostRow(host)
      PROVE  RowsInv'
    BY <1>1, <1>7, SendStep DEF TestHostRow, Kinds, Changers, Testers
<1>8. ASSUME NEW host, InstallTmuxOnHost(host)
      PROVE  RowsInv'
    BY <1>1, <1>8, SendStep DEF InstallTmuxOnHost, Kinds, Changers, Testers
<1>9. ASSUME NEW enabled, TestAllHosts(enabled)
      PROVE  RowsInv'
    BY <1>1, <1>9, SendStep DEF TestAllHosts, Kinds, Changers, Testers
<1> QED
    BY <1>2, <1>3, <1>4, <1>5, <1>6, <1>7, <1>8, <1>9

\* The invariant holds at the start.
LEMMA InitialRows == HostRowsInit => RowsInv
<1> SUFFICES ASSUME HostRowsInit
             PROVE  RowsInv
    OBVIOUS
<1>1. /\ rowChanges = 1 /\ rowsAsOf = 0 /\ rowsExcused = FALSE /\ rowsShown = <<>> /\ exchanges = <<>>
      /\ rowsKept \in {<<>>} \cup [RowId -> {1}]
    BY DEF HostRowsInit, FirstChange, NoResult
<1>2. InFlight = {}
    BY <1>1 DEF InFlight, Range
<1>3. rowsKept \in [DOMAIN rowsKept -> Nat] /\ \A h \in DOMAIN rowsKept : rowsKept[h] = 1
    <2>1. CASE rowsKept = <<>>
        BY <2>1, NoRowsAtAll
    <2>2. CASE rowsKept \in [RowId -> {1}]
        BY <2>2
    <2> QED
        BY <1>1, <2>1, <2>2
<1>4. RowsTypes
    <2>1. exchanges \in Seq({}) /\ rowsShown \in [DOMAIN rowsShown -> Nat]
        BY <1>1, NoRowsAtAll
    <2>2. \E S : exchanges \in Seq(S)
        BY <2>1
    <2>3. \A e \in InFlight : ExchangeFits(e, rowChanges)
        BY <1>2
    <2>4. \A h \in DOMAIN rowsKept : rowsKept[h] <= rowChanges
        BY <1>1, <1>3
    <2>5. rowChanges \in Nat /\ FirstChange <= rowChanges /\ rowsAsOf \in Nat /\ rowsAsOf <= rowChanges
        BY <1>1 DEF FirstChange
    <2>6. rowsExcused \in BOOLEAN
        BY <1>1
    <2> QED
        BY <1>3, <2>1, <2>2, <2>3, <2>4, <2>5, <2>6 DEF RowsTypes
<1>5. AnswersAreTrue
    BY <1>2 DEF AnswersAreTrue
<1>6. RowsFollow
    <2>1. ChangesAreCarried
        BY <1>3 DEF ChangesAreCarried, FirstChange
    <2>2. ListsAreFollowed /\ ShownIsFollowed
        BY <1>1, <1>2 DEF ListsAreFollowed, ShownIsFollowed
    <2> QED
        BY <2>1, <2>2 DEF RowsFollow
<1> QED
    BY <1>4, <1>5, <1>6 DEF RowsInv

\* When no request is in flight and no answer was lost or replaced a newer one, the rows
\* that are shown are those of the table (RowsAreThoseOfTheTable), for any hosts and any
\* number of requests in flight: every change is followed by a load, whichever requests
\* overlap with it.
THEOREM RowsFollowTheTable == HostRowsSpec => []RowsAreThoseOfTheTable
<1>1. HostRowsInit => RowsInv
    BY InitialRows
<1>2. RowsInv /\ [HostRowsNext]_rowsVars => RowsInv'
    <2> SUFFICES ASSUME RowsInv, [HostRowsNext]_rowsVars
                 PROVE  RowsInv'
        OBVIOUS
    <2>1. CASE UNCHANGED rowsVars
        BY <2>1 DEF rowsVars, RowsInv, RowsTypes, AnswersAreTrue, RowsFollow, WillLoad, InFlight, ChangesAreCarried,
           ListsAreFollowed, ShownIsFollowed, RowsAreRight, HostsAreRight, Carried, ListedAt
    <2>2. ASSUME NEW i \in DOMAIN exchanges, Serve(i) \/ AnswerRequest(i) \/ FailRequest(i)
          PROVE  RowsInv'
        BY <2>2, ServeStep, AnswerStep, RowsFailStep
    <2> QED
        BY <2>1, <2>2, UserStep DEF HostRowsNext
<1>3. RowsInv => RowsAreThoseOfTheTable
    <2> SUFFICES ASSUME RowsInv, exchanges = <<>>, rowsShown # <<>>, ~rowsExcused
                 PROVE  rowsShown = rowsKept
        BY DEF RowsAreThoseOfTheTable
    <2>1. InFlight = {}
        BY DEF InFlight, Range
    <2>2. ShownIsFollowed
        BY <2>1 DEF RowsInv, RowsFollow, WillLoad
    <2>3. /\ \A h : h \in DOMAIN rowsShown <=> h \in DOMAIN rowsKept
          /\ \A h \in DOMAIN rowsKept \cap DOMAIN rowsShown : rowsShown[h] = rowsKept[h]
        BY <2>1, <2>2 DEF ShownIsFollowed, RowsAreRight, HostsAreRight, Agree, ListedAt, Carried
    <2>4. rowsShown \in [DOMAIN rowsShown -> Nat] /\ rowsKept \in [DOMAIN rowsKept -> Nat]
        BY DEF RowsInv, RowsTypes
    <2> QED
        BY <2>3, <2>4
<1> QED
    BY <1>1, <1>2, <1>3, PTL DEF HostRowsSpec

-----------------------------------------------------------------------------
(***************************************************************************)
(* The reader of SSH configurations (SshConfig), for files of every        *)
(* length: what is listed and what is in hand after each line.             *)
(***************************************************************************)

\* The state of the parser at the start of a file.
Unread == [hosts |-> <<>>, current |-> NoHost, hint |-> NoValue]

\* What the parser's states are after the first n lines.
Reads(f, lines, n) == f = [i \in 0 .. n |-> IF i = 0 THEN Unread ELSE ReadLine(f[i - 1], lines[i])]

\* The states of the parser follow on each other, line by line.
LEMMA ReadingFacts ==
    ASSUME NEW lines, Len(lines) \in Nat
    PROVE  /\ Reading(lines)[0] = Unread
           /\ \A n \in 1 .. Len(lines) : Reading(lines)[n] = ReadLine(Reading(lines)[n - 1], lines[n])
<1> DEFINE G == {n \in Nat : \E f : Reads(f, lines, n)}
<1>1. 0 \in G
    <2> DEFINE f == [i \in 0 .. 0 |-> Unread]
    <2>1. Reads(f, lines, 0)
        BY DEF Reads
    <2> QED
        BY <2>1
<1>2. ASSUME NEW n \in Nat, n \in G
      PROVE  n + 1 \in G
    <2>1. PICK f : Reads(f, lines, n)
        BY <1>2
    <2> DEFINE g == [i \in 0 .. n + 1 |-> IF i <= n THEN f[i] ELSE ReadLine(f[n], lines[n + 1])]
    <2>2. \A i \in 0 .. n : g[i] = IF i = 0 THEN Unread ELSE ReadLine(f[i - 1], lines[i])
        BY <2>1 DEF Reads
    <2>3. \A i \in 0 .. n + 1 : g[i] = IF i = 0 THEN Unread ELSE ReadLine(g[i - 1], lines[i])
        <3> SUFFICES ASSUME NEW i \in 0 .. n + 1
                     PROVE  g[i] = IF i = 0 THEN Unread ELSE ReadLine(g[i - 1], lines[i])
            OBVIOUS
        <3>1. CASE i = 0
            <4>1. 0 \in 0 .. n
                OBVIOUS
            <4>2. g[0] = Unread
                BY <2>2, <4>1
            <4> QED
                BY <3>1, <4>2
        <3>2. CASE i \in 1 .. n
            <4>1. i \in 0 .. n /\ i # 0 /\ i - 1 \in 0 .. n + 1 /\ i - 1 <= n
                BY <3>2
            <4>2. g[i - 1] = f[i - 1]
                BY <4>1
            <4> QED
                BY <2>2, <4>1, <4>2
        <3>3. CASE i = n + 1
            <4>1. g[i] = ReadLine(f[n], lines[n + 1]) /\ g[n] = f[n] /\ i - 1 = n /\ i # 0
                BY <3>3
            <4> QED
                BY <3>3, <4>1
        <3> QED
            BY <3>1, <3>2, <3>3
    <2>4. Reads(g, lines, n + 1)
        BY <2>3 DEF Reads
    <2> QED
        BY <2>4
<1>3. Len(lines) \in G
    <2> HIDE DEF G
    <2> QED
        BY <1>1, <1>2, InductionOnNumbers
<1>4. PICK f : f = [n \in 0 .. Len(lines) |-> IF n = 0 THEN [hosts |-> <<>>, current |-> NoHost, hint |-> NoValue]
                                             ELSE ReadLine(f[n - 1], lines[n])]
    BY <1>3 DEF Reads, Unread
<1> DEFINE state[n \in 0 .. Len(lines)] ==
            IF n = 0 THEN [hosts |-> <<>>, current |-> NoHost, hint |-> NoValue]
            ELSE ReadLine(state[n - 1], lines[n])
<1>5. state = [n \in 0 .. Len(lines) |-> IF n = 0 THEN [hosts |-> <<>>, current |-> NoHost, hint |-> NoValue]
                                         ELSE ReadLine(state[n - 1], lines[n])]
    BY <1>4
<1>6. Reading(lines) = state
    BY DEF Reading
<1> HIDE DEF state
<1>7. \A n \in 0 .. Len(lines) : state[n] = IF n = 0 THEN [hosts |-> <<>>, current |-> NoHost, hint |-> NoValue]
                                            ELSE ReadLine(state[n - 1], lines[n])
    BY <1>5
<1> QED
    BY <1>6, <1>7 DEF Unread

-----------------------------------------------------------------------------
(* The greatest of a set of line numbers.                                   *)

\* What lines there are in a file.
LEMMA LineFacts ==
    ASSUME configLines \in Seq(Line)
    PROVE  /\ Len(configLines) \in Nat /\ DOMAIN configLines = 1 .. Len(configLines)
           /\ \A kind : OfKind(kind) \subseteq 1 .. Len(configLines)
           /\ \A i \in 1 .. Len(configLines) :
                /\ configLines[i].kind \in {"section", "comment", "host", "keyword"}
                /\ configLines[i].kind = "host" =>
                      configLines[i].aliases \in Seq(HostAlias \cup Address \cup {Wildcard}) \ {<<>>}
<1>1. /\ Len(configLines) \in Nat /\ DOMAIN configLines = 1 .. Len(configLines)
      /\ \A i \in 1 .. Len(configLines) : configLines[i] \in Line
    BY LenProperties, ElementOfSeq
<1>2. ASSUME NEW line \in Line
      PROVE  /\ line.kind \in {"section", "comment", "host", "keyword"}
             /\ line.kind = "host" => line.aliases \in Seq(HostAlias \cup Address \cup {Wildcard}) \ {<<>>}
    <2>1. line \in Section => line.kind = "section"
        BY DEF Section
    <2>2. line \in Comment => line.kind = "comment"
        BY DEF Comment
    <2>3. line \in Keyword => line.kind = "keyword"
        BY DEF Keyword
    <2>4. ASSUME line \in HostLine
          PROVE  /\ line.kind = "host"
                 /\ line.aliases \in Seq(HostAlias \cup Address \cup {Wildcard}) \ {<<>>}
        <3>1. line.kind = "host"
            BY <2>4 DEF HostLine
        <3>2. \/ \E a \in HostAlias \cup Address \cup {Wildcard} : line.aliases = <<a>>
              \/ \E a \in HostAlias \cup Address, b \in HostAlias \cup {Wildcard} : line.aliases = <<a, b>>
            BY <2>4 DEF HostLine
        <3> DEFINE W == HostAlias \cup Address \cup {Wildcard}
        <3>3. \A a, b \in W : /\ <<a>> \in Seq(W) /\ <<a>> # <<>>
                              /\ <<a, b>> \in Seq(W) /\ <<a, b>> # <<>>
            <4> HIDE DEF W
            <4> QED
                OBVIOUS
        <3> QED
            BY <3>1, <3>2, <3>3
    <2> QED
        BY <2>1, <2>2, <2>3, <2>4 DEF Line
<1> QED
    BY <1>1, <1>2 DEF OfKind

\* The last line of a kind before line i, or 0 without one.
LEMMA LastFacts ==
    ASSUME configLines \in Seq(Line), NEW i \in Nat, NEW kind
    PROVE  /\ LastBefore(i, kind) \in Nat
           /\ LastBefore(i, kind) = 0 \/ (LastBefore(i, kind) \in OfKind(kind) /\ LastBefore(i, kind) < i)
           /\ \A j \in OfKind(kind) : j < i => j <= LastBefore(i, kind)
<1> DEFINE S == {0} \cup {j \in OfKind(kind) : j < i}
<1>1. S \in SUBSET Nat /\ S # {} /\ \A j \in S : j <= i
    BY LineFacts
<1>2. LastBefore(i, kind) = Max(S)
    BY DEF LastBefore
<1> HIDE DEF S
<1>3. PICK x \in S : x = Max(S) /\ \A y \in S : y <= x
    BY <1>1, MaxFacts
<1>4. x \in Nat /\ (x = 0 \/ (x \in OfKind(kind) /\ x < i))
    <2>1. x \in Nat
        BY <1>1
    <2>2. x \in {0} \cup {j \in OfKind(kind) : j < i}
        BY <1>3 DEF S
    <2> QED
        BY <2>1, <2>2
<1>5. \A j \in OfKind(kind) : j < i => j <= x
    BY <1>3 DEF S
<1> QED
    BY <1>2, <1>3, <1>4, <1>5

\* With one line more.
LEMMA LastOneMore ==
    ASSUME configLines \in Seq(Line), NEW m \in 1 .. Len(configLines), NEW kind
    PROVE  LastBefore(m + 1, kind) = IF configLines[m].kind = kind THEN m ELSE LastBefore(m, kind)
<1>1. m \in Nat /\ m + 1 \in Nat /\ m \in DOMAIN configLines
    BY LineFacts
<1>2. /\ LastBefore(m, kind) \in Nat
      /\ LastBefore(m, kind) = 0 \/ (LastBefore(m, kind) \in OfKind(kind) /\ LastBefore(m, kind) < m)
      /\ \A j \in OfKind(kind) : j < m => j <= LastBefore(m, kind)
    BY <1>1, LastFacts
<1>3. /\ LastBefore(m + 1, kind) \in Nat
      /\ LastBefore(m + 1, kind) = 0 \/ (LastBefore(m + 1, kind) \in OfKind(kind) /\ LastBefore(m + 1, kind) < m + 1)
      /\ \A j \in OfKind(kind) : j < m + 1 => j <= LastBefore(m + 1, kind)
    BY <1>1, LastFacts
<1>4. configLines[m].kind = kind <=> m \in OfKind(kind)
    BY <1>1 DEF OfKind
<1>5. CASE configLines[m].kind = kind
    BY <1>1, <1>3, <1>4, <1>5
<1>6. CASE configLines[m].kind # kind
    <2>1. m \notin OfKind(kind) /\ OfKind(kind) \subseteq Nat
        BY <1>4, <1>6, LineFacts
    <2> QED
        BY <1>1, <1>2, <1>3, <1>6, <2>1
<1> QED
    BY <1>5, <1>6

-----------------------------------------------------------------------------
(* Values.                                                                  *)

\* What was said of a host in the first n lines.
SaidBy(h, key, n) ==
    {j \in OfKind("keyword") : LastBefore(j, "host") = h /\ configLines[j].key = key /\ j <= n}

\* The last of it, which counts.
ValueBy(h, key, n) ==
    IF SaidBy(h, key, n) = {} THEN NoValue ELSE configLines[Max(SaidBy(h, key, n))].value

\* A keyword line says its value of the host above it.
LEMMA ValueSaid ==
    ASSUME configLines \in Seq(Line), NEW m \in OfKind("keyword")
    PROVE  ValueBy(LastBefore(m, "host"), configLines[m].key, m) = configLines[m].value
<1> DEFINE S == SaidBy(LastBefore(m, "host"), configLines[m].key, m)
<1>1. m \in Nat /\ S \in SUBSET Nat /\ m \in S /\ \A j \in S : j <= m
    BY LineFacts DEF SaidBy
<1> HIDE DEF S
<1>2. Max(S) \in S /\ \A y \in S : y <= Max(S)
    BY <1>1, MaxFacts
<1>3. Max(S) \in Nat /\ Max(S) <= m /\ m <= Max(S)
    BY <1>1, <1>2
<1>4. Max(S) = m
    BY <1>1, <1>3
<1> QED
    BY <1>1, <1>4 DEF ValueBy, S

\* No other line changes what was said.
LEMMA ValueStays ==
    ASSUME configLines \in Seq(Line), NEW m \in 1 .. Len(configLines), NEW h, NEW key,
           configLines[m].kind # "keyword" \/ configLines[m].key # key
    PROVE  ValueBy(h, key, m) = ValueBy(h, key, m - 1)
<1>1. SaidBy(h, key, m) = SaidBy(h, key, m - 1)
    BY LineFacts DEF SaidBy, OfKind
<1> QED
    BY <1>1 DEF ValueBy

\* Nothing is said of a host on its own line.
LEMMA ValueUnsaid ==
    ASSUME configLines \in Seq(Line), NEW m \in 1 .. Len(configLines), NEW key
    PROVE  ValueBy(m, key, m) = NoValue
<1>1. ASSUME NEW j \in OfKind("keyword"), LastBefore(j, "host") = m, j <= m
      PROVE  FALSE
    <2>1. j \in Nat /\ m \in Nat /\ m # 0
        BY LineFacts
    <2>2. LastBefore(j, "host") = 0 \/ LastBefore(j, "host") < j
        BY <2>1, LastFacts
    <2> QED
        BY <1>1, <2>1, <2>2
<1>2. SaidBy(m, key, m) = {}
    BY <1>1 DEF SaidBy
<1> QED
    BY <1>2 DEF ValueBy

\* All is said of a host when the next Host line comes, or the file ends.
LEMMA ValueFinal ==
    ASSUME configLines \in Seq(Line), NEW m \in 1 .. Len(configLines) + 1, NEW key,
           m \in 1 .. Len(configLines) => configLines[m].kind = "host"
    PROVE  ValueIn(LastBefore(m, "host"), key) = ValueBy(LastBefore(m, "host"), key, m - 1)
<1> DEFINE h == LastBefore(m, "host")
           S == {j \in OfKind("keyword") : LastBefore(j, "host") = h /\ configLines[j].key = key}
<1>1. ASSUME NEW j \in OfKind("keyword"), LastBefore(j, "host") = h
      PROVE  j <= m - 1
    <2>1. j \in 1 .. Len(configLines) /\ configLines[j].kind = "keyword" /\ j \in Nat /\ m \in Nat
          /\ Len(configLines) \in Nat
        BY LineFacts DEF OfKind
    <2>2. SUFFICES ASSUME j >= m PROVE FALSE
        BY <2>1
    <2>3. m \in 1 .. Len(configLines) /\ configLines[m].kind = "host" /\ m < j
        BY <2>1, <2>2
    <2>4. m \in OfKind("host")
        BY <2>3, LineFacts DEF OfKind
    <2>5. m <= LastBefore(j, "host") /\ LastBefore(j, "host") \in Nat
        BY <2>1, <2>3, <2>4, LastFacts
    <2>6. h = 0 \/ h < m
        BY <2>1, LastFacts
    <2> QED
        BY <1>1, <2>1, <2>3, <2>5, <2>6
<1>2. S = SaidBy(h, key, m - 1)
    BY <1>1 DEF SaidBy
<1> HIDE DEF h
<1> QED
    BY <1>2 DEF ValueIn, ValueBy, h

-----------------------------------------------------------------------------
(* Names, places and what the parser holds of a host.                       *)

\* The first alias that is no address is found by its place, or picked from the set.
LEMMA SameName ==
    ASSUME NEW W, NEW aliases \in Seq(W), aliases # <<>>
    PROVE  NameIn(aliases) = PrimaryName(aliases)
<1> DEFINE names == {i \in DOMAIN aliases : aliases[i] \notin Address}
<1>1. names \in SUBSET Nat /\ DOMAIN aliases = 1 .. Len(aliases) /\ Len(aliases) \in Nat
    BY LenProperties
<1>2. PrimaryName(aliases) = aliases[IF names = {} THEN 1 ELSE Min(names)]
    BY DEF PrimaryName
<1>3. Range(aliases) \subseteq Address <=> names = {}
    BY DEF Range
<1>4. CASE names = {}
    BY <1>2, <1>3, <1>4 DEF NameIn
<1>5. CASE names # {}
    <2>1. PICK m \in names : m = Min(names) /\ \A i \in names : m <= i
        <3> HIDE DEF names
        <3> QED
            BY <1>1, <1>5, MinFacts
    <2>2. m \in DOMAIN aliases /\ aliases[m] \in Range(aliases) \ Address
        BY DEF Range
    <2>3. ASSUME NEW j \in 1 .. m - 1
          PROVE  aliases[j] \in Address
        <3>1. m \in 1 .. Len(aliases) /\ Len(aliases) \in Nat
            BY <1>1, <2>2
        <3>2. j \in Nat /\ j < m /\ j \in DOMAIN aliases
            BY <1>1, <3>1
        <3>3. j \notin names
            <4> HIDE DEF names
            <4> QED
                BY <2>1, <3>1, <3>2
        <3> QED
            BY <3>2, <3>3
    <2>4. ASSUME NEW a \in Range(aliases) \ Address, NEW i \in DOMAIN aliases, aliases[i] = a,
                 \A j \in 1 .. i - 1 : aliases[j] \in Address
          PROVE  a = aliases[m]
        <3>1. i \in names
            BY <2>4
        <3>2. m <= i /\ m \in Nat /\ i \in Nat /\ m # 0
            BY <1>1, <2>1, <3>1
        <3>3. ~(m < i)
            BY <2>2, <2>4, <3>2
        <3> QED
            BY <2>4, <3>2, <3>3
    <2>5. aliases[m] = CHOOSE a \in Range(aliases) \ Address :
                \E i \in DOMAIN aliases : aliases[i] = a /\ \A j \in 1 .. i - 1 : aliases[j] \in Address
        BY <2>2, <2>3, <2>4
    <2> QED
        BY <1>2, <1>3, <1>5, <2>1, <2>5 DEF NameIn
<1> QED
    BY <1>4, <1>5

\* The hosts written down, and the place of each in the list.
LEMMA EntryFacts ==
    ASSUME configLines \in Seq(Line)
    PROVE  /\ Entries \in SUBSET (1 .. Len(configLines)) /\ IsFiniteSet(Entries)
           /\ \A n \in Nat : IsFiniteSet({j \in Entries : j <= n}) /\ Place(n) \in Nat
           /\ Place(0) = 0 /\ Place(Len(configLines)) = Cardinality(Entries)
           /\ \A m \in 1 .. Len(configLines) : Place(m) = Place(m - 1) + (IF m \in Entries THEN 1 ELSE 0)
<1> DEFINE N == Len(configLines)
<1>1. N \in Nat /\ \A j \in Entries : j \in 1 .. N
    BY LineFacts DEF Entries
<1> HIDE DEF N
<1>2. Entries \in SUBSET (1 .. N) /\ IsFiniteSet(Entries)
    <2>1. IsFiniteSet(1 .. N)
        BY <1>1, FS_Interval
    <2> QED
        BY <1>1, <2>1, FS_Subset
<1>3. \A n \in Nat : IsFiniteSet({j \in Entries : j <= n}) /\ Place(n) \in Nat
    BY <1>2, FS_Subset, FS_CardinalityType DEF Place
<1>4. Place(0) = 0
    <2>1. {j \in Entries : j <= 0} = {}
        BY <1>1
    <2> QED
        BY <2>1, FS_EmptySet DEF Place
<1>5. Place(N) = Cardinality(Entries)
    <2>1. {j \in Entries : j <= N} = Entries
        BY <1>1
    <2> QED
        BY <2>1 DEF Place
<1>6. ASSUME NEW m \in 1 .. N
      PROVE  Place(m) = Place(m - 1) + (IF m \in Entries THEN 1 ELSE 0)
    <2> DEFINE S == {j \in Entries : j <= m - 1}
    <2>1. m \in Nat /\ m - 1 \in Nat
        BY <1>1
    <2>2. IsFiniteSet(S) /\ Place(m - 1) = Cardinality(S) /\ Cardinality(S) \in Nat
        BY <1>3, <2>1 DEF Place
    <2>3. \A j \in Entries : j \in Nat /\ (j <= m <=> j <= m - 1 \/ j = m)
        BY <1>1, <2>1
    <2>4. CASE m \in Entries
        <3>1. {j \in Entries : j <= m} = S \cup {m}
            BY <2>3, <2>4
        <3>2. m \notin S
            BY <2>1
        <3>3. Cardinality(S \cup {m}) = Cardinality(S) + 1
            <4> HIDE DEF S
            <4> QED
                BY <2>2, <3>2, FS_AddElement
        <3>4. Place(m) = Cardinality(S \cup {m})
            BY <3>1 DEF Place
        <3> QED
            BY <2>2, <2>4, <3>3, <3>4
    <2>5. CASE m \notin Entries
        <3>1. {j \in Entries : j <= m} = S
            BY <2>3, <2>5
        <3>2. Place(m) = Cardinality(S)
            BY <3>1 DEF Place
        <3> QED
            BY <2>2, <2>5, <3>2
    <2> QED
        BY <2>4, <2>5
<1> QED
    BY <1>2, <1>3, <1>4, <1>5, <1>6 DEF N

\* The section before line m.
HintAt(m) ==
    LET section == LastBefore(m, "section") IN
    IF section = 0 THEN NoValue ELSE configLines[section].title

\* What is known of the host of line h after the first n lines.
Pending(h, n) ==
    LET name == NameIn(configLines[h].aliases) IN
    [name |-> name, aliases |-> OtherAliases(configLines[h].aliases, name),
     hostname |-> ValueBy(h, "hostname", n), user |-> ValueBy(h, "user", n), hint |-> HintAt(h)]

\* The section with one line more.
LEMMA HintOneMore ==
    ASSUME configLines \in Seq(Line), NEW m \in 1 .. Len(configLines)
    PROVE  HintAt(m + 1) = IF configLines[m].kind = "section" THEN configLines[m].title ELSE HintAt(m)
<1>1. LastBefore(m + 1, "section") = IF configLines[m].kind = "section" THEN m ELSE LastBefore(m, "section")
    BY LastOneMore
<1>2. m # 0
    OBVIOUS
<1> QED
    BY <1>1, <1>2 DEF HintAt

\* A host of which all was said is finished as it is written.
LEMMA FinalHost ==
    ASSUME configLines \in Seq(Line), NEW h, NEW n,
           \A key : ValueIn(h, key) = ValueBy(h, key, n)
    PROVE  FinalizeHost(Pending(h, n)) = Described(h)
BY DEF FinalizeHost, Pending, Described, HintAt, IsLocalHost, GroupOf

\* A host begins with what its line says.
LEMMA NewEntry ==
    ASSUME configLines \in Seq(Line), NEW m \in Entries
    PROVE  NewHost(configLines[m].aliases, HintAt(m)) = Pending(m, m)
<1>1. m \in 1 .. Len(configLines) /\ configLines[m].kind = "host"
    BY LineFacts DEF Entries, OfKind
<1>2. configLines[m].aliases \in Seq(HostAlias \cup Address \cup {Wildcard}) /\ configLines[m].aliases # <<>>
    BY <1>1, LineFacts
<1>3. NameIn(configLines[m].aliases) = PrimaryName(configLines[m].aliases)
    BY <1>2, SameName
<1>4. ValueBy(m, "hostname", m) = NoValue /\ ValueBy(m, "user", m) = NoValue
    BY <1>1, ValueUnsaid
<1> QED
    BY <1>3, <1>4 DEF NewHost, Pending

-----------------------------------------------------------------------------
(* What the parser has made of the first n lines.                           *)

\* The hosts that are written down.
Written == {Described(i) : i \in Entries}

\* The hosts of all entries among the first n lines but for the one of line h.
HostsListed(hosts, n, h) ==
    /\ hosts \in Seq(Written)
    /\ \A e \in Entries : e <= n /\ e # h => Place(e) \in 1 .. Len(hosts) /\ hosts[Place(e)] = Described(e)

\* The host of line h is being read, if that line is an entry.
InHand(current, count, n, h) ==
    IF h \in Entries THEN current = Pending(h, n) /\ count + 1 = Place(n) /\ Place(h) = Place(n)
    ELSE current = NoHost /\ count = Place(n)

\* The parser after n lines has listed the hosts of all entries but the one
\* in hand, and knows the section.
Parsed(n) ==
    \E hosts, current :
        /\ Reading(configLines)[n] = [hosts |-> hosts, current |-> current, hint |-> HintAt(n + 1)]
        /\ HostsListed(hosts, n, LastBefore(n + 1, "host"))
        /\ InHand(current, Len(hosts), n, LastBefore(n + 1, "host"))

\* Before the first line.
LEMMA ParsedNone ==
    ASSUME configLines \in Seq(Line)
    PROVE  Parsed(0)
<1>1. \A kind : LastBefore(1, kind) = 0
    <2>1. \A kind : OfKind(kind) \subseteq 1 .. Len(configLines)
        BY LineFacts
    <2> QED
        BY <2>1, LastFacts
<1>2. \A e \in Entries : e \in Nat /\ e # 0
    BY EntryFacts, LineFacts
<1>3. Reading(configLines)[0] = [hosts |-> <<>>, current |-> NoHost, hint |-> NoValue]
    BY LineFacts, ReadingFacts DEF Unread
<1>4. HintAt(0 + 1) = NoValue
    BY <1>1 DEF HintAt
<1>5. HostsListed(<<>>, 0, 0)
    BY <1>2 DEF HostsListed
<1>6. InHand(NoHost, Len(<<>>), 0, 0)
    BY <1>2, EntryFacts DEF InHand
<1>7. 0 + 1 = 1 /\ LastBefore(1, "host") = 0
    BY <1>1
<1>8. PICK hosts, current : hosts = <<>> /\ current = NoHost
    OBVIOUS
<1>9. Reading(configLines)[0] = [hosts |-> hosts, current |-> current, hint |-> HintAt(0 + 1)]
    BY <1>3, <1>4, <1>8
<1>10. HostsListed(hosts, 0, LastBefore(0 + 1, "host")) /\ InHand(current, Len(hosts), 0, LastBefore(0 + 1, "host"))
    BY <1>5, <1>6, <1>7, <1>8
<1> QED
    BY <1>9, <1>10 DEF Parsed

\* When a Host line comes, or the file ends, the host that was read is listed.
LEMMA SavedFacts ==
    ASSUME configLines \in Seq(Line), NEW m \in 1 .. Len(configLines) + 1, Parsed(m - 1),
           m \in 1 .. Len(configLines) => configLines[m].kind = "host"
    PROVE  /\ HostsListed(Saved(Reading(configLines)[m - 1]), m - 1, 0)
           /\ Len(Saved(Reading(configLines)[m - 1])) = Place(m - 1)
<1> DEFINE h == LastBefore(m, "host")
<1>0. m \in Nat /\ m - 1 \in Nat /\ (m - 1) + 1 = m
    BY LineFacts
<1>1. PICK hosts, current :
         /\ Reading(configLines)[m - 1] = [hosts |-> hosts, current |-> current, hint |-> HintAt(m)]
         /\ HostsListed(hosts, m - 1, h)
         /\ InHand(current, Len(hosts), m - 1, h)
    BY <1>0 DEF Parsed
<1>2. Saved(Reading(configLines)[m - 1])
        = IF current = NoHost THEN hosts ELSE Append(hosts, FinalizeHost(current))
    BY <1>1 DEF Saved
<1>3. hosts \in Seq(Written) /\ Len(hosts) \in Nat /\ Place(m - 1) \in Nat
    <2>1. hosts \in Seq(Written)
        BY <1>1 DEF HostsListed
    <2>2. Len(hosts) \in Nat
        BY <2>1, LenProperties
    <2>3. Place(m - 1) \in Nat
        BY <1>0, EntryFacts
    <2> QED
        BY <2>1, <2>2, <2>3
<1>4. CASE h \notin Entries
    <2>1. current = NoHost /\ Len(hosts) = Place(m - 1)
        BY <1>1, <1>4 DEF InHand
    <2>2. HostsListed(hosts, m - 1, 0)
        BY <1>1, <1>4 DEF HostsListed
    <2> QED
        BY <1>2, <2>1, <2>2
<1>5. CASE h \in Entries
    <2>1. current = Pending(h, m - 1) /\ Len(hosts) + 1 = Place(m - 1) /\ Place(h) = Place(m - 1)
        BY <1>1, <1>5 DEF InHand
    <2>2. current # NoHost
        <3>1. DOMAIN Pending(h, m - 1) = {"name", "aliases", "hostname", "user", "hint"}
            BY DEF Pending
        <3>2. DOMAIN NoHost = {}
            BY DEF NoHost
        <3> QED
            BY <2>1, <3>1, <3>2
    <2>3. FinalizeHost(current) = Described(h)
        <3>1. \A key : ValueIn(h, key) = ValueBy(h, key, m - 1)
            BY ValueFinal
        <3> QED
            BY <2>1, <3>1, FinalHost
    <2>4. Described(h) \in Written
        BY <1>5 DEF Written
    <2> DEFINE all == Append(hosts, Described(h))
    <2>5. /\ all \in Seq(Written) /\ Len(all) = Len(hosts) + 1 /\ all[Len(hosts) + 1] = Described(h)
          /\ \A j \in 1 .. Len(hosts) : all[j] = hosts[j]
        BY <1>3, <2>4, AppendFacts
    <2> HIDE DEF all
    <2>6. ASSUME NEW e \in Entries, e <= m - 1
          PROVE  Place(e) \in 1 .. Len(all) /\ all[Place(e)] = Described(e)
        <3>1. CASE e = h
            BY <1>3, <2>1, <2>5, <3>1
        <3>2. CASE e # h
            <4>1. Place(e) \in 1 .. Len(hosts) /\ hosts[Place(e)] = Described(e)
                BY <1>1, <2>6, <3>2 DEF HostsListed
            <4> QED
                BY <1>3, <2>5, <4>1
        <3> QED
            BY <3>1, <3>2
    <2>7. HostsListed(all, m - 1, 0)
        BY <2>5, <2>6 DEF HostsListed
    <2> QED
        BY <1>2, <2>1, <2>2, <2>3, <2>5, <2>7 DEF all
<1> QED
    BY <1>4, <1>5

\* A Host line.
LEMMA ParsedHost ==
    ASSUME configLines \in Seq(Line), NEW m \in 1 .. Len(configLines), Parsed(m - 1),
           configLines[m].kind = "host"
    PROVE  Parsed(m)
<1> DEFINE line == configLines[m]
           state == Reading(configLines)[m - 1]
           hosts == Saved(state)
<1>1. HostsListed(hosts, m - 1, 0) /\ Len(hosts) = Place(m - 1)
    BY LineFacts, SavedFacts
<1>2. m \in Nat /\ m # 0 /\ m - 1 \in Nat /\ (m - 1) + 1 = m /\ Place(m - 1) \in Nat
      /\ Place(m) = Place(m - 1) + (IF m \in Entries THEN 1 ELSE 0)
    <2>1. m \in Nat /\ m # 0 /\ m - 1 \in Nat /\ (m - 1) + 1 = m
        BY LineFacts
    <2> QED
        BY <2>1, EntryFacts
<1>3. LastBefore(m + 1, "host") = m /\ HintAt(m + 1) = HintAt(m)
    BY LastOneMore, HintOneMore
<1>4. PICK x, y : state = [hosts |-> x, current |-> y, hint |-> HintAt(m)]
    BY <1>2 DEF Parsed
<1>5. m \in Entries <=> Wildcard \notin Range(line.aliases)
    BY LineFacts DEF Entries, OfKind
<1>6. Reading(configLines)[m] = ReadHostLine(state, line.aliases)
    BY LineFacts, ReadingFacts DEF ReadLine
<1> DEFINE current == IF m \in Entries THEN Pending(m, m) ELSE NoHost
<1>7. Reading(configLines)[m] = [hosts |-> hosts, current |-> current, hint |-> HintAt(m)]
    <2>1. m \in Entries => NewHost(line.aliases, HintAt(m)) = Pending(m, m)
        BY NewEntry
    <2>2. state.hint = HintAt(m)
        BY <1>4
    <2>3. ReadHostLine(state, line.aliases)
            = [hosts |-> hosts,
               current |-> IF Wildcard \in Range(line.aliases) THEN NoHost ELSE NewHost(line.aliases, state.hint),
               hint |-> HintAt(m)]
        BY <2>2 DEF ReadHostLine
    <2> QED
        BY <1>5, <1>6, <2>1, <2>2, <2>3
<1>8. HostsListed(hosts, m, m)
    <2>1. \A e \in Entries : e \in Nat /\ e # 0 /\ (e <= m /\ e # m => e <= m - 1)
        BY <1>2, EntryFacts, LineFacts
    <2> QED
        BY <1>1, <2>1 DEF HostsListed
<1>9. InHand(current, Len(hosts), m, m)
    BY <1>1, <1>2 DEF InHand
<1> HIDE DEF hosts, current
<1> QED
    BY <1>3, <1>7, <1>8, <1>9 DEF Parsed

\* Any other line.
LEMMA ParsedOther ==
    ASSUME configLines \in Seq(Line), NEW m \in 1 .. Len(configLines), Parsed(m - 1),
           configLines[m].kind # "host"
    PROVE  Parsed(m)
<1> DEFINE line == configLines[m]
           h == LastBefore(m, "host")
<1>1. m \in Nat /\ m # 0 /\ m - 1 \in Nat /\ (m - 1) + 1 = m /\ m \notin Entries
    <2>1. m \in Nat /\ m # 0 /\ m - 1 \in Nat /\ (m - 1) + 1 = m
        BY LineFacts
    <2> QED
        BY <2>1 DEF Entries, OfKind
<1>2. PICK hosts, current :
         /\ Reading(configLines)[m - 1] = [hosts |-> hosts, current |-> current, hint |-> HintAt(m)]
         /\ HostsListed(hosts, m - 1, h)
         /\ InHand(current, Len(hosts), m - 1, h)
    BY <1>1 DEF Parsed
<1>3. Reading(configLines)[m] = ReadLine([hosts |-> hosts, current |-> current, hint |-> HintAt(m)], line)
    BY <1>2, LineFacts, ReadingFacts
<1>4. LastBefore(m + 1, "host") = h /\ HintAt(m + 1) = IF line.kind = "section" THEN line.title ELSE HintAt(m)
    BY LastOneMore, HintOneMore
<1>5. Place(m) = Place(m - 1)
    <2>1. Place(m - 1) \in Nat
        BY <1>1, EntryFacts
    <2>2. Place(m) = Place(m - 1) + (IF m \in Entries THEN 1 ELSE 0)
        BY EntryFacts
    <2> QED
        BY <1>1, <2>1, <2>2
<1>6. HostsListed(hosts, m, h)
    <2>1. \A e \in Entries : e \in Nat /\ e # m /\ (e <= m => e <= m - 1)
        BY <1>1, EntryFacts, LineFacts
    <2> QED
        BY <1>2, <2>1 DEF HostsListed
<1>7. ASSUME NEW new, h \in Entries => new = Pending(h, m), h \notin Entries => new = NoHost
      PROVE  InHand(new, Len(hosts), m, h)
    BY <1>2, <1>5, <1>7 DEF InHand
<1>8. ASSUME NEW new, InHand(new, Len(hosts), m, h),
             Reading(configLines)[m] = [hosts |-> hosts, current |-> new, hint |-> HintAt(m + 1)]
      PROVE  Parsed(m)
    BY <1>4, <1>6, <1>8 DEF Parsed
<1> DEFINE says(key) == line.kind = "keyword" /\ line.key = key
<1>9. \A key : ~says(key) => ValueBy(h, key, m) = ValueBy(h, key, m - 1)
    BY ValueStays
<1>10. \A key : says(key) => ValueBy(h, key, m) = line.value
    BY ValueSaid, LineFacts DEF OfKind
<1>11. current = NoHost <=> h \notin Entries
    <2>1. DOMAIN Pending(h, m - 1) = {"name", "aliases", "hostname", "user", "hint"} /\ DOMAIN NoHost = {}
        BY DEF Pending, NoHost
    <2>2. Pending(h, m - 1) # NoHost
        BY <2>1
    <2> QED
        BY <1>2, <2>2 DEF InHand
<1>12. h \in Entries => current = Pending(h, m - 1)
    BY <1>2 DEF InHand
<1> DEFINE name == NameIn(configLines[h].aliases)
           about(hostname, user) == [name |-> name, aliases |-> OtherAliases(configLines[h].aliases, name),
                                     hostname |-> hostname, user |-> user, hint |-> HintAt(h)]
<1>13. \A n : Pending(h, n) = about(ValueBy(h, "hostname", n), ValueBy(h, "user", n))
    BY DEF Pending
<1>14. CASE h \in Entries /\ says("hostname")
    <2>1. ~says("user") /\ line.kind # "section"
        BY <1>14
    <2>2. Pending(h, m) = about(line.value, ValueBy(h, "user", m - 1))
        BY <1>9, <1>10, <1>13, <1>14, <2>1
    <2>3. ReadLine([hosts |-> hosts, current |-> current, hint |-> HintAt(m)], line)
            = [hosts |-> hosts, current |-> about(line.value, ValueBy(h, "user", m - 1)), hint |-> HintAt(m)]
        BY <1>11, <1>12, <1>13, <1>14 DEF ReadLine
    <2> QED
        BY <1>3, <1>4, <1>7, <1>8, <1>14, <2>1, <2>2, <2>3
<1>15. CASE h \in Entries /\ says("user")
    <2>1. ~says("hostname") /\ line.kind # "section"
        BY <1>15
    <2>2. Pending(h, m) = about(ValueBy(h, "hostname", m - 1), line.value)
        BY <1>9, <1>10, <1>13, <1>15, <2>1
    <2>3. ReadLine([hosts |-> hosts, current |-> current, hint |-> HintAt(m)], line)
            = [hosts |-> hosts, current |-> about(ValueBy(h, "hostname", m - 1), line.value), hint |-> HintAt(m)]
        BY <1>11, <1>12, <1>13, <1>15 DEF ReadLine
    <2> QED
        BY <1>3, <1>4, <1>7, <1>8, <1>15, <2>1, <2>2, <2>3
<1>16. CASE h \notin Entries \/ (~says("hostname") /\ ~says("user"))
    <2>1. h \in Entries => current = Pending(h, m)
        BY <1>9, <1>12, <1>13, <1>16
    <2>2. InHand(current, Len(hosts), m, h)
        BY <1>7, <1>11, <2>1
    <2>3. ReadLine([hosts |-> hosts, current |-> current, hint |-> HintAt(m)], line)
            = [hosts |-> hosts, current |-> current, hint |-> IF line.kind = "section" THEN line.title ELSE HintAt(m)]
        BY <1>11, <1>16 DEF ReadLine
    <2> QED
        BY <1>3, <1>4, <1>8, <2>2, <2>3
<1> QED
    BY <1>14, <1>15, <1>16

\* Hence for the whole file, by induction over its lines.
LEMMA ParsedAll ==
    ASSUME configLines \in Seq(Line)
    PROVE  Parsed(Len(configLines))
<1> DEFINE G == {n \in Nat : n <= Len(configLines) => Parsed(n)}
<1>1. 0 \in G
    BY ParsedNone
<1>2. ASSUME NEW n \in Nat, n \in G
      PROVE  n + 1 \in G
    <2>1. SUFFICES ASSUME n + 1 <= Len(configLines) PROVE Parsed(n + 1)
        OBVIOUS
    <2>2. PICK m \in 1 .. Len(configLines) : m = n + 1 /\ m - 1 = n
        BY <2>1, LineFacts
    <2>3. Parsed(m - 1)
        BY <1>2, <2>1, <2>2, LineFacts
    <2>4. Parsed(m)
        BY <2>3, ParsedHost, ParsedOther
    <2> QED
        BY <2>2, <2>4
<1> HIDE DEF G
<1>3. \A n \in Nat : n \in G
    BY <1>1, <1>2, InductionOnNumbers
<1> QED
    BY <1>3, LineFacts DEF G

\* What the last line leaves in hand is listed, too.
LEMMA ReadAsWritten ==
    ASSUME configLines \in Seq(Line)
    PROVE  HostsAreAsWritten
<1> DEFINE N == Len(configLines)
           hosts == Saved(Reading(configLines)[N])
           added == IF \E i \in Entries : Described(i).isLocal THEN <<>> ELSE <<ImplicitHost>>
<1>1. N \in Nat /\ N + 1 \in 1 .. N + 1 /\ (N + 1) - 1 = N /\ N + 1 \notin 1 .. N
    BY LineFacts
<1>2. HostsListed(hosts, N, 0) /\ Len(hosts) = Place(N)
    BY <1>1, ParsedAll, SavedFacts
<1>3. \A e \in Entries : Place(e) \in 1 .. Len(hosts) /\ hosts[Place(e)] = Described(e)
    <2>1. \A e \in Entries : e <= N /\ e # 0
        BY <1>1, EntryFacts
    <2> QED
        BY <1>2, <2>1 DEF HostsListed
<1>4. hosts \in Seq(Written) /\ Len(hosts) = Cardinality(Entries) /\ Len(hosts) \in Nat /\ DOMAIN hosts = 1 .. Len(hosts)
    <2>1. hosts \in Seq(Written)
        BY <1>2 DEF HostsListed
    <2> HIDE DEF hosts
    <2> QED
        BY <1>2, <2>1, EntryFacts, LenProperties
<1> HIDE DEF hosts
<1>5. (\E i \in DOMAIN hosts : hosts[i].isLocal) <=> \E i \in Entries : Described(i).isLocal
    <2>1. \A i \in DOMAIN hosts : \E e \in Entries : hosts[i] = Described(e)
        BY <1>4, ElementOfSeq DEF Written
    <2> QED
        BY <1>3, <1>4, <2>1
<1>6. ParseSSHConfig(configLines) = added \o hosts
    <2>1. ParseSSHConfig(configLines)
            = IF \E i \in DOMAIN hosts : hosts[i].isLocal THEN hosts ELSE <<ImplicitHost>> \o hosts
        BY DEF ParseSSHConfig, hosts
    <2>2. <<>> \o hosts = hosts
        BY <1>4, ConcatEmptySeq
    <2> QED
        BY <1>5, <2>1, <2>2
<1>7. Len(added) \in Nat /\ DOMAIN added = 1 .. Len(added) /\ added \in Seq({ImplicitHost})
    <2>1. added = <<>> \/ added = <<ImplicitHost>>
        OBVIOUS
    <2>2. ASSUME NEW e
          PROVE  Len(<<e>>) = 1 /\ DOMAIN <<e>> = 1 .. 1 /\ <<e>> \in Seq({e})
        OBVIOUS
    <2>3. Len(<<>>) = 0 /\ DOMAIN <<>> = 1 .. 0 /\ <<>> \in Seq({ImplicitHost})
        OBVIOUS
    <2> HIDE DEF added
    <2>4. CASE added = <<>>
        BY <2>3, <2>4
    <2>5. CASE added = <<ImplicitHost>>
        <3>1. PICK e : e = ImplicitHost
            OBVIOUS
        <3>2. Len(<<e>>) = 1 /\ DOMAIN <<e>> = 1 .. 1 /\ <<e>> \in Seq({e})
            BY <2>2
        <3> QED
            BY <2>5, <3>1, <3>2
    <2> QED
        BY <2>1, <2>4, <2>5
<1> HIDE DEF added
<1>8. /\ Len(added \o hosts) = Len(added) + Len(hosts)
      /\ \A k \in 1 .. Len(added) : (added \o hosts)[k] = added[k]
      /\ \A k \in 1 .. Len(hosts) : (added \o hosts)[Len(added) + k] = hosts[k]
    <2>1. PICK S : added \in Seq(S) /\ hosts \in Seq(S)
        <3>1. added \in Seq({ImplicitHost} \cup Written) /\ hosts \in Seq({ImplicitHost} \cup Written)
            BY <1>4, <1>7
        <3> QED
            BY <3>1
    <2> QED
        BY <1>4, <1>7, <2>1
<1>9. /\ Len(added \o hosts) = Len(added) + Cardinality(Entries)
      /\ \A k \in DOMAIN added : (added \o hosts)[k] = added[k]
      /\ \A i \in Entries : (added \o hosts)[Len(added) + Place(i)] = Described(i)
    BY <1>3, <1>4, <1>7, <1>8
<1> QED
    BY <1>6, <1>9 DEF HostsAreAsWritten, added

\* A file is of lines.
OfLines == configLines \in Seq(Line)

\* Every Host line without a wildcard is one host, described by what stands
\* between it and the next, however long the file (parseSSHConfig).
THEOREM HostsAreAsWrittenAlways == SshConfigSpec => []HostsAreAsWritten
<1>1. SshConfigInit => OfLines
    BY DEF SshConfigInit, OfLines
<1>2. OfLines /\ [SshConfigNext]_configLines => OfLines'
    <2>1. \A line \in Line : OfLines /\ WriteLine(line) => OfLines'
        BY AppendFacts DEF WriteLine, OfLines
    <2> QED
        BY <2>1 DEF SshConfigNext, OfLines
<1>3. OfLines => HostsAreAsWritten
    BY ReadAsWritten DEF OfLines
<1> QED
    BY <1>1, <1>2, <1>3, PTL DEF SshConfigSpec
=============================================================================
