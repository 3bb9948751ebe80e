------------------------------ MODULE SshConfig ------------------------------
(***************************************************************************)
(* What parseSSHConfig makes of an ssh configuration (services/            *)
(* ssh-config.js), for every configuration that can be written with a few  *)
(* lines.  The file is read and parsed in one turn, so that all that       *)
(* changes is the file.  A line is a record of what the expressions of the *)
(* parser tell apart; a host is found by what its lines say.               *)
(***************************************************************************)
EXTENDS Integers, FiniteSetsExt, SequencesExt

CONSTANTS
    HostAlias,          \* words of Host lines that are names
    Address,            \* words of Host lines that are addresses
    DefaultGroup,       \* DEFAULT_GROUPS: the group of each host that it knows
    SectionGroup,       \* the titles of sections, and the group that inferGroup reads from each
    LocalName,          \* names that isLocalHost knows
    LocalAddress,       \* and host names that it knows
    DEFAULT_HOST,       \* the host that is added if none is local
    UserValue,          \* values of User
    MaxConfigLines      \* bound: lines of the file

ASSUME SshConfigAssumption == MaxConfigLines \in Nat /\ DEFAULT_HOST \in LocalName

VARIABLE configLines

NoValue == "none"
Wildcard == "*"

Section == [kind : {"section"}, title : DOMAIN SectionGroup]
Comment == [kind : {"comment"}]
HostLine == [kind : {"host"},
             aliases : {<<a>> : a \in HostAlias \cup Address \cup {Wildcard}}
                       \cup {<<a, b>> : a \in HostAlias \cup Address, b \in HostAlias \cup {Wildcard}}]
Keyword == [kind : {"keyword"}, key : {"hostname"}, value : Address \cup LocalAddress]
           \cup [kind : {"keyword"}, key : {"user"}, value : UserValue]
           \cup [kind : {"keyword"}, key : {"match"}, value : {NoValue}]
Line == Section \cup Comment \cup HostLine \cup Keyword

-----------------------------------------------------------------------------
(* The parser, line by line.                                                *)

\* The first word that is no address, or else the first.
PrimaryName(aliases) ==
    LET names == {i \in DOMAIN aliases : aliases[i] \notin Address} IN
    aliases[IF names = {} THEN 1 ELSE Min(names)]

OtherAliases(aliases, name) == SelectSeq(aliases, LAMBDA a : a # name)

NewHost(aliases, hint) ==
    LET name == PrimaryName(aliases) IN
    [name |-> name, aliases |-> OtherAliases(aliases, name),
     hostname |-> NoValue, user |-> NoValue, hint |-> hint]

GroupOf(name, hint) ==
    IF name \in DOMAIN DefaultGroup THEN DefaultGroup[name]
    ELSE IF hint # NoValue /\ SectionGroup[hint] # NoValue THEN SectionGroup[hint] ELSE "Other"

IsLocalHost(name, hostname) == name \in LocalName \/ hostname \in LocalAddress

FinalizeHost(host) ==
    LET hostname == IF host.hostname = NoValue THEN host.name ELSE host.hostname IN
    [name |-> host.name, aliases |-> host.aliases, hostname |-> hostname, user |-> host.user,
     group |-> GroupOf(host.name, host.hint), isLocal |-> IsLocalHost(host.name, hostname)]

NoHost == <<>>

\* The host that was being read, if there is one, is done.
Saved(state) ==
    IF state.current = NoHost THEN state.hosts ELSE Append(state.hosts, FinalizeHost(state.current))

\* Faulty variant: a wildcard entry leaves the host before it open.
ReadHostLineOpen(state, aliases) ==
    IF Wildcard \in Range(aliases) THEN state
    ELSE [hosts |-> Saved(state), current |-> NewHost(aliases, state.hint), hint |-> state.hint]

ReadHostLine(state, aliases) ==
    [hosts |-> Saved(state),
     current |-> IF Wildcard \in Range(aliases) THEN NoHost ELSE NewHost(aliases, state.hint),
     hint |-> state.hint]

ReadLine(state, line) ==
    CASE line.kind = "section" -> [state EXCEPT !.hint = line.title]
      [] line.kind = "comment" -> state
      [] line.kind = "host" -> ReadHostLine(state, line.aliases)
      [] line.kind = "keyword" /\ state.current # NoHost /\ line.key = "hostname" ->
            [state EXCEPT !.current.hostname = line.value]
      [] line.kind = "keyword" /\ state.current # NoHost /\ line.key = "user" ->
            [state EXCEPT !.current.user = line.value]
      [] OTHER -> state

ImplicitHost ==
    [name |-> DEFAULT_HOST, aliases |-> <<"localhost">>, hostname |-> "127.0.0.1", user |-> "claude",
     group |-> "Local", isLocal |-> TRUE]

\* The state of the parser when n lines are read.
Reading(lines) ==
    LET state[n \in 0 .. Len(lines)] ==
            IF n = 0 THEN [hosts |-> <<>>, current |-> NoHost, hint |-> NoValue]
            ELSE ReadLine(state[n - 1], lines[n])
    IN  state

ParseSSHConfig(lines) ==
    LET hosts == Saved(Reading(lines)[Len(lines)])
    IN  IF \E i \in DOMAIN hosts : hosts[i].isLocal THEN hosts ELSE <<ImplicitHost>> \o hosts

-----------------------------------------------------------------------------
(* The file.                                                                *)

SshConfigInit == configLines = <<>>

WriteLine(line) ==
    /\ Len(configLines) < MaxConfigLines
    /\ configLines' = Append(configLines, line)

SshConfigNext == \E line \in Line : WriteLine(line)

SshConfigSpec == SshConfigInit /\ [][SshConfigNext]_configLines

-----------------------------------------------------------------------------
(* What a configuration says of a host, without reading it line by line.    *)

OfKind(kind) == {i \in DOMAIN configLines : configLines[i].kind = kind}

\* The Host line, section or whatever of a kind that comes last before line i.
LastBefore(i, kind) == Max({0} \cup {j \in OfKind(kind) : j < i})

\* The last value of a keyword between the Host line at i and the next one.
ValueIn(i, key) ==
    LET said == {j \in OfKind("keyword") : LastBefore(j, "host") = i /\ configLines[j].key = key} IN
    IF said = {} THEN NoValue ELSE configLines[Max(said)].value

\* The word of a Host line that is no address and has none like it before it,
\* or the first word if all are addresses.
NameIn(aliases) ==
    IF Range(aliases) \subseteq Address THEN aliases[1]
    ELSE CHOOSE a \in Range(aliases) \ Address :
            \E i \in DOMAIN aliases : aliases[i] = a /\ \A j \in 1 .. i - 1 : aliases[j] \in Address

Described(i) ==
    LET name == NameIn(configLines[i].aliases)
        hostname == IF ValueIn(i, "hostname") = NoValue THEN name ELSE ValueIn(i, "hostname")
        section == LastBefore(i, "section")
    IN  [name |-> name, aliases |-> OtherAliases(configLines[i].aliases, name),
         hostname |-> hostname, user |-> ValueIn(i, "user"),
         group |-> GroupOf(name, IF section = 0 THEN NoValue ELSE configLines[section].title),
         isLocal |-> name \in LocalName \/ hostname \in LocalAddress]

Entries == {i \in OfKind("host") : Wildcard \notin Range(configLines[i].aliases)}

\* The place of an entry among the entries.
Place(i) == Cardinality({j \in Entries : j <= i})

\* Every Host line without a wildcard is one host, in the order of the file, and
\* what is said of it is what stands between its line and the next Host line; its
\* group is of the section that it stands in; and there is a local host in any
\* case, the first of the list if the file has none (parseSSHConfig).
HostsAreAsWritten ==
    LET hosts == ParseSSHConfig(configLines)
        added == IF \E i \in Entries : Described(i).isLocal THEN <<>> ELSE <<ImplicitHost>>
    IN  /\ Len(hosts) = Len(added) + Cardinality(Entries)
        /\ \A k \in DOMAIN added : hosts[k] = added[k]
        /\ \A i \in Entries : hosts[Len(added) + Place(i)] = Described(i)
=============================================================================
