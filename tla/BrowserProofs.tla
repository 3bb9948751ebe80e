---------------------------- MODULE BrowserProofs -----------------------------
(***************************************************************************)
(* Components of the page: the form of a host, the terminal and its size,  *)
(* the list of sessions and the viewer of histories.                       *)
(***************************************************************************)
EXTENDS HostForm, TerminalPane, TerminalSize, SessionList, HistoryViewer,
        ListLemmas

-----------------------------------------------------------------------------
(***************************************************************************)
(* The form of a managed host (HostForm), for every set of gateways and    *)
(* hosts and every number of lists and saves in flight.                    *)
(***************************************************************************)

Form == [docker : BOOLEAN, gateway : Place, container : Place \cup {NoContainer}]

HostFormTypes ==
    /\ hostForm \in Form
    /\ containersOf \in Place \cup {NoContainer}
    /\ listLoads \in Seq(Place)
    /\ listsOverlapped \in BOOLEAN
    /\ mischosen \in BOOLEAN

\* The container in the form, whether the form is shown or not and whichever
\* type of connection it is for.
ChosenIsOfGateway ==
    ~mischosen => hostForm.container \in {NoContainer, hostForm.gateway}

\* A load that overlaps no other is the only one, and until it ends nothing can
\* change the gateway without another load.
LoadIsOfGateway ==
    ~listsOverlapped =>
        /\ Len(listLoads) <= 1
        /\ Shown /\ hostForm.docker /\ Len(listLoads) = 1 => listLoads[1] = hostForm.gateway

\* The list that is shown when nothing loads.
ListIsOfGateway ==
    Shown /\ hostForm.docker /\ ~listsOverlapped /\ listLoads = <<>> =>
        containersOf \in {NoContainer, hostForm.gateway}

HostFormInv == HostFormTypes /\ ChosenIsOfGateway /\ LoadIsOfGateway /\ ListIsOfGateway

-----------------------------------------------------------------------------
(* The loads of lists.                                                      *)

\* The place of an element of a list of one load at most (HostForm.tla).
LEMMA OnlyPlace ==
    ASSUME NEW n \in Nat, n <= 1, NEW i \in 1 .. n
    PROVE  n = 1 /\ i = 1
OBVIOUS

\* A load begins (lib/ServersSettings.svelte, App.svelte loadDockerContainers).
LEMMA LoadFacts ==
    ASSUME HostFormTypes, NEW gateway \in Place, LoadDockerContainers(gateway)
    PROVE  /\ listLoads' \in Seq(Place) /\ listLoads' # <<>>
           /\ listsOverlapped' \in BOOLEAN
           /\ ~listsOverlapped' => Len(listLoads') = 1 /\ listLoads'[1] = gateway
<1>1. /\ listLoads' = Append(listLoads, gateway)
      /\ listsOverlapped' = (listLoads # <<>>)
    BY DEF LoadDockerContainers
<1>2. /\ listLoads' \in Seq(Place) /\ listLoads' # <<>>
      /\ Len(listLoads') = Len(listLoads) + 1
      /\ listLoads'[Len(listLoads) + 1] = gateway
    BY <1>1, AppendProperties DEF HostFormTypes
<1>3. listLoads = <<>> => Len(listLoads) = 0
    BY EmptySeq
<1>4. ~listsOverlapped' => listLoads = <<>>
    BY <1>1
<1>5. listsOverlapped' \in BOOLEAN
    BY <1>1
<1>6. ~listsOverlapped' => Len(listLoads') = 1 /\ listLoads'[1] = gateway
    BY <1>2, <1>3, <1>4
<1> QED
    BY <1>2, <1>5, <1>6

\* A step that begins a load for the gateway the form has after it, whatever
\* the form was before: the lists are in order.
LEMMA ListLoadStep ==
    ASSUME HostFormInv, NEW gateway \in Place, LoadDockerContainers(gateway),
           hostForm' \in Form, containersOf' = containersOf, mischosen' \in BOOLEAN,
           hostForm'.gateway = gateway, ChosenIsOfGateway'
    PROVE  HostFormInv'
<1>1. /\ listLoads' \in Seq(Place) /\ listLoads' # <<>>
      /\ listsOverlapped' \in BOOLEAN
      /\ ~listsOverlapped' => Len(listLoads') = 1 /\ listLoads'[1] = gateway
    BY LoadFacts DEF HostFormInv
<1>2. HostFormTypes'
    BY <1>1 DEF HostFormInv, HostFormTypes
<1>3. LoadIsOfGateway'
    BY <1>1 DEF LoadIsOfGateway
<1>4. ListIsOfGateway'
    BY <1>1 DEF ListIsOfGateway
<1> QED
    BY <1>2, <1>3, <1>4 DEF HostFormInv

\* A step without a load, after which the form is not shown, or not for Docker,
\* or has the gateway it had.
LEMMA QuietStep ==
    ASSUME HostFormInv, NoListLoad,
           hostForm' \in Form, containersOf' = containersOf, mischosen' \in BOOLEAN,
           ChosenIsOfGateway',
           Shown' /\ hostForm'.docker =>
              Shown /\ hostForm.docker /\ hostForm'.gateway = hostForm.gateway
    PROVE  HostFormInv'
BY DEF HostFormInv, HostFormTypes, LoadIsOfGateway, ListIsOfGateway, NoListLoad

\* A load ends: it was the only one, or the lists have overlapped.
LEMMA LoadedStep ==
    ASSUME HostFormInv, NEW i \in DOMAIN listLoads, ContainersLoaded(i)
    PROVE  HostFormInv'
<1>1. /\ containersOf' \in {listLoads[i], NoContainer}
      /\ listLoads' = RemoveAt(listLoads, i)
      /\ UNCHANGED <<hostEditMode, hostForm, listsOverlapped, mischosen>>
    BY DEF ContainersLoaded
<1>2. listLoads \in Seq(Place) /\ i \in 1 .. Len(listLoads) /\ listLoads[i] \in Place
          /\ Len(listLoads) \in Nat
    BY LenProperties, ElementOfSeq DEF HostFormInv, HostFormTypes
<1>3. listLoads' \in Seq(Place) /\ Len(listLoads') = Len(listLoads) - 1
    <2> DEFINE a == SubSeq(listLoads, 1, i - 1)
               b == SubSeq(listLoads, i + 1, Len(listLoads))
    <2>1. a \in Seq(Place) /\ Len(a) = i - 1
        BY <1>2, SubSeqProperties, ElementOfSeq
    <2>2. b \in Seq(Place) /\ Len(b) = Len(listLoads) - i
        <3>1. \A j \in i + 1 .. Len(listLoads) : listLoads[j] \in Place
            BY <1>2, ElementOfSeq
        <3>2. b \in Seq(Place)
                  /\ Len(b) = IF i + 1 <= Len(listLoads) THEN Len(listLoads) - (i + 1) + 1 ELSE 0
            BY <1>2, <3>1, SubSeqProperties
        <3> QED
            BY <1>2, <3>2
    <2>3. listLoads' = a \o b
        BY <1>1 DEF RemoveAt
    <2> HIDE DEF a, b
    <2> QED
        BY <1>2, <2>1, <2>2, <2>3, ConcatProperties
<1>4. HostFormTypes' /\ ChosenIsOfGateway'
    BY <1>1, <1>2, <1>3 DEF HostFormInv, HostFormTypes, ChosenIsOfGateway
<1>5. LoadIsOfGateway'
    BY <1>1, <1>2, <1>3 DEF HostFormInv, LoadIsOfGateway
<1>6. ListIsOfGateway'
    <2> SUFFICES ASSUME Shown, hostForm.docker, ~listsOverlapped
                 PROVE  containersOf' \in {NoContainer, hostForm.gateway}
        BY <1>1 DEF ListIsOfGateway, Shown
    <2>1. Len(listLoads) = 1 /\ i = 1
        <3>1. Len(listLoads) <= 1
            BY DEF HostFormInv, LoadIsOfGateway
        <3>2. Len(listLoads) \in Nat /\ i \in 1 .. Len(listLoads)
            BY <1>2
        <3> QED
            BY <3>1, <3>2, OnlyPlace
    <2>2. listLoads[1] = hostForm.gateway
        BY <2>1 DEF HostFormInv, LoadIsOfGateway
    <2> QED
        BY <1>1, <2>1, <2>2
<1> QED
    BY <1>4, <1>5, <1>6 DEF HostFormInv

-----------------------------------------------------------------------------
(* Every step.                                                              *)

\* The steps that leave the form, or only hide or show one for no container
\* (App.svelte).
LEMMA OtherFormStep ==
    ASSUME HostFormInv,
           \/ StartAddHost \/ CancelHostEdit \/ SaveHost \/ HostSaved \/ HostSaveFails
           \/ OtherHostRequest
    PROVE  HostFormInv'
<1>1. CASE StartAddHost
    <2>1. hostForm' = EmptyForm /\ mischosen' = FALSE /\ containersOf' = containersOf /\ NoListLoad
        BY <1>1 DEF StartAddHost
    <2> QED
        BY <2>1, QuietStep DEF EmptyForm, Form, Place, ChosenIsOfGateway
<1>2. CASE CancelHostEdit \/ HostSaved
    <2>1. hostForm' = hostForm /\ mischosen' = mischosen /\ containersOf' = containersOf
              /\ NoListLoad /\ ~Shown'
        BY <1>2 DEF CancelHostEdit, HostSaved, Shown
    <2> QED
        BY <2>1, QuietStep DEF HostFormInv, HostFormTypes, ChosenIsOfGateway
<1>3. CASE SaveHost \/ HostSaveFails \/ OtherHostRequest
    <2>1. hostForm' = hostForm /\ mischosen' = mischosen /\ containersOf' = containersOf
              /\ NoListLoad /\ hostEditMode' = hostEditMode
        BY <1>3 DEF SaveHost, HostSaveFails, OtherHostRequest
    <2> QED
        BY <2>1, QuietStep DEF HostFormInv, HostFormTypes, ChosenIsOfGateway, Shown
<1> QED
    BY <1>1, <1>2, <1>3

\* Every step of the form (App.svelte, lib/server-settings-utils.js).
LEMMA HostFormInvStep == HostFormInv /\ [HostFormNext]_hostFormVars => HostFormInv'
<1> SUFFICES ASSUME HostFormInv, [HostFormNext]_hostFormVars
             PROVE  HostFormInv'
    OBVIOUS
<1>1. CASE RefreshContainers
    <2>1. /\ LoadDockerContainers(hostForm.gateway) /\ hostForm' = hostForm
          /\ containersOf' = containersOf /\ mischosen' = mischosen
        BY <1>1 DEF RefreshContainers
    <2>2. hostForm.gateway \in Place
        BY DEF HostFormInv, HostFormTypes, Form
    <2> QED
        BY <2>1, <2>2, ListLoadStep DEF HostFormInv, HostFormTypes, ChosenIsOfGateway
<1>2. ASSUME NEW host \in ManagedHost, NEW docker \in BOOLEAN, NEW gateway \in Place,
             StartEditHost(host, docker, gateway)
      PROVE  HostFormInv'
    <2>1. /\ hostForm' = [docker |-> docker, gateway |-> gateway,
                          container |-> IF docker THEN gateway ELSE NoContainer]
          /\ mischosen' = FALSE /\ containersOf' = containersOf
          /\ IF docker THEN LoadDockerContainers(gateway) ELSE NoListLoad
        BY <1>2 DEF StartEditHost
    <2>2. hostForm' \in Form /\ ChosenIsOfGateway' /\ hostForm'.gateway = gateway
              /\ hostForm'.docker = docker
        BY <2>1 DEF Form, ChosenIsOfGateway
    <2>3. CASE docker
        BY <2>1, <2>2, <2>3, ListLoadStep
    <2>4. CASE ~docker
        BY <2>1, <2>2, <2>4, QuietStep
    <2> QED
        BY <2>3, <2>4
<1>3. ASSUME NEW docker \in BOOLEAN, SetHostConnectionType(docker)
      PROVE  HostFormInv'
    <2>1. /\ hostForm' = [hostForm EXCEPT !.docker = docker]
          /\ mischosen' = mischosen /\ containersOf' = containersOf
          /\ IF docker THEN LoadDockerContainers(hostForm.gateway) ELSE NoListLoad
        BY <1>3 DEF SetHostConnectionType
    <2>2. /\ hostForm' \in Form /\ hostForm'.gateway = hostForm.gateway
          /\ hostForm'.docker = docker /\ hostForm'.container = hostForm.container
          /\ hostForm.gateway \in Place
        BY <2>1 DEF HostFormInv, HostFormTypes, Form
    <2>3. ChosenIsOfGateway' /\ mischosen' \in BOOLEAN
        BY <2>1, <2>2 DEF HostFormInv, HostFormTypes, ChosenIsOfGateway
    <2>4. CASE docker
        BY <2>1, <2>2, <2>3, <2>4, ListLoadStep
    <2>5. CASE ~docker
        BY <2>1, <2>2, <2>3, <2>5, QuietStep
    <2> QED
        BY <2>4, <2>5
<1>4. ASSUME NEW gateway \in Place, SetHostGateway(gateway)
      PROVE  HostFormInv'
    <2>1. /\ hostForm' = HostFormForGateway(hostForm, gateway)
          /\ containersOf' = containersOf
          /\ IF hostForm.docker
             THEN LoadDockerContainers(gateway) /\ mischosen' = FALSE
             ELSE NoListLoad /\ mischosen' = (mischosen \/ hostForm.container # NoContainer)
        BY <1>4 DEF SetHostGateway
    <2>2. /\ hostForm' \in Form /\ hostForm'.gateway = gateway
          /\ hostForm'.docker = hostForm.docker
          /\ hostForm'.container = IF hostForm.docker THEN NoContainer ELSE hostForm.container
        BY <2>1 DEF HostFormForGateway, HostFormInv, HostFormTypes, Form
    <2>3. CASE hostForm.docker
        <3>1. ChosenIsOfGateway'
            BY <2>2, <2>3 DEF ChosenIsOfGateway
        <3> QED
            BY <2>1, <2>2, <2>3, <3>1, ListLoadStep
    <2>4. CASE ~hostForm.docker
        <3>1. ChosenIsOfGateway' /\ mischosen' \in BOOLEAN
            BY <2>1, <2>2, <2>4 DEF HostFormInv, HostFormTypes, ChosenIsOfGateway
        <3> QED
            BY <2>1, <2>2, <2>4, <3>1, QuietStep
    <2> QED
        BY <2>3, <2>4
<1>5. CASE SelectDockerContainer
    <2>1. /\ Shown /\ hostForm.docker
          /\ hostForm' = [hostForm EXCEPT !.container = containersOf]
          /\ mischosen' = (listsOverlapped \/ listLoads # <<>>)
          /\ NoListLoad /\ containersOf' = containersOf /\ hostEditMode' = hostEditMode
        BY <1>5 DEF SelectDockerContainer
    <2>2. /\ hostForm' \in Form /\ hostForm'.gateway = hostForm.gateway
          /\ hostForm'.docker /\ hostForm'.container = containersOf
        BY <2>1 DEF HostFormInv, HostFormTypes, Form
    <2>3. ChosenIsOfGateway' /\ mischosen' \in BOOLEAN
        BY <2>1, <2>2 DEF HostFormInv, HostFormTypes, ChosenIsOfGateway, ListIsOfGateway
    <2> QED
        BY <2>1, <2>2, <2>3, QuietStep
<1>6. CASE DeselectDockerContainer
    <2>1. /\ Shown /\ hostForm.docker
          /\ hostForm' = [hostForm EXCEPT !.container = NoContainer]
          /\ mischosen' = FALSE
          /\ NoListLoad /\ containersOf' = containersOf /\ hostEditMode' = hostEditMode
        BY <1>6 DEF DeselectDockerContainer
    <2>2. /\ hostForm' \in Form /\ hostForm'.gateway = hostForm.gateway
          /\ hostForm'.container = NoContainer
        BY <2>1 DEF HostFormInv, HostFormTypes, Form
    <2>3. ChosenIsOfGateway'
        BY <2>2 DEF ChosenIsOfGateway
    <2> QED
        BY <2>1, <2>2, <2>3, QuietStep
<1>7. CASE UNCHANGED hostFormVars
    BY <1>7 DEF hostFormVars, HostFormInv, HostFormTypes, ChosenIsOfGateway, LoadIsOfGateway,
                ListIsOfGateway, Shown
<1> QED
    BY <1>1, <1>2, <1>3, <1>4, <1>5, <1>6, <1>7, LoadedStep, OtherFormStep DEF HostFormNext

\* A host that is a container is saved with a container of its gateway, unless
\* it was chosen from a list that was being replaced (App.svelte saveHost,
\* loadDockerContainers).
THEOREM ContainersMatchGateways == HostFormSpec => []ContainerIsOfItsGateway
<1>1. HostFormInit => HostFormInv
    <2> SUFFICES ASSUME HostFormInit
                 PROVE  HostFormInv
        OBVIOUS
    <2>1. /\ hostEditMode = NoForm /\ hostForm = EmptyForm /\ containersOf = NoContainer
          /\ listLoads = <<>> /\ listsOverlapped = FALSE /\ mischosen = FALSE
        BY DEF HostFormInit
    <2>2. HostFormTypes
        BY <2>1, EmptySeq DEF HostFormTypes, EmptyForm, Form, Place
    <2>3. ChosenIsOfGateway /\ ListIsOfGateway
        BY <2>1 DEF ChosenIsOfGateway, ListIsOfGateway, EmptyForm
    <2>4. LoadIsOfGateway
        <3>1. Len(listLoads) = 0 /\ ~Shown
            BY <2>1, EmptySeq DEF Shown
        <3> QED
            BY <3>1 DEF LoadIsOfGateway
    <2> QED
        BY <2>2, <2>3, <2>4 DEF HostFormInv
<1>2. HostFormInv => ContainerIsOfItsGateway
    BY DEF HostFormInv, ChosenIsOfGateway, ListIsOfGateway, ContainerIsOfItsGateway
<1> QED
    BY <1>1, <1>2, HostFormInvStep, PTL DEF HostFormSpec

-----------------------------------------------------------------------------
(***************************************************************************)
(* The terminal of a pane and its sockets (TerminalPane), for every set of *)
(* tokens and number of sockets.                                           *)
(***************************************************************************)

Fetch == [stage : {"sent", "answered"}, token : Token \cup {NoToken}]

Socket == {Closed} \cup [state : {"connecting", "open", "aborted", "closing"},
                         session : Session, token : Token \cup {NoToken}]

PaneTypes ==
    /\ mounted \in BOOLEAN
    /\ target \in Session
    /\ ws \in Slot \cup {NoSocket}
    /\ sockets \in [Slot -> Socket]
    /\ fetches \in Seq(Fetch)
    /\ connected \in BOOLEAN
    /\ connecting \in BOOLEAN
    /\ overtaken \in BOOLEAN

TokenTypes ==
    /\ issued \in 0 .. MaxIssued
    /\ tokens \in SUBSET (1 .. issued)
    /\ tokenAge \in [Token -> Nat]

\* The component's socket is one that it has not closed.
SocketIsLive == \A n \in Slot : n = ws => Live(n)

\* A fetch that overtook none and is not overtaken is the only one, of a pane
\* that is there and has no socket.
FetchIsAlone ==
    ~overtaken /\ fetches # <<>> =>
        mounted /\ Len(fetches) = 1 /\ \A n \in Slot : ~Live(n)

Connecting(n) == sockets[n].state = "connecting"

\* A token has one holder, a fetch or a connecting socket, and was issued.
OneHolder ==
    /\ \A i, j \in DOMAIN fetches :
          i # j /\ fetches[i].token # NoToken => fetches[i].token # fetches[j].token
    /\ \A i \in DOMAIN fetches, n \in Slot :
          Connecting(n) /\ fetches[i].token # NoToken => fetches[i].token # sockets[n].token
    /\ \A m, n \in Slot :
          Connecting(m) /\ Connecting(n) /\ m # n /\ sockets[m].token # NoToken =>
             sockets[m].token # sockets[n].token

Known(t) == t # NoToken =>
    /\ t <= issued
    /\ t \in tokens \/ tokenAge[t] >= Ttl \/ issued - t >= MaxTokens

HeldAreKnown ==
    /\ \A i \in DOMAIN fetches : Known(fetches[i].token)
    /\ \A n \in Slot : Connecting(n) => Known(sockets[n].token)

PaneInv ==
    /\ PaneTypes
    /\ TokenTypes
    /\ SocketIsLive
    /\ FetchIsAlone
    /\ HeaderHasAReason
    /\ StraySocketWasOvertaken
    /\ OneHolder
    /\ HeldAreKnown

-----------------------------------------------------------------------------
(* Tokens.                                                                  *)

\* Issued tokens newer than t are at most as many as were issued after it.
LEMMA NewerTokens ==
    ASSUME NEW n \in Nat, NEW ts \in SUBSET (1 .. n), NEW t \in 1 .. n
    PROVE  /\ Cardinality({u \in ts : u > t}) \in Nat
           /\ Cardinality({u \in ts : u > t}) <= n - t
<1> DEFINE newer == {u \in ts : u > t}
<1>1. newer \subseteq t + 1 .. n
    <2>1. ASSUME NEW u \in newer
          PROVE  u \in t + 1 .. n
        <3>1. u \in 1 .. n /\ u > t
            OBVIOUS
        <3> QED
            BY <3>1
    <2> QED
        BY <2>1
<1>2. /\ IsFiniteSet(t + 1 .. n)
      /\ Cardinality(t + 1 .. n) = IF t + 1 > n THEN 0 ELSE n - (t + 1) + 1
    BY FS_Interval
<1>3. IsFiniteSet(newer) /\ Cardinality(newer) <= Cardinality(t + 1 .. n)
    BY <1>1, <1>2, FS_Subset
<1>4. Cardinality(newer) \in Nat
    BY <1>3, FS_CardinalityType
<1> HIDE DEF newer
<1>5. Cardinality(newer) <= n - t
    BY <1>2, <1>3, <1>4
<1> QED
    BY <1>4, <1>5 DEF newer

\* A new token is known, and what was known stays so (ws-utils.js generate).
LEMMA GenerateFacts ==
    ASSUME TokenTypes, Generate
    PROVE  /\ TokenTypes' /\ issued' = issued + 1 /\ issued' \in Token
           /\ \A t \in Token \cup {NoToken} : Known(t) \/ t = issued' => Known(t)'
<1>1. /\ issued < MaxIssued /\ issued' = issued + 1 /\ tokenAge' = tokenAge
      /\ tokens' = NewestTokens(Unexpired(tokens \cup {issued + 1}))
    BY DEF Generate
<1>2. /\ issued \in Nat /\ MaxIssued \in Nat /\ issued' \in 1 .. MaxIssued
      /\ tokens \cup {issued + 1} \subseteq 1 .. issued + 1
    BY <1>1, TokenAssumption DEF TokenTypes
<1> DEFINE ts == Unexpired(tokens \cup {issued + 1})
<1>3. ts \in SUBSET (1 .. issued')
    BY <1>1, <1>2 DEF Unexpired
<1>4. tokens' = {t \in ts : Cardinality({u \in ts : u > t}) < MaxTokens}
    BY <1>1 DEF NewestTokens
<1>5. ASSUME NEW t \in tokens \cup {issued + 1}
      PROVE  t \in tokens' \/ tokenAge[t] >= Ttl \/ issued' - t >= MaxTokens
    <2>1. t \in 1 .. issued' /\ t \in Token
        BY <1>1, <1>2 DEF Token
    <2>2. CASE t \notin ts
        BY <2>1, <2>2, TokenAssumption DEF Unexpired, TokenTypes
    <2>3. CASE t \in ts
        <3> HIDE DEF ts
        <3>0. issued' \in Nat
            BY <1>1, <1>2
        <3>1. /\ Cardinality({u \in ts : u > t}) \in Nat
              /\ Cardinality({u \in ts : u > t}) <= issued' - t
            BY <1>3, <2>1, <3>0, NewerTokens
        <3>2. CASE Cardinality({u \in ts : u > t}) < MaxTokens
            BY <1>4, <2>3, <3>2
        <3>3. CASE ~(Cardinality({u \in ts : u > t}) < MaxTokens)
            BY <1>1, <1>2, <2>1, <3>1, <3>3, TokenAssumption
        <3> QED
            BY <3>2, <3>3
    <2> QED
        BY <2>2, <2>3
<1> HIDE DEF ts
<1>6. TokenTypes'
    <2>1. tokens' \subseteq ts
        BY <1>4
    <2>2. tokens' \in SUBSET (1 .. issued')
        BY <1>3, <2>1
    <2>3. issued' \in 0 .. MaxIssued
        BY <1>2
    <2>4. tokenAge' \in [Token -> Nat]
        BY <1>1 DEF TokenTypes
    <2> QED
        BY <2>2, <2>3, <2>4 DEF TokenTypes
<1>7. ASSUME NEW t \in Token \cup {NoToken}, Known(t) \/ t = issued'
      PROVE  Known(t)'
    <2>1. CASE t = NoToken
        BY <2>1 DEF Known
    <2>2. CASE t # NoToken /\ (t \in tokens \/ t = issued')
        <3>1. t <= issued'
            BY <1>1, <1>2, <2>2
        <3> QED
            BY <1>1, <1>5, <2>2, <3>1 DEF Known
    <2>3. CASE t # NoToken /\ ~(t \in tokens \/ t = issued')
        <3>1. t \in 1 .. MaxIssued /\ t <= issued /\ (tokenAge[t] >= Ttl \/ issued - t >= MaxTokens)
            BY <1>7, <2>3 DEF Known, Token
        <3>2. issued - t >= MaxTokens => issued' - t >= MaxTokens
            BY <1>1, <1>2, <3>1, TokenAssumption
        <3> QED
            BY <1>1, <1>2, <3>1, <3>2 DEF Known
    <2> QED
        BY <2>1, <2>2, <2>3
<1> QED
    BY <1>1, <1>2, <1>6, <1>7 DEF Token

\* A token that is looked at is used up; the others are as they were
\* (ws-utils.js validate).
LEMMA ValidateFacts ==
    ASSUME TokenTypes, NEW s, Validate(s)
    PROVE  TokenTypes' /\ \A t \in Token \cup {NoToken} : t # s /\ Known(t) => Known(t)'
BY DEF TokenTypes, Validate, Known

\* Time only makes tokens older.
LEMMA TokensAgeFacts ==
    ASSUME TokenTypes, TokensAge
    PROVE  TokenTypes' /\ \A t \in Token \cup {NoToken} : Known(t) => Known(t)'
<1>1. /\ tokens' = tokens /\ issued' = issued
      /\ tokenAge' = [t \in Token |-> IF t <= issued /\ tokenAge[t] <= Ttl
                                      THEN tokenAge[t] + 1 ELSE tokenAge[t]]
    BY DEF TokensAge
<1>2. \A t \in Token : tokenAge[t] \in Nat
    BY DEF TokenTypes
<1>3. \A t \in Token : tokenAge'[t] \in Nat /\ tokenAge'[t] >= tokenAge[t]
    BY <1>1, <1>2
<1>4. tokenAge' \in [Token -> Nat]
    BY <1>1, <1>2
<1>5. TokenTypes'
    BY <1>1, <1>4 DEF TokenTypes
<1> QED
    BY <1>1, <1>2, <1>3, <1>5, TokenAssumption DEF Known, Token, NoToken

-----------------------------------------------------------------------------
(* Sockets and fetches.                                                     *)

\* What the state of a socket tells of it.
LEMMA SocketFacts ==
    ASSUME PaneTypes, NEW n \in Slot
    PROVE  /\ sockets[n] \in Socket
           /\ sockets[n].state # "closed" =>
                sockets[n] \in [state : {"connecting", "open", "aborted", "closing"},
                                session : Session, token : Token \cup {NoToken}]
BY DEF PaneTypes, Socket, Closed

\* Places of slots and fetches are numbers.
LEMMA PlaceFacts ==
    ASSUME PaneTypes
    PROVE  /\ NoSocket \notin Slot
           /\ Slot \subseteq Nat
           /\ DOMAIN fetches = 1 .. Len(fetches) /\ Len(fetches) \in Nat
           /\ \A i \in DOMAIN fetches : fetches[i] \in Fetch
BY LenProperties, ElementOfSeq, PaneBoundsAssumption DEF PaneTypes, Slot, NoSocket

\* No step that only lets holders go, or makes them hold nothing, gives a token
\* a second one.
LEMMA FewerHolders ==
    ASSUME PaneTypes, OneHolder, NEW at,
           \A j \in DOMAIN fetches' : fetches'[j].token # NoToken =>
              at[j] \in DOMAIN fetches /\ fetches'[j].token = fetches[at[j]].token,
           \A j, k \in DOMAIN fetches' : j # k => at[j] # at[k],
           \A n \in Slot : Connecting(n)' => Connecting(n) /\ sockets'[n] = sockets[n]
    PROVE  OneHolder'
BY DEF OneHolder, Connecting

\* What every holder holds stays known.
LEMMA FewerAreKnown ==
    ASSUME PaneTypes, HeldAreKnown, NEW at,
           \A j \in DOMAIN fetches' : fetches'[j].token # NoToken =>
              at[j] \in DOMAIN fetches /\ fetches'[j].token = fetches[at[j]].token,
           \A n \in Slot : Connecting(n)' => Connecting(n) /\ sockets'[n] = sockets[n],
           \A t \in Token \cup {NoToken} : Known(t) => Known(t)'
    PROVE  HeldAreKnown'
<1>1. ASSUME NEW j \in DOMAIN fetches', NEW t, t = fetches'[j].token, t # NoToken
      PROVE  Known(t)'
    <2>1. at[j] \in DOMAIN fetches /\ t = fetches[at[j]].token
        BY <1>1
    <2>2. t \in Token \cup {NoToken}
        BY <2>1, PlaceFacts DEF Fetch
    <2>3. Known(t)
        BY <2>1 DEF HeldAreKnown
    <2> QED
        BY <2>2, <2>3
<1>2. ASSUME NEW n \in Slot, Connecting(n)', NEW t, t = sockets'[n].token
      PROVE  Known(t)'
    <2>1. Connecting(n) /\ t = sockets[n].token
        BY <1>2
    <2>2. t \in Token \cup {NoToken}
        BY <2>1, SocketFacts DEF Connecting
    <2>3. Known(t)
        BY <2>1 DEF HeldAreKnown
    <2> QED
        BY <2>2, <2>3
<1>3. \A t : t = NoToken => Known(t)'
    BY DEF Known
<1> QED
    BY <1>1, <1>2, <1>3 DEF HeldAreKnown

\* What disconnect does to the sockets: the one it gives up is not live, and
\* the others are as they were.
LEMMA DisconnectFacts ==
    ASSUME PaneInv, Disconnect
    PROVE  /\ ws' = NoSocket /\ connected' = FALSE
           /\ sockets' \in [Slot -> Socket]
           /\ \A n \in Slot : Live(n)' => n # ws /\ sockets'[n] = sockets[n]
<1>1. /\ ws' = NoSocket /\ connected' = FALSE
      /\ sockets' = IF ws = NoSocket THEN sockets
                    ELSE [sockets EXCEPT ![ws].state =
                             IF @ = "connecting" THEN "aborted" ELSE "closing"]
    BY DEF Disconnect
<1>2. sockets \in [Slot -> Socket] /\ NoSocket \notin Slot
    BY PlaceFacts DEF PaneInv, PaneTypes
<1>3. CASE ws = NoSocket
    BY <1>1, <1>2, <1>3 DEF Live
<1>4. CASE ws # NoSocket
    <2>1. ws \in Slot /\ Live(ws)
        BY <1>4 DEF PaneInv, PaneTypes, SocketIsLive
    <2>2. sockets[ws] \in [state : {"connecting", "open", "aborted", "closing"},
                           session : Session, token : Token \cup {NoToken}]
        BY <2>1, SocketFacts DEF PaneInv, Live
    <2> DEFINE given == [sockets[ws] EXCEPT !.state =
                            IF @ = "connecting" THEN "aborted" ELSE "closing"]
    <2>3. given \in Socket /\ given.state \in {"aborted", "closing"}
        BY <2>2 DEF Socket
    <2>4. sockets' = [sockets EXCEPT ![ws] = given]
        BY <1>1, <1>4
    <2> HIDE DEF given
    <2>5. sockets' \in [Slot -> Socket]
        BY <1>2, <2>3, <2>4
    <2>6. ASSUME NEW n \in Slot, Live(n)'
          PROVE  n # ws /\ sockets'[n] = sockets[n]
        BY <1>2, <2>1, <2>3, <2>4, <2>6 DEF Live
    <2> QED
        BY <1>1, <2>5, <2>6
<1> QED
    BY <1>3, <1>4

\* A pane without a socket asks for a token (Terminal.svelte connect).
LEMMA ConnectStep ==
    ASSUME PaneInv, Connect(NoSocket), ws' = NoSocket, mounted' = TRUE, target' \in Session,
           sockets' \in [Slot -> Socket], connected' \in BOOLEAN,
           connected' => connected /\ sockets' = sockets,
           \A n \in Slot : Live(n)' => n # ws /\ sockets'[n] = sockets[n],
           UNCHANGED tokenVars
    PROVE  PaneInv'
<1> DEFINE new == [stage |-> "sent", token |-> NoToken]
<1>1. /\ fetches' = Append(fetches, new) /\ connecting' = TRUE
      /\ overtaken' = (overtaken \/ fetches # <<>>)
    BY DEF Connect
<1>2. fetches \in Seq(Fetch) /\ new \in Fetch
    BY DEF PaneInv, PaneTypes, Fetch
<1>3. /\ fetches' \in Seq(Fetch)
      /\ Len(fetches') = Len(fetches) + 1
      /\ Len(fetches) + 1 \in 1 .. Len(fetches') /\ fetches'[Len(fetches) + 1] = new
      /\ \A j \in 1 .. Len(fetches) : fetches'[j] = fetches[j]
      /\ \A j \in 1 .. Len(fetches') : j \in 1 .. Len(fetches) \/ j = Len(fetches) + 1
    <2> HIDE DEF new
    <2> QED
        BY <1>1, <1>2, AppendFacts
<1>4. DOMAIN fetches' = 1 .. Len(fetches') /\ fetches' # <<>>
          /\ DOMAIN fetches = 1 .. Len(fetches) /\ Len(fetches) \in Nat
    BY <1>2, <1>3, LenProperties, EmptySeq
<1>5. PaneTypes'
    BY <1>1, <1>3 DEF PaneInv, PaneTypes
<1>6. TokenTypes' /\ \A t \in Token \cup {NoToken} : Known(t) => Known(t)'
    BY DEF PaneInv, TokenTypes, tokenVars, Known
<1>7. ~overtaken' => Len(fetches') = 1 /\ \A n \in Slot : ~Live(n)'
    <2>1. SUFFICES ASSUME ~overtaken'
                   PROVE  Len(fetches') = 1 /\ \A n \in Slot : ~Live(n)'
        OBVIOUS
    <2>2. ~overtaken /\ Len(fetches) = 0
        BY <1>1, <2>1, EmptySeq
    <2>3. \A n \in Slot : Live(n) => n = ws
        BY <2>2 DEF PaneInv, StraySocketWasOvertaken
    <2>4. \A n \in Slot : Live(n)' => Live(n)
        BY DEF Live
    <2> QED
        BY <1>3, <2>2, <2>3, <2>4
<1>8. SocketIsLive' /\ FetchIsAlone' /\ StraySocketWasOvertaken'
    BY <1>7, PlaceFacts DEF PaneInv, SocketIsLive, FetchIsAlone, StraySocketWasOvertaken
<1>9. HeaderHasAReason'
    BY <1>1, <1>4 DEF PaneInv, HeaderHasAReason
<1>10. \A n \in Slot : Connecting(n)' => Connecting(n) /\ sockets'[n] = sockets[n]
    BY DEF Connecting, Live
<1> DEFINE at == [j \in DOMAIN fetches' |-> j]
<1>11. \A j \in DOMAIN fetches' : fetches'[j].token # NoToken =>
          at[j] \in DOMAIN fetches /\ fetches'[j].token = fetches[at[j]].token
    BY <1>3, <1>4
<1>12. \A j, k \in DOMAIN fetches' : j # k => at[j] # at[k]
    OBVIOUS
<1> HIDE DEF at, new
<1>13. OneHolder'
    BY <1>10, <1>11, <1>12, FewerHolders DEF PaneInv
<1>14. HeldAreKnown'
    BY <1>6, <1>10, <1>11, FewerAreKnown DEF PaneInv
<1> QED
    BY <1>5, <1>6, <1>8, <1>9, <1>13, <1>14 DEF PaneInv

\* A step that leaves the fetches alone, and no more live sockets than there were.
LEMMA SocketStep ==
    ASSUME PaneInv, UNCHANGED fetches, PaneTypes', TokenTypes',
           \A t \in Token \cup {NoToken} : Known(t) => Known(t)',
           \A n \in Slot : Connecting(n)' => Connecting(n) /\ sockets'[n] = sockets[n]
    PROVE  OneHolder' /\ HeldAreKnown'
<1> DEFINE at == [j \in DOMAIN fetches |-> j]
<1>1. \A j \in DOMAIN fetches' : fetches'[j].token # NoToken =>
          at[j] \in DOMAIN fetches /\ fetches'[j].token = fetches[at[j]].token
    OBVIOUS
<1>2. \A j, k \in DOMAIN fetches' : j # k => at[j] # at[k]
    OBVIOUS
<1> HIDE DEF at
<1>3. OneHolder'
    BY <1>1, <1>2, FewerHolders DEF PaneInv
<1>4. HeldAreKnown'
    BY <1>1, FewerAreKnown DEF PaneInv
<1> QED
    BY <1>3, <1>4

\* onDestroy.
LEMMA DestroyStep ==
    ASSUME PaneInv, Destroy
    PROVE  PaneInv'
<1>1. /\ mounted' = FALSE /\ Disconnect /\ connecting' = FALSE
      /\ overtaken' = (overtaken \/ fetches # <<>>)
      /\ UNCHANGED <<target, fetches, tokenVars>>
    BY DEF Destroy
<1>2. /\ ws' = NoSocket /\ connected' = FALSE
      /\ sockets' \in [Slot -> Socket]
      /\ \A n \in Slot : Live(n)' => n # ws /\ sockets'[n] = sockets[n]
    BY <1>1, DisconnectFacts
<1>3. PaneTypes'
    BY <1>1, <1>2 DEF PaneInv, PaneTypes
<1>4. TokenTypes' /\ \A t \in Token \cup {NoToken} : Known(t) => Known(t)'
    BY <1>1 DEF PaneInv, TokenTypes, tokenVars, Known
<1>5. OneHolder' /\ HeldAreKnown'
    <2>1. \A n \in Slot : Connecting(n)' => Connecting(n) /\ sockets'[n] = sockets[n]
        BY <1>2 DEF Connecting, Live
    <2> QED
        BY <1>1, <1>3, <1>4, <2>1, SocketStep
<1>6. ~overtaken' => fetches' = <<>> /\ \A n \in Slot : ~Live(n)'
    <2>1. SUFFICES ASSUME ~overtaken'
                   PROVE  fetches' = <<>> /\ \A n \in Slot : ~Live(n)'
        OBVIOUS
    <2>2. ~overtaken /\ fetches' = <<>>
        BY <1>1, <2>1
    <2>3. \A n \in Slot : Live(n) => n = ws
        BY <2>2 DEF PaneInv, StraySocketWasOvertaken
    <2>4. \A n \in Slot : Live(n)' => Live(n)
        BY <1>2 DEF Live
    <2> QED
        BY <1>2, <2>2, <2>3, <2>4
<1>7. SocketIsLive' /\ FetchIsAlone' /\ StraySocketWasOvertaken' /\ HeaderHasAReason'
    BY <1>1, <1>2, <1>6, PlaceFacts DEF PaneInv, SocketIsLive, FetchIsAlone, StraySocketWasOvertaken, HeaderHasAReason
<1> QED
    BY <1>3, <1>4, <1>5, <1>7 DEF PaneInv

\* A fetch is taken out of those in flight: the other holders stay.
LEMMA FetchTakenOut ==
    ASSUME PaneInv, NEW i \in DOMAIN fetches, fetches' = RemoveAt(fetches, i)
    PROVE  /\ fetches' \in Seq(Fetch) /\ Len(fetches') = Len(fetches) - 1
           /\ \E at : /\ \A j \in DOMAIN fetches' :
                            at[j] \in DOMAIN fetches /\ at[j] # i /\ fetches'[j] = fetches[at[j]]
                      /\ \A j, k \in DOMAIN fetches' : j # k => at[j] # at[k]
<1>1. fetches \in Seq(Fetch) /\ i \in 1 .. Len(fetches) /\ Len(fetches) \in Nat
          /\ DOMAIN fetches = 1 .. Len(fetches)
    BY PlaceFacts DEF PaneInv, PaneTypes
<1>2. /\ fetches' \in Seq(Fetch) /\ Len(fetches') = Len(fetches) - 1
      /\ \A j \in 1 .. Len(fetches) - 1 :
            /\ InWhole(i, j) \in 1 .. Len(fetches)
            /\ InWhole(i, j) # i
            /\ fetches'[j] = fetches[InWhole(i, j)]
    BY <1>1, RemoveAtFacts
<1>3. DOMAIN fetches' = 1 .. Len(fetches) - 1
    BY <1>2, LenProperties
<1> DEFINE at == [j \in DOMAIN fetches' |-> InWhole(i, j)]
<1>4. \A j \in DOMAIN fetches' :
          at[j] \in DOMAIN fetches /\ at[j] # i /\ fetches'[j] = fetches[at[j]]
    BY <1>1, <1>2, <1>3
<1>5. \A j, k \in DOMAIN fetches' : j # k => at[j] # at[k]
    BY <1>1, <1>3 DEF InWhole
<1> HIDE DEF at
<1> QED
    BY <1>2, <1>4, <1>5

\* The catch of connect.
LEMMA FetchFailsStep ==
    ASSUME PaneInv, NEW i \in DOMAIN fetches, FetchFails(i)
    PROVE  PaneInv'
<1>1. /\ fetches' = RemoveAt(fetches, i) /\ connecting' = FALSE
      /\ UNCHANGED <<mounted, target, ws, sockets, connected, overtaken, tokenVars>>
    BY DEF FetchFails
<1>2. PICK at : /\ \A j \in DOMAIN fetches' :
                     at[j] \in DOMAIN fetches /\ at[j] # i /\ fetches'[j] = fetches[at[j]]
               /\ \A j, k \in DOMAIN fetches' : j # k => at[j] # at[k]
    BY <1>1, FetchTakenOut
<1>3. fetches' \in Seq(Fetch) /\ Len(fetches') = Len(fetches) - 1
    BY <1>1, FetchTakenOut
<1>4. PaneTypes'
    BY <1>1, <1>3 DEF PaneInv, PaneTypes
<1>5. TokenTypes' /\ \A t \in Token \cup {NoToken} : Known(t) => Known(t)'
    BY <1>1 DEF PaneInv, TokenTypes, tokenVars, Known
<1>6. \A n \in Slot : Connecting(n)' => Connecting(n) /\ sockets'[n] = sockets[n]
    BY <1>1 DEF Connecting
<1>7. OneHolder'
    BY <1>2, <1>6, FewerHolders DEF PaneInv
<1>8. HeldAreKnown'
    BY <1>2, <1>5, <1>6, FewerAreKnown DEF PaneInv
<1>9. FetchIsAlone'
    <2>1. SUFFICES ASSUME ~overtaken
                   PROVE  fetches' = <<>>
        BY <1>1 DEF FetchIsAlone
    <2>2. fetches # <<>> /\ Len(fetches) \in Nat
        BY PlaceFacts DEF PaneInv, PaneTypes
    <2>3. Len(fetches) = 1
        BY <2>1, <2>2 DEF PaneInv, FetchIsAlone
    <2> QED
        BY <1>3, <2>3, EmptySeq
<1>10. SocketIsLive' /\ StraySocketWasOvertaken' /\ HeaderHasAReason'
    BY <1>1 DEF PaneInv, SocketIsLive, Live, StraySocketWasOvertaken, HeaderHasAReason
<1> QED
    BY <1>4, <1>5, <1>7, <1>8, <1>9, <1>10 DEF PaneInv

\* The answer to a fetch makes a socket: it holds what the fetch held.
LEMMA TokenArrivesStep ==
    ASSUME PaneInv, NEW i \in DOMAIN fetches, TokenArrives(i)
    PROVE  PaneInv'
<1> DEFINE new == [state |-> "connecting", session |-> target, token |-> fetches[i].token]
           free == {n \in Slot : sockets[n] = Closed}
<1>1. /\ free # {} /\ ws' = Min(free) /\ sockets' = [sockets EXCEPT ![ws'] = new]
      /\ fetches' = RemoveAt(fetches, i)
      /\ UNCHANGED <<mounted, target, connected, connecting, overtaken, tokenVars>>
    BY DEF TokenArrives, flags
<1>2. /\ NoSocket \notin Slot /\ Slot \subseteq Nat /\ Len(fetches) \in Nat
      /\ DOMAIN fetches = 1 .. Len(fetches) /\ fetches[i] \in Fetch
    BY PlaceFacts DEF PaneInv
<1>3. ws' \in Slot /\ sockets[ws'] = Closed
    <2>1. free \in SUBSET Nat
        BY <1>2
    <2> HIDE DEF free
    <2>2. ws' \in free
        BY <1>1, <2>1, MinFacts
    <2> QED
        BY <2>2 DEF free
<1>4. new \in Socket /\ new.state = "connecting" /\ new.token = fetches[i].token
          /\ new.session = target
    BY <1>2 DEF Socket, Fetch, PaneInv, PaneTypes
<1> HIDE DEF new, free
<1>5. PICK at : /\ \A j \in DOMAIN fetches' :
                     at[j] \in DOMAIN fetches /\ at[j] # i /\ fetches'[j] = fetches[at[j]]
               /\ \A j, k \in DOMAIN fetches' : j # k => at[j] # at[k]
    BY <1>1, FetchTakenOut
<1>6. fetches' \in Seq(Fetch) /\ Len(fetches') = Len(fetches) - 1
    BY <1>1, FetchTakenOut
<1>7. sockets \in [Slot -> Socket]
    BY DEF PaneInv, PaneTypes
<1>8. sockets'[ws'] = new /\ \A n \in Slot : n # ws' => sockets'[n] = sockets[n]
    BY <1>1, <1>3, <1>7
<1>9. PaneTypes'
    BY <1>1, <1>3, <1>4, <1>6, <1>7 DEF PaneInv, PaneTypes
<1>10. TokenTypes' /\ \A t : Known(t) => Known(t)'
    BY <1>1 DEF PaneInv, TokenTypes, tokenVars, Known
<1>11. SocketIsLive'
    BY <1>4, <1>8 DEF SocketIsLive, Live
<1>12. ~overtaken => /\ fetches' = <<>> /\ mounted
                     /\ \A n \in Slot : n # ws' => ~Live(n)'
    <2>1. SUFFICES ASSUME ~overtaken
                   PROVE  fetches' = <<>> /\ mounted /\ \A n \in Slot : n # ws' => ~Live(n)'
        OBVIOUS
    <2>2. fetches # <<>>
        BY <1>2
    <2>3. Len(fetches) = 1 /\ mounted /\ \A n \in Slot : ~Live(n)
        BY <2>1, <2>2 DEF PaneInv, FetchIsAlone
    <2>4. fetches' = <<>>
        BY <1>6, <2>3, EmptySeq
    <2> QED
        BY <1>8, <2>3, <2>4 DEF Live
<1>13. FetchIsAlone' /\ StraySocketWasOvertaken'
    BY <1>1, <1>4, <1>8, <1>12 DEF FetchIsAlone, StraySocketWasOvertaken
<1>14. HeaderHasAReason'
    <2>1. sockets'[ws'].state = "connecting"
        BY <1>4, <1>8
    <2>2. \A n \in Slot : sockets[n].state = "open" => sockets'[n].state = "open"
        BY <1>3, <1>8 DEF Closed
    <2> QED
        BY <1>1, <1>3, <2>1, <2>2 DEF PaneInv, HeaderHasAReason
<1>15. \A n \in Slot : Connecting(n)' => n = ws' \/ (Connecting(n) /\ sockets'[n] = sockets[n])
    BY <1>8 DEF Connecting
<1>16. sockets'[ws'].token = fetches[i].token
    BY <1>4, <1>8
<1>17. OneHolder'
    <2>1. ASSUME NEW j \in DOMAIN fetches', NEW k \in DOMAIN fetches',
                 j # k, fetches'[j].token # NoToken
          PROVE  fetches'[j].token # fetches'[k].token
        BY <1>5, <2>1 DEF PaneInv, OneHolder
    <2>2. ASSUME NEW j \in DOMAIN fetches', NEW n \in Slot, Connecting(n)',
                 fetches'[j].token # NoToken
          PROVE  fetches'[j].token # sockets'[n].token
        <3>1. at[j] \in DOMAIN fetches /\ at[j] # i /\ fetches'[j] = fetches[at[j]]
            BY <1>5
        <3> QED
            BY <1>15, <1>16, <2>2, <3>1 DEF PaneInv, OneHolder
    <2>3. ASSUME NEW m \in Slot, NEW n \in Slot, Connecting(m)', Connecting(n)', m # n,
                 sockets'[m].token # NoToken
          PROVE  sockets'[m].token # sockets'[n].token
        BY <1>15, <1>16, <2>3 DEF PaneInv, OneHolder
    <2> QED
        BY <2>1, <2>2, <2>3 DEF OneHolder
<1>18. HeldAreKnown'
    <2>1. ASSUME NEW j \in DOMAIN fetches', NEW t, t = fetches'[j].token
          PROVE  Known(t)'
        BY <1>5, <1>10, <2>1 DEF PaneInv, HeldAreKnown
    <2>2. ASSUME NEW n \in Slot, Connecting(n)', NEW t, t = sockets'[n].token
          PROVE  Known(t)'
        BY <1>10, <1>15, <1>16, <2>2 DEF PaneInv, HeldAreKnown
    <2> QED
        BY <2>1, <2>2 DEF HeldAreKnown
<1> QED
    BY <1>9, <1>10, <1>11, <1>13, <1>14, <1>17, <1>18 DEF PaneInv

\* A socket ends, live or not (Terminal.svelte ws.onclose, ws.onerror).
LEMMA SocketEndsStep ==
    ASSUME PaneInv, NEW n \in Slot, SocketCloses(n) \/ ClosedSocketEnds(n)
    PROVE  PaneInv'
<1>1. /\ sockets' = [sockets EXCEPT ![n] = Closed]
      /\ UNCHANGED <<mounted, target, fetches, overtaken, tokenVars>>
    BY DEF SocketCloses, ClosedSocketEnds
<1>2. \/ Live(n) /\ ws' = NoSocket /\ connected' = FALSE /\ connecting' = FALSE
      \/ ~Live(n) /\ ws' = ws /\ connected' \in {FALSE, connected}
               /\ connecting' \in {FALSE, connecting}
    BY DEF SocketCloses, ClosedSocketEnds, ShowClosed, Live, flags
<1>3. sockets \in [Slot -> Socket] /\ Closed \in Socket /\ Closed.state = "closed"
    BY DEF PaneInv, PaneTypes, Socket, Closed
<1>4. sockets'[n] = Closed /\ \A m \in Slot : m # n => sockets'[m] = sockets[m]
    BY <1>1, <1>3
<1>5. PaneTypes'
    BY <1>1, <1>2, <1>3 DEF PaneInv, PaneTypes
<1>6. TokenTypes' /\ \A t \in Token \cup {NoToken} : Known(t) => Known(t)'
    BY <1>1 DEF PaneInv, TokenTypes, tokenVars, Known
<1>7. \A m \in Slot : Live(m)' => Live(m) /\ m # n /\ sockets'[m] = sockets[m]
    BY <1>3, <1>4 DEF Live
<1>8. \A m \in Slot : Connecting(m)' => Connecting(m) /\ sockets'[m] = sockets[m]
    BY <1>7 DEF Live, Connecting
<1>9. OneHolder' /\ HeldAreKnown'
    BY <1>1, <1>5, <1>6, <1>8, SocketStep
<1>10. SocketIsLive'
    <2>1. ASSUME NEW m \in Slot, m = ws'
          PROVE  Live(m)'
        <3>1. m = ws /\ Live(m) /\ m # n
            BY <1>2, <2>1, PlaceFacts DEF PaneInv, SocketIsLive
        <3> QED
            BY <1>4, <3>1 DEF Live
    <2> QED
        BY <2>1 DEF SocketIsLive
<1>11. FetchIsAlone'
    BY <1>1, <1>7 DEF PaneInv, FetchIsAlone
<1>12. StraySocketWasOvertaken'
    BY <1>1, <1>2, <1>7 DEF PaneInv, StraySocketWasOvertaken
<1>13. HeaderHasAReason'
    <2>1. CASE Live(n)
        BY <1>2, <2>1 DEF HeaderHasAReason
    <2>2. CASE ~Live(n)
        <3>1. \A m \in Slot : Live(m) => sockets'[m] = sockets[m]
            BY <1>4, <2>2
        <3>2. connected' => \E m \in Slot : sockets'[m].state = "open"
            <4>1. connected' => connected
                BY <1>2, <2>2
            <4>2. \A m \in Slot : sockets[m].state = "open" => sockets'[m].state = "open"
                BY <3>1 DEF Live
            <4> QED
                BY <4>1, <4>2 DEF PaneInv, HeaderHasAReason
        <3>3. connecting' => \/ fetches' # <<>>
                             \/ \E m \in Slot : sockets'[m].state = "connecting"
            <4>1. connecting' => connecting
                BY <1>2, <2>2
            <4>2. \A m \in Slot : sockets[m].state = "connecting" => sockets'[m].state = "connecting"
                BY <3>1 DEF Live
            <4> QED
                BY <1>1, <4>1, <4>2 DEF PaneInv, HeaderHasAReason
        <3> QED
            BY <3>2, <3>3 DEF HeaderHasAReason
    <2> QED
        BY <2>1, <2>2
<1> QED
    BY <1>5, <1>6, <1>9, <1>10, <1>11, <1>12, <1>13 DEF PaneInv

\* A fetch has its answer: the token it had, or one issued for it.
LEMMA FetchAnsweredStep ==
    ASSUME PaneInv, NEW i \in DOMAIN fetches, NEW f \in Fetch,
           fetches' = [fetches EXCEPT ![i] = f],
           UNCHANGED <<mounted, target, ws, sockets, connected, connecting, overtaken>>,
           TokenTypes', \A t \in Token \cup {NoToken} : Known(t) => Known(t)',
           f.token = fetches[i].token \/ (f.token > issued /\ \A t : t = f.token => Known(t)')
    PROVE  PaneInv'
<1>1. UNCHANGED <<mounted, target, ws, sockets, connected, connecting, overtaken>>
    OBVIOUS
<1>2. /\ fetches \in Seq(Fetch) /\ Len(fetches) \in Nat /\ DOMAIN fetches = 1 .. Len(fetches)
      /\ \A j \in DOMAIN fetches : fetches[j] \in Fetch
    BY PlaceFacts DEF PaneInv, PaneTypes
<1>3. /\ fetches' = [fetches EXCEPT ![i] = f] /\ f \in Fetch /\ TokenTypes'
      /\ \A t \in Token \cup {NoToken} : Known(t) => Known(t)'
    OBVIOUS
<1>4. /\ fetches' \in Seq(Fetch) /\ Len(fetches') = Len(fetches)
      /\ fetches'[i] = f /\ \A j \in DOMAIN fetches : j # i => fetches'[j] = fetches[j]
      /\ DOMAIN fetches' = DOMAIN fetches
    BY <1>2, <1>3, ExceptSeq
<1>5. fetches # <<>> /\ fetches' # <<>>
    BY <1>2, <1>4, EmptySeq
<1>6. PaneTypes'
    BY <1>1, <1>4 DEF PaneInv, PaneTypes
<1>7. SocketIsLive' /\ StraySocketWasOvertaken' /\ FetchIsAlone' /\ HeaderHasAReason'
    BY <1>1, <1>4, <1>5
       DEF PaneInv, SocketIsLive, StraySocketWasOvertaken, FetchIsAlone, HeaderHasAReason, Live
<1>8. \A n \in Slot : Connecting(n) <=> Connecting(n)'
    BY <1>1 DEF Connecting
<1>9. CASE f.token = fetches[i].token
    <2>1. \A j \in DOMAIN fetches : fetches'[j].token = fetches[j].token
        BY <1>4, <1>9
    <2>2. OneHolder'
        BY <1>1, <1>4, <1>8, <2>1 DEF PaneInv, OneHolder
    <2> DEFINE at == [j \in DOMAIN fetches |-> j]
    <2>3. \A j \in DOMAIN fetches' : fetches'[j].token # NoToken =>
              at[j] \in DOMAIN fetches /\ fetches'[j].token = fetches[at[j]].token
        BY <1>4, <2>1
    <2> HIDE DEF at
    <2>4. HeldAreKnown'
        BY <1>1, <1>3, <1>8, <2>3, FewerAreKnown DEF PaneInv
    <2> QED
        BY <1>3, <1>6, <1>7, <2>2, <2>4 DEF PaneInv
<1>10. CASE f.token > issued /\ \A t : t = f.token => Known(t)'
    <2>1. /\ \A j \in DOMAIN fetches : fetches[j].token # NoToken => fetches[j].token # f.token
          /\ \A n \in Slot : Connecting(n) /\ sockets[n].token # NoToken => sockets[n].token # f.token
        <3>1. ASSUME NEW t \in Token \cup {NoToken}, t # NoToken, Known(t)
              PROVE  t # f.token
            <4>1. t \in Nat /\ issued \in Nat /\ t <= issued
                BY <3>1 DEF Known, Token, PaneInv, TokenTypes
            <4> QED
                BY <1>10, <4>1
        <3>2. \A j \in DOMAIN fetches : fetches[j].token \in Token \cup {NoToken}
            BY <1>2 DEF Fetch
        <3>3. \A n \in Slot : Connecting(n) => sockets[n].token \in Token \cup {NoToken}
            BY SocketFacts DEF PaneInv, Connecting
        <3> QED
            BY <3>1, <3>2, <3>3 DEF PaneInv, HeldAreKnown
    <2>2. f.token # NoToken
        BY <1>3, <1>10 DEF NoToken, Fetch, Token, PaneInv, TokenTypes
    <2>3. OneHolder'
        BY <1>1, <1>4, <1>8, <2>1, <2>2 DEF PaneInv, OneHolder
    <2>4. HeldAreKnown'
        <3>1. ASSUME NEW j \in DOMAIN fetches', NEW t, t = fetches'[j].token
              PROVE  Known(t)'
            <4>1. CASE j = i
                BY <1>4, <1>10, <3>1, <4>1
            <4>2. CASE j # i
                <5>1. t = fetches[j].token /\ fetches[j] \in Fetch /\ Known(t)
                    BY <1>2, <1>4, <3>1, <4>2 DEF PaneInv, HeldAreKnown
                <5> QED
                    BY <1>3, <5>1 DEF Fetch
            <4> QED
                BY <4>1, <4>2
        <3>2. ASSUME NEW n \in Slot, Connecting(n)', NEW t, t = sockets'[n].token
              PROVE  Known(t)'
            <4>1. Connecting(n) /\ t = sockets[n].token /\ Known(t)
                BY <1>1, <1>8, <3>2 DEF PaneInv, HeldAreKnown
            <4>2. t \in Token \cup {NoToken}
                BY <4>1, SocketFacts DEF PaneInv, Connecting
            <4> QED
                BY <1>3, <4>1, <4>2
        <3> QED
            BY <3>1, <3>2 DEF HeldAreKnown
    <2> QED
        BY <1>3, <1>6, <1>7, <2>3, <2>4 DEF PaneInv
<1> QED
    BY <1>9, <1>10

\* The server answers a fetch (auth.js, GET /api/ws-token).
LEMMA TokenRequestStep ==
    ASSUME PaneInv, NEW i \in DOMAIN fetches, TokenRequestArrives(i)
    PROVE  PaneInv'
<1>1. UNCHANGED <<mounted, target, ws, sockets, connected, connecting, overtaken>>
    BY DEF TokenRequestArrives, flags
<1>2. fetches[i] \in Fetch
    BY PlaceFacts DEF PaneInv
<1>3. CASE Generate /\ fetches' = [fetches EXCEPT ![i] = [stage |-> "answered", token |-> issued']]
    <2> DEFINE f == [stage |-> "answered", token |-> issued']
    <2>1. /\ TokenTypes' /\ issued' = issued + 1 /\ issued' \in Token
          /\ \A t \in Token \cup {NoToken} : Known(t) \/ t = issued' => Known(t)'
        BY <1>3, GenerateFacts DEF PaneInv
    <2>2. f \in Fetch /\ f.token = issued' /\ f.token > issued
        BY <2>1 DEF Fetch, PaneInv, TokenTypes
    <2>3. fetches' = [fetches EXCEPT ![i] = f]
        BY <1>3
    <2> HIDE DEF f
    <2>4. \A t : t = f.token => Known(t)'
        BY <2>1, <2>2
    <2> QED
        BY <1>1, <2>1, <2>2, <2>3, <2>4, FetchAnsweredStep
<1>4. CASE UNCHANGED tokenVars /\ fetches' = [fetches EXCEPT ![i].stage = "answered"]
    <2> DEFINE f == [fetches[i] EXCEPT !.stage = "answered"]
    <2>1. f \in Fetch /\ f.token = fetches[i].token
        BY <1>2 DEF Fetch
    <2>2. fetches' = [fetches EXCEPT ![i] = f]
        BY <1>4
    <2> HIDE DEF f
    <2>3. TokenTypes' /\ \A t \in Token \cup {NoToken} : Known(t) => Known(t)'
        BY <1>4 DEF PaneInv, TokenTypes, tokenVars, Known
    <2> QED
        BY <1>1, <2>1, <2>2, <2>3, FetchAnsweredStep
<1> QED
    BY <1>3, <1>4 DEF TokenRequestArrives

\* The upgrade of a socket uses its token up (ws-utils.js validate).
LEMMA SocketOpensStep ==
    ASSUME PaneInv, NEW n \in Slot, SocketOpens(n)
    PROVE  PaneInv'
<1> DEFINE s == [sockets[n] EXCEPT !.state = "open", !.token = NoToken]
<1>1. /\ Connecting(n) /\ Validate(sockets[n].token)
      /\ sockets' = [sockets EXCEPT ![n] = s]
      /\ connected' = TRUE /\ connecting' = FALSE
      /\ UNCHANGED <<mounted, target, ws, fetches, overtaken>>
    BY DEF SocketOpens, Connecting
<1>2. sockets[n] \in [state : {"connecting", "open", "aborted", "closing"},
                      session : Session, token : Token \cup {NoToken}]
    BY <1>1, SocketFacts DEF PaneInv, Connecting
<1>3. s \in Socket /\ s.state = "open" /\ s.session = sockets[n].session
    BY <1>2 DEF Socket
<1> HIDE DEF s
<1>4. sockets \in [Slot -> Socket]
    BY DEF PaneInv, PaneTypes
<1>5. sockets'[n] = s /\ \A m \in Slot : m # n => sockets'[m] = sockets[m]
    BY <1>1, <1>4
<1>6. PaneTypes'
    BY <1>1, <1>3, <1>4 DEF PaneInv, PaneTypes
<1>7. TokenTypes' /\ \A t \in Token \cup {NoToken} :
                        t # sockets[n].token /\ Known(t) => Known(t)'
    BY <1>1, ValidateFacts DEF PaneInv
<1>8. \A m \in Slot : /\ Live(m) <=> Live(m)'
                      /\ sockets'[m].session = sockets[m].session \/ ~Live(m)
    BY <1>1, <1>3, <1>5 DEF Live, Connecting
<1>9. SocketIsLive' /\ FetchIsAlone' /\ StraySocketWasOvertaken'
    <2>1. SocketIsLive'
        BY <1>1, <1>8 DEF PaneInv, PaneTypes, SocketIsLive
    <2> QED
        BY <1>1, <1>8, <2>1 DEF PaneInv, FetchIsAlone, StraySocketWasOvertaken
<1>10. HeaderHasAReason'
    BY <1>1, <1>3, <1>5 DEF HeaderHasAReason
<1>11. \A m \in Slot : Connecting(m)' => m # n /\ Connecting(m) /\ sockets'[m] = sockets[m]
    BY <1>3, <1>5 DEF Connecting
<1>12. OneHolder'
    <2> DEFINE at == [j \in DOMAIN fetches |-> j]
    <2>1. \A j \in DOMAIN fetches' : fetches'[j].token # NoToken =>
              at[j] \in DOMAIN fetches /\ fetches'[j].token = fetches[at[j]].token
        BY <1>1
    <2>2. \A j, k \in DOMAIN fetches' : j # k => at[j] # at[k]
        BY <1>1
    <2> HIDE DEF at
    <2> QED
        BY <1>11, <2>1, <2>2, FewerHolders DEF PaneInv
<1>13. HeldAreKnown'
    <2>1. ASSUME NEW j \in DOMAIN fetches', NEW t, t = fetches'[j].token
          PROVE  Known(t)'
        <3>1. t = fetches[j].token /\ j \in DOMAIN fetches /\ Known(t)
            BY <1>1, <2>1 DEF PaneInv, HeldAreKnown
        <3>2. t \in Token \cup {NoToken}
            BY <3>1, PlaceFacts DEF PaneInv, Fetch
        <3>3. t # NoToken => t # sockets[n].token
            BY <1>1, <3>1 DEF PaneInv, OneHolder
        <3> QED
            BY <1>7, <3>1, <3>2, <3>3 DEF Known
    <2>2. ASSUME NEW m \in Slot, Connecting(m)', NEW t, t = sockets'[m].token
          PROVE  Known(t)'
        <3>1. m # n /\ Connecting(m) /\ t = sockets[m].token /\ Known(t)
            BY <1>11, <2>2 DEF PaneInv, HeldAreKnown
        <3>2. t \in Token \cup {NoToken}
            BY <3>1, SocketFacts DEF PaneInv, Connecting
        <3>3. t # NoToken => t # sockets[n].token
            BY <1>1, <3>1 DEF PaneInv, OneHolder
        <3> QED
            BY <1>7, <3>1, <3>2, <3>3 DEF Known
    <2> QED
        BY <2>1, <2>2 DEF HeldAreKnown
<1> QED
    BY <1>6, <1>7, <1>9, <1>10, <1>12, <1>13 DEF PaneInv

\* The steps that disconnect, or had no socket, and then connect
\* (Terminal.svelte finishInit, its effects and reconnectTerminal).
LEMMA PaneConnectsStep ==
    ASSUME PaneInv,
           FinishInit \/ (\E s \in Session : ChangeSession(s)) \/ ReconnectTerminal
    PROVE  PaneInv'
<1>1. CASE FinishInit
    <2>1. /\ mounted /\ Connect(ws)
          /\ UNCHANGED <<mounted, target, ws, sockets, connected, tokenVars>>
        BY <1>1 DEF FinishInit
    <2>2. CASE ws = NoSocket
        <3>1. ws' = NoSocket /\ mounted' = TRUE /\ Connect(NoSocket)
            BY <2>1, <2>2 DEF PaneInv, PaneTypes
        <3>2. sockets' \in [Slot -> Socket] /\ target' \in Session /\ connected' \in BOOLEAN
            BY <2>1 DEF PaneInv, PaneTypes
        <3>3. \A n \in Slot : Live(n)' => n # ws /\ sockets'[n] = sockets[n]
            BY <2>1, <2>2, PlaceFacts DEF PaneInv
        <3> QED
            BY <2>1, <3>1, <3>2, <3>3, ConnectStep
    <2>3. CASE ws # NoSocket
        <3>1. UNCHANGED <<mounted, target, ws, sockets, fetches, connected, connecting,
                          overtaken, tokenVars>>
            BY <2>1, <2>3 DEF Connect
        <3> QED
            BY <3>1 DEF PaneInv, PaneTypes, TokenTypes, SocketIsLive, FetchIsAlone, Live,
                        HeaderHasAReason, StraySocketWasOvertaken, OneHolder, HeldAreKnown,
                        Known, Connecting, tokenVars
    <2> QED
        BY <2>2, <2>3
<1>2. CASE (\E s \in Session : ChangeSession(s)) \/ ReconnectTerminal
    <2>1. /\ mounted /\ Disconnect /\ Connect(NoSocket)
          /\ UNCHANGED <<mounted, tokenVars>> /\ target' \in Session
        BY <1>2 DEF ChangeSession, ReconnectTerminal, PaneInv, PaneTypes
    <2>2. /\ ws' = NoSocket /\ connected' = FALSE
          /\ sockets' \in [Slot -> Socket]
          /\ \A n \in Slot : Live(n)' => n # ws /\ sockets'[n] = sockets[n]
        BY <2>1, DisconnectFacts
    <2>3. mounted' = TRUE
        BY <2>1 DEF PaneInv, PaneTypes
    <2> QED
        BY <2>1, <2>2, <2>3, ConnectStep
<1> QED
    BY <1>1, <1>2

\* A step in which at most time passes for the pane.
LEMMA PaneRestsStep ==
    ASSUME PaneInv, UNCHANGED paneVars, TokenTypes',
           \A t \in Token \cup {NoToken} : Known(t) => Known(t)'
    PROVE  PaneInv'
<1>1. UNCHANGED <<mounted, target, ws, sockets, fetches, connected, connecting, overtaken>>
    BY DEF paneVars, flags
<1>2. PaneTypes' /\ SocketIsLive' /\ FetchIsAlone' /\ HeaderHasAReason' /\ StraySocketWasOvertaken'
    BY <1>1 DEF PaneInv, PaneTypes, SocketIsLive, FetchIsAlone, HeaderHasAReason,
                StraySocketWasOvertaken, Live
<1>3. \A n \in Slot : Connecting(n)' => Connecting(n) /\ sockets'[n] = sockets[n]
    BY <1>1 DEF Connecting
<1>4. OneHolder' /\ HeldAreKnown'
    BY <1>1, <1>2, <1>3, SocketStep
<1> QED
    BY <1>2, <1>4 DEF PaneInv

\* Every step of the pane and of the server.
LEMMA PaneInvStep == PaneInv /\ [Next]_vars => PaneInv'
<1> SUFFICES ASSUME PaneInv, [Next]_vars
             PROVE  PaneInv'
    OBVIOUS
<1>1. CASE Logout \/ Login \/ UNCHANGED vars
    <2>1. UNCHANGED paneVars /\ UNCHANGED tokenVars
        BY <1>1 DEF Logout, Login, vars
    <2>2. TokenTypes' /\ \A t \in Token \cup {NoToken} : Known(t) => Known(t)'
        BY <2>1 DEF PaneInv, TokenTypes, tokenVars, Known
    <2> QED
        BY <2>1, <2>2, PaneRestsStep
<1>2. CASE Tick
    <2>1. UNCHANGED paneVars /\ TokensAge
        BY <1>2 DEF Tick
    <2> QED
        BY <2>1, TokensAgeFacts, PaneRestsStep DEF PaneInv
<1> QED
    BY <1>1, <1>2, PaneConnectsStep, DestroyStep, TokenArrivesStep, FetchFailsStep,
       TokenRequestStep, SocketEndsStep, SocketOpensStep DEF Next

\* A pane that was just created.
LEMMA PaneInvInit == Init => PaneInv
<1> SUFFICES ASSUME Init
             PROVE  PaneInv
    OBVIOUS
<1>1. /\ tokens = {} /\ tokenAge = [t \in Token |-> 0] /\ issued = 0
      /\ mounted = TRUE /\ target \in Session /\ ws = NoSocket
      /\ sockets = [n \in Slot |-> Closed] /\ fetches = <<>>
      /\ connected = FALSE /\ connecting = FALSE /\ overtaken = FALSE
    BY DEF Init, TokensInit
<1>2. PaneTypes
    BY <1>1, EmptySeq DEF PaneTypes, Socket
<1>3. TokenTypes
    BY <1>1, TokenAssumption DEF TokenTypes
<1>4. DOMAIN fetches = {}
    BY <1>1, EmptySeq
<1>5. \A n \in Slot : sockets[n].state = "closed"
    BY <1>1 DEF Closed
<1>6. SocketIsLive /\ FetchIsAlone /\ HeaderHasAReason /\ StraySocketWasOvertaken
    BY <1>1, <1>2, <1>5, PlaceFacts
       DEF SocketIsLive, FetchIsAlone, HeaderHasAReason, StraySocketWasOvertaken, Live
<1>7. OneHolder /\ HeldAreKnown
    BY <1>4, <1>5 DEF OneHolder, HeldAreKnown, Connecting
<1> QED
    BY <1>2, <1>3, <1>6, <1>7 DEF PaneInv

\* The invariant holds in every state.
LEMMA PaneInvHolds == Spec => []PaneInv
BY PaneInvInit, PaneInvStep, PTL DEF Spec

\* A pane shown as live has an open socket, and one shown as connecting a fetch or a
\* handshake whose end will change it (Terminal.svelte, connect and its handlers).
THEOREM HeadersHaveReasons == Spec => []HeaderHasAReason
<1>1. PaneInv => HeaderHasAReason
    BY DEF PaneInv
<1> QED
    BY <1>1, PaneInvHolds, PTL

\* As long as no connect was overtaken during its fetch, the only live socket is the one
\* that the pane knows (Terminal.svelte, connect and disconnect).
THEOREM StraySocketsWereOvertaken == Spec => []StraySocketWasOvertaken
<1>1. PaneInv => StraySocketWasOvertaken
    BY DEF PaneInv
<1> QED
    BY <1>1, PaneInvHolds, PTL

\* A token on its way to a socket is one the server still knows, unless it has expired
\* or as many newer ones as the map can hold pushed it out (ws-utils.js).
THEOREM HeldTokensAreKnown == Spec => []HeldTokenIsKnown
<1>1. PaneInv => HeldTokenIsKnown
    BY DEF PaneInv, HeldTokenIsKnown, HeldAreKnown, Known, Connecting
<1> QED
    BY <1>1, PaneInvHolds, PTL

-----------------------------------------------------------------------------
(***************************************************************************)
(* The size of a terminal (TerminalSize), for every set of sizes.          *)
(***************************************************************************)

SizeTypes ==
    /\ boxSize \in Box /\ termSize \in Box
    /\ wire \in Seq(Box)
    /\ sizeLink \in {"none", "fetching", "connecting", "open"}
    /\ refit \in BOOLEAN /\ suppressed \in BOOLEAN /\ limited \in BOOLEAN /\ missedSize \in BOOLEAN

\* Nothing is on its way without a connection, and the size that was applied is
\* that of the PTY.
OnlyWhileOpen ==
    /\ sizeLink # "open" => wire = <<>> /\ pendingSize = NoSize
    /\ appliedSize # NoSize => ptySize = appliedSize

\* What the size of the PTY will be when all is done that is under way.
SizeToCome ==
    IF wire # <<>> THEN Normalize(wire[Len(wire)])
    ELSE IF pendingSize # NoSize THEN pendingSize ELSE ptySize

PaneIsFitted == ~missedSize /\ ~refit => termSize = boxSize

SizeIsOnItsWay ==
    /\ ~missedSize /\ sizeLink = "connecting" => urlSize = termSize
    /\ ~missedSize /\ sizeLink = "open" =>
          lastSize = termSize /\ SizeToCome = Normalize(termSize)

SizesInv == SizeTypes /\ OnlyWhileOpen /\ PaneIsFitted /\ SizeIsOnItsWay

-----------------------------------------------------------------------------
\* A size that is applied is never that of a PTY that is not there.
LEMMA NormalizeFacts ==
    ASSUME NEW size \in Nat
    PROVE  Normalize(size) # NoSize
<1>1. MinSize \in Nat \ {0} /\ MaxSize \in Nat
    BY SizeAssumption
<1> DEFINE m == Min({MaxSize, size})
<1>2. m \in Nat
    BY <1>1, MinFacts
<1> HIDE DEF m
<1>3. \E x \in {MinSize, m} : \A y \in {MinSize, m} : x >= y
    BY <1>1, <1>2
<1>4. Max({MinSize, m}) \in {MinSize, m} /\ Max({MinSize, m}) >= MinSize
    BY <1>3 DEF Max
<1> QED
    BY <1>1, <1>2, <1>4 DEF Normalize, m, NoSize

\* After a resize is appended, it is what will come.
LEMMA SendStep ==
    ASSUME SizesInv, NEW size \in Box, wire' = Append(wire, size)
    PROVE  wire' \in Seq(Box) /\ wire' # <<>> /\ SizeToCome' = Normalize(size)
<1>1. /\ wire \in Seq(Box) /\ Len(wire) \in Nat
    BY LenProperties DEF SizesInv, SizeTypes
<1>2. wire' \in Seq(Box) /\ Len(wire') = Len(wire) + 1 /\ wire'[Len(wire')] = size
    BY <1>1, AppendProperties
<1>3. wire' # <<>>
    BY <1>1, <1>2
<1> QED
    BY <1>2, <1>3 DEF SizeToCome, Normalize

\* A step that leaves the server alone, and what is on its way to it.
LEMMA ServerRests ==
    ASSUME SizesInv, UNCHANGED <<wire, ptySize, appliedSize, pendingSize>>,
           sizeLink' # "open" => sizeLink # "open"
    PROVE  OnlyWhileOpen' /\ SizeToCome' = SizeToCome
BY DEF SizesInv, OnlyWhileOpen, SizeToCome, Normalize

\* The box of the pane changes.
LEMMA BoxStep ==
    ASSUME SizesInv, NEW size \in Box, BoxChanges(size)
    PROVE  SizesInv'
<1>1. /\ boxSize' = size
      /\ \/ missedSize' = (missedSize \/ ~refit) /\ refit' = refit
         \/ refit' = TRUE /\ missedSize' = missedSize
      /\ UNCHANGED <<termSize, lastSize, suppressed, quieting, limited, sizeLink, urlSize,
                     wire, serverSizeVars>>
    BY DEF BoxChanges
<1>2. OnlyWhileOpen' /\ SizeToCome' = SizeToCome
    BY <1>1, ServerRests DEF serverSizeVars
<1>3. SizeTypes'
    BY <1>1 DEF SizesInv, SizeTypes
<1>4. PaneIsFitted'
    BY <1>1 DEF SizesInv, SizeTypes, PaneIsFitted
<1>5. SizeIsOnItsWay'
    BY <1>1, <1>2 DEF SizesInv, SizeTypes, SizeIsOnItsWay, Normalize
<1> QED
    BY <1>2, <1>3, <1>4, <1>5 DEF SizesInv

\* The terminal is fitted to its box.
LEMMA RefitStep ==
    ASSUME SizesInv, RefitFires
    PROVE  SizesInv'
<1>1. /\ refit' = FALSE
      /\ UNCHANGED <<boxSize, suppressed, quieting, sizeLink, urlSize, serverSizeVars>>
    BY DEF RefitFires
<1>2. SizeTypes
    BY DEF SizesInv
<1>3. CASE suppressed
    <2>1. missedSize' = TRUE /\ UNCHANGED <<termSize, lastSize, limited, wire>>
        BY <1>3 DEF RefitFires
    <2>2. OnlyWhileOpen' /\ SizeTypes'
        BY <1>1, <1>2, <2>1, ServerRests DEF SizeTypes, serverSizeVars
    <2> QED
        BY <2>1, <2>2 DEF SizesInv, PaneIsFitted, SizeIsOnItsWay
<1>4. CASE ~suppressed
    <2>1. termSize' = boxSize /\ SendResize(boxSize)
        BY <1>4 DEF RefitFires
    <2>2. PaneIsFitted'
        BY <1>1, <2>1 DEF PaneIsFitted
    <2>3. CASE sizeLink = "open" /\ boxSize # lastSize /\ ~limited
        <3>1. wire' = Append(wire, boxSize) /\ lastSize' = boxSize /\ limited' = TRUE /\ missedSize' = FALSE
            BY <2>1, <2>3 DEF SendResize
        <3>2. wire' \in Seq(Box) /\ SizeToCome' = Normalize(boxSize)
            BY <1>2, <3>1, SendStep DEF SizeTypes
        <3>3. SizeTypes'
            BY <1>1, <1>2, <2>1, <3>1, <3>2 DEF SizeTypes
        <3>4. OnlyWhileOpen'
            BY <1>1, <2>3 DEF SizesInv, OnlyWhileOpen, serverSizeVars
        <3>5. SizeIsOnItsWay'
            BY <1>1, <2>1, <2>3, <3>1, <3>2 DEF SizeIsOnItsWay, Normalize
        <3> QED
            BY <2>2, <3>3, <3>4, <3>5 DEF SizesInv
    <2>4. CASE ~(sizeLink = "open" /\ boxSize # lastSize /\ ~limited)
        <3>1. /\ missedSize' = \/ missedSize
                               \/ sizeLink = "open" /\ boxSize # lastSize
                               \/ sizeLink = "connecting" /\ boxSize # urlSize
              /\ UNCHANGED <<wire, lastSize, limited>>
            BY <2>1, <2>4 DEF SendResize
        <3>2. OnlyWhileOpen' /\ SizeToCome' = SizeToCome
            BY <1>1, <3>1, ServerRests DEF serverSizeVars
        <3>3. SizeTypes'
            BY <1>1, <1>2, <2>1, <3>1 DEF SizeTypes
        <3>4. SizeIsOnItsWay'
            BY <1>1, <1>2, <2>1, <3>1, <3>2 DEF SizesInv, SizeTypes, SizeIsOnItsWay, Normalize
        <3> QED
            BY <2>2, <3>2, <3>3, <3>4 DEF SizesInv
    <2> QED
        BY <2>3, <2>4
<1> QED
    BY <1>2, <1>3, <1>4 DEF SizeTypes

\* Output comes or grows quiet, or the limit on resizes ends.
LEMMA PaneTimerStep ==
    ASSUME SizesInv, OutputComes \/ OutputQuiets \/ LimitEnds
    PROVE  SizesInv'
<1>1. /\ UNCHANGED <<boxSize, termSize, lastSize, refit, sizeLink, urlSize, wire,
                     serverSizeVars, missedSize>>
      /\ suppressed' \in BOOLEAN /\ limited' \in BOOLEAN
    BY DEF OutputComes, OutputQuiets, LimitEnds, SizesInv, SizeTypes
<1>2. OnlyWhileOpen' /\ SizeToCome' = SizeToCome
    BY <1>1, ServerRests DEF serverSizeVars
<1> QED
    BY <1>1, <1>2 DEF SizesInv, SizeTypes, PaneIsFitted, SizeIsOnItsWay, Normalize

\* The connection begins, opens, ends, and begins again.
LEMMA LinkStep ==
    ASSUME SizesInv, ConnectionStarts \/ ConnectionOpens \/ ConnectionEnds \/ SizeReconnects
    PROVE  SizesInv'
<1>1. CASE ConnectionStarts
    <2>1. /\ sizeLink' = "connecting" /\ sizeLink = "fetching" /\ urlSize' = termSize
          /\ UNCHANGED <<paneSizeVars, wire, serverSizeVars, missedSize>>
        BY <1>1 DEF ConnectionStarts
    <2>2. OnlyWhileOpen' /\ SizeToCome' = SizeToCome
        BY <2>1, ServerRests DEF serverSizeVars
    <2> QED
        BY <2>1, <2>2 DEF SizesInv, SizeTypes, PaneIsFitted, SizeIsOnItsWay, paneSizeVars
<1>2. CASE ConnectionOpens
    <2>1. /\ sizeLink' = "open" /\ sizeLink = "connecting" /\ lastSize' = termSize
          /\ ptySize' = Normalize(urlSize) /\ appliedSize' = NoSize
          /\ UNCHANGED <<boxSize, termSize, refit, suppressed, quieting, limited, urlSize, wire,
                         pendingSize, missedSize>>
        BY <1>2 DEF ConnectionOpens
    <2>2. wire = <<>> /\ pendingSize = NoSize
        BY <2>1 DEF SizesInv, OnlyWhileOpen
    <2>3. SizeToCome' = Normalize(urlSize)
        BY <2>1, <2>2 DEF SizeToCome
    <2>4. ~missedSize => urlSize = termSize
        BY <2>1 DEF SizesInv, SizeTypes, SizeIsOnItsWay
    <2>5. SizeIsOnItsWay'
        BY <2>1, <2>3, <2>4 DEF SizeIsOnItsWay, Normalize
    <2>6. OnlyWhileOpen' /\ SizeTypes' /\ PaneIsFitted'
        BY <2>1, <2>2 DEF SizesInv, SizeTypes, OnlyWhileOpen, PaneIsFitted
    <2> QED
        BY <2>5, <2>6 DEF SizesInv
<1>3. CASE ConnectionEnds
    <2>1. /\ sizeLink' = "none" /\ wire' = <<>> /\ appliedSize' = NoSize /\ pendingSize' = NoSize
          /\ UNCHANGED <<paneSizeVars, urlSize, missedSize>>
        BY <1>3 DEF ConnectionEnds
    <2> QED
        BY <2>1 DEF SizesInv, SizeTypes, OnlyWhileOpen, PaneIsFitted, SizeIsOnItsWay, paneSizeVars
<1>4. CASE SizeReconnects
    <2>1. /\ sizeLink' = "fetching" /\ wire' = <<>> /\ appliedSize' = NoSize /\ pendingSize' = NoSize
          /\ refit' = FALSE /\ missedSize' = (termSize # boxSize)
          /\ UNCHANGED <<boxSize, termSize, lastSize, suppressed, limited, urlSize>>
        BY <1>4 DEF SizeReconnects
    <2>2. OnlyWhileOpen' /\ PaneIsFitted' /\ SizeIsOnItsWay'
        BY <2>1 DEF OnlyWhileOpen, PaneIsFitted, SizeIsOnItsWay
    <2>3. missedSize' \in BOOLEAN
        BY <2>1
    <2>4. SizeTypes'
        <3>1. /\ sizeLink' = "fetching" /\ wire' = <<>> /\ refit' = FALSE
              /\ UNCHANGED <<boxSize, termSize, suppressed, limited>>
            BY <2>1
        <3>2. wire' \in Seq(Box)
            BY <3>1
        <3>3. boxSize' \in Box /\ termSize' \in Box
            BY <3>1 DEF SizesInv, SizeTypes
        <3>4. suppressed' \in BOOLEAN /\ limited' \in BOOLEAN
            BY <3>1 DEF SizesInv, SizeTypes
        <3> QED
            BY <2>3, <3>1, <3>2, <3>3, <3>4 DEF SizeTypes
    <2> QED
        BY <2>2, <2>4 DEF SizesInv
<1> QED
    BY <1>1, <1>2, <1>3, <1>4

\* The server takes a size.
LEMMA ServerTakesStep ==
    ASSUME SizesInv, ServerTakesResize
    PROVE  SizesInv'
<1> DEFINE size == Normalize(Head(wire))
<1>1. /\ wire # <<>> /\ wire' = Tail(wire)
      /\ \/ /\ size = appliedSize /\ missedSize' = (missedSize \/ pendingSize # NoSize)
            /\ pendingSize' = pendingSize
         \/ size # appliedSize /\ pendingSize' = size /\ missedSize' = missedSize
      /\ UNCHANGED <<paneSizeVars, sizeLink, urlSize, ptySize, appliedSize>>
    BY DEF ServerTakesResize, PendingAfter
<1>2. /\ wire \in Seq(Box) /\ Len(wire) \in Nat \ {0} /\ Head(wire) = wire[1] /\ wire[1] \in Box
    BY <1>1, LenProperties, EmptySeq, ElementOfSeq DEF SizesInv, SizeTypes
<1>3. /\ wire' \in Seq(Box) /\ Len(wire') = Len(wire) - 1
      /\ \A i \in 1 .. Len(wire') : wire'[i] = wire[i + 1]
    BY <1>1, <1>2, HeadTailProperties
<1>4. size # NoSize
    <2>1. Head(wire) \in Nat
        BY <1>2, SizeAssumption DEF Box, TooSmall
    <2> QED
        BY <2>1, NormalizeFacts
<1> HIDE DEF size
<1>5. SizeTypes'
    BY <1>1, <1>3 DEF SizesInv, SizeTypes, paneSizeVars
<1>6. sizeLink = "open"
    BY <1>1 DEF SizesInv, OnlyWhileOpen
<1>7. OnlyWhileOpen' /\ PaneIsFitted'
    BY <1>1, <1>6 DEF SizesInv, SizeTypes, OnlyWhileOpen, PaneIsFitted, paneSizeVars
<1>8. ~missedSize' => SizeToCome' = SizeToCome
    <2>1. SUFFICES ASSUME ~missedSize' PROVE SizeToCome' = SizeToCome
        OBVIOUS
    <2>2. CASE Len(wire) = 1
        <3>1. wire' = <<>>
            BY <1>3, <2>2, EmptySeq
        <3>2. SizeToCome = size
            BY <1>1, <1>2, <2>2 DEF SizeToCome, size
        <3>3. CASE size = appliedSize
            <4>1. pendingSize' = NoSize /\ ptySize' = size
                BY <1>1, <1>4, <2>1, <3>3 DEF SizesInv, OnlyWhileOpen
            <4> QED
                BY <3>1, <3>2, <4>1 DEF SizeToCome
        <3>4. CASE size # appliedSize
            <4>1. pendingSize' = size
                BY <1>1, <3>4
            <4> QED
                BY <1>4, <3>1, <3>2, <4>1 DEF SizeToCome
        <3> QED
            BY <3>3, <3>4
    <2>3. CASE Len(wire) # 1
        <3>1. Len(wire') \in 1 .. Len(wire') /\ Len(wire') + 1 = Len(wire)
            BY <1>2, <1>3, <2>3
        <3>2. wire'[Len(wire')] = wire[Len(wire)] /\ wire' # <<>>
            BY <1>3, <3>1
        <3> QED
            BY <1>1, <3>2 DEF SizeToCome, Normalize
    <2> QED
        BY <2>2, <2>3
<1>9. SizeIsOnItsWay'
    BY <1>1, <1>6, <1>8 DEF SizesInv, SizeTypes, SizeIsOnItsWay, paneSizeVars, Normalize
<1> QED
    BY <1>5, <1>7, <1>9 DEF SizesInv

\* The server resizes the PTY.
LEMMA ServerResizesStep ==
    ASSUME SizesInv, ServerResizes
    PROVE  SizesInv'
<1>1. /\ pendingSize # NoSize /\ ptySize' = pendingSize /\ appliedSize' = pendingSize
      /\ pendingSize' = NoSize
      /\ UNCHANGED <<paneSizeVars, sizeLink, urlSize, wire, missedSize>>
    BY DEF ServerResizes
<1>2. SizeToCome' = SizeToCome
    BY <1>1 DEF SizeToCome, Normalize
<1>3. SizeTypes' /\ OnlyWhileOpen' /\ PaneIsFitted'
    BY <1>1 DEF SizesInv, SizeTypes, OnlyWhileOpen, PaneIsFitted, paneSizeVars
<1>4. SizeIsOnItsWay'
    BY <1>1, <1>2 DEF SizesInv, SizeIsOnItsWay, paneSizeVars, Normalize
<1> QED
    BY <1>3, <1>4 DEF SizesInv

\* The invariant holds in every state.
LEMMA SizesInvHolds == SizeSpec => []SizesInv
<1>1. SizeInit => SizesInv
    <2>1. SUFFICES ASSUME SizeInit PROVE SizesInv
        OBVIOUS
    <2>2. wire \in Seq(Box)
        BY <2>1 DEF SizeInit
    <2> QED
        BY <2>1, <2>2 DEF SizeInit, SizesInv, SizeTypes, OnlyWhileOpen, PaneIsFitted, SizeIsOnItsWay
<1>2. SizesInv /\ [SizeNext]_sizeVars => SizesInv'
    <2>1. ASSUME SizesInv, SizeNext PROVE SizesInv'
        BY <2>1, BoxStep, RefitStep, PaneTimerStep, LinkStep, ServerTakesStep, ServerResizesStep DEF SizeNext
    <2>2. ASSUME SizesInv, UNCHANGED sizeVars PROVE SizesInv'
        <3>1. OnlyWhileOpen' /\ SizeToCome' = SizeToCome
            BY <2>2, ServerRests DEF sizeVars, serverSizeVars
        <3> QED
            BY <2>2, <3>1 DEF sizeVars, paneSizeVars, SizesInv, SizeTypes, PaneIsFitted, SizeIsOnItsWay, Normalize
    <2> QED
        BY <2>1, <2>2
<1> QED
    BY <1>1, <1>2, PTL DEF SizeSpec

\* When a connected pane, the network and the server have come to rest, and no
\* change of size was passed over, the terminal fills the pane and the program
\* in it has that size (Terminal.svelte, sendResize and the resize observer;
\* services/terminal.js, resizeTerminal).
THEOREM SizesAgreeAtRest == SizeSpec => []PtySizeFollowsBox
<1>1. SizesInv => PtySizeFollowsBox
    BY DEF SizesInv, SizeTypes, PaneIsFitted, SizeIsOnItsWay, SizeToCome, PtySizeFollowsBox
<1> QED
    BY <1>1, SizesInvHolds, PTL

-----------------------------------------------------------------------------
(***************************************************************************)
(* The list of sessions of all hosts (SessionList), for every set of hosts *)
(* and number of loads.                                                    *)
(***************************************************************************)

Load == [stage : {"local", "hosts", "remote"}, waiting : SUBSET RemoteHost, found : SUBSET RemoteHost]

ListTypes ==
    /\ listed \in [Host -> Nat]
    /\ hostErrors \subseteq Host /\ retries \subseteq Host
    /\ loads \in Seq(Load)

\* A load that is not overlapped is the only thing that is under way.
LoadIsAlone == ~overlapped => Len(loads) <= 1 /\ (Len(loads) = 1 => retries = {})

\* What the load has found is not listed yet, nor has it an error.
FoundAreNew ==
    ~overlapped => \A i \in DOMAIN loads :
        /\ loads[i].stage = "local" => hostErrors = {}
        /\ loads[i].stage # "local" =>
              \A h \in RemoteHost : listed[h] = 0
        /\ loads[i].stage = "hosts" => hostErrors \subseteq {Local}
        /\ loads[i].stage # "remote" => loads[i].waiting = {} /\ loads[i].found = {}
        /\ hostErrors \cap (loads[i].waiting \cup loads[i].found) = {}
        /\ loads[i].waiting \cap loads[i].found = {}

ListInv == ListTypes /\ LoadIsAlone /\ FoundAreNew /\ HostIsListedOnce

-----------------------------------------------------------------------------
\* The loads after one of them has moved on.
LEMMA LoadMoves ==
    ASSUME loads \in Seq(Load), NEW i \in DOMAIN loads, NEW load \in Load,
           loads' = [loads EXCEPT ![i] = load]
    PROVE  /\ loads' \in Seq(Load) /\ Len(loads') = Len(loads) /\ DOMAIN loads' = DOMAIN loads
           /\ loads'[i] = load
           /\ \A j \in DOMAIN loads : j # i => loads'[j] = loads[j]
BY ExceptSeq, LenProperties

\* The loads after one of them is over.
LEMMA LoadEnds ==
    ASSUME loads \in Seq(Load), NEW i \in DOMAIN loads, loads' = RemoveAt(loads, i)
    PROVE  /\ loads' \in Seq(Load) /\ Len(loads') = Len(loads) - 1
           /\ Len(loads) <= 1 => Len(loads') = 0 /\ DOMAIN loads' = {}
<1>1. Len(loads) \in Nat /\ i \in 1 .. Len(loads)
    BY LenProperties
<1>2. loads' \in Seq(Load) /\ Len(loads') = Len(loads) - 1
    BY <1>1, RemoveFacts
<1>3. DOMAIN loads' = 1 .. Len(loads')
    BY <1>2, LenProperties
<1> QED
    BY <1>1, <1>2, <1>3

\* A load of the list is begun.
LEMMA LoadStep ==
    ASSUME ListInv, LoadSessions
    PROVE  ListInv'
<1> DEFINE load == [stage |-> "local", waiting |-> {}, found |-> {}]
<1>1. /\ hostErrors' = {} /\ loads' = Append(loads, load)
      /\ overlapped' = (overlapped \/ loads # <<>> \/ retries # {})
      /\ UNCHANGED <<listed, retries>>
    BY DEF LoadSessions
<1>2. load \in Load /\ loads \in Seq(Load)
    BY DEF Load, ListInv, ListTypes
<1>3. loads' \in Seq(Load)
    BY <1>1, <1>2, AppendProperties
<1>4. ListTypes'
    BY <1>1, <1>3 DEF ListInv, ListTypes
<1>5. ASSUME ~overlapped'
      PROVE  ~overlapped /\ retries = {} /\ Len(loads') = 1 /\ DOMAIN loads' = {1} /\ loads'[1] = load
    <2>1. ~overlapped /\ loads = <<>> /\ retries = {}
        BY <1>1, <1>5
    <2>2. loads' = <<load>>
        BY <1>1, <2>1
    <2> QED
        BY <2>1, <2>2
<1>6. LoadIsAlone'
    BY <1>1, <1>5 DEF LoadIsAlone
<1>7. FoundAreNew'
    BY <1>1, <1>5 DEF FoundAreNew
<1>8. HostIsListedOnce'
    BY <1>1, <1>5 DEF ListInv, ListTypes, HostIsListedOnce
<1> QED
    BY <1>4, <1>6, <1>7, <1>8 DEF ListInv

\* The only load, when no other overlaps it.
LEMMA OnlyLoad ==
    ASSUME ListInv, ~overlapped, NEW i \in DOMAIN loads
    PROVE  Len(loads) = 1 /\ retries = {} /\ DOMAIN loads = {i}
<1>1. Len(loads) \in Nat /\ DOMAIN loads = 1 .. Len(loads) /\ Len(loads) <= 1
    BY LenProperties DEF ListInv, ListTypes, LoadIsAlone
<1>2. Len(loads) = 1 /\ i = 1
    BY <1>1
<1> QED
    BY <1>1, <1>2 DEF ListInv, LoadIsAlone

\* The sessions of this host were answered.
LEMMA LocalAnswersStep ==
    ASSUME ListInv, NEW i \in DOMAIN loads, LocalAnswers(i)
    PROVE  ListInv'
<1> DEFINE load == [loads[i] EXCEPT !.stage = "hosts"]
<1>1. /\ loads[i].stage = "local" /\ loads' = [loads EXCEPT ![i] = load]
      /\ UNCHANGED <<retries, overlapped>>
      /\ \/ listed' = OnceEach({Local}) /\ hostErrors' = hostErrors
         \/ listed' = OnceEach({}) /\ hostErrors' = hostErrors \cup {Local}
    BY DEF LocalAnswers
<1>2. load \in Load /\ loads \in Seq(Load)
      /\ load.stage = "hosts" /\ load.waiting = loads[i].waiting /\ load.found = loads[i].found
    <2>1. loads[i] \in Load /\ loads \in Seq(Load)
        BY ElementOfSeq, LenProperties DEF ListInv, ListTypes
    <2> QED
        BY <2>1 DEF Load
<1> HIDE DEF load
<1>3. /\ loads' \in Seq(Load) /\ Len(loads') = Len(loads) /\ DOMAIN loads' = DOMAIN loads
      /\ loads'[i] = load
    BY <1>1, <1>2, LoadMoves
<1>4. ListTypes'
    BY <1>1, <1>3 DEF ListInv, ListTypes, OnceEach, Host
<1>5. LoadIsAlone'
    BY <1>1, <1>3 DEF ListInv, LoadIsAlone
<1>6. ASSUME ~overlapped
      PROVE  hostErrors = {} /\ load.waiting = {} /\ load.found = {} /\ DOMAIN loads' = {i}
    BY <1>1, <1>2, <1>3, <1>6, OnlyLoad DEF ListInv, FoundAreNew
<1>7. FoundAreNew'
    BY <1>1, <1>2, <1>3, <1>6, SessionListAssumption DEF FoundAreNew, OnceEach, Host
<1>8. HostIsListedOnce'
    BY <1>1, <1>6 DEF HostIsListedOnce, OnceEach, Host
<1> QED
    BY <1>4, <1>5, <1>7, <1>8 DEF ListInv

\* The list of hosts was answered.
LEMMA HostsAnswerStep ==
    ASSUME ListInv, NEW i \in DOMAIN loads, HostsAnswer(i)
    PROVE  ListInv'
<1>1. PICK remote \in SUBSET RemoteHost :
          loads' = IF remote = {} THEN RemoveAt(loads, i)
                   ELSE [loads EXCEPT ![i].stage = "remote", ![i].waiting = remote]
    BY DEF HostsAnswer
<1>2. loads[i].stage = "hosts" /\ UNCHANGED <<listed, hostErrors, retries, overlapped>>
    BY DEF HostsAnswer
<1>3. loads \in Seq(Load) /\ loads[i] \in Load
    BY ElementOfSeq, LenProperties DEF ListInv, ListTypes
<1>4. HostIsListedOnce'
    BY <1>2 DEF ListInv, HostIsListedOnce
<1>5. CASE remote = {}
    <2>1. /\ loads' \in Seq(Load) /\ Len(loads') = Len(loads) - 1
          /\ Len(loads) <= 1 => Len(loads') = 0 /\ DOMAIN loads' = {}
        BY <1>1, <1>3, <1>5, LoadEnds
    <2>2. ListTypes'
        BY <1>2, <2>1 DEF ListInv, ListTypes
    <2>3. LoadIsAlone' /\ FoundAreNew'
        BY <1>2, <2>1 DEF ListInv, LoadIsAlone, FoundAreNew
    <2> QED
        BY <1>4, <2>2, <2>3 DEF ListInv
<1>6. CASE remote # {}
    <2> DEFINE load == [stage |-> "remote", waiting |-> remote, found |-> loads[i].found]
    <2>1. load \in Load
        BY <1>3 DEF Load
    <2>2. loads' = [loads EXCEPT ![i] = load]
        <3>1. loads' = [loads EXCEPT ![i].stage = "remote", ![i].waiting = remote]
            BY <1>1, <1>6
        <3> DEFINE halfWay == [loads EXCEPT ![i].stage = "remote"]
        <3>2. halfWay[i] = [stage |-> "remote", waiting |-> loads[i].waiting, found |-> loads[i].found]
            BY <1>3 DEF Load
        <3>3. loads' = [halfWay EXCEPT ![i].waiting = remote]
            BY <3>1
        <3>4. halfWay = [loads EXCEPT ![i] = halfWay[i]]
            BY <1>3
        <3> HIDE DEF halfWay
        <3>5. [halfWay[i] EXCEPT !.waiting = remote] = load
            BY <3>2
        <3> HIDE DEF load
        <3>6. loads' = [halfWay EXCEPT ![i] = load]
            BY <3>3, <3>5
        <3> QED
            BY <1>3, <3>4, <3>6
    <2> HIDE DEF load
    <2>3. /\ loads' \in Seq(Load) /\ Len(loads') = Len(loads) /\ DOMAIN loads' = DOMAIN loads
          /\ loads'[i] = load
        BY <1>3, <2>1, <2>2, LoadMoves
    <2>4. ListTypes'
        BY <1>2, <2>3 DEF ListInv, ListTypes
    <2>5. LoadIsAlone'
        BY <1>2, <2>3 DEF ListInv, LoadIsAlone
    <2>6. ASSUME ~overlapped
          PROVE  /\ \A h \in RemoteHost : listed[h] = 0
                 /\ hostErrors \subseteq {Local} /\ loads[i].found = {} /\ DOMAIN loads = {i}
        BY <1>2, <2>6, OnlyLoad DEF ListInv, FoundAreNew
    <2>7. FoundAreNew'
        <3>1. load.stage = "remote" /\ load.waiting = remote /\ load.found = loads[i].found
            BY DEF load
        <3>2. ~overlapped => hostErrors \cap remote = {}
            BY <2>6, SessionListAssumption
        <3> QED
            BY <1>2, <2>3, <2>6, <3>1, <3>2 DEF FoundAreNew
    <2> QED
        BY <1>4, <2>4, <2>5, <2>7 DEF ListInv
<1> QED
    BY <1>5, <1>6

\* The sessions of a remote host were answered.
LEMMA RemoteAnswersStep ==
    ASSUME ListInv, NEW i \in DOMAIN loads, NEW h \in RemoteHost, RemoteAnswers(i, h)
    PROVE  ListInv'
<1>1. PICK ok \in BOOLEAN :
          LET load == [loads[i] EXCEPT !.waiting = @ \ {h},
                                       !.found = IF ok THEN @ \cup {h} ELSE @]
          IN  /\ hostErrors' = IF ok THEN hostErrors ELSE hostErrors \cup {h}
              /\ IF load.waiting = {}
                 THEN /\ listed' = [other \in Host |-> listed[other] + OnceEach(load.found)[other]]
                      /\ loads' = RemoveAt(loads, i)
                 ELSE /\ loads' = [loads EXCEPT ![i] = load]
                      /\ UNCHANGED listed
    BY DEF RemoteAnswers
<1>2. h \in loads[i].waiting /\ UNCHANGED <<retries, overlapped>>
    BY DEF RemoteAnswers
<1>3. loads \in Seq(Load) /\ loads[i] \in Load
    BY ElementOfSeq, LenProperties DEF ListInv, ListTypes
<1> DEFINE load == [stage |-> loads[i].stage, waiting |-> loads[i].waiting \ {h},
                    found |-> IF ok THEN loads[i].found \cup {h} ELSE loads[i].found]
<1>4. load \in Load
    BY <1>3 DEF Load
<1>5. /\ hostErrors' = IF ok THEN hostErrors ELSE hostErrors \cup {h}
      /\ load.waiting = {} =>
            /\ listed' = [other \in Host |-> listed[other] + OnceEach(load.found)[other]]
            /\ loads' = RemoveAt(loads, i)
      /\ load.waiting # {} => loads' = [loads EXCEPT ![i] = load] /\ listed' = listed
    <2> DEFINE known == IF ok THEN loads[i].found \cup {h} ELSE loads[i].found
    <2>1. loads[i] = [stage |-> loads[i].stage, waiting |-> loads[i].waiting, found |-> loads[i].found]
        BY <1>3 DEF Load
    <2>2. [loads[i] EXCEPT !.waiting = @ \ {h}, !.found = IF ok THEN @ \cup {h} ELSE @] = load
        <3> DEFINE halfWay == [loads[i] EXCEPT !.waiting = loads[i].waiting \ {h}]
        <3>1. halfWay = [stage |-> loads[i].stage, waiting |-> loads[i].waiting \ {h},
                         found |-> loads[i].found]
            BY <2>1
        <3> HIDE DEF halfWay
        <3>2. [halfWay EXCEPT !.found = IF ok THEN @ \cup {h} ELSE @] = load
            BY <3>1, SMTT(60)
        <3> QED
            BY <3>2 DEF halfWay
    <2> HIDE DEF load
    <2> QED
        BY <1>1, <2>2
<1>6. /\ load.stage = loads[i].stage /\ load.waiting = loads[i].waiting \ {h}
      /\ load.found = IF ok THEN loads[i].found \cup {h} ELSE loads[i].found
    OBVIOUS
<1> HIDE DEF load
<1>7. ASSUME ~overlapped
      PROVE  /\ loads[i].stage = "remote" /\ DOMAIN loads = {i} /\ Len(loads) = 1
             /\ \A other \in RemoteHost : listed[other] = 0
             /\ hostErrors \cap (loads[i].waiting \cup loads[i].found) = {}
             /\ loads[i].waiting \cap loads[i].found = {}
    <2>1. loads[i].stage \in {"local", "hosts", "remote"}
        BY <1>3 DEF Load
    <2> QED
        BY <1>2, <1>7, <2>1, OnlyLoad DEF ListInv, FoundAreNew
<1>8. CASE load.waiting = {}
    <2>1. /\ loads' \in Seq(Load) /\ Len(loads') = Len(loads) - 1
          /\ Len(loads) <= 1 => Len(loads') = 0 /\ DOMAIN loads' = {}
        BY <1>3, <1>5, <1>8, LoadEnds
    <2>2. ListTypes'
        <3>1. OnceEach(load.found) \in [Host -> Nat]
            BY DEF OnceEach
        <3> QED
            BY <1>2, <1>5, <1>8, <2>1, <3>1 DEF ListInv, ListTypes, Host
    <2>3. LoadIsAlone'
        BY <1>2, <1>7, <2>1, SMTT(60) DEF LoadIsAlone
    <2>4. FoundAreNew'
        BY <1>2, <1>7, <2>1 DEF FoundAreNew
    <2>5. ASSUME ~overlapped', NEW other \in Host
          PROVE  listed'[other] <= IF other \in hostErrors' THEN 0 ELSE 1
        <3>1. /\ listed[other] \in Nat /\ listed[other] <= (IF other \in hostErrors THEN 0 ELSE 1)
              /\ other \in RemoteHost => listed[other] = 0
            BY <1>2, <1>7, <2>5 DEF ListInv, ListTypes, HostIsListedOnce
        <3>2. listed'[other] = listed[other] + (IF other \in load.found THEN 1 ELSE 0)
            BY <1>5, <1>8 DEF OnceEach
        <3>3. load.found \subseteq RemoteHost /\ hostErrors' \cap load.found = {}
            BY <1>2, <1>4, <1>5, <1>6, <1>7, <2>5 DEF Load
        <3>4. other \in hostErrors' => other \in hostErrors \/ other \in RemoteHost
            BY <1>5
        <3> QED
            BY <3>1, <3>2, <3>3, <3>4
    <2> QED
        BY <2>2, <2>3, <2>4, <2>5 DEF ListInv, HostIsListedOnce
<1>9. CASE load.waiting # {}
    <2>1. /\ loads' \in Seq(Load) /\ Len(loads') = Len(loads) /\ DOMAIN loads' = DOMAIN loads
          /\ loads'[i] = load
        BY <1>3, <1>4, <1>5, <1>9, LoadMoves
    <2>2. ListTypes'
        BY <1>2, <1>5, <1>9, <2>1 DEF ListInv, ListTypes, Host
    <2>3. LoadIsAlone'
        BY <1>2, <2>1 DEF ListInv, LoadIsAlone
    <2>4. FoundAreNew'
        BY <1>2, <1>5, <1>6, <1>7, <1>9, <2>1 DEF FoundAreNew
    <2>5. HostIsListedOnce'
        BY <1>2, <1>5, <1>7, <1>9 DEF ListInv, HostIsListedOnce
    <2> QED
        BY <2>2, <2>3, <2>4, <2>5 DEF ListInv
<1> QED
    BY <1>8, <1>9

\* A host that failed is asked again.
LEMMA RetryStep ==
    ASSUME ListInv, NEW h \in Host,
           RetrySessionHost(h) \/ RetrySucceeds(h) \/ RetryFails(h)
    PROVE  ListInv'
<1>1. CASE RetrySessionHost(h)
    <2>1. /\ retries' = retries \cup {h} /\ overlapped' = (overlapped \/ loads # <<>>)
          /\ UNCHANGED <<listed, hostErrors, loads>>
        BY <1>1 DEF RetrySessionHost
    <2>2. ListTypes' /\ FoundAreNew' /\ HostIsListedOnce'
        BY <2>1 DEF ListInv, ListTypes, FoundAreNew, HostIsListedOnce
    <2>3. ~overlapped' => Len(loads') = 0
        BY <2>1
    <2>4. LoadIsAlone'
        BY <2>3 DEF LoadIsAlone
    <2> QED
        BY <2>2, <2>4 DEF ListInv
<1>2. CASE RetrySucceeds(h) \/ RetryFails(h)
    <2>1. /\ h \in retries /\ retries' \subseteq retries /\ UNCHANGED <<loads, overlapped>>
          /\ \/ listed' = [listed EXCEPT ![h] = 1] /\ hostErrors' = hostErrors \ {h}
             \/ listed' = [listed EXCEPT ![h] = 0] /\ hostErrors' = hostErrors \cup {h}
        BY <1>2 DEF RetrySucceeds, RetryFails
    <2>2. ListTypes'
        BY <2>1 DEF ListInv, ListTypes
    <2>3. LoadIsAlone'
        BY <2>1 DEF ListInv, LoadIsAlone
    <2>4. ~overlapped => DOMAIN loads = {}
        BY <2>1, OnlyLoad
    <2>5. FoundAreNew'
        BY <2>1, <2>4 DEF FoundAreNew
    <2>6. HostIsListedOnce'
        BY <2>1 DEF ListInv, ListTypes, HostIsListedOnce
    <2> QED
        BY <2>2, <2>3, <2>5, <2>6 DEF ListInv
<1> QED
    BY <1>1, <1>2

\* The invariant holds in every state.
LEMMA ListInvHolds == ListSpec => []ListInv
<1>1. ListInit => ListInv
    <2>1. SUFFICES ASSUME ListInit PROVE ListInv
        OBVIOUS
    <2>2. /\ listed = OnceEach({}) /\ hostErrors = {} /\ loads = <<>> /\ retries = {}
          /\ DOMAIN loads = {} /\ Len(loads) = 0 /\ loads \in Seq(Load)
        BY <2>1 DEF ListInit
    <2> QED
        BY <2>2 DEF ListInv, ListTypes, LoadIsAlone, FoundAreNew, HostIsListedOnce, OnceEach
<1>2. ListInv /\ [ListNext]_listVars => ListInv'
    <2>1. ASSUME ListInv, ListNext PROVE ListInv'
        BY <2>1, LoadStep, LocalAnswersStep, HostsAnswerStep, RemoteAnswersStep, RetryStep DEF ListNext
    <2>2. ASSUME ListInv, UNCHANGED listVars PROVE ListInv'
        BY <2>2 DEF listVars, ListInv, ListTypes, LoadIsAlone, FoundAreNew, HostIsListedOnce
    <2> QED
        BY <2>1, <2>2
<1> QED
    BY <1>1, <1>2, PTL DEF ListSpec

\* As long as no load of the list is overlapped by another or by a retry, the
\* sessions of a host are listed at most once, and not together with an error of
\* it (App.svelte, loadSessions and retrySessionHost).
THEOREM HostsAreListedOnce == ListSpec => []HostIsListedOnce
<1>1. ListInv => HostIsListedOnce
    BY DEF ListInv
<1> QED
    BY <1>1, ListInvHolds, PTL

-----------------------------------------------------------------------------
(***************************************************************************)
(* The viewer of histories (HistoryViewer), for every set of sessions.     *)
(***************************************************************************)

ViewerState == [session : Named \cup {Nobody}, text : Seq(Nat), loading : BOOLEAN,
                loadingOlder : BOOLEAN, error : BOOLEAN]
Query == [older : BOOLEAN, session : Named \cup {Nobody}, current : ViewerState]

ViewerTypes == viewer \in ViewerState /\ queries \in Seq(Query)

\* Pages follow on each other up to the newest.
InPageOrder(text) == \A k \in DOMAIN text : text[k] = Len(text) - k + 1

\* Every request was made for the session that is open, and one for older pages
\* by a viewer that was not waiting for a refresh.
QueriesFitViewer ==
    ~crossed => \A i \in DOMAIN queries :
        /\ queries[i].session = wanted
        /\ queries[i].older => /\ queries[i].current.session = wanted
                               /\ InPageOrder(queries[i].current.text)
                               /\ ~queries[i].current.loading

ViewerInv == ViewerTypes /\ QueriesFitViewer /\ ViewerIsTheOneOpened

-----------------------------------------------------------------------------
\* A viewer that is closed.
LEMMA NoViewerFacts ==
    /\ NoViewer \in ViewerState
    /\ NoViewer.session = Nobody /\ NoViewer.text = <<>> /\ NoViewer.loading = FALSE
BY DEF NoViewer, ViewerState

\* An older page goes before the pages there are.
LEMMA OlderPage ==
    ASSUME NEW text \in Seq(Nat)
    PROVE  /\ <<Len(text) + 1>> \o text \in Seq(Nat)
           /\ InPageOrder(text) => InPageOrder(<<Len(text) + 1>> \o text)
<1> DEFINE page == <<Len(text) + 1>>
           all == page \o text
<1>1. Len(text) \in Nat
    BY LenProperties
<1>2. page \in Seq(Nat) /\ Len(page) = 1 /\ page[1] = Len(text) + 1
    BY <1>1
<1> HIDE DEF page
<1>3. /\ all \in Seq(Nat) /\ Len(all) = 1 + Len(text)
      /\ \A k \in 1 .. 1 + Len(text) : all[k] = IF k <= 1 THEN page[k] ELSE text[k - 1]
    <2>1. page \o text \in Seq(Nat) /\ Len(page \o text) = Len(page) + Len(text)
        BY <1>2, ConcatProperties
    <2>2. \A k \in 1 .. Len(page) + Len(text) :
              (page \o text)[k] = IF k <= Len(page) THEN page[k] ELSE text[k - Len(page)]
        BY <1>2, ConcatProperties
    <2> QED
        BY <1>2, <2>1, <2>2
<1> HIDE DEF all
<1>4. DOMAIN all = 1 .. 1 + Len(text) /\ DOMAIN text = 1 .. Len(text)
    BY <1>3, LenProperties
<1>5. ASSUME InPageOrder(text), NEW k \in DOMAIN all
      PROVE  all[k] = Len(all) - k + 1
    <2>1. CASE k = 1
        BY <1>1, <1>2, <1>3, <1>4, <2>1
    <2>2. CASE k # 1
        <3>1. k - 1 \in DOMAIN text /\ ~(k <= 1) /\ k \in 1 .. 1 + Len(text)
            BY <1>1, <1>4, <2>2
        <3>2. text[k - 1] = Len(text) - (k - 1) + 1
            BY <1>5, <3>1 DEF InPageOrder
        <3> QED
            BY <1>1, <1>3, <3>1, <3>2
    <2> QED
        BY <2>1, <2>2
<1> QED
    BY <1>3, <1>5 DEF all, page, InPageOrder

\* Another request, after which there is one for a refresh if there was or it is one.
LEMMA AskStep ==
    ASSUME ViewerTypes, NEW query \in Query, queries' = Append(queries, query)
    PROVE  /\ queries' \in Seq(Query)
           /\ DOMAIN queries' = 1 .. Len(queries')
           /\ \A j \in DOMAIN queries' : queries'[j] = query \/ \E k \in DOMAIN queries : queries'[j] = queries[k]
           /\ \E j \in DOMAIN queries' : queries'[j] = query
<1>1. queries \in Seq(Query) /\ Len(queries) \in Nat /\ DOMAIN queries = 1 .. Len(queries)
    BY LenProperties DEF ViewerTypes
<1>2. /\ queries' \in Seq(Query) /\ Len(queries') = Len(queries) + 1
      /\ \A j \in 1 .. Len(queries) : queries'[j] = queries[j]
      /\ queries'[Len(queries) + 1] = query
    BY <1>1, AppendProperties
<1>3. DOMAIN queries' = 1 .. Len(queries) + 1 /\ Len(queries) + 1 \in 1 .. Len(queries) + 1
    BY <1>1, <1>2, LenProperties
<1>4. \A j \in DOMAIN queries' : j \in 1 .. Len(queries) \/ j = Len(queries) + 1
    BY <1>1, <1>3
<1> QED
    BY <1>1, <1>2, <1>3, <1>4

\* The viewer is opened for a session.
LEMMA OpenStep ==
    ASSUME ViewerInv, NEW s \in Named, OpenHistoryViewer(s)
    PROVE  ViewerInv'
<1>1. /\ viewer' = [NoViewer EXCEPT !.session = s, !.loading = TRUE]
      /\ queries' = Append(queries, Refresh(s)) /\ wanted' = s
      /\ crossed' = (crossed \/ queries # <<>>)
    BY DEF OpenHistoryViewer, Ask
<1>2. /\ viewer' = [session |-> s, text |-> <<>>, loading |-> TRUE, loadingOlder |-> FALSE, error |-> FALSE]
    BY <1>1 DEF NoViewer
<1>3. Refresh(s) \in Query /\ Refresh(s).session = s /\ Refresh(s).older = FALSE
    BY NoViewerFacts DEF Refresh, Query
<1>4. ViewerTypes'
    <2>1. queries' \in Seq(Query)
        BY <1>1, <1>3, AskStep DEF ViewerInv
    <2>2. viewer' \in ViewerState
        BY <1>2 DEF ViewerState
    <2> QED
        BY <2>1, <2>2 DEF ViewerTypes
<1>5. ASSUME ~crossed' PROVE DOMAIN queries' = {1} /\ queries'[1] = Refresh(s)
    <2>1. queries = <<>>
        BY <1>1, <1>5
    <2>2. queries' = <<Refresh(s)>>
        BY <1>1, <2>1
    <2> QED
        BY <2>2
<1>6. QueriesFitViewer'
    BY <1>1, <1>3, <1>5 DEF QueriesFitViewer
<1>7. ViewerIsTheOneOpened'
    <2>1. viewer'.session = s /\ viewer'.text = <<>> /\ DOMAIN viewer'.text = {}
        BY <1>2
    <2>2. ~crossed' => \E q \in ToSet(queries') : ~q.older
        BY <1>3, <1>5 DEF ToSet
    <2> QED
        BY <1>1, <2>1, <2>2 DEF ViewerIsTheOneOpened, ToSet
<1> QED
    BY <1>4, <1>6, <1>7 DEF ViewerInv

\* The button "refresh".
LEMMA RefreshStep ==
    ASSUME ViewerInv, RefreshHistoryViewer
    PROVE  ViewerInv'
<1> DEFINE query == Refresh(viewer.session)
<1>1. /\ viewer' = [viewer EXCEPT !.loading = TRUE, !.error = FALSE]
      /\ queries' = Append(queries, query) /\ wanted' = wanted /\ crossed' = crossed
    BY DEF RefreshHistoryViewer, Ask
<1>2. viewer \in ViewerState
    BY DEF ViewerInv, ViewerTypes
<1>3. viewer' \in ViewerState /\ viewer'.session = viewer.session /\ viewer'.text = viewer.text
    BY <1>1, <1>2 DEF ViewerState
<1>4. query \in Query /\ query.session = viewer.session /\ query.older = FALSE
    BY <1>2, NoViewerFacts DEF Refresh, Query, ViewerState
<1> HIDE DEF query
<1>5. /\ queries' \in Seq(Query)
      /\ \A j \in DOMAIN queries' : queries'[j] = query \/ \E k \in DOMAIN queries : queries'[j] = queries[k]
      /\ \E j \in DOMAIN queries' : queries'[j] = query
    BY <1>1, <1>4, AskStep DEF ViewerInv
<1>6. ViewerTypes'
    BY <1>3, <1>5 DEF ViewerTypes
<1>7. ~crossed => viewer.session = wanted
    BY DEF ViewerInv, ViewerIsTheOneOpened
<1>8. QueriesFitViewer'
    BY <1>1, <1>4, <1>5, <1>7 DEF ViewerInv, QueriesFitViewer, InPageOrder
<1>9. ViewerIsTheOneOpened'
    <2>1. \E q \in ToSet(queries') : ~q.older
        BY <1>4, <1>5 DEF ToSet
    <2> QED
        BY <1>1, <1>3, <2>1 DEF ViewerInv, ViewerIsTheOneOpened, ToSet
<1> QED
    BY <1>6, <1>8, <1>9 DEF ViewerInv

\* Older lines are asked for.
LEMMA OlderStep ==
    ASSUME ViewerInv, LoadOlderHistory
    PROVE  ViewerInv'
<1> DEFINE query == [older |-> TRUE, session |-> viewer.session, current |-> viewer]
<1>1. /\ ~viewer.loading
      /\ viewer' = [viewer EXCEPT !.loadingOlder = TRUE]
      /\ queries' = Append(queries, query) /\ wanted' = wanted /\ crossed' = crossed
    BY DEF LoadOlderHistory, Ask
<1>2. viewer \in ViewerState
    BY DEF ViewerInv, ViewerTypes
<1>3. /\ viewer' \in ViewerState /\ viewer'.session = viewer.session /\ viewer'.text = viewer.text
      /\ viewer'.loading = viewer.loading
    BY <1>1, <1>2 DEF ViewerState
<1>4. query \in Query /\ query.session = viewer.session /\ query.current = viewer
    BY <1>2 DEF Query, ViewerState
<1> HIDE DEF query
<1>5. /\ queries' \in Seq(Query)
      /\ \A j \in DOMAIN queries' : queries'[j] = query \/ \E k \in DOMAIN queries : queries'[j] = queries[k]
    BY <1>1, <1>4, AskStep DEF ViewerInv
<1>6. ViewerTypes'
    BY <1>3, <1>5 DEF ViewerTypes
<1>7. ~crossed => viewer.session = wanted /\ InPageOrder(viewer.text)
    BY DEF ViewerInv, ViewerIsTheOneOpened, InPageOrder
<1>8. QueriesFitViewer'
    BY <1>1, <1>4, <1>5, <1>7 DEF ViewerInv, QueriesFitViewer, InPageOrder
<1>9. ViewerIsTheOneOpened'
    BY <1>1, <1>3 DEF ViewerInv, ViewerIsTheOneOpened, ToSet
<1> QED
    BY <1>6, <1>8, <1>9 DEF ViewerInv

\* The viewer is closed.
LEMMA CloseStep ==
    ASSUME ViewerInv, CloseHistoryViewer
    PROVE  ViewerInv'
<1>1. /\ viewer' = NoViewer /\ wanted' = Nobody /\ queries' = queries
      /\ crossed' = (crossed \/ queries # <<>>)
    BY DEF CloseHistoryViewer
<1>2. ViewerTypes'
    BY <1>1, NoViewerFacts DEF ViewerInv, ViewerTypes
<1>3. QueriesFitViewer'
    <2>1. ASSUME ~crossed' PROVE DOMAIN queries' = {}
        <3>1. queries' = <<>>
            BY <1>1, <2>1
        <3> QED
            BY <3>1
    <2> QED
        BY <2>1 DEF QueriesFitViewer
<1>4. ViewerIsTheOneOpened'
    BY <1>1, NoViewerFacts DEF ViewerIsTheOneOpened
<1> QED
    BY <1>2, <1>3, <1>4 DEF ViewerInv

\* What an answer or a failure makes of a viewer.
LEMMA AnswerFacts ==
    ASSUME ViewerInv, NEW i \in DOMAIN queries,
           viewer' \in {Answered(queries[i]), Failed(queries[i])}
    PROVE  /\ viewer' \in ViewerState
           /\ ~crossed => viewer'.session = wanted /\ InPageOrder(viewer'.text) /\ ~viewer'.loading
<1> DEFINE q == queries[i]
           base == IF q.older THEN q.current ELSE viewer
<1>1. q \in Query /\ q.current \in ViewerState /\ q.session \in Named \cup {Nobody} /\ viewer \in ViewerState
    <2>1. q \in Query /\ viewer \in ViewerState
        BY ElementOfSeq, LenProperties DEF ViewerInv, ViewerTypes
    <2> HIDE DEF q
    <2> QED
        BY <2>1 DEF Query
<1>2. ~crossed => /\ q.session = wanted
                  /\ q.older => /\ q.current.session = wanted /\ InPageOrder(q.current.text)
                                /\ ~q.current.loading
                  /\ viewer.session = wanted /\ InPageOrder(viewer.text)
    BY DEF ViewerInv, QueriesFitViewer, ViewerIsTheOneOpened, InPageOrder
<1>3. viewer' = Answered(q) \/ viewer' = Failed(q)
    OBVIOUS
<1> HIDE DEF q
<1>4. CASE q.older /\ viewer' = Answered(q)
    <2>1. viewer' = [q.current EXCEPT !.text = <<Len(@) + 1>> \o @, !.loadingOlder = FALSE]
        BY <1>4 DEF Answered
    <2>2. q.current.text \in Seq(Nat)
        BY <1>1 DEF ViewerState
    <2>3. /\ <<Len(q.current.text) + 1>> \o q.current.text \in Seq(Nat)
          /\ InPageOrder(q.current.text) => InPageOrder(<<Len(q.current.text) + 1>> \o q.current.text)
        BY <2>2, OlderPage
    <2> DEFINE text == <<Len(q.current.text) + 1>> \o q.current.text
    <2>4. viewer' = [q.current EXCEPT !.text = text, !.loadingOlder = FALSE]
        BY <2>1
    <2> HIDE DEF text
    <2>5. text \in Seq(Nat) /\ (InPageOrder(q.current.text) => InPageOrder(text))
        BY <2>3 DEF text
    <2>6. /\ viewer' \in ViewerState /\ viewer'.session = q.current.session /\ viewer'.text = text
          /\ viewer'.loading = q.current.loading
        BY <1>1, <2>4, <2>5 DEF ViewerState
    <2> QED
        BY <1>2, <1>4, <2>5, <2>6
<1>5. CASE q.older /\ viewer' = Failed(q)
    <2>1. viewer' = [q.current EXCEPT !.loadingOlder = FALSE, !.error = TRUE]
        BY <1>5 DEF Failed
    <2>2. /\ viewer' \in ViewerState /\ viewer'.session = q.current.session
          /\ viewer'.text = q.current.text /\ viewer'.loading = q.current.loading
        BY <1>1, <2>1 DEF ViewerState
    <2> QED
        BY <1>2, <1>5, <2>2
<1>6. CASE ~q.older /\ viewer' = Answered(q)
    <2>1. viewer' = [session |-> q.session, text |-> <<1>>, loading |-> FALSE, loadingOlder |-> FALSE,
                     error |-> FALSE]
        BY <1>6 DEF Answered, NoViewer
    <2>2. /\ viewer' \in ViewerState /\ viewer'.session = q.session
          /\ viewer'.text = <<1>> /\ viewer'.loading = FALSE
        BY <1>1, <2>1 DEF ViewerState
    <2>3. InPageOrder(<<1>>)
        BY DEF InPageOrder
    <2> QED
        BY <1>2, <2>2, <2>3
<1>7. CASE ~q.older /\ viewer' = Failed(q)
    <2>1. viewer' = [viewer EXCEPT !.session = q.session, !.loading = FALSE, !.loadingOlder = FALSE,
                                   !.error = TRUE]
        BY <1>7 DEF Failed
    <2>2. viewer' = [session |-> q.session, text |-> viewer.text, loading |-> FALSE,
                     loadingOlder |-> FALSE, error |-> TRUE]
        BY <1>1, <2>1 DEF ViewerState
    <2>3. /\ viewer' \in ViewerState /\ viewer'.session = q.session
          /\ viewer'.text = viewer.text /\ viewer'.loading = FALSE
        BY <1>1, <2>2 DEF ViewerState
    <2> QED
        BY <1>2, <2>3
<1> QED
    BY <1>3, <1>4, <1>5, <1>6, <1>7

\* An answer or an error comes, for a viewer that may be another one by now.
LEMMA QueryEndsStep ==
    ASSUME ViewerInv, NEW i \in DOMAIN queries, QueryEnds(i)
    PROVE  ViewerInv'
<1>1. /\ queries' = RemoveAt(queries, i) /\ wanted' = wanted /\ crossed' = crossed
      /\ viewer' \in ViewerState
      /\ ~crossed => viewer'.session = wanted /\ InPageOrder(viewer'.text) /\ ~viewer'.loading
    BY AnswerFacts DEF QueryEnds
<1>2. queries \in Seq(Query) /\ i \in 1 .. Len(queries) /\ DOMAIN queries = 1 .. Len(queries)
    BY LenProperties DEF ViewerInv, ViewerTypes
<1>3. /\ queries' \in Seq(Query)
      /\ \A x \in 1 .. Len(queries') : \E j \in 1 .. Len(queries) : queries'[x] = queries[j]
    BY <1>1, <1>2, RemoveFacts
<1>4. DOMAIN queries' = 1 .. Len(queries')
    BY <1>3, LenProperties
<1>5. ViewerTypes'
    BY <1>1, <1>3 DEF ViewerTypes
<1>6. QueriesFitViewer'
    BY <1>1, <1>2, <1>3, <1>4 DEF ViewerInv, QueriesFitViewer, InPageOrder
<1>7. ViewerIsTheOneOpened'
    BY <1>1 DEF ViewerIsTheOneOpened, InPageOrder
<1> QED
    BY <1>5, <1>6, <1>7 DEF ViewerInv

\* The invariant holds in every state.
LEMMA ViewerInvHolds == ViewerSpec => []ViewerInv
<1>1. ViewerInit => ViewerInv
    <2>1. SUFFICES ASSUME ViewerInit PROVE ViewerInv
        OBVIOUS
    <2>2. /\ viewer = NoViewer /\ queries = <<>> /\ wanted = Nobody /\ queries \in Seq(Query)
        BY <2>1 DEF ViewerInit
    <2> QED
        BY <2>2, NoViewerFacts DEF ViewerInv, ViewerTypes, QueriesFitViewer, ViewerIsTheOneOpened
<1>2. ViewerInv /\ [ViewerNext]_viewerVars => ViewerInv'
    <2>1. ASSUME ViewerInv, ViewerNext PROVE ViewerInv'
        BY <2>1, OpenStep, RefreshStep, OlderStep, CloseStep, QueryEndsStep DEF ViewerNext
    <2>2. ASSUME ViewerInv, UNCHANGED viewerVars PROVE ViewerInv'
        BY <2>2 DEF viewerVars, ViewerInv, ViewerTypes, QueriesFitViewer, ViewerIsTheOneOpened,
                    InPageOrder, ToSet
    <2> QED
        BY <2>1, <2>2
<1> QED
    BY <1>1, <1>2, PTL DEF ViewerSpec

\* As long as the viewer was not opened or closed with a request of it in flight,
\* it shows the session the user opened, its pages follow on each other up to the
\* newest in whatever order they arrived, and it waits only for what will come
\* (App.svelte, refreshHistoryViewer and loadOlderHistory).
THEOREM ViewersAreThoseOpened == ViewerSpec => []ViewerIsTheOneOpened
<1>1. ViewerInv => ViewerIsTheOneOpened
    BY DEF ViewerInv
<1> QED
    BY <1>1, ViewerInvHolds, PTL
===============================================================================
