------------------------------ MODULE HostForm ------------------------------
(***************************************************************************)
(* The form that adds or changes a managed host (frontend/src/App.svelte,  *)
(* lib/server-settings-utils.js, lib/ServersSettings.svelte).  A host that *)
(* is a Docker container is chosen from the list of containers of its      *)
(* gateway, which is loaded while the form is used, closed and opened      *)
(* again.  A container is told by the gateway whose list it comes from.    *)
(* The other fields of the form are left out.                              *)
(***************************************************************************)
EXTENDS Integers, SequencesExt

CONSTANTS
    Gateway,             \* hosts through which containers can be listed
    Direct,              \* no gateway: the server's own containers
    NoContainer,         \* no container is chosen; a list that is empty
    ManagedHost,         \* hosts that can be edited
    NoForm, AddForm,     \* values of hostEditMode besides the hosts
    MaxContainerLoads,   \* bound: loads of lists in flight
    MaxHostSaves         \* bound: saves in flight

ASSUME HostFormAssumption ==
    /\ MaxContainerLoads \in Nat /\ MaxHostSaves \in Nat
    /\ Direct \notin Gateway /\ NoContainer \notin Gateway \cup {Direct}
    /\ NoForm # AddForm /\ {NoForm, AddForm} \cap ManagedHost = {}

Place == Gateway \cup {Direct}

VARIABLES
    hostEditMode,     \* which form is shown
    hostForm,         \* its fields
    containersOf,     \* dockerContainers: whose list is shown
    listLoading,      \* dockerContainersLoading
    listLoads,        \* loads in flight, each with its gateway
    hostSaves,        \* how many saves are in flight
    hostsLoading,     \* managedHostsLoading
    listsOverlapped,  \* history: a load began while another was in flight
    mischosen         \* history: the container was chosen from a list that was
                      \* being replaced or may be another's, or the gateway was
                      \* changed under it

hostFormVars == <<hostEditMode, hostForm, containersOf, listLoading, listLoads, hostSaves,
                  hostsLoading, listsOverlapped, mischosen>>

\* defaultHostForm.
EmptyForm == [docker |-> FALSE, gateway |-> Direct, container |-> NoContainer]

HostFormInit ==
    /\ hostEditMode = NoForm
    /\ hostForm = EmptyForm
    /\ containersOf = NoContainer
    /\ listLoading = FALSE
    /\ listLoads = <<>>
    /\ hostSaves = 0
    /\ hostsLoading = FALSE
    /\ listsOverlapped = FALSE
    /\ mischosen = FALSE

Shown == hostEditMode # NoForm

-----------------------------------------------------------------------------
(* The list of containers.                                                  *)

\* loadDockerContainers up to its await.
LoadDockerContainers(gateway) ==
    /\ Len(listLoads) < MaxContainerLoads
    /\ listLoads' = Append(listLoads, gateway)
    /\ listLoading' = TRUE
    /\ listsOverlapped' = (listLoads # <<>>)

NoListLoad == UNCHANGED <<listLoads, listLoading, listsOverlapped>>

\* Its end: whichever load it is sets the list, to none if it failed, and
\* lowers the flag.
ContainersLoaded(i) ==
    /\ containersOf' \in {listLoads[i], NoContainer}
    /\ listLoads' = RemoveAt(listLoads, i)
    /\ listLoading' = FALSE
    /\ UNCHANGED <<hostEditMode, hostForm, hostSaves, hostsLoading, listsOverlapped, mischosen>>

\* The button is disabled while a list is known to load.
RefreshContainers ==
    /\ Shown /\ hostForm.docker /\ ~listLoading
    /\ LoadDockerContainers(hostForm.gateway)
    /\ UNCHANGED <<hostEditMode, hostForm, containersOf, hostSaves, hostsLoading, mischosen>>

-----------------------------------------------------------------------------
(* The form.                                                                *)

StartAddHost ==
    /\ ~hostsLoading
    /\ hostEditMode' = AddForm
    /\ hostForm' = EmptyForm
    /\ mischosen' = FALSE
    /\ NoListLoad
    /\ UNCHANGED <<containersOf, hostSaves, hostsLoading>>

\* The rows' buttons stay enabled, whatever form is open or being saved.  The
\* container of a row is one of the row's gateway.
StartEditHost(host, docker, gateway) ==
    /\ hostEditMode' = host
    /\ hostForm' = [docker |-> docker, gateway |-> gateway,
                    container |-> IF docker THEN gateway ELSE NoContainer]
    /\ mischosen' = FALSE
    /\ IF docker THEN LoadDockerContainers(gateway) ELSE NoListLoad
    /\ UNCHANGED <<containersOf, hostSaves, hostsLoading>>

CancelHostEdit ==
    /\ Shown
    /\ hostEditMode' = NoForm
    /\ NoListLoad
    /\ UNCHANGED <<hostForm, containersOf, hostSaves, hostsLoading, mischosen>>

\* The container that was chosen stays in the form.
SetHostConnectionType(docker) ==
    /\ Shown
    /\ hostForm' = [hostForm EXCEPT !.docker = docker]
    /\ IF docker THEN LoadDockerContainers(hostForm.gateway) ELSE NoListLoad
    /\ UNCHANGED <<hostEditMode, containersOf, hostSaves, hostsLoading, mischosen>>

\* Faulty variant: the container of the gateway before stays chosen.
KeepContainer(form, gateway) == [form EXCEPT !.gateway = gateway]

\* hostFormForGateway.
HostFormForGateway(form, gateway) ==
    [form EXCEPT !.gateway = gateway, !.container = IF form.docker THEN NoContainer ELSE @]

SetHostGateway(gateway) ==
    /\ Shown /\ gateway # hostForm.gateway
    /\ hostForm' = HostFormForGateway(hostForm, gateway)
    /\ IF hostForm.docker
       THEN LoadDockerContainers(gateway) /\ mischosen' = FALSE
       ELSE NoListLoad /\ mischosen' = (mischosen \/ hostForm.container # NoContainer)
    /\ UNCHANGED <<hostEditMode, containersOf, hostSaves, hostsLoading>>

\* The list before is shown, and can be chosen from, until the next has come.
SelectDockerContainer ==
    /\ Shown /\ hostForm.docker /\ containersOf # NoContainer
    /\ hostForm' = [hostForm EXCEPT !.container = containersOf]
    /\ mischosen' = (listsOverlapped \/ listLoads # <<>>)
    /\ NoListLoad
    /\ UNCHANGED <<hostEditMode, containersOf, hostSaves, hostsLoading>>

DeselectDockerContainer ==
    /\ Shown /\ hostForm.docker
    /\ hostForm' = [hostForm EXCEPT !.container = NoContainer]
    /\ mischosen' = FALSE
    /\ NoListLoad
    /\ UNCHANGED <<hostEditMode, containersOf, hostSaves, hostsLoading>>

-----------------------------------------------------------------------------
(* Saving, and what else sets the flag that disables the buttons.           *)

\* saveHost up to its await; the form is sent as it is now.
SaveHost ==
    /\ Shown /\ ~hostsLoading
    /\ hostForm.docker => hostForm.container # NoContainer
    /\ hostSaves < MaxHostSaves
    /\ hostSaves' = hostSaves + 1
    /\ hostsLoading' = TRUE
    /\ NoListLoad
    /\ UNCHANGED <<hostEditMode, hostForm, containersOf, mischosen>>

\* It closes the form that is shown by now, and ends after the lists of hosts
\* have been loaded, which do not touch the form.
HostSaved ==
    /\ hostSaves > 0
    /\ hostSaves' = hostSaves - 1
    /\ hostEditMode' = NoForm
    /\ hostsLoading' = FALSE
    /\ NoListLoad
    /\ UNCHANGED <<hostForm, containersOf, mischosen>>

HostSaveFails ==
    /\ hostSaves > 0
    /\ hostSaves' = hostSaves - 1
    /\ hostsLoading' = FALSE
    /\ NoListLoad
    /\ UNCHANGED <<hostEditMode, hostForm, containersOf, mischosen>>

\* Deleting a host, an import or a reload of the list raises the flag, and
\* lowers it whatever else is in flight.
OtherHostRequest ==
    /\ hostsLoading' \in BOOLEAN
    /\ NoListLoad
    /\ UNCHANGED <<hostEditMode, hostForm, containersOf, hostSaves, mischosen>>

HostFormNext ==
    \/ \E i \in DOMAIN listLoads : ContainersLoaded(i)
    \/ RefreshContainers
    \/ StartAddHost
    \/ \E host \in ManagedHost, docker \in BOOLEAN, gateway \in Place :
          StartEditHost(host, docker, gateway)
    \/ CancelHostEdit
    \/ \E docker \in BOOLEAN : SetHostConnectionType(docker)
    \/ \E gateway \in Place : SetHostGateway(gateway)
    \/ SelectDockerContainer
    \/ DeselectDockerContainer
    \/ SaveHost
    \/ HostSaved
    \/ HostSaveFails
    \/ OtherHostRequest

HostFormSpec == HostFormInit /\ [][HostFormNext]_hostFormVars

-----------------------------------------------------------------------------
\* Whatever forms are opened, closed, saved and changed while lists load: the
\* container that a form for a Docker host would be saved with, and the list
\* shown when nothing loads, are of the gateway in the form.  The exceptions
\* are a container chosen while its list was being replaced, one kept while
\* the gateway was changed for the other type of connection, and a list whose
\* load overlapped another.
ContainerIsOfItsGateway ==
    Shown /\ hostForm.docker =>
        /\ ~mischosen => hostForm.container \in {NoContainer, hostForm.gateway}
        /\ ~listsOverlapped /\ listLoads = <<>> => containersOf \in {NoContainer, hostForm.gateway}
=============================================================================
