-------------------------- MODULE HostDiagnostics --------------------------
(***************************************************************************)
(* The test of a managed host and the installation of tmux on it           *)
(* (src/src/services/managed-host-diagnostics.js): a row of commands, each *)
(* awaited, while the host and its gateway go and come back and tmux is    *)
(* installed or removed by others.  A command that takes too long counts   *)
(* as one to a host that is away.  The texts and the times of the steps    *)
(* are left out.                                                           *)
(***************************************************************************)
EXTENDS Integers, SequencesExt

VARIABLES
  hostKind,     \* "docker", "local" or "ssh"
  gated,        \* it is reached through a gateway
  osRelease,    \* its /etc/os-release: "supported", "unsupported", or without an ID, or "none"
  world,        \* what is there now: [host, gateway, tmux : BOOLEAN]
  probe,        \* the command that is awaited, "done" before and after a test
  diagnosis,    \* result of testHost
  install,      \* installTmux: "none", "before", "command", "after", or its outcome
  seen          \* history: what was true at some moment of the test

diagnosticsVars == <<hostKind, gated, osRelease, world, probe, diagnosis, install, seen>>

World == [host : BOOLEAN, gateway : BOOLEAN, tmux : BOOLEAN]

(* Commands for the local host are run without its gateway.                *)
Answers(w) == w.host /\ (gated /\ hostKind # "local" => w.gateway)

Facts(w) == {IF Answers(w) THEN "up" ELSE "down", IF w.tmux THEN "tmux" ELSE "no tmux",
             IF w.gateway THEN "gateway up" ELSE "gateway down"}

Undiagnosed == [status |-> "error", tmuxAvailable |-> FALSE, osId |-> "none", command |-> FALSE]

DiagnosticsInit ==
  /\ hostKind \in {"docker", "local", "ssh"}
  /\ gated \in BOOLEAN
  /\ osRelease \in {"supported", "unsupported", "no ID", "none"}
  /\ world \in World
  /\ probe = "done"
  /\ diagnosis = Undiagnosed
  /\ install = "none"
  /\ seen = {"down"}   \* nothing is claimed before a test

FirstProbe == IF gated THEN "gateway" ELSE "connection"

Running == probe # "done" \/ install = "command"

----------------------------------------------------------------------------
(* A test.                                                                 *)

BeginTest == /\ probe' = FirstProbe
             /\ diagnosis' = Undiagnosed
             /\ seen' = Facts(world)

TestStarts == /\ ~Running
              /\ BeginTest
              /\ install' = "none"
              /\ UNCHANGED <<hostKind, gated, osRelease, world>>

InstallStarts == /\ ~Running
                 /\ BeginTest
                 /\ install' = "before"
                 /\ UNCHANGED <<hostKind, gated, osRelease, world>>

\* Faulty variant: tmux is installed whether it was found or not.
InstallAnyway(result) ==
  IF result.status = "ok" /\ result.osId = "supported" THEN "command" ELSE "refused"

(* How installTmux goes on from its first test.                            *)
InstallAfterTest(result) ==
  CASE result.status # "ok"         -> "refused"
    [] result.tmuxAvailable         -> "already installed"
    [] result.osId # "supported"    -> "refused"
    [] OTHER                        -> "command"

(* The end of testHost, and what follows in the same turn.  A host whose   *)
(* system is known and not supported gets a comment for a command.         *)
Finish(result) ==
  /\ probe' = "done"
  /\ diagnosis' = [result EXCEPT !.command = ~result.tmuxAvailable /\ result.osId # "none"]
  /\ install' = CASE install = "before" -> InstallAfterTest(result)
                  [] install = "after"  -> IF result.tmuxAvailable THEN "installed" ELSE "not installed"
                  [] OTHER              -> install

(* The connection failed: the catch of testHost.                           *)
Fail == /\ probe' = "done"
        /\ diagnosis' = [diagnosis EXCEPT !.status = "error"]
        /\ install' = CASE install = "before" -> "refused"
                        [] install = "after"  -> "not installed"
                        [] OTHER              -> install

GatewayAnswers == /\ probe = "gateway"
                  /\ IF world.gateway
                     THEN probe' = "connection" /\ UNCHANGED <<diagnosis, install>>
                     ELSE Fail
                  /\ UNCHANGED <<hostKind, gated, osRelease, world, seen>>

(* Nothing is asked of the local host, whose status is set in the end.     *)
ConnectionAnswers ==
  /\ probe = "connection"
  /\ IF hostKind = "local" \/ Answers(world)
     THEN /\ probe' = "tmux"
          /\ diagnosis' = [diagnosis EXCEPT !.status = IF hostKind = "local" THEN @ ELSE "ok"]
          /\ UNCHANGED install
     ELSE Fail
  /\ UNCHANGED <<hostKind, gated, osRelease, world, seen>>

(* The system of the local host is asked for whatever tmux says.  A failed *)
(* command is taken for a host without tmux.                               *)
TmuxAnswers ==
  /\ probe = "tmux"
  /\ LET found == Answers(world) /\ world.tmux
         result == [diagnosis EXCEPT !.tmuxAvailable = found]
     IN  IF found /\ hostKind # "local" THEN Finish(result)
         ELSE probe' = "os" /\ diagnosis' = result /\ UNCHANGED install
  /\ UNCHANGED <<hostKind, gated, osRelease, world, seen>>

OsAnswers ==
  /\ probe = "os"
  /\ LET read == Answers(world) /\ osRelease # "none"
         result == [diagnosis EXCEPT !.status = "ok",
                      !.osId = IF read /\ osRelease # "no ID" THEN osRelease ELSE "none"]
     IN  IF read \/ hostKind # "ssh" THEN Finish(result)
         ELSE probe' = "uname" /\ UNCHANGED <<diagnosis, install>>
  /\ UNCHANGED <<hostKind, gated, osRelease, world, seen>>

(* Either way there is a name to show and no ID.                           *)
UnameAnswers == /\ probe = "uname"
                /\ Finish(diagnosis)
                /\ UNCHANGED <<hostKind, gated, osRelease, world, seen>>

(* The package manager, which may fail; then the second test.              *)
CommandEnds ==
  /\ install = "command"
  /\ \/ /\ Answers(world)
        /\ world' = [world EXCEPT !.tmux = TRUE]
        /\ install' = "after"
        /\ probe' = FirstProbe /\ diagnosis' = Undiagnosed /\ seen' = Facts(world')
     \/ /\ world' \in {world, [world EXCEPT !.tmux = TRUE]}
        /\ install' = "failed"
        /\ seen' = seen \cup Facts(world')
        /\ UNCHANGED <<probe, diagnosis>>
  /\ UNCHANGED <<hostKind, gated, osRelease>>

----------------------------------------------------------------------------
(* Everybody else.                                                         *)

WorldChanges(part) ==
  /\ world' = [world EXCEPT ![part] = ~@]
  /\ seen' = IF Running THEN seen \cup Facts(world') ELSE seen
  /\ UNCHANGED <<hostKind, gated, osRelease, probe, diagnosis, install>>

DiagnosticsNext ==
  \/ TestStarts \/ InstallStarts
  \/ GatewayAnswers \/ ConnectionAnswers \/ TmuxAnswers \/ OsAnswers \/ UnameAnswers
  \/ CommandEnds
  \/ \E part \in {"host", "gateway", "tmux"} : WorldChanges(part)

DiagnosticsSpec == DiagnosticsInit /\ [][DiagnosticsNext]_diagnosticsVars

----------------------------------------------------------------------------
(* What a test or an installation reports was so at some moment while it   *)
(* ran, however the host, its gateway and tmux came and went between its   *)
(* commands: a host called reachable answered, unless it is the local one, *)
(* and one called unreachable was away; tmux was there if it is said to be *)
(* and was missing, or the host away, if it is said not to be; and nothing *)
(* was installed, or suggested, where tmux and the host were there all     *)
(* along.                                                                  *)
DiagnosisWasTrue ==
  /\ probe = "done" =>
       /\ diagnosis.status = "ok" => hostKind = "local" \/ "up" \in seen
       /\ diagnosis.status = "error" => seen \cap {"down", "gateway down"} # {}
       /\ diagnosis.tmuxAvailable => "tmux" \in seen
       /\ diagnosis.status = "ok" /\ ~diagnosis.tmuxAvailable => seen \cap {"no tmux", "down"} # {}
       /\ diagnosis.command => seen \cap {"no tmux", "down"} # {}
  /\ install \in {"installed", "already installed"} => "tmux" \in seen
  /\ install = "command" => seen \cap {"no tmux", "down"} # {} /\ osRelease = "supported"
=============================================================================
