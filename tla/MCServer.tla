------------------------------ MODULE MCServer ------------------------------
(* The parts of the server that keep data, the ssh configuration it reads,  *)
(* and the list of hosts that the browser shows.  They share no state here: *)
(* a behaviour is one of the part it starts with.                           *)
EXTENDS SessionHistory, LoginAttempts, SshKeys, ManagedHosts, HostDiagnostics,
        SettingsTables, HostRows, SshConfig

VARIABLE part

serverVars == <<part, historyVars, loginVars, keyVars, hostVars, diagnosticsVars, settingsVars, rowsVars, configLines>>

ServerInit ==
    /\ part \in {"history", "login", "keys", "hosts", "diagnostics", "settings", "rows", "config"}
    /\ HistoryInit /\ LoginInit /\ KeysInit /\ HostsInit /\ DiagnosticsInit
    /\ SettingsInit /\ HostRowsInit /\ SshConfigInit
    /\ part # "rows" => rowsKept = <<>>
    /\ part # "diagnostics" =>
          /\ hostKind = "ssh" /\ ~gated /\ osRelease = "none"
          /\ world = [host |-> TRUE, gateway |-> TRUE, tmux |-> TRUE]

ServerNext ==
    \/ /\ part = "history" /\ HistoryNext
       /\ UNCHANGED <<part, loginVars, keyVars, hostVars, diagnosticsVars, settingsVars, rowsVars, configLines>>
    \/ /\ part = "login" /\ LoginNext
       /\ UNCHANGED <<part, historyVars, keyVars, hostVars, diagnosticsVars, settingsVars, rowsVars, configLines>>
    \/ /\ part = "keys" /\ KeysNext
       /\ UNCHANGED <<part, historyVars, loginVars, hostVars, diagnosticsVars, settingsVars, rowsVars, configLines>>
    \/ /\ part = "hosts" /\ HostsNext
       /\ UNCHANGED <<part, historyVars, loginVars, keyVars, diagnosticsVars, settingsVars, rowsVars, configLines>>
    \/ /\ part = "diagnostics" /\ DiagnosticsNext
       /\ UNCHANGED <<part, historyVars, loginVars, keyVars, hostVars, settingsVars, rowsVars, configLines>>
    \/ /\ part = "settings" /\ SettingsNext
       /\ UNCHANGED <<part, historyVars, loginVars, keyVars, hostVars, diagnosticsVars, rowsVars, configLines>>
    \/ /\ part = "rows" /\ HostRowsNext
       /\ UNCHANGED <<part, historyVars, loginVars, keyVars, hostVars, diagnosticsVars, settingsVars, configLines>>
    \/ /\ part = "config" /\ SshConfigNext
       /\ UNCHANGED <<part, historyVars, loginVars, keyVars, hostVars, diagnosticsVars, settingsVars, rowsVars>>

ServerSpec == ServerInit /\ [][ServerNext]_serverVars

KnownGroups == [volcano |-> "VPS"]
Titles == [nas |-> "NAS", hosts |-> "none"]

TwoDefaultTypes == <<"bash", "vim">>

ServerSymmetry == Permutations(HostName) \cup Permutations(Name)
=============================================================================
