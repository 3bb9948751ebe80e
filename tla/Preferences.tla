----------------------------- MODULE Preferences -----------------------------
(***************************************************************************)
(* What the panels of the settings show, against what the server keeps     *)
(* (App.svelte; lib/AppearanceSettings.svelte, lib/DataSettings.svelte).   *)
(* A setting, the accent colour or the default of the read-only mode on    *)
(* phones, is shown at once and saved then.  A list, of session types, of  *)
(* templates or of keys, is loaded again after each of its changes.  An    *)
(* import changes all of them and then loads all at once.                  *)
(*                                                                         *)
(* Requests overlap and their answers come in any order.  A list is the    *)
(* number of the change that made it.  The hosts are in HostRows.          *)
(***************************************************************************)
EXTENDS Integers, SequencesExt

CONSTANTS
    Setting,            \* the settings
    ReadOnlyDefault,    \* the one of them that sets the mode of the terminals
    SettingValue,       \* their values
    FirstValue,         \* what is shown before anything is loaded
    ListName,           \* the lists
    Guarded,            \* those with one button that is off during a change
    MaxListChanges,     \* bound: changes of lists
    MaxRequests         \* bound: requests in flight

ASSUME PreferencesAssumption ==
    /\ ReadOnlyDefault \in Setting /\ Guarded \subseteq ListName /\ FirstValue \in SettingValue
    /\ IsFiniteSet(ListName) /\ "settings" \notin Setting \cup ListName /\ "none" \notin ListName
    /\ {MaxListChanges, MaxRequests} \subseteq Nat

VARIABLES
    kept,           \* the server: the value of each setting
    keptList,       \* the server: the change that made each list
    listChanges,    \* how many changes of lists there have been
    shown,          \* accentColor, mobileReadOnlyDefault
    shownList,      \* sessionTypes, templates, sshKeys
    mode,           \* readOnlyMode
    touched,        \* readOnlyModeTouched
    edited,         \* editingTypeId: a list entry that is being edited, or none
    requests,       \* requests in flight
    loaded,         \* history: what has been loaded
    excused         \* history: a request failed, or one overlapped another's work

serverPrefs == <<kept, keptList, listChanges>>
screenPrefs == <<shown, shownList, mode, touched, edited>>
prefsVars == <<serverPrefs, screenPrefs, requests, loaded, excused>>

Settings == "settings"      \* what a load of all settings is about
NoEntry == "none"

\* about: a setting, a list, or all settings; value: what is saved or has been
\* read, by setting or list.
Sending(kind, about, value) ==
    [kind |-> kind, about |-> about, value |-> value, served |-> FALSE]

PreferencesInit ==
    /\ kept \in [Setting -> SettingValue]
    /\ keptList = [l \in ListName |-> 0]
    /\ listChanges = 0
    /\ shown = [s \in Setting |-> FirstValue]
    /\ shownList = [l \in ListName |-> 0]
    /\ mode = FirstValue
    /\ touched = FALSE
    /\ edited = NoEntry
    /\ requests = <<Sending("load", Settings, <<>>)>>
    /\ loaded = {}
    /\ excused = FALSE

InFlight(kind, about) ==
    \E i \in DOMAIN requests : requests[i].kind = kind /\ requests[i].about = about

\* settingsImporting.
Importing == \E i \in DOMAIN requests : requests[i].kind \in {"import", "reload"}

\* What a save of a setting may overlap.
Loading == InFlight("load", Settings) \/ Importing

-----------------------------------------------------------------------------
(* The user.                                                                *)

Ask(kind, about, value) ==
    /\ Len(requests) < MaxRequests
    /\ requests' = Append(requests, Sending(kind, about, value))
    /\ UNCHANGED <<serverPrefs, shownList, loaded>>

\* saveAccentColor, saveMobileReadOnlyDefault.
SaveSetting(setting, value) ==
    /\ Ask("save", setting, [s \in {setting} |-> value])
    /\ shown' = [shown EXCEPT ![setting] = value]
    /\ IF setting = ReadOnlyDefault THEN touched' = TRUE /\ mode' = value
       ELSE UNCHANGED <<touched, mode>>
    /\ excused' = (excused \/ InFlight("save", setting) \/ Loading)
    /\ UNCHANGED edited

SetMode(value) ==
    /\ touched' = TRUE /\ mode' = value
    /\ UNCHANGED <<serverPrefs, shown, shownList, edited, requests, loaded, excused>>

\* A section of the settings is opened, or its button pressed.
LoadList(list) ==
    /\ Ask("load", list, <<>>)
    /\ UNCHANGED <<shown, mode, touched, edited, excused>>

\* scanSessionTypes, saveSshKey, deleteSshKey; handleSaveTemplate, deleteTemplate.
ChangeList(list) ==
    /\ list \in Guarded => ~InFlight("change", list)
    /\ Ask("change", list, <<>>)
    /\ UNCHANGED <<shown, mode, touched, edited, excused>>

\* startEditType and its cancel; saveTypeEdit.
StartEdit(list) == /\ edited' = list
                   /\ UNCHANGED <<serverPrefs, shown, shownList, mode, touched,
                                  requests, loaded, excused>>
CancelEdit == edited # NoEntry /\ StartEdit(NoEntry)
SaveEdit == /\ edited # NoEntry
            /\ Ask("edit", edited, <<>>)
            /\ UNCHANGED <<shown, mode, touched, edited, excused>>

ImportSettingsFile(values) ==
    /\ ~Importing
    /\ Ask("import", Settings, values)
    /\ excused' = (excused \/ InFlight("load", Settings) \/ \E i \in DOMAIN requests : requests[i].kind = "save")
    /\ UNCHANGED <<shown, mode, touched, edited>>

-----------------------------------------------------------------------------
(* The server.                                                              *)

ListChanged(lists) ==
    /\ listChanges < MaxListChanges
    /\ listChanges' = listChanges + 1
    /\ keptList' = [l \in ListName |-> IF l \in lists THEN listChanges' ELSE keptList[l]]

Serve(i) ==
    LET r == requests[i] IN
    /\ ~r.served
    /\ CASE r.kind = "save" -> kept' = [kept EXCEPT ![r.about] = r.value[r.about]]
                               /\ UNCHANGED <<keptList, listChanges>>
         [] r.kind \in {"change", "edit"} -> ListChanged({r.about}) /\ UNCHANGED kept
         [] r.kind = "import" -> ListChanged(ListName) /\ kept' = r.value
         [] r.kind \in {"load", "reload"} -> UNCHANGED serverPrefs
    /\ requests' = [requests EXCEPT
           ![i].served = TRUE,
           ![i].value = IF r.kind \notin {"load", "reload"} THEN @ ELSE IF r.about = Settings THEN kept ELSE [l \in {r.about} |-> keptList[l]]]
    /\ UNCHANGED <<screenPrefs, loaded, excused>>

-----------------------------------------------------------------------------
(* Answers and failures.                                                    *)

\* Faulty variant: an edit of an entry is shown at its next load only.
LoadsButForEdits(r) ==
    CASE r.kind = "change" -> <<Sending("load", r.about, <<>>)>>
      [] r.kind = "import" -> <<Sending("reload", Settings, <<>>)>>
                              \o SetToSeq({Sending("reload", l, <<>>) : l \in ListName})
      [] OTHER -> <<>>

\* The loads that take the place of a request whose answer has come.
Loads(r) ==
    CASE r.kind \in {"change", "edit"} -> <<Sending("load", r.about, <<>>)>>
      [] r.kind = "import" -> <<Sending("reload", Settings, <<>>)>>
                              \o SetToSeq({Sending("reload", l, <<>>) : l \in ListName})
      [] OTHER -> <<>>

Ended(i) == requests' = RemoveAt(requests, i) \o Loads(requests[i])

\* loadAppSettings: a mode that the user has chosen stays.
SettingsLoaded(i) ==
    /\ requests[i].kind \in {"load", "reload"} /\ requests[i].about = Settings
    /\ shown' = requests[i].value
    /\ mode' = IF touched THEN mode ELSE requests[i].value[ReadOnlyDefault]
    /\ loaded' = loaded \cup {Settings}
    /\ UNCHANGED <<excused, shownList, touched, edited>>

ListLoaded(i) ==
    /\ requests[i].kind \in {"load", "reload"} /\ requests[i].about # Settings
    /\ shownList' = [shownList EXCEPT ![requests[i].about] = requests[i].value[requests[i].about]]
    /\ loaded' = loaded \cup {requests[i].about}
    /\ excused' = (excused \/ shownList'[requests[i].about] < shownList[requests[i].about])
    /\ UNCHANGED <<shown, mode, touched, edited>>

\* saveTypeEdit ends whatever edit there is by now.
Done(i) ==
    /\ requests[i].kind \in {"save", "change", "edit", "import"}
    /\ edited' = IF requests[i].kind = "edit" THEN NoEntry ELSE edited
    /\ UNCHANGED <<shown, shownList, mode, touched, loaded, excused>>

\* Of an import, all loads are awaited; the last of them ends it.
Answered(i) ==
    /\ requests[i].served
    /\ SettingsLoaded(i) \/ ListLoaded(i) \/ Done(i)
    /\ Ended(i)
    /\ UNCHANGED serverPrefs

\* A failed save is shown as if it had been kept; a failed load changes nothing.
Failed(i) ==
    /\ requests' = RemoveAt(requests, i)
    /\ excused' = (excused \/ requests[i].kind \in {"save", "load", "reload"} \/ requests[i].served)
    /\ UNCHANGED <<serverPrefs, shown, shownList, mode, touched, edited, loaded>>

PreferencesNext ==
    \/ \E setting \in Setting, value \in SettingValue : SaveSetting(setting, value)
    \/ \E value \in SettingValue : SetMode(value)
    \/ \E list \in ListName : LoadList(list) \/ StartEdit(list) \/ ChangeList(list)
    \/ CancelEdit \/ SaveEdit
    \/ \E values \in [Setting -> SettingValue] : ImportSettingsFile(values)
    \/ \E i \in DOMAIN requests : Serve(i) \/ Answered(i) \/ Failed(i)

PreferencesSpec == PreferencesInit /\ [][PreferencesNext]_prefsVars

-----------------------------------------------------------------------------
(* Properties.                                                              *)

\* When nothing is in flight, the panels show what the server keeps, for all
\* that has been loaded, unless a request failed or overlapped another that
\* touched the same.
PanelsShowWhatIsKept ==
    requests = <<>> /\ ~excused =>
        /\ Settings \in loaded => shown = kept
        /\ \A l \in loaded \ {Settings} : shownList[l] = keptList[l]
=============================================================================
