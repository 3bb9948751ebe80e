--------------------------- MODULE SettingsTables ---------------------------
(***************************************************************************)
(* The settings, session types and workspace templates that the server     *)
(* keeps (src/src/lib/settings-store.js, template-store.js), under their   *)
(* routes (routes/settings.js, templates.js), under the start that fills   *)
(* in defaults (lib/db.js), and under export and import of all of them     *)
(* (services/settings-backup.js, lib/settings-import-utils.js).  Managed   *)
(* hosts are in the same file and the same transaction; they have their    *)
(* gateways here, by name, and ManagedHosts has their requests in full.    *)
(*                                                                         *)
(* A row is told by its name.  Its look stands for a colour and a label,   *)
(* for a value, or for the layout and description of a template.  Requests *)
(* that are refused change nothing and are left out, but for imports.      *)
(***************************************************************************)
EXTENDS Integers, SequencesExt

CONSTANTS
    SettingKey,           \* keys that have a validator
    AccentKey,            \* the one that has a default
    TypeName,             \* process names
    DefaultTypes,         \* those a first start writes, in their order
    TemplateName,         \* names of templates
    Look, DefaultLook,    \* what rows show; that of a default or discovered row
    BadName, BadLook,     \* a name or a look that no route accepts
    SavedHost,            \* names of managed hosts
    MaxImportSettings,    \* MAX_IMPORT_APP_SETTINGS
    MaxImportHosts,       \* MAX_IMPORT_MANAGED_HOSTS
    MaxImportTypes,       \* MAX_IMPORT_SESSION_TYPES
    MaxImportTemplates,   \* MAX_IMPORT_WORKSPACE_TEMPLATES
    MaxTableChanges,      \* bound: changes of tables by requests
    MaxStarts,            \* bound: starts of the server
    MaxScans              \* bound: scans in flight

Direct == "no gateway"

ASSUME SettingsAssumption ==
    /\ AccentKey \in SettingKey
    /\ DefaultLook \in Look /\ BadLook \notin Look
    /\ BadName \notin SettingKey \cup TypeName \cup TemplateName
    /\ IsFiniteSet(TypeName)
    /\ IsFiniteSet(SavedHost) /\ Direct \notin SavedHost
    /\ DefaultTypes \in Seq(TypeName) /\ IsInjective(DefaultTypes)
    /\ {MaxImportSettings, MaxImportHosts, MaxImportTypes, MaxImportTemplates} \subseteq Nat
    /\ {MaxTableChanges, MaxStarts, MaxScans} \subseteq Nat

VARIABLES
    settings,      \* app_settings: the value of each key that has one
    types,         \* session_types: look and sort_order of each name
    templates,     \* workspace_templates: the look of each name
    gateways,      \* managed_hosts: of each name, that of its gateway, or Direct
    phase,         \* the server is "down", "starting" or "up"
    toSeed,        \* while it is starting: the default types to be written yet
    scans,         \* scans that await the answers of hosts
    exported,      \* a file that was exported, or no file
    received,      \* the file of the import that was the last step, or no file
    accepted,      \* whether that import was accepted
    starts,        \* history: how many starts there have been
    changes,       \* history: changes of tables so far
    cutShort,      \* history: a start ended before all default types were written
    typesDeleted   \* history: types that were deleted

tables == <<settings, types, templates>>
settingsVars == <<tables, gateways, phase, toSeed, scans, exported, received, accepted,
                  starts, changes, cutShort, typesDeleted>>

NoFile == <<>>
FirstSortOrder == 100

SettingsInit ==
    /\ settings = <<>> /\ types = <<>> /\ templates = <<>> /\ gateways = <<>>
    /\ phase = "down"
    /\ toSeed = <<>>
    /\ scans = 0
    /\ exported = NoFile /\ received = NoFile /\ accepted = FALSE
    /\ starts = 0 /\ changes = 0
    /\ cutShort = FALSE
    /\ typesDeleted = {}

With(table, name, row) == [n \in DOMAIN table \cup {name} |-> IF n = name THEN row ELSE table[n]]
RowsWithout(table, name) == [n \in DOMAIN table \ {name} |-> table[n]]

NoImport == received' = NoFile /\ accepted' = FALSE

-----------------------------------------------------------------------------
(* The start of the server, which may be cut short at any point, and its    *)
(* end.                                                                     *)

\* migrate: the default types are written if there is none at all.
StartServer ==
    /\ phase = "down" /\ starts < MaxStarts
    /\ phase' = "starting"
    /\ toSeed' = IF types = <<>> THEN DefaultTypes ELSE <<>>
    /\ starts' = starts + 1
    /\ NoImport
    /\ UNCHANGED <<tables, gateways, scans, exported, changes, cutShort, typesDeleted>>

\* Faulty variant: whether there is none is asked before each.
SeedTypeIfNone ==
    /\ phase = "starting" /\ toSeed # <<>>
    /\ types' = IF types = <<>> THEN With(types, Head(toSeed), [look |-> DefaultLook, order |-> 1]) ELSE types
    /\ toSeed' = Tail(toSeed)
    /\ NoImport
    /\ UNCHANGED <<settings, templates, gateways, phase, scans, exported, starts, changes, cutShort, typesDeleted>>

\* Each is a transaction of its own.
SeedType ==
    /\ phase = "starting" /\ toSeed # <<>>
    /\ types' = With(types, Head(toSeed),
                     [look |-> DefaultLook, order |-> Len(DefaultTypes) - Len(toSeed) + 1])
    /\ toSeed' = Tail(toSeed)
    /\ NoImport
    /\ UNCHANGED <<settings, templates, gateways, phase, scans, exported, starts, changes, cutShort, typesDeleted>>

\* The accent colour, and then requests are answered.
ServerIsUp ==
    /\ phase = "starting" /\ toSeed = <<>>
    /\ settings' = IF AccentKey \in DOMAIN settings THEN settings
                   ELSE With(settings, AccentKey, DefaultLook)
    /\ phase' = "up"
    /\ NoImport
    /\ UNCHANGED <<types, templates, gateways, toSeed, scans, exported, starts, changes, cutShort, typesDeleted>>

\* A stop, a crash.
ServerEnds ==
    /\ phase # "down"
    /\ phase' = "down"
    /\ toSeed' = <<>>
    /\ scans' = 0
    /\ cutShort' = (cutShort \/ toSeed \notin {<<>>, DefaultTypes})
    /\ NoImport
    /\ UNCHANGED <<tables, gateways, exported, starts, changes, typesDeleted>>

-----------------------------------------------------------------------------
(* Requests, each in one turn.                                              *)

Request == phase = "up" /\ UNCHANGED <<phase, toSeed, starts, cutShort>>
TableRequest == Request /\ changes < MaxTableChanges /\ changes' = changes + 1 /\ NoImport

UpsertAppSetting(key, value) ==
    /\ TableRequest
    /\ settings' = With(settings, key, value)
    /\ UNCHANGED <<types, templates, gateways, scans, exported, typesDeleted>>

NextSortOrder ==
    IF types = <<>> THEN FirstSortOrder ELSE Max({types[n].order : n \in DOMAIN types}) + 1

CreateSessionType(name, look) ==
    /\ TableRequest
    /\ name \notin DOMAIN types
    /\ types' = With(types, name, [look |-> look, order |-> NextSortOrder])
    /\ UNCHANGED <<settings, templates, gateways, scans, exported, typesDeleted>>

UpdateSessionType(name, look) ==
    /\ TableRequest
    /\ types' = [types EXCEPT ![name].look = look]
    /\ UNCHANGED <<settings, templates, gateways, scans, exported, typesDeleted>>

DeleteSessionType(name) ==
    /\ TableRequest
    /\ types' = RowsWithout(types, name)
    /\ typesDeleted' = typesDeleted \cup {name}
    /\ UNCHANGED <<settings, templates, gateways, scans, exported>>

CreateTemplate(name, look) ==
    /\ TableRequest
    /\ name \notin DOMAIN templates
    /\ templates' = With(templates, name, look)
    /\ UNCHANGED <<settings, types, gateways, scans, exported, typesDeleted>>

\* Name and description; the layout stays.
UpdateTemplate(name, newName, look) ==
    /\ TableRequest
    /\ newName \in {name} \cup (TemplateName \ DOMAIN templates)
    /\ templates' = With(RowsWithout(templates, name), newName, look)
    /\ UNCHANGED <<settings, types, gateways, scans, exported, typesDeleted>>

DeleteTemplate(name) ==
    /\ TableRequest
    /\ templates' = RowsWithout(templates, name)
    /\ UNCHANGED <<settings, types, gateways, scans, exported, typesDeleted>>

\* Following gateways comes to no end.
GatewayCycle(table) ==
    \E hosts \in SUBSET DOMAIN table : hosts # {} /\ \A h \in hosts : table[h] \in hosts

HostTables ==
    {table \in UNION {[hosts -> hosts \cup {Direct}] : hosts \in SUBSET SavedHost} : ~GatewayCycle(table)}

\* What the routes of managed hosts do, whose requests make no cycle.
ChangeHosts(table) ==
    /\ TableRequest
    /\ gateways' = table
    /\ UNCHANGED <<tables, scans, exported, typesDeleted>>

\* The hosts are asked for the processes that run.
ScanSessionTypes ==
    /\ Request /\ scans < MaxScans
    /\ scans' = scans + 1
    /\ NoImport
    /\ UNCHANGED <<tables, gateways, exported, changes, typesDeleted>>

\* insertDiscoveredSessionTypes: the types there are by now stay as they are.
ScanEnds(found) ==
    /\ TableRequest /\ scans > 0
    /\ scans' = scans - 1
    /\ LET new == SetToSeq(found \ DOMAIN types)
       IN  types' = [n \in DOMAIN types \cup found |->
               IF n \in DOMAIN types THEN types[n]
               ELSE [look |-> DefaultLook,
                     order |-> NextSortOrder + (CHOOSE i \in DOMAIN new : new[i] = n) - 1]]
    /\ UNCHANGED <<settings, templates, gateways, exported, typesDeleted>>

-----------------------------------------------------------------------------
(* Export and import.                                                       *)

Entry(table, name) == [name |-> name, row |-> table[name]]
EntriesOf(table) == {Entry(table, name) : name \in DOMAIN table}
FileEntries(table) == SetToSeq(EntriesOf(table))

\* createSettingsExport.
File == [settings |-> FileEntries(settings), types |-> FileEntries(types),
         templates |-> FileEntries(templates), hosts |-> FileEntries(gateways)]

CreateSettingsExport ==
    /\ Request
    /\ exported' = File
    /\ NoImport
    /\ UNCHANGED <<tables, gateways, scans, changes, typesDeleted>>

\* A row that an editor of the file may have added at its end.
AddedType == [name : TypeName \cup {BadName}, row : [look : Look \cup {BadLook}, order : {0}]]
AddedTemplate == [name : TemplateName \cup {BadName}, row : Look \cup {BadLook}]
AddedHost == [name : SavedHost, row : SavedHost \cup {Direct}]

\* The file as it was exported, or after it was edited.
FilesFrom(file) ==
    {file}
    \cup {[file EXCEPT !.types = Append(@, entry)] : entry \in AddedType}
    \cup {[file EXCEPT !.templates = Append(@, entry)] : entry \in AddedTemplate}
    \cup {[file EXCEPT !.hosts = Append(@, entry)] : entry \in AddedHost}

TooLong(file) ==
    \/ Len(file.settings) > MaxImportSettings \/ Len(file.hosts) > MaxImportHosts
    \/ Len(file.types) > MaxImportTypes \/ Len(file.templates) > MaxImportTemplates

\* upsertManagedHosts: where a host has its gateway from the file, the last
\* entry decides that names one; the others keep theirs.
GatewaysAfter(table, entries) ==
    LET all == DOMAIN table \cup {entries[i].name : i \in DOMAIN entries}
        naming(h) == {i \in DOMAIN entries : entries[i].name = h /\ entries[i].row \in all \ {h}}
    IN  [h \in all |-> IF naming(h) # {} THEN entries[Max(naming(h))].row
                       ELSE IF h \in DOMAIN table THEN table[h]
                       ELSE Direct]

\* An entry without a proper name is passed over.
Named(entries) == {entry \in ToSet(entries) : entry.name # BadName}
Accepted(file) ==
    /\ ~TooLong(file)
    /\ ~GatewayCycle(GatewaysAfter(gateways, file.hosts))
    /\ \A entry \in Named(file.types) : entry.row.look # BadLook
    /\ \A entry \in Named(file.templates) : entry.row # BadLook

\* ON CONFLICT DO UPDATE: the table after the first n entries.
UpsertedBy(table, entries) ==
    LET after[n \in 0..Len(entries)] ==
            IF n = 0 THEN table
            ELSE IF entries[n].name = BadName THEN after[n - 1]
            ELSE With(after[n - 1], entries[n].name, entries[n].row)
    IN  after

Upsert(table, entries) == UpsertedBy(table, entries)[Len(entries)]

\* Faulty variant: a type that exists keeps its sort_order.
UpsertTypesKeepsOrder(table, entries) ==
    LET all == Upsert(table, entries)
    IN  [n \in DOMAIN all |-> IF n \in DOMAIN table THEN [all[n] EXCEPT !.order = table[n].order]
                              ELSE all[n]]

UpsertTypes(table, entries) == Upsert(table, entries)

\* importSettingsExport: one transaction, which an error rolls back.
ImportSettings(file) ==
    /\ Request /\ changes < MaxTableChanges
    /\ changes' = changes + 1
    /\ received' = file
    /\ accepted' = Accepted(file)
    /\ IF Accepted(file)
       THEN /\ settings' = Upsert(settings, file.settings)
            /\ types' = UpsertTypes(types, file.types)
            /\ templates' = Upsert(templates, file.templates)
            /\ gateways' = GatewaysAfter(gateways, file.hosts)
       ELSE UNCHANGED <<tables, gateways>>
    /\ UNCHANGED <<scans, exported, typesDeleted>>

SettingsNext ==
    \/ StartServer \/ SeedType \/ ServerIsUp \/ ServerEnds
    \/ \E key \in SettingKey, look \in Look : UpsertAppSetting(key, look)
    \/ \E name \in TypeName, look \in Look : CreateSessionType(name, look)
    \/ \E name \in DOMAIN types : DeleteSessionType(name) \/ \E look \in Look : UpdateSessionType(name, look)
    \/ \E name \in TemplateName, look \in Look :
          \/ CreateTemplate(name, look)
          \/ \E old \in DOMAIN templates : UpdateTemplate(old, name, look)
    \/ \E name \in DOMAIN templates : DeleteTemplate(name)
    \/ \E table \in HostTables : ChangeHosts(table)
    \/ ScanSessionTypes
    \/ \E found \in SUBSET TypeName : ScanEnds(found)
    \/ CreateSettingsExport
    \/ exported # NoFile /\ \E file \in FilesFrom(exported) : ImportSettings(file)

SettingsSpec == SettingsInit /\ [][SettingsNext]_settingsVars

-----------------------------------------------------------------------------
(* Properties.                                                              *)

\* A table after an import has the rows of the file as they are there, and the
\* others as they were.
Restored(table, after, entries) ==
    LET inFile == {entry.name : entry \in Named(entries)}
    IN  /\ DOMAIN after = DOMAIN table \cup inFile
        /\ \A name \in DOMAIN after :
              IF name \in inFile THEN Entry(after, name) \in ToSet(entries)
              ELSE after[name] = table[name]

\* So do the hosts of the file, and their gateways if it names one, and
\* following gateways still comes to an end.
HostsRestored(entries) ==
    LET naming(h) == {e \in ToSet(entries) : e.name = h /\ e.row \in DOMAIN gateways' \ {h}}
    IN  /\ DOMAIN gateways' = DOMAIN gateways \cup {e.name : e \in ToSet(entries)}
        /\ \A h \in DOMAIN gateways' :
              IF naming(h) # {} THEN Entry(gateways', h) \in naming(h)
              ELSE gateways'[h] = IF h \in DOMAIN gateways THEN gateways[h] ELSE Direct
        /\ ~GatewayCycle(gateways')

\* The hosts of a file make a cycle, in which not every gateway is of the file.
CycleWithOthers(file) ==
    LET after == GatewaysAfter(gateways, file.hosts)
    IN  \E hosts \in SUBSET DOMAIN after :
            /\ hosts # {} /\ \A h \in hosts : after[h] \in hosts
            /\ \E h \in hosts : Entry(after, h) \notin ToSet(file.hosts)

\* An import that is accepted brings every row of its file back and leaves the
\* others alone; one that is refused changes nothing, and the file as it was
\* exported is refused only if it has more rows than an import may have, or if
\* gateways that were set since make a cycle with those in the file.
ImportRestores ==
    received' # NoFile =>
        IF accepted'
        THEN /\ Restored(settings, settings', received'.settings)
             /\ Restored(types, types', received'.types)
             /\ Restored(templates, templates', received'.templates)
             /\ HostsRestored(received'.hosts)
        ELSE /\ UNCHANGED <<tables, gateways>>
             /\ received' = exported => TooLong(exported) \/ CycleWithOthers(exported)

\* Every import does that, whatever was changed, deleted, scanned and restarted
\* since the file was exported.
ImportRestoresExport == [][ImportRestores]_settingsVars

\* A server that answers requests has every default type that was not deleted,
\* however often it was stopped, unless a start was cut short.
DefaultTypesAreThere ==
    phase = "up" /\ ~cutShort => ToSet(DefaultTypes) \subseteq DOMAIN types \cup typesDeleted
=============================================================================
