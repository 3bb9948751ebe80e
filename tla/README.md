# Session Deck in TLA+

This directory specifies Session Deck, a web front end for tmux: a Node server
that keeps pseudo-terminals for browsers, classifies their output and stores
workspaces, hosts, settings and histories, and a browser application that shows
them and edits them.  The specifications are checked with TLC on small
instances; all of the safety properties of the runs that pass are proved with
TLAPS for all instances, and so are both refinements.  What is left to TLC is
listed at the end of section 4.

Paths below are relative to the repository.  `src/` is the server,
`frontend/src/` the browser application.

## 1. The system and its parts

| Part | State it keeps | Operations |
|---|---|---|
| Terminal lifecycle: `src/services/terminal.js`, `src/routes/terminal-ws.js` | `activePTYs` (id to PTY, insertion order), `resizeTimers`, per entry the size last applied; per socket the handlers with the captured id | accept, refuse, message (input, resize, scroll), exit, close, error, prune |
| Scroll scheduler: `createTerminalScrollScheduler` in `src/lib/ws-utils.js` | `pendingLines`, `timer`, `inFlight`, `stopped` | push, flushNow, flush by timer, stop |
| Status engine: `src/services/status-engine.js` | a pane per terminal (status, last transition, text buffer, times of output), idle timers, listeners | register, feed, remove, idle time-out, subscribe |
| Status channel: `src/routes/status-ws.js`, `frontend/src/lib/stores/status.js` | one subscription per socket; in the browser a map by host:session, a reconnect timer | snapshot, transition, close, reconnect |
| Workspace store: `frontend/src/lib/stores/workspaces.js`, `workspace-action-utils.js`, `App.svelte` | list of workspaces, active id, the screen's copy of both, one save timer, pending layout commits | edit, commit, rename of a session, create, duplicate, delete, switch |
| Workspace rows: `src/routes/workspaces.js`, `src/lib/workspace-store.js` | table `layout_presets` | create, update, delete, list |
| Terminal component: `frontend/src/lib/Terminal.svelte` | the socket, connection flags, sizes sent, timers of the fit, rate limit, the armed Ctrl key | connect, disconnect, fit, resize, change of session, destroy, input, paste |
| WebSocket tokens: `createWsTokenStore` | map of tokens with their times | generate, validate, prune |
| Activity badges: `frontend/src/lib/stores/activity.js`, `src/routes/activity.js` | last seen, last activity, badges, the list of workspaces | poll, load, restore, switch, create, delete, mark seen |
| Session history: `src/services/session-history-cache.js` | two tables of lines and counters | synchronise, page, delete, rename |
| Managed hosts: `src/lib/managed-host-store.js`, `src/routes/managed-hosts.js` | table of hosts with gateways; tests in flight | create, update, delete, import, test, test of all |
| Hosts in the browser: `App.svelte`, `lib/server-settings-utils.js` | the form of a host with its list of containers; rows, flags of tests | open, choose, save, load, test, install |
| Host diagnostics: `src/services/managed-host-diagnostics.js` | a row of probes, each awaited | test, install tmux |
| Settings: `src/services/settings-backup.js`, `settings-store.js`, `template-store.js`, `db.js` | tables of settings, session types, templates | save, delete, scan, seed at the start, export, import in one transaction |
| Layout tree: `frontend/src/lib/stores/layout.js`, `src/lib/layout-utils.js` | none (functions on trees) | split, remove, move, swap, assign, arrange |
| Panes in the hands of the interface: `App.svelte`, `SplitPane.svelte`, `Mobile*.svelte` | menu, dialogs, zoom, focus, pane of the picker; the pane of a phone and its bar of keys | open, choose, close, zoom, focus, switch |
| Session list, forms and history viewer: `App.svelte`, `lib/session-utils.js` | sessions, errors by host, forms and dialogs, the viewer | load, retry, create, rename, delete, pick, open, load older |
| tmux: `src/services/tmux.js`, `routes/sessions.js` | a map of session types | list, create, rename, delete, capture |
| SSH configuration: `src/services/ssh-config.js` | none | parse |
| Login: `src/lib/auth.js` | users, attempt tracker, cookies | set-up, login, logout |
| SSH keys: `src/services/ssh-keys.js` | two files per key | save, delete |
| Preferences: `App.svelte`, `AppearanceSettings.svelte`, `DataSettings.svelte` | settings shown, lists shown | set, load, edit, import |
| Start of the page: `App.svelte` `init`, `SetupWizard.svelte` | the load that is awaited, the step of the wizard | load, restore, detect a first start, import, test, create, delete |
| Others: configuration, audit log, texts and looks | rows and presentation | single-step |

How they interact.  The terminal route calls the registry and the status engine
directly, from handlers of the socket (`message`, `close`, `error`) and of the
PTY (`onData`, `onExit`); registry and engine also act by themselves through
timers and when they prune.  Handlers name a terminal by its id, not by the
object they were attached to.  The engine's listeners are the status sockets,
from which the browser builds its map.  The workspace store talks to the rows
over HTTP requests, and to `App.svelte` through a subscription; `App.svelte`
keeps copies of the active id and layout that it also changes on its own while
a layout commit waits.  Everything else in the browser is of one kind: a handler
sets a flag, awaits a request, and puts the answer into whatever state there is
by then.

What is hard.  JavaScript runs each handler to its end, so there are no data
races inside one; the hazards lie between handlers: ids that were captured
earlier, timers that fire after what they were set for has changed, `await`s
during which anything may happen, requests and answers that overtake each other
or get lost, two maps that are pruned by separate rules, cleanup that is reached
along several paths, paths into a tree that is changed meanwhile, files that are
written one after the other, and starts that are cut short.  `PROJECT.json` lists
them with their lines under `hazards`.

What makes each part correct.

* Terminals: no PTY without a socket and a registry entry, no entry or pane
  of an ended terminal, resizes neither repeated nor late, every ended terminal
  cleaned up, and one terminal never ends another.
* Scroll: no line lost or sent twice, waiting lines are sent, a failure is only
  logged.
* Status: questions are never missed or hidden, no flicker, work that ends is
  followed by idle; what a browser shows is the status of a terminal that exists.
* Workspaces: an edit is saved or is known to be lost, the active workspace
  exists, the screen shows it, deletion is final.
* Terminal component: the only live socket is the one shown, to the session shown,
  with the size of the pane.
* History: lines in the order of the session, none twice, none after a deletion that succeeded.
* Hosts: gateways have no cycle, a result is of the host it is kept for; what is
  reported of a host was so.
* Settings: an import brings back what was exported, or changes nothing; it is refused
  only for a reason that the file has not in itself, or for its length.
* Layout: operations keep the panes they are not about, and stay within the bounds
  of the server; what was chosen on one pane is done to that pane.
* Lists and forms: once all answers have come, the screen shows what the server has.

## 2. Modules

| Module | Models | Run | Proofs |
|---|---|---|---|
| `TerminalPool` | what the registry promises, as a pool of at most `Limit` terminals | `terminals` | |
| `Terminals` | sockets, PTYs, registry, panes and resize timers; implements `TerminalPool` | `terminals` | `TerminalsProofs` |
| `StatusEngine` | one pane of the status engine, with time | `status` | `SessionProofs` |
| `StatusChannel` | snapshot and transitions on their way to the browser's map | `status` | `SessionProofs` |
| `ActivityBadges` | badges of workspaces, polls that overlap | `status` | `SessionProofs` |
| `SessionListing` | the list of the sessions of a host, made question by question | `status` | `SessionProofs` |
| `SessionForms` | creation, renaming, deletion and picking of sessions, with the list and the panes | `status` | `SessionProofs` |
| `ScrollScheduler` | the scroll scheduler of one socket and the route's use of it | `panels` | `PanelsProofs` |
| `MobileInput` | the input of a phone: panes, bar of keys, paste | `panels` | `PanelsProofs` |
| `Preferences` | panels of the settings: settings and lists | `panels` | `PanelsProofs` |
| `AppStart` | the start of the page and the set-up wizard | `workspaces` | `PanelsProofs` |
| `WorkspaceStore` | the browser's workspaces, requests, and rows | `workspaces` | `WorkspaceStoreProofs` |
| `TerminalPane` with `WsTokens` | connections of a terminal pane and the tokens they take | `browser` | `BrowserProofs` |
| `TerminalSize` | the size of a pane on its way to the PTY | `browser` | `BrowserProofs` |
| `SessionList` | the list of the sessions of all hosts | `browser` | `BrowserProofs` |
| `HistoryViewer` | the viewer of a history and its late answers | `browser` | `BrowserProofs` |
| `HostForm` | the form of a host with its list of containers | `browser` | `BrowserProofs` |
| `PaneSequence` | what operations on a layout promise, as operations on a sequence | `browser` | |
| `Layouts`, `LayoutTree` | the tree of a layout, its operations, the bounds of the server and templates; implements `PaneSequence` | `browser` | `LayoutProofs` |
| `PaneTargets` | what menus, dialogs, zoom and focus hold of a pane; uses `Layouts` | `browser` | `LayoutProofs` |
| `SessionHistory` | the history cache under operations on sessions | `server_data` | `TerminalsProofs` |
| `LoginAttempts` | the tracker of failed logins | `server_data` | `ServerProofs` |
| `SshKeys` | the two files of a key | `server_data` | `ServerProofs` |
| `ManagedHosts` | the table of hosts, gateways, imports and tests | `server_data` | `ServerProofs` |
| `HostDiagnostics` | the probes of a test and of an installation | `server_data` | `ServerProofs` |
| `SettingsTables` | settings, session types and templates; export and import of these and of hosts; seeding | `server_data` | `ServerProofs` |
| `HostRows` | the rows of hosts in the browser against the table | `server_data` | `ServerProofs` |
| `SshConfig` | the parser of the ssh configuration | `server_data` | `ServerProofs` |

`ListLemmas` has the facts about sequences, finite sets, induction and recursion that
several proofs need.  A module of proofs takes the components of one run together,
except that those about `SessionHistory` are beside those about the terminals, and
those about layouts have a module of their own.

The `MC...` modules extend these for TLC.  `MCStatus`, `MCPanels`, `MCBrowser`,
`MCServer` and `MCWorkspaceStore` put parts side by side that share no state: a behaviour is one of the
part it starts with, so that the states of the parts add up and do not multiply.

Definitions that follow a comment beginning with "Faulty variant" are not part of
any specification: each is a plausible mistake in the code, kept to show that a
property would notice it.

Names that start with "history:" in the comments on variables only record what
happened, for the properties; no guard reads them.

### `Terminals`

Sockets are numbered in the order in which they arrive, and `socket[c]`,
`pty[c]` and `tid[c]` are the state of the WebSocket, of the PTY spawned for it
and the id its handlers captured.  `active`, `panes` and `resizeTimers` are the
three maps, indexed by id.  An id is a pair of `Key` (host and session) and a
millisecond, so that two sockets may share one.

`Accept` is the whole of the accepted path: `spawnTerminal` with
`registerActiveTerminal` (kill of the same id, insertion, pruning) and
`statusEngine.register` (removal, insertion, pruning).  `Reject` is its early
returns.  `PtyDies` and `PtyExit` separate the end of a process from its event,
since other handlers run in between; a PTY that was killed also emits the event
later, and its handler acts on whoever has the id by then.  `SocketEnds` is the
body shared by the `close` and `error` handlers.  `Resize` and `ResizeFires` are
the two halves of the debounced resize.

The pruning loops remove the first key of a Map until the size fits.  As both
registrations delete their key before they set it, the order of insertion is the
order of arrival, and the loops keep the newest entries (`Oldest`).

### `StatusEngine`, `StatusChannel`, `ActivityBadges`

The engine keeps nothing in common between panes but the map, so one pane is
modelled, which is removed and registered again.  The text is abstracted to the
marks the classifier looks for: a question, a failure, or a prompt on the last
line.  `recent` are those in the last 512 characters of the buffer, which later
output pushes out.  Time is discrete and ages saturate; `dwell`, `quiet` and
`worked` only record history for the properties.  A timer that is due fires
before time goes on, which is the most punctual behaviour a timer can have: a
later one only leaves the state as it is for longer.

In `StatusChannel` a terminal changes its status at any time; `inbox` are the
messages between server and browser, which a loss of the socket discards.  The
browser keys its map by session while the engine has an entry per terminal, and
nobody tells the browser of a removal; `left` is what the properties must excuse
for that.

In `ActivityBadges` polling starts when the page is mounted, while `init` still loads
the workspaces: `listed` is what the store has of them and `starting` how far `init`
is.  An answer that comes before they are loaded marks none, though it is kept and
later ones are compared with it; `restoreFromHash` makes a workspace active that
nobody went to.  `heardBefore` records, for each workspace of the list, what had been
heard when it came on it, which is what the property must excuse: such output is not
new to any later poll, and wears no badge.  Workspaces are also created (empty, or as
copies) and deleted.  The layouts of workspaces stay as they are.

### `ScrollScheduler`

`Message` is a scroll message of the route: `push` and then `flushNow`, which
together are one turn.  `calls` holds the scrolls that have been started and not
settled, with who waits for each: the route, which logs a rejection, or the
timer, whose promise nobody holds.  `owed` counts, apart from the code's own
variable, the lines that were asked for and not handed over.

### `WorkspaceStore`

A browser tab with its list (`local` and `order`), active id and save timer, the
id on the screen (`shown`, which is `activeId` of `App.svelte`), commits that
wait for their 50 ms, requests and answers in flight, and the rows.  A layout is
a session and a shape, enough to tell an edit of content from one of
arrangement.  `requests` is a sequence from which any element may be handled
next or fail.  `lost` records why an edit will not be saved.

### `TerminalPane`, `WsTokens`, `TerminalSize`

A pane that fetches a token, makes a socket of it and gives it up again, with
every event of every socket it ever made; a fetch that ends after the pane has
moved on makes a socket nobody wants (`StraySocketWasOvertaken` says that this is
the only way).  The server's part is the login the request needs, and the store of
tokens.  `TerminalSize` follows one number from the box on the screen through the
observer, its timer, the quiet time after output, the limit on resizes, the URL of
a connection, the network and the debounced resize of the server.

### `Layouts`, `LayoutTree`, `PaneSequence`, `PaneTargets`

A layout is a record per split with a sequence of children, as in the code, and
its paths are the code's.  `OfLevels[n]` is the set of layouts of at most `n` levels,
so that the walks over a layout are recursive functions on the set `Layout`, and not
recursive operators, about which nothing could be proved.  `MaxLevels` bounds that
set only: by assumption it exceeds the number of panes, and a layout needs no more
levels than it has panes, and one more while an operation is under way.
`LayoutTree` is shown to implement `PaneSequence`, in which the same operations are
written as what they promise of the panes read from left to right.
`PaneTargets` uses the same operators on the layouts of two workspaces while menus,
dialogs, the zoom and the picker hold paths in them.  A session for a pane lets only
what is held of that path lapse, and a new name only what is held of the old one; a
split, and a close or a drop beside an open menu, move panes under what is held, and
the code follows none of them.  A focused empty pane has an id that is taken for that
of a session (`EmptyId`), which no pane holds.

### `SessionListing`, `SessionForms`, `SessionList`, `HistoryViewer`, `SessionHistory`

`SessionListing` is `listSessions` on the server, with the pool of workers of
`mapWithConcurrency`, while tmux changes.  `SessionList` is its consumer in the
browser for several hosts.  In `SessionForms` a tmux session has an identity that
nobody but the properties reads, so that they can say of a pane which session it
was given, under whatever name.  `SessionHistory` prints lines as pairs of session
and number, with the banner and the empty last line that tmux captures have.  A
rename or a deletion is two steps there: tmux does it, and then either the cache is
told (`FinishCommand`) or the command is taken for failed, because its answer came
after the timeout or the connection broke (`CommandFails`).  `untold` remembers the
sessions of the latter: nothing in the code ever tells the cache what became of them,
so their lines stay under a name that is not theirs, and `HistoryFollowsSession` says
of all others that they are not affected.

### `ManagedHosts`, `HostForm`, `HostRows`, `HostDiagnostics`, `SshConfig`

In `ManagedHosts` the walk along the gateways is defined without recursion: the
hosts it comes through are those in every closed set that has the first
(`Chain`), and it never ends if some set of hosts has all its gateways inside
(`Endless`).  A test carries the birth of the row it was started for, since only
the id goes into the code.  `HostRows` numbers the changes of the table; a row on
the screen is the number of the change it shows.  In `HostDiagnostics` the host,
its gateway and tmux come and go between the commands.

### `SettingsTables`, `SshKeys`, `LoginAttempts`, `AppStart`, `Preferences`, `MobileInput`

Their headers say what they abstract.  `SettingsTables` and `SshKeys` have crashes
between the steps that are not one transaction: the seeding of rows, and the two
writes of a key.  `SettingsTables` has the gateways of hosts by name, since they are
part of the file and an import of them may refuse all of it.  Between export and import
the hosts change in one step (`ChangeHosts`) to any table without a cycle, which is what
the requests of `ManagedHosts` keep.  `AppStart` has reloads of the page and other pages, and workspaces
that the page itself creates and deletes while `init` awaits something; `spacesOwned`
records which of them the page had when it looked whether this is a first start.
`MobileInput` keeps the terminals that were left (`leftTerminals`) as long as they
read the clipboard: `onDestroy` closes the socket, but a token that is being fetched
makes a new one.  Whether it is for the session that the component ended with or for
the one shown by then depends on the framework, so both may happen.

## 3. What TLC checks

| Run | Instance | Result |
|---|---|---|
| `terminals` | 2 sessions, 3 sockets, 2 milliseconds, both limits 2, 1 size | passes, 142,842 states |
| `terminals_same_ms` | 1 session, 2 sockets, 1 millisecond | violation |
| `status` | the times of the code in tenths of a second; 2 sessions with 2 terminals and 2 messages; 2 workspaces with 2 polls and 2 times; 3 sessions listed by 2 workers; forms with 2 sessions, 2 panes, 2 requests | passes, 1,377,108 states |
| `status_idle` | the engine alone | violation |
| `panels` | batches of 20 lines; 2 workspaces with 2 panes on 2 sessions, 2 tokens and 1 paste; 2 settings and a list with 2 requests | passes, 1,329,376 states |
| `scroll_failure` | batches of at most 5 lines | violation |
| `workspaces` | 2 sessions, 2 rows, 2 requests in flight, 1 commit waiting; 2 rows and 2 calls at the start | passes, 2,489,560 states |
| `workspace_lost_save` | the store alone | violation |
| `browser` | 2 sockets and 2 fetches; 2 tokens; 3 hosts and 2 loads; 3 pages; sizes up to 3; layouts of up to 5 panes; 2 workspaces with 3 panes and 2 edits; 1 gateway and 1 container host | passes, 729,775 states |
| `server_data` | 2 sessions with 2 syncs; 3 keys to log in with; 2 SSH keys; 3 names of hosts and 3 ids; 3 types, 2 templates, 2 hosts with gateways; 4 changes of a row; 4 lines of configuration | passes, 1,463,319 states |
| `history_sync` | 1 session, 2 lines, a cache of 100 lines | violation |
| `template_splits` | layouts of up to 2 panes | violation |

**Bounds.**  Three sockets are the fewest for a full registry (2) to be pruned by
an arrival while the terminal that was killed has not yet exited; two
milliseconds let ids collide and differ.  With one size a terminal that has been
resized asks for the size it has, which is what the comparison is about.  In the
code the engine's limit (1000) is larger than the registry's (100); equal limits
are the worst case of `MaxActive <= MaxPanes`, and a pane of a killed terminal
then competes with those of live ones.  The times of the status engine are those
of the code exactly, since the resolution of 0.1 s divides them all.  The scroll
scheduler treats all magnitudes alike up to the limit, so that 20 stands for 200.

Two workspaces let a timer be taken by the other, two requests let a save be
overtaken and a deletion pass a save, and one commit lets a layout wait across
any other step.  The same reasoning gives the other bounds of two: two polls,
loads, fetches, requests or syncs are the fewest that overlap and come back in
the wrong order.  Where a part has proofs (section 4), these show that a third meets
nothing that a second does not; once they showed that it does.  In `SessionForms`, with
three names and three requests, a session takes the name that another gave up
in a rename the browser has not been told of yet, is renamed in its turn, and the
answer to this second rename comes first; then the panes of the first session are
given the name of the second.  The model now records that both have strayed
(`Takes`); TLC was run on three names and three requests, about two million states,
before the property was proved.  Two tokens fill a store of one.  Two workers and
three sessions make one worker take a second session while the other waits.  A cache
of two lines and an overlap of two are pruned and searched with the fewest
captures.  Three hosts are the fewest with a cycle that is not a pair; three ids
let a row be deleted and its place taken.  In a file two hosts are enough: one has the
other as its gateway, the other was given the first since.  Five panes make every shape of a tree
with a split in a split in a split.  `MaxLayoutPanes` and its two companions are
set to 5, so that trees reach the bounds of the server, and `MaxLevels` to 6: an
operation may need one level more than there are panes before it arranges them.

**Symmetry** is used for sets whose elements the code treats alike, in runs
without liveness.

**Deadlock** is checked in `workspaces`, `workspace_lost_save` and `status_idle`.  In
the other runs some part may stop: all the sockets of the bound have closed, a
scheduler has been stopped, or an exploration has used up its changes.

**Fairness.**  `Terminals` assumes that the exit event of a PTY that was killed or
died is delivered (the attach client that is signalled does not ignore a hang-up)
and that a closing socket closes (the WebSocket library destroys the connection
after a delay if the peer does not answer).  `ScrollScheduler` assumes that timers
fire and that scroll commands settle (they run with a time limit).  Nothing is
assumed of users, of sockets that are open, or of processes that run.  The other
parts promise something for the states in which nothing is on its way, which is a
safety property and needs no fairness.

**Properties.**  Each is stated in words above its definition.

* `Terminals`: the registry, the engine and the sockets agree between any two
  handlers (`RegistryHoldsLiveTerminals`, `LiveTerminalIsTracked`), the registry
  implements the pool (`ImplementsPool`), ended terminals are cleaned up
  (`EndedTerminalIsCleanedUp`).
* `StatusEngine`: `QuestionIsShown`, `NoFlicker`, `RealWorkSettles`.
  `StatusChannel`: `StatusMapIsCurrent`.  `ActivityBadges`: `BadgesMatchOutput`.
* `ScrollScheduler`: `EveryLineIsAccountedFor`, `WaitingLinesAreSent`.
* `WorkspaceStore`: `UnsavedEditIsAccountedFor`, `PendingSaveIsCurrent`,
  `ScreenFollowsStore`, `DeletedStaysDeleted`.
* `TerminalPane`: `HeaderHasAReason`, `StraySocketWasOvertaken`,
  `HeldTokenIsKnown`.  `TerminalSize`: `PtySizeFollowsBox`.
* `LayoutTree`: `LayoutIsSavable`, `ImplementsPaneSequence`.  `PaneTargets`:
  `TargetIsItsPane`.  `MobileInput`: `InputIsAsShown`.
* Sessions: `ListingWasTrue`, `SessionsAreAsShown`, `HostIsListedOnce`,
  `ViewerIsTheOneOpened`, `HistoryFollowsSession`.
* Hosts: `GatewaysEnd`, `ResultIsOfThisHost`, `ContainerIsOfItsGateway`,
  `RowsAreThoseOfTheTable`, `DiagnosisWasTrue`, `HostsAreAsWritten`.
* Settings and the rest: `ImportRestoresExport`, `DefaultTypesAreThere`,
  `PublicKeyMatches`, `FailuresAreBounded`, `PanelsShowWhatIsKept`,
  `WizardIsForNewcomers`.

Several of them name exceptions, kept in "history:" variables: an answer lost on
the way, two loads that overlap, a write cut short.  The exception is what the
code does not guard against; the property says that nothing else goes wrong, and
so the two together say how far what the screen shows can be relied on.

Type invariants and the invariants of one variable that the proofs need are not
repeated in the runs: they are proved (section 4).

### Where the code does not do what is said of it

1. `EndsOnlyByItself`: two terminals of one session opened in the same
   millisecond share an id.  The second kills the first, as the test of
   duplicate ids says, but the exit event of the first then kills the second,
   which that test's fake PTYs never get to.  It takes two panes of one session
   that connect together, for instance when a workspace is opened.
2. `WorkingMeansRecentOutput`: the comment on `IDLE_TIMEOUT` says that a pane goes
   from working to idle without output for that long.  The timer is only set for
   significant output, while any output puts a pane to work; so a few characters
   leave it working until more comes.
3. `FailedScrollIsHandled`: the route logs scrolls that fail, but not those the
   timer starts.  Their rejection is unhandled, which ends the Node process.
4. `QuietMeansSaved`: all workspaces share one save timer, so that the rename of
   a session shown in two workspaces ("Persists changes") saves only the last.
   `UnsavedEditIsAccountedFor` bounds this: besides it, edits are lost only when a
   request fails (none is repeated) or when an older save overtakes a newer one.
5. `CapturedLinesAreCached`: what tmux captures ends with an empty line, which the
   cache stores and finds again at the end of the next capture as an overlap of
   one line.  Everything before it counts as known, and the new lines are not
   stored.  The tests' captures have no such line.
6. `TemplateKeepsSplits`: templates are to keep the splits of a layout, but what
   is copied is called `direction`, while layouts call it `split`.

## 4. What is proved

Each theorem holds for every value of the constants that the assumptions named
below admit, so for any number of sockets, terminals, rows, requests and hosts;
the runs show the same properties on the instances above.

### `TerminalsProofs`

From `BoundsAssumption` (the bounds are natural numbers), `LimitsAssumption`
(1 <= MaxActive <= MaxPanes; 100 and 1000 in the code) and `SizeAssumption`:

* `Inductive`: `Spec => []IndInv`.
* `TypeCorrect`, `RegistryIsLive`, `RegisteredIsTracked`, `PanesEnd`,
  `LimitsAreKept`, `ResizeIsNew`: types, agreement and limits, each a part of it.
* `TerminalsImplementPool`: `Spec => ImplementsPool`, every step of `Terminals`
  being a step of `TerminalPool` or a stutter.

The invariants are not inductive by themselves.  The registry and the engine are
pruned separately, and when an arrival has filled both, nothing said so far
excludes that the engine drops the pane of a live terminal and keeps one that a
killed terminal has left until its exit event.  `NewerPanesAreRegistered` does: a
pane that is newer than some registered terminal is that of a registered
terminal, because the registry kills its oldest first.  So at most `MaxActive - 1`
panes are newer than any terminal the registry keeps, and the engine's limit,
which is not smaller, never reaches it.  `ArrivalsInOrder` says that sockets that
have not arrived have nothing, without which a new number could be that of an old
entry.  The argument about the pruning loops is in the lemmas `NewestIsBounded`,
`NewestIsFull`, `NewestIsAbove` and `NewestIsKept` on the newest elements of a
finite set; `AcceptInd` uses them for an arrival, `EndInd` treats the handlers
that end an id together, and `NextInd` has one step per action.

**`SessionHistory`.**  `HistoryFollowsSessionAlways`: `HistorySpec =>
[]HistoryFollowsSession`, from `HistoryAssumption` (the lengths of tails, pages and caches are
positive).  The property excuses states after a sync has overtaken a command and after
two histories had to be merged, which stay excused, and the sessions in `untold`; so the invariant is `HistoryInv`,
`Calm => CalmInv`, and a step needs it only where it leaves both flags down.  Besides
types, `CalmInv` says that the rows of a name follow on each other (`AllContiguous`);
that nobody else is at a name a command is about, and that a capture in flight is of
a session that has that name or has ended (`Undisturbed`, `CapturesAreOfTheirName`);
and where lines may be that are not where they belong: under the old name of a session
while its rename is on its way (`LinesFollow`), never under the new one before
(`NotYetThere`), and those of a deleted one while its deletion is (`KilledLinesGo`).
Commands name their session, so that these say whose rename or deletion it is
(`RenamingOf`, `DeletingOf`): a command that is reported as failed goes away with its
session alone (`CommandFailsFacts`), and the lines of the others keep theirs.

What a viewer has read is a recursive function of the number of pages.
`ViewReadsBack` shows by induction over the pages that it holds the rows from some
number on, in order, and that each page takes it further back until there are none;
it rests on lemmas about the newest elements of an interval.

### `WorkspaceStoreProofs`

From `WorkspaceBoundsAssumption` (the bounds are natural numbers):

* `StoreTypes`, `EditsAreAccountedFor`, `PendingSaveStaysCurrent`, `ScreenKeepsUp`:
  `TypeOK` and the invariants of the run.
* `DeletedRowsStayDeleted`: its action property.

`StoreInv` strengthens them in two directions.  For saves: what the property says of
an edit, that some save of it is on its way, is lost when that save is overtaken
or another one arrives first.  `OvertakenAreEarlier` says that saves that are
marked as overtaken come before those that are not, and `SavesCatchUp` that behind
every save which is not overtaken there is one of the layout the workspace has
now; so the last to arrive is the newest.  For deletion: a row that comes back
would need a creation with its id, so `IdsWereGiven` and `CreatedIsNew` follow the
ids from the server to the client: until the answer to a creation arrives, no
timer, request or list has its id.  Answers and requests are taken out of the
middle of a sequence, and `RemoveAtFacts` and `SavesStay` carry the order over that.
`StoreInvStep` has one step per action.

### `SessionProofs`

**`StatusEngine`.**  From `CooldownAssumption` (natural numbers, none for an unknown state and none
longer than that of error) and `TimeAssumption` (the times are positive, and the
cooldown of working is not longer than `IDLE_TIMEOUT`; 0.3 and 3 seconds in the
code):

* `StatusInductive`: `Spec => []StatusInv`.
* `QuestionsAreShown`, `WorkSettles`, `TimersBelong`: invariants of the engine;
  `StatesDoNotFlicker` and `AskingStays`: what a step may never do.

The strengthening is `ClocksAgree`: the time in a state, which `NoFlicker` is
about, is the age the code measures, and significant output since a state was
entered is not older than the state.  Without the second, the idle timer of a pane
that works could fire while the cooldown of working still refuses idle, and the
pane would work for ever, as the timer has cleared itself; `IdleInv` shows that
it is old enough.  `AskingIsAllowed` is the priority table's part in
`QuestionsAreShown`: no cooldown can refuse asking.

**`StatusChannel`.**  `BrowserKnowsStatuses`: `ChannelSpec => []StatusMapIsCurrent`, without
assumptions.  The property speaks of states in which every message has arrived; the invariant
must say what the messages on their way will come to.  `LastWordIsTrue`: the last
message that tells a key tells a status some terminal of the key has.
`MapIsTrue`: so does the map, for keys that no message on its way will change.
`NoneIsUnseen`: a terminal that has changed its status is in the map or in a
message.  `SnapshotIsFirst` is why a snapshot cannot undo a transition.  A
transition (`PaneChangesStep`) becomes the last word on its key, a reception
(`ReceiveStep`) moves the first word into the map, and `StatusInFacts` says what the
loop that fills the map from a snapshot keeps of several terminals of one key.

**`ActivityBadges`.**  `BadgesFollowOutput`: `ActivitySpec => []BadgesMatchOutput`, from
`ActivityAssumption` (the mark for "no workspace" is none).  Polls come back in any
order, so that the newest answer may be older than what is shown.  `AnswersArePast`
keeps of every answer in flight that what it says of a session happened, then or
earlier, and `TimesArePast` that nothing lies in the future; `VisitedIsSeen` is why a
badge that an old answer brings is still for output since the last visit.
`BadgesMatchOutput` is inductive with these: `PageStep` covers every change of the list
and of the active workspace that marks nothing as seen, since a workspace comes on the
list with all that was heard excused, and one that stops being active was left just
now, later than anything heard.

**`SessionListing`.**  `ListingsWereTrue`: `ListingSpec => []ListingWasTrue`, from
`SessionListingAssumption`.  The property relates an answer to what was so at some
time while it was made.  `NowIsRecorded` keeps what is so now in what was so;
`MappersAreInOrder` says that the indices in the workers' hands were taken before, are
no more than the limit, and that what is known of their sessions was true;
`ResultsWereTrue` says the same of the results that are there, whichever worker ends
first.

**`SessionForms`.**  `SessionsFollow`: `FormsSpec => []SessionsAreAsShown`, from
`SessionFormsAssumption` (finitely many names).  The property speaks of states without
a request.  `ListFollows` says what the one request that is there, while nothing has
made the list unsure, will come to, stage by stage.  `PanesFollow` says that a pane has
the name of its session, or that a rename is done of which the browser will be told;
`UntoldIsKnown` that of a session that has not strayed there is one such rename at
most, that it is to the name the session has, and that nobody has taken the old name.

### `PanelsProofs`

**`ScrollScheduler`.**  From `MaxLinesAssumption` (the limit of a batch is positive; 200
in the code):

* `ScrollInductive`: `Spec => []ScrollInv`, the types and three invariants
  together, which carry each other.
* `ScrollsAreSerial`, `WaitingLinesAreScheduled` and `LinesAreAccountedFor`: the
  invariants, and `StopIsFinal`: no scroll is started after the socket has ended.

`FlushKeeps` is about any flush, whoever asks for it, and `SettlingKeeps` about the
end of a scroll: as there is only one, `calls` is empty after it (`SettledIsLast`),
and lowering the flag is safe only because the same turn sets the timer for what
waits.

**`AppStart`.**  `WizardsAreForNewcomers`: `AppStartSpec => []WizardIsForNewcomers`, from
`AppStartAssumption`.  `StepsAreInOrder` says which requests there can be at each
step of `init`, and `OwnedAreListed` that until the page looks, every workspace that it
has read, or created since, and not deleted is on its list.  A list may name a row
twice, when it was created while the list was read; `WithoutSpaceFacts` is what the
filter of a deletion leaves of it.

**`MobileInput`.**  `InputsAreAsShown`: `MobileSpec => []InputIsAsShown`, from
`MobileInputAssumption`.  `TerminalIsOfPane`: the terminal is that of the session
shown, connected to it or to nothing, across every change of workspace and pane.
`LeftAreCut`: a terminal that was left without a fetch under way has no socket and
gets none, so that its pastes go nowhere; those of one that was left during a fetch
are what the property leaves out, and they may go to the session that was left.

**`Preferences`.**  `PanelsShowTheKept`: `PreferencesSpec => []PanelsShowWhatIsKept`, from
`PreferencesAssumption`.  `SettingsFit`: a setting that is saved is shown, and one that
is shown is kept or on its way.  `ListsFit`: a list that is not shown as it is kept is
brought by a request in flight (`Brings`), since each change of a list ends in a load.
`OneAtATime` is the order that the property asks for, unless it is excused.

### `BrowserProofs`

**`TerminalPane`, `WsTokens`.**  `HeadersHaveReasons`, `StraySocketsWereOvertaken` and
`HeldTokensAreKnown`, from `PaneBoundsAssumption` and `TokenAssumption`, are parts of one
invariant.  `SocketIsLive`: the socket the component knows is one that it has not
closed.  `FetchIsAlone`: a fetch that overtook none is the only one, of a pane that is
there and has no socket; so the socket it makes is the only live one.  `OneHolder`: a
token has one holder, a fetch or a socket that is connecting, so that nobody else can
use it up; `HeldAreKnown` says so of each holder, over expiry and the limit of the map.

**`TerminalSize`.**  `SizesAgreeAtRest`: `SizeSpec => []PtySizeFollowsBox`, from
`SizeAssumption`.  What the property says at rest needs a prediction before: `SizeToCome`
is the size the PTY will have when all messages on the wire and the resize that waits
in the server are done, and `SizeIsOnItsWay` says that it is that of the terminal, unless
a change was passed over.  `PaneIsFitted` says of the box that the terminal fills it or
that a fit is to come.

**`SessionList`.**  `HostsAreListedOnce`: `ListSpec => []HostIsListedOnce`, from
`SessionListAssumption` (this host is not one of the remote ones).  `LoadIsAlone`: a load
that is not overlapped is all that is under way; `FoundAreNew`: what it has found is
not listed yet.

**`HistoryViewer`.**  `ViewersAreThoseOpened`: `ViewerSpec => []ViewerIsTheOneOpened`,
without assumptions, for any number of pages.  `QueriesFitViewer`: each request is
of the session that is open, and one for older pages was made from a text of that
session whose pages followed on each other (`InPageOrder`), by a viewer that was not
waiting for a refresh.

**`HostForm`.**  `ContainersMatchGateways`: `HostFormSpec => []ContainerIsOfItsGateway`,
from `HostFormAssumption`.  `LoadIsOfGateway` is what is missing: a list that is loading
is of the gateway the form has, since every change of the gateway begins another
load, which `listsOverlapped` records.

### `LayoutProofs`

From `LayoutTreeAssumption`: the bounds of the server on children of a split, levels
and panes are natural numbers, of which the first is the least (16, 32 and 64 in the
code), and `MaxLevels` exceeds the number of panes.  From `PaneTargetsAssumption`: workspaces
have at least two panes and fewer than there are levels, and the id of an empty pane is
that of no session.

* `LayoutImplementsPaneSequence`: `LayoutSpec => ImplementsPaneSequence`.
* `LayoutIsSavableAlways`: `LayoutSpec => []LayoutIsSavable`.
* `TargetIsItsPaneAlways`: `TargetsSpec => []TargetIsItsPane`.

**Recursion.**  Every layout has a `Height`, the number of its levels.  `LayoutInduction` is
induction on it, and `LayoutRecursion` shows that a function that is defined by what
it is on a pane and what it makes of the children exists and satisfies its equation;
`PathRecursion` does the same for functions that follow a path.  The equations of
`Leaves`, `Paths`, `Nodes`, `NodeAt` and `WithNode` are instances.

**Contexts.**  What an operation does somewhere in a tree should show only there.
`Ahead(x, p)` and `Behind(x, p)` are the panes before and after the node at path `p`: the
panes of a layout are those ahead, those of the node, and those behind (`InContext`),
and writing a node leaves both as they are (`PutFacts`).  So every operation on a
node becomes one on the middle of a sequence.  `PanesAreFound` says that the `n`th
path leads to the `n`th pane, which has as many panes ahead as the number says.
`SplitPaneAtShows`, `RemoveShows`, `SwapShows`, `MoveShows` and `AutoArrangeFacts` say of each
operation what the result shows; `MoveShows` distinguishes, as the code does, a move
among siblings, into the split of the target, and into a new split.
`AutoArrangeFacts` needs that the rows together hold all panes: that the number of
columns exists and that the last row has at least one pane (`ColumnsFacts`).

**The invariant.**  `LayoutInv`: what is shown is the panes of the tree, and each split has
two children or more (`Full`).  Without the latter a removal could leave a split of
one or none.  It is also what the bounds follow from: a full layout of `n` panes has
no more than `n` levels, and no split of more than `n` children (`FullIsMeasured`).
`LayoutSteps` has one step per operation and proves invariant and refinement together.

**`PaneTargets`.**  `TargetsInv` adds to the property that every layout keeps to the bounds
(`Fits`), since only in a layout does a path lead anywhere, and that the dialog that chooses a
session and the one that gives a title are never open together: an answer to one would change the
layout under the other.  That the operations keep to the bounds, whatever a path leads to, follows
from what they do to the panes (`SplitFits`, `RemoveFits`, `MoveFits`).  Two lemmas say what stays:
another session in a pane leaves all other paths as they are (`OtherPanesStay`, by induction on the
path), and another name of a session leaves the panes of all others (`RenamedFacts`, by induction
on the layout).  `QuietSteps`, `EditSteps`, `SessionSteps` and `SpaceSteps` take the actions that
leave the layouts alone, those that change one, those that give a pane a session, and those on
workspaces.

### `ServerProofs`

**`ManagedHosts`.**  From `HostsAssumption` (finitely many names, at least one test
at a time, and bounds that are natural numbers):

* `GatewaysComeToAnEnd`: `HostsSpec => []GatewaysEnd`.
* `ResultsAreOfTheirHosts`: `HostsSpec => []ResultIsOfThisHost`.

`Endless` is a set of hosts with all its gateways inside.  An update checks the
walk from the new gateway: it must neither meet the host nor go round.
`GatewaySetNoCycle` shows that then no endless set arises: one would contain the
host, hence the gateway and all of the walk from it, and without the host it would
have been endless before.  `NewRowNoCycle` rests on nobody having a new id for a gateway, and
`SameGatewaysNoCycle` covers deletions and rows of imports.  The second theorem
needs `TestsAreOfTheirHosts`: a test in flight is of an id that was given, and the
row with this id, if any, was born when the test began; which is so because ids are
never used twice.

**`HostRows`.**  `RowsFollowTheTable`: `HostRowsSpec => []RowsAreThoseOfTheTable`, from
`HostRowsAssumption`, for any hosts and any number of requests in flight.  The answers
in flight were true of the table when they were made (`AnswersAreTrue`: a list has the
rows that were not changed since, `ListTrue`; a result of a test is no newer than its
row, `ResultOld`).  `RowsFollow` is about what they will bring, unless they are excused or
another load is still to come: each change that is not shown is carried by one
(`ChangesAreCarried`), a list that is wrong about a host is followed by one that is
right (`ListsAreFollowed`), and so are the rows that are shown (`ShownIsFollowed`).  TLC
checked these on two hosts before they were proved.

**`HostDiagnostics`.**  `DiagnosesWereTrue`: `DiagnosticsSpec => []DiagnosisWasTrue`, without
assumptions.  `FoundSoFar` says of each probe that has answered what was seen for it,
and `WorldIsSeen` that whatever is there while a test runs has been seen.

**`SettingsTables`.**  From `SettingsAssumption` (the defaults are finitely many types, none
twice, and names of types and of hosts are finitely many): `DefaultsAreSeeded`,
`SettingsSpec => []DefaultTypesAreThere`, and `ImportsRestore`,
`SettingsSpec => ImportRestoresExport`.  For the first, `SeedingIsInOrder` says that the
types still to be written are all of them only while there is no type, and
`DefaultsAreToCome` that a default which is neither in the table nor was deleted is one
of these, unless an earlier start was cut short.  For the second, `ExportIsGood` says
of an exported file that all of its entries can be imported, so that one which came
back unchanged is refused for its length or for a cycle only.  `GatewaysInv` says that
neither the hosts that are there nor those of an exported file by themselves make a
cycle (`HostsOfFileEnd`), so that a cycle which an import meets has a gateway that is
not in the file: a file is never refused for what it says itself.  `MadeOf` is the invariant of the loop
of upserts, a recursive function over the entries, which `UpsertFacts` proves by the
least entry that would break it.

**`SshConfig`.**  `HostsAreAsWrittenAlways`: `SshConfigSpec => []HostsAreAsWritten`, from
`SshConfigAssumption`, for files of any length.  The property describes each host by
the lines between its Host line and the next; the parser goes through the lines
once.  `Parsed(n)` says what it has after `n` lines: the hosts of all entries so far, each
at its place, except the last, of which it holds what has been said until then
(`Pending`), and the section it is in.  It is shown for every line by induction: a Host
line lists the host before it (`SavedFacts`), a wildcard leaves none in hand, and a
keyword changes what is said of the one in hand.

**`SshKeys`.**  `PublicKeysMatch`: `KeysSpec => []PublicKeyMatches`, without assumptions.
With the types of the files the property is inductive: a save writes only where no file is, and
whatever is cut short is recorded.

**`LoginAttempts`.**  `FailuresStayBounded`: `LoginSpec => []FailuresAreBounded`, from
`LoginAssumption`.  A login passes the check before its password is verified, and its
failure is recorded after; the invariant needs that a key at the limit has a lock
(`LimitIsLocked`), whose end makes the next failure start at one.

### `ListLemmas`

What is left of a sequence when an element is taken out (`RemoveAtFacts`,
`RemoveFacts`), what appending adds (`AppendFacts`), the sequence of the elements of a
set (`SetToSeqFacts`, `SetToSeqOnto`), images of finite sets (`ImageIsFinite`), and least
and greatest elements.

The library's theorems on induction take an operator as a parameter and cannot be
used with the provers at hand.  Here the property is a set instead: `InductionOnNumbers`,
`InductionOnAppend`, `InductionOnTail` and `InductionOnSize` say of a set that it has all
numbers, all sequences, or all elements of a set with sizes; `SmallestExists` is what
they come from.  In the same way `RecursionExists` shows that a function defined by
recursion on a size exists, given its right side as a function.  `FlattenAppend` and
`FlattenConcat` are what `FlattenSeq` computes, proved from these; the last lemmas take
sequences apart around a place (`Left`, `Right`) and put something there.

### Only model-checked

* `EndedTerminalIsCleanedUp` and `WaitingLinesAreSent`: liveness under fairness (and
  `ENABLED`) is beyond the provers used.
* The properties that are violated: they say what the code does not do.

Every invariant, action property and refinement of the runs that pass has its
theorem.

## 5. What is not modelled

* Keystrokes and output of terminals, except as marks for the status engine and as
  lines of a history.
* Names, descriptions and sort order of workspaces (they decide only whether a
  request is refused), and several tabs with the workspace store on one set of
  rows; other clients do occur in `AppStart`, `SessionForms` and `HostRows`.
* A restart of the server as far as terminals go: it keeps no terminal, pane or
  timer across it, so a restart is the initial state.  Restarts do occur where
  data is kept: `SettingsTables`, `SshKeys`.
* The event loop's punctuality: a timer fires at any time after it is set, except
  in `StatusEngine`.
* Validation of input, where it only refuses; audit records; the creation of the
  first user, cookies and password hashes, which are one step each.
* The commands of tmux, ssh and docker themselves and the parsing of their output;
  how a command fails or what it answers is chosen freely.
* Dragging of panes and dividers, scrolling by touch, notifications, texts and
  looks: they change no state that lasts, or call the operations that are modelled.

The notes in `PROJECT.json` say for each component what is left out of it.

## 6. What could follow

1. Two tabs on one set of workspaces: the store never hears of another tab's
   changes, and its saves replace whole layouts.
2. An abstract specification of the workspace rows as seen by one user, with the
   store as its implementation.
3. A simpler statement of what `SessionHistory` keeps once histories have merged,
   which is excused now.
