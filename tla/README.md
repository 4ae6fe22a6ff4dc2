# Formal models of quantum-shell

TLA+ models of the C++ core of quantum-shell, a Wayland bar for the niri
compositor, with TLC runs that check them on small instances and TLAPS proofs
for every instance. This file says what the system consists of, which module
models which part, what the runs and proofs show, and what is left out.

## The system

One process, one Qt event loop (PipeWire adds a thread, file reads a worker).
Signals are delivered synchronously inside the call that emits them, so a
handler runs to its end, with every handler it triggers, before the loop
dispatches anything else; a handler may emit, send, or dial and so be entered
again. The hard behaviours are therefore *re-entrancy* (a loss handler running
inside a dial) and *asynchrony with the outside* (niri, D-Bus daemons, the file
system, PipeWire), whose messages arrive late, in unexpected orders, or never.

| Component | State | Operations | Interacts with |
|---|---|---|---|
| `niri/NiriReconnect` | timers, flags, attempt and retry counts | `start`, `stop`, two timeouts, loss and attach handlers | dials NiriIPC and NiriEventStream, hears their signals, starts `detect` |
| `niri/NiriIPC` | socket, `pending_`, detection | `send`, `sendObject`, `detect`, dial, disconnect, replies, failures | NiriOutputs, NiriActions send; replies paired by position |
| `niri/NiriEventStream` | socket, `streaming_` | acknowledge, decode events, fail | NiriState, NiriOutputs, NiriService, NiriReconnect listen |
| `niri/NiriOutputs` | `inFlight_`, `pending_`, `outputs_`, `workspaceOutputs_` | refresh, reply, workspace event, disconnect | asks over NiriIPC, triggered by the event stream, feeds NiriState |
| `niri/NiriState` | windows, workspaces, layouts, overview, outputs | one handler per event, `clear` | signals to NiriService |
| `niri/NiriService` | the copies QML binds to | one refresh per property | QML |
| `niri/NiriActions` | the results of its calls | refuse, send, classify | NiriIPC; widgets call it |
| `dbus/NotificationService`, `app/ToastHost` | current id, history, Do Not Disturb; toasts and expiry | `Notify`, `CloseNotification`, name gained and lost; show, expire, dismiss | each calls the other synchronously |
| `dbus/BatteryService`, `NetworkService`, `MediaService`, `DbusProperties` | object walks with generations, properties | daemon appears/goes, GetAll replies, PropertiesChanged | D-Bus daemons |
| `config/ConfigWatcher`, `Config`, `ConfigSchema` | watched paths, read in flight | watch, read on a worker, apply | every widget |
| `ipc/IPCServer`, `qsctl` | connections and buffers | accept, read lines, answer | panels |
| `apps/LauncherService`, `LaunchHistory` | entries, query, history | scan on a worker, rank, launch | launcher panel |
| `app/PanelGroup`, `PanelHost`, `OsdHost`, `BarHost` | windows per screen, which panel is open | open, close, screens come and go | services above |
| `audio/PipeWireService` | registry mirror, default sink | loop-thread callbacks, volume calls, reconnect | GUI thread by queued calls |
| `system/SysMonService` | timer, baselines, percentages | activate, sample | follows the bars |
| `system/ClockService`, `qml/Clock.qml` | descriptor, watches, zone's identity; text and timer | clock set, zone changed, minute over | the kernel, the file of the zone |
| `wayland/LayerShellSurface` | proposed and pending size | present, resize, configure, apply | niri, Qt's window |
| `niri/NiriVersion`, `NiriProtocol`, `dbus/*Status` | none | pure translations | the services |

What makes each correct, and where it can go wrong, is listed line by line under
`hazards` in `PROJECT.json`; the properties below are aimed at those lines.

## The modules

| Module | Models | Abstracts |
|---|---|---|
| `NiriReconnect` | the supervisor over both connections | reasons, jitter, socket paths |
| `NiriIPC` | the request connection, detection, probes, and callers whose handlers send again | the content of requests and replies |
| `NiriActions` | what the shell asks niri to do, above `NiriIPC` (EXTENDS): arguments, refusals, requests and results | texts, and parameters that are passed through |
| `NiriOutputs` | outputs kept by requests triggered by events, over both sockets and the dials of the supervisor | NiriIPC's other callers; an output is its name and a configuration |
| `NiriState` | the model kept by events, with NiriService's copies | titles and other fields that are only carried |
| `Mirror` | the abstract promise of NiriState: a source's states in order, some steps behind, and nothing once the connection is lost | |
| `Notifications` | the notification daemon, its name on the bus, its history, and the toasts | texts, markup; a toast is the screen it is on |
| `ObjectProperties` | a followed object that reads and changes reach in any order; used by the three below | |
| `Battery`, `Network` | the walks over UPower's and NetworkManager's objects, over an ordered bus | an object's properties are a fact, of a life of the daemon and a path |
| `Media` | the players found on the bus, which one is followed, the keys | two interfaces with one property each |
| `ConfigWatcher` | watches, reads on the worker, the theme, application | a file is usable or not, names a theme, says one value |
| `ConfigSchema` | every key, default, bound and conversion, the theme under the file | syntax; a string is one of those the rules tell apart |
| `Config` | the values in force, applied one by one, their signals, the services that keep copies | when changes come to be read |
| `Clock` | the text of the clock, its timer, the clock that is set and the zone that changes | a zone is an offset of whole minutes |
| `PipeWire` | the loop thread's callbacks, the queued calls, writes and reconnection, over PipeWire and WirePlumber | a sink is its name, a volume a number of notches; failures to create a loop are a daemon that is not there |
| `Surfaces` | bars, panels and their group, the volume's display, the sampling that follows the bars | a window is that it is there; a percentage is which readings it is between |
| `LayerSurface` | one window's role: requests, configures, Qt's delayed application | one axis; painting |
| `Launcher` | scans on a worker, the ranked list, launches and the history file with its writer, crashes | a query is the set it matches; launches are recent, so frecency is a count; the history file can be read |
| `Control` | the socket's connections, lines and answers, over `Launcher` | a line is a toggle, a read, an unknown verb, or not this protocol |
| `MC*` | the constants of the runs | |
| `*_proofs` | the inductive invariants and theorems | |

Components that share no state and fit one question are checked by one run, each in
behaviours of its own: `subject` says whose the variables are (`MCNiriConnections`,
`MCReadings`, `MCFiles`, `MCSurfaces`).

**One action is one dispatch of the event loop**, with everything it triggers.
A handler of the code is an operator from the component's record to its next
one, named as in the code (`NoteLoss`, `ScheduleRetry`, `FlushPending`,
`FailPending`, `HandleReply`, `ApplyFocus`), and a dispatch composes operators in
the order in which the code calls them. What a handler reads in the middle of
another (`isAttached()` inside an abort) is passed at the value it has there.

*NiriReconnect.* `sup` holds the members; `conn` the sockets as seen from the
shell ("hungup": niri has gone, the loop has not read it yet, `isConnected()` is
still true). `AttemptAttach` dials as the code does: request connection, then
stream, each with its abort, its refusal and their handlers, then the deadline.
`sup.signals` are the signals of the last dispatch, `told` the last one.

*NiriIPC.* `pending` is `pending_`, `wire` the answers niri owes or has sent.
Request identities are the model's own; the code has none, which is what
`OwnReply` is about. A write to a dead socket reports the error inside the write,
so `Send` may run `PeerGone`, which runs every handler, which may send again.

*NiriActions.* A call is the action, how it names its target, and the target;
`Encoded` is what of it can be written, in a signed integer where niri's ids are unsigned.
`asked` is a map of the handlers by their requests, which `Conclude` settles from what
`NiriIPC`'s step did to `pending`: each action composes an IPC step with its conclusion.
`performed` (a ghost) is what niri says it did.

*NiriOutputs.* The two sockets are independent: `shell.pending` is the request
connection, `events` the other. `Reattach` is NiriReconnect's attempt, including
one dial accepted and the other refused. `CheckAttached` is main.cpp's wiring of
`observe()` to the first `attached`.

*NiriState.* niri keeps one focus, one focused output and one active workspace
per output and sends what changed; the model keeps flags on windows and
workspaces. `state` is NiriState, `service` NiriService's copies, refreshed only
by the signals of the dispatch (`Signals`, `Refreshes`).

*Notifications.* ToastHost's slots are connected directly, so `Notify` runs
`HandleNotificationChanged` in its middle, which may `Close` what is being shown,
which runs `HandleNotificationClosed`. `shell` holds the members of both;
`owed` (a ghost) the notifications whose sender has heard neither their end nor of
the name's loss; `said` what the last handler sent. The bus owns the name, queues
the shell for it, and reports later: the inbox is what it has sent and nobody has
read. A click goes through a queued connection, so it may arrive when another
notification shows. It is assumed that the service watcher reports a name handed
from one owner to a queued one as a registration, as the comment at
NotificationService.cpp:96 and the test it names say.

*ConfigWatcher.* Watches are on inodes: `live` are those whose inode is still the
path's, `events` what inotify has queued for them. Removing a watch drops its
events, which is what QFileSystemWatcher does. `ReadConfig` and `ReadThemeFile` are
the worker's two reads, with the disk free to change between them.

*ConfigSchema, Config.* A file is what the TOML library makes of it: `nodes`, by path, a
type and a value. `Reached` are the nodes that the table readers get to, `Supplied` the
keys that end up in force, `Warnings` the paths that are warned of. `ApplySettings` assigns the
values that differ in the order of `Config::apply`, each with its signal, on which
bindings and the services (`copies`) read the one value at once; `stale` (a ghost) are
the keys changed and not read since.

*Clock.* The timer is of the monotonic clock, so setting `wall` leaves it. `HandleZoneChanged`
and `ZoneHandled` are the two halves of the slot, with the files free to change between
them. `missed` and `ahead` (ghosts) are the two ways in which a change of the zone goes
unannounced.

*PipeWire.* Two threads and one lock, so a step is a callback on the loop thread or
a call on the GUI thread. `audio` is `Impl` with what is in flight: `wire` from the
daemon, `calls` to it, `queue` from the loop thread to the GUI thread. `gui` is the
service as QML sees it. Destroying a proxy drops the events meant for it, and a
call sent before is still carried out.

*Surfaces.* `openChanged` runs the host and then the group, and a host that fails
closes its service again in between: `HostOpen`, `SetClosed` and `Group` are those
slots, and `TogglePanel` the call. A component may fail to make either window.
`dying` is the window that `deleteLater()` has been called for.

*LayerSurface.* `asked` and `told` are the two directions of the connection. `Configure`
stores the size that is left to the window, `ApplyConfigure` gives it to the window when Qt
finds it possible, and a resize in between is QML's. `overtaken` (a ghost) says there was one.

*Launcher.* `launcher` is LauncherService with its two threads: `scan`, `unread`,
`found` and `read` are the worker's, `writes` the writer's snapshots. `remembered` (a
ghost) counts the launches that must not be lost: all, and after a crash those in the
file. `since` (a ghost) says for each application how it was installed at any time
after the last request to look. A query stands for the applications it matches.

*Control.* `sent` are a client's lines, `taken` how many have been read, so that a part
of a line is one not read yet; one `readyRead` takes any number. A connection that the
server closes keeps its object until `DeferredDelete`. The toggle is `Launcher`'s own,
with the host that may fail to show the panel behind it.

*Battery, Network, Media.* `service.calls` are calls on their way to the daemon, `inbox`
replies, signals and reports on their way back, in one order, except that a signal may
overtake the reply before it (the daemon makes the reply, changes, signals, then sends).
A signal is passed on to those whose rule exists when it is sent. `Then` of Network is what a
read goes on with, `Changed` where a signal enters the walk in its middle; a player of Media
has an owner, which its replies and signals must be from, and a serial of its adoption. The
three share their variables' names, so that `MCReadings` has one set of them.

## The runs

Every passing run checks its modules' type invariants as well: where there is no `TypeOK`
they are part of the invariant named `WellFormed`, or of the one that combines the subjects.

| Run | Question and answer |
|---|---|
| `MCNiriConnections` | Is a running supervisor ever left detached without a timer, or attached with one (`TimersFit`)? Is the last signal true (`ToldTheTruth`), do `attached` and `lost` alternate (`SignalsAlternate`), and does the shell get attached once niri stays up (`Reattaches`)? Is every handler given its own reply until one breaks the line limit, does niri get the very id that was named, and is a caller told of success only if there was one (`RepliesFindTheirOwn`)? Is every request pending or its handler called once, none carried over as written (`QueueInStep`)? Does an open detection have a request that ends it, and never two verdicts (`DetectionEndsOnce`)? No, and yes to the rest. |
| `MCNiriOutputs` | Can a flight flag outlive its request (`NeverWedged`)? Does the shell end up with niri's outputs, however replies and events interleave, given that every change raises an event (`OutputsConverge`)? No, and yes. |
| `MCNiriState` | One of each focused or active between any two events (`WellFormed`: `OneOfEach`); QML's copies are current after every dispatch (`ServiceInStep`); the model implements `Mirror` (`MirrorsNiri`). All hold. |
| `MCNotifications` | Do daemon and toasts agree on what shows, with its own clock and nothing under Do Not Disturb (`ToastsFollowDaemon`), is nobody left waiting for the end of a notification (`OneIsWaiting`) or told of it twice (`ToldOnce`), does the shell know whether it is the daemon (`ReadingFollowsOwner`, `OwnerKeepsReading`)? All hold. |
| `MCReadings` | Does what is drawn ever mix lives of a daemon, devices or players, or someone wait for a read that is not on its way, but for a battery read of a walk that another has overtaken (`EachWellFormed`)? Is it true once all has arrived, but for the ways below (`EachInStep`)? Do questions come to an end, roams and invalidations included (`EachSettles`)? No, yes, yes. |
| `MCBatteryRead` | "A read the object was told about always ends." Refuted: a device set that moves during the manager's read leaves the manager waiting for good. |
| `MCFiles` | Would the next change be seen (`WatchesCover`)? Is the last state of the files applied, but for the one way below, and the minute drawn the minute it is whenever the shell is idle, but for two changes of the zone within one look at it (`NoEditForgotten`)? Do the reads end (`ReadsSettle`)? Are the values in force what the last usable files mean, whatever came before, with every follower told and everything else warned of (`ValuesInStep`)? All hold. |
| `MCConfigWatcherLost` | "The last state of the file is the one that matters." Refuted: the watches are renewed after a read that names another theme, and what changed since is neither reported nor read. |
| `MCConfigNarrow` | "A value from the file must never wrap into one that means something else." Refuted: three keys narrow to `int` before, or without, a ceiling. |
| `MCPipeWire` | Does QML end up with the volume of the default sink in any order of sinks, metadata and changes (`ReadingIsTrue`)? Is only a change of the followed sink announced (`OnlyChangesAnnounced`)? Is a lost connection always on its way back (`WellFormed`: `NeverStranded`), and does it come (`Attaches`)? All hold. |
| `MCSurfaces` | Is there ever a second panel or backdrop, an open panel without a window, or a window of another size than niri gave it, QML asked for or its screen has (`EachInPlace`, but for a size applied late, over a resize of QML: `overtaken`)? Does a toggle do what it says and a failed opening nothing, the end of a replaced window no harm, and does every bar move (`TogglesAsAsked`)? Is nothing kept for a screen that is gone and no display without a clock (`NothingLeftUp`)? Is the sampling on exactly while a bar shows, its average never over a gap (`SamplingIsSound`)? No, and yes to the rest. |
| `MCControl` | Does the open panel list what its query, limit, entries and launches rank now (`WellFormed`: `ListIsCurrent`)? Is a request to look during a scan carried out (`ScanIsFresh`)? Is a launch ever forgotten, by a scan, the writer or the file (`NothingForgotten`)? Is each line answered once, in order, with what it did, and none after one that is not understood (`RequestsAnswered`)? Is a client that went let go of (`ClientsLetGo`)? Yes, yes, no, yes, yes. |

### Seen while modelling, without a run

Comments the models contradict, found with properties since taken out: NiriReconnect
emits `lost` more than once per outage (NiriReconnect.h:79) and lets a retry cut an
attempt short (NiriReconnect.h:41); probes left over from a failed detection end
the next one early (NiriIPC.h:69); handlers of lost requests are called
(NiriIPC.h:58); the end of the event stream clears the flight of the other
connection, so two requests can be in flight and a late reply can bring the outputs
of a compositor that is gone (NiriOutputs.h:17, 59); after an oversized reply the socket stays up and the tail of the line is taken for
the next request's answer (NiriIPC.h:65); `clear()` announces a focused
window that did not change (NiriState.h:8). A new notification may take an old one's
id in the history; under Do Not Disturb the close is sent before the id is answered.
While a replaced device is read, BatteryService says "no battery" of one that has
not answered (BatteryService.cpp:406); after UPower restarts it hears no more of
moves of the device set, whose two signals `start()` alone connects (54). When
WirePlumber restarts, PipeWireService ignores its new metadata object and hears of
no further change of the default (PipeWireService.h:1); readings posted before
`stop()` land after it; a mute writes back a volume that another program has
changed meanwhile; the echo of an older notch replaces the volume the next one recorded,
so a burst may lose one (PipeWireService.cpp:462 against 536); any error of the core, not only a fatal one, rebuilds the
connection (475). Bars can be in mixed states without the compositor's doing, when a
screen is plugged in while they are hidden (BarHost.h:54). Every scan puts the launcher's
selection back on the first result, also when nothing changed
(LauncherService.cpp:241); a history file that exists and cannot be opened for a moment is
taken for empty, and the next launch overwrites it (LaunchHistory.cpp:99); a toggle whose
`qsctl` has given up waiting is carried out all the same; a line over the limit is answered with
a refusal before the connection closes, as IPCServer.h:30 and the test say, though a comment has it
that the caller "answers nothing for this line" (IPCProtocol.cpp:149). A click queued on one toast
dismisses the one that has replaced it in the meantime. A roam announced on both of the
device's interfaces costs two reads (NetworkService.cpp:447), of which the second to
arrive may undo a change that came between them (DbusProperties.cpp:313); when the new access
point refuses to be read, the old one's strength stays drawn. A player found by its name is
followed before it has answered, so a key may go to another player than the one that shows
(MediaService.cpp:199). A configure that waits in Qt to be applied when QML resizes the
window puts it back (LayerShellSurface.cpp:182). A zone that changes while
the clock's watches are renewed, or changes and changes back around a redraw for another
reason, is not announced, so that the time can be of another zone until the next minute,
and the file in force may be unwatched until the next switch (ClockService.cpp:106).

### Bounds

`MCNiriConnections`: three steps of backoff reach the maximum, after which counters
show nowhere (`CapAssumption`), and five faults let a crash meet a dropped
connection, a refusal and a complaint; three pending requests put one
before, one in and one after any failure; two probes have a first and a last; one call
at a time waits, since its handler only has the other senders' requests to be confused with;
ids of three bits are above, at and below what a signed one can write. `MCNiriOutputs`: two connectors,
two changes, two faults and a refusal: a change during a request during a
reattachment. `MCNiriState`: niri's events are checked in three families
(`Traffic`), because no handler of one touches what another's reads; two windows,
three workspaces on two outputs (two that share one and one apart), and events one
or two behind. In these nothing else is bounded. `MCNotifications`: ids of two bits wrap within four notifications, a
history of two overflows, two messages of the bus let a report of an old release
meet a new registration.

`MCReadings`: two devices, connections, access points and players' names, two processes, and three or four
events from outside in all: a move that overtakes the walk another move started, a roam during
the walk of a roam, a player that leaves while it is read and a name that is taken over.
`MCFiles`: every disk to start from and three
edits: one during a read, one after, one to find that nobody looks. Two edits of the values,
any nodes at any keys of one table, of what it lies in and of the theme, which may name
either of two files: one to leave something behind and one to show it; the tables share no key, so that
no edit of one meets another's. Ints have 14 bits, the least that hold the defaults with
a number left over that wraps. Two zones, minutes of two ticks and three settings or
changes: one during the handling of another, one to find that nobody looks.
`MCPipeWire`: two sinks, two changes from outside and two gestures: a switch during
a write, a restart during a switch; two timers, because a stop and a start can leave
one of each. `MCSurfaces`: two screens, three panels (one opens, one closes, one stands by) and
five changes from outside; three sizes and three messages each way, so that an answer two
requests old can still arrive. `MCControl`: three kinds of
behaviour (`Traffic`), because typing, scanning and the socket meet only in the toggle: somebody at
the panel, two clients (one of another user) with two lines each, and one launch with one line
each; two applications, of which one or both are listed.

### Fairness

`FairSpec` of NiriReconnect: timers and readable sockets are served (weak
fairness: the event loop), niri answers a subscription while up, and reading the
acknowledgement is strongly fair: a retry may cut an attempt short, but waits grow
to the maximum, which is longer than a local answer takes. niri need not come
back, nobody need call `start`. `FairSpec` of NiriOutputs is the same seen from
there, with `Reattach` weakly fair because of `TimersFit`.
ConfigWatcher and the three readings: the event loop, the worker and the bus go on, each call
getting a reply or an error; the bounds on edits and moves stand for edits and moves
that come to an end. The values, the clock and the surfaces have no liveness of their own here:
what they promise is checked whenever they are at rest. PipeWire: both threads run, timers fire and the daemon answers;
it need not come back. Control: sockets that are ready are served and deleted; neither
a client nor a thread need do anything. `CHECK_DEADLOCK FALSE` in the runs of NiriOutputs,
the readings, the files and PipeWire: with everything read and the bounds used up, the system
really is at rest.

## What is proved

For every value of the constants that meets the modules' assumptions (TLAPS): for any number
of screens, windows, players, clients, requests and messages on their way. Every theorem
rests on an inductive invariant and one lemma for each handler; an action composes the lemmas
in the order in which the code calls the handlers. The properties are seldom inductive by
themselves, and what had to be added is usually where the code is delicate:

- `NiriConnections_proofs`, of the supervisor: `TypeOK`, `TimersFit`, `ToldTheTruth`, `SignalsAlternate`. Added:
  `waiting_` and the retry timer are the same thing; nothing is armed while not running; a
  supervisor told of an attach has `attachedBefore_` set and `lossReported_` reset; an
  acknowledgement is only outstanding on a stream that is not streaming. `Turns` says of a
  dispatch half-way through that nothing it has emitted repeats what came before.
- `NiriConnections_proofs`, of the requests: `QueueInStep`, `DetectionEndsOnce`, `RepliesFindTheirOwn`.
  A handler may send while others wait to be told, so the invariant has as parameters what the
  handlers still to be called owe: the names of their requests, whether a `Version` is among them and
  how many probes (`Queued`, `Detects`). Added to the properties: while niri is there it owes one
  reply for each pending request (`Paired`); a pending `Version` is the only one and behind every
  probe, so no stale probe is left when its answer sets the count; a detection past its version has at
  least as many probes to come as `probesOutstanding_` counts; stale probes take that count no lower
  than one minus the probes a detection sends, since without a connection at least one of them has
  gone (`AtMost`). `Rests` is all of that between two dispatches.
- `NiriState_proofs`: `WellFormed`, `ServiceInStep`, and the refinement `MirrorsNiri`: each step is
  a step of `Mirror` or a stutter. The invariant speaks of every model on the way from NiriState's to
  niri's, one unread event at a time (`Replay`): each is well formed, and the last one is niri's
  own view. An event put at the end turns niri's view before a change into its view after it.
- `Notifications_proofs`: `TypeOK`, `ToastsFollowDaemon`, `OneIsWaiting`, `ReadingFollowsOwner`,
  `OwnerKeepsReading`, `ToldOnce`. Handlers run inside handlers, so each has a lemma about a shell
  half-way through another: `Loose` is what a replaced reading may leave to
  `HandleNotificationChanged`, `Ended` what a reported end does. `NameInStep` relates the name, the
  bus's queue for it and the messages that have yet to arrive; `NextIdIsId` is the arithmetic of
  the counter that wraps.
- `Files_proofs`: of ConfigWatcher `WellFormed` and `NoEditLostUnlessMissed`: the watches in force
  leave no blind spot (`NoBlindSpot`: what would show the next change is watched, or a read is
  due) and a read under way ends with what the disk says unless another is due (`ReadsTrue`). Of
  the clock `ShowsTheTime`: what is drawn is the minute and the zone the service last noted
  (`DrawnAsNoted`), and whatever makes them untrue is told by the timer or a watch (`EndIsTold`,
  `LinkIsTold`). Of Config `SettingsInStep`: what is in force is what the files of one read mean
  (`Means`, with `ParseIs`), told to all who follow it (`Following`); `ApplySettingsKeeps` goes
  through the keys in the code's order. Together they give `WatchesCover`, `NoEditForgotten` and
  `ValuesInStep` of the combined run.
- `PipeWire_proofs`: `WellFormed`, `ReadingIsTrue`, `OnlyChangesAnnounced`. Two threads and three
  queues: the invariant speaks of the last element of a kind in a queue, which is what counts once
  all of it has arrived: the sink that will be wanted is the daemon's default (`Names`), what QML will
  have is what the daemon has (`Current`), readings of two bindings are never next to each other
  (`Chained`), a shell that wants a loop and has none has a timer (`Returns`).
- `Surfaces_proofs`: `EachInPlace` (`OnePanel`, and the sizes of a layer surface of any width),
  `NothingLeftUp`, `SamplingIsSound`, `TogglesAsAsked`. Of a window the invariant relates the
  last request, the last answer on its way and the one Qt delays (`Chosen`, `Named`); of the panels it
  says what every call leaves (`Sound`). With them `OutputsTypeOK` and `NeverWedged` of NiriOutputs: a
  flight needs a pending request, and the list is never emptied without the flag.
- `Control_proofs`: `WellFormed`, `ScanIsFresh`, `NothingForgotten`, `RequestsAnswered`. `Held` is what
  holds of the launcher between two handlers, `Reached` of a dispatch after the first k
  lines of what it read. That there is an order by rank at all (`SortedExists`) is shown by counting
  what comes before each application.
- `Readings_proofs`: `EachWellFormed`, by the invariant of each service. Everything in the queue
  before the last word of a daemon's exit is of a life that is over (`Lives`), so a reply is of the
  life it is taken for unless that word is still to come; in NetworkService and MediaService whoever
  waits for a read has its call or its answer on the way (`Awaited`, `MediaWaits`). In BatteryService that
  is so of the reads of the walk there now is (`Ends`, `Expects`); one of an earlier walk is answered
  in vain, which `MCBatteryRead` shows, so no more is claimed of it. A player is
  told from the next one under its name by the serial of its adoption (`PlayerOf`): there is at most one
  call or answer about who holds a name (`SoleAbout`, `Inquired`), and none once it is known, so that
  its reads are of the process that holds it. Assumed is `BoundsAssumption`, and that what names
  an object is not one of the words for none or for one always there (`ReadingsAssumption`).

**Sequences and recursion.** What a recursive function computes for a sequence of any length
is shown by the least number for which the statement fails (`Least`, which is `WFMin` of the library on the
order of the naturals), since the induction rules cannot be instantiated. The same argument shows that
there is such a function. That is why the modules write recursion as recursive functions.

Only model-checked: liveness (`Reattaches`, `OutputsConverge`, `EachSettles`, `ReadsSettle`,
`Attaches`, `ClientsLetGo`) and ENABLED, which are out of the prover's reach; and `EachInStep`.

## What is not modelled

Not modelled, with the reason: `NiriVersion` compares two numbers, and what it decides is
which features are probed, a constant of NiriIPC; `NiriProtocol` and the parsed values decode
JSON, of which a line is a record here; `BatteryStatus` translates one property at a time;
volumes' units are arithmetic on reals; desktop entries and `/proc` are syntax; the scan of a
configuration for stray bytes and its look-up by path word messages. QML widgets but for the clock are
bindings and layout. The crash handler and logging write text and keep no state, and `main.cpp`
connects the parts, of which the handlers are in NiriOutputs and Config. `qs-scan` and the
packaging are tools of the build.
