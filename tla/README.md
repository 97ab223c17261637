# OVMS v3 module firmware in TLA+

Models of the firmware of the Open Vehicle Monitoring System module
(`src/vehicle/OVMS.V3`), model-checked with TLC and, in part, proved with TLAPS.
Paths below are relative to `src/vehicle/OVMS.V3` unless they begin with `docs/`.

- [1 The system](#1-the-system)
- [2 Modules](#2-modules)
- [3 Module by module](#3-module-by-module)
- [4 Runs, bounds and fairness](#4-runs-bounds-and-fairness)
- [5 What the counterexamples show](#5-what-the-counterexamples-show)
- [6 Proofs](#6-proofs)
- [7 Not modelled, and the plan](#7-not-modelled-and-the-plan)

## 1 The system

The module is an ESP32 with two cores under FreeRTOS. It reads the buses of a
car, keeps what it learns in *metrics*, and talks to servers, phones and browsers
over wifi or a cellular modem. Its parts share one address space and meet in four
ways: direct calls, metrics with listeners, the event queue, and notifications.

Tasks that matter for the models:

| task | where | runs |
|---|---|---|
| events task | priority 8, core 1 (`main/ovms_events.cpp:198`) | every event listener, one after the other: `ticker.1`, network and system events |
| mongoose task | priority 5, core 1 (`main/ovms_netmanager.cpp:799`) | the callbacks of all network connections |
| timer service | priority 20, core 0 | signals the ticks into the event queue |
| modem task | priority 20, core 0 | the state machine of the SIMCOM modem |
| others | both cores | console, vehicle, OTA, scripts: they set metrics, raise notifications, call `Restart` |

Events task and mongoose task share a core and the former has the higher
priority. So the events task runs between any two steps of the mongoose task,
and not the other way round unless it blocks. Other tasks interleave with both
at every memory access.

### Components

| component | state | operations | interacts with | hard about it |
|---|---|---|---|---|
| Notifications `main/ovms_notify.cpp` | readers, per type a map of entries with the readers still to be served | register and clear a reader, raise a string or a command, queue an entry, mark read | every channel, by callback and by polling | two mutexes, raises from any task, readers that go while an entry is made for them |
| Server v2 `components/ovms_server_v2` | connection, countdown, pending flags, last data id, flags of messages | connect, log in, tick, send, acknowledge, reconnect | notifications, metrics, network events, mongoose | two or three tasks on unlocked flags, a connection that closes late |
| Network manager `main/ovms_netmanager.cpp` | interfaces, signal quality, mongoose task and its flag, a queue of jobs | wifi and modem up and down, access point, start and stop of the task, jobs of commands and clean-ups | events in and out, mongoose, consoles | late events, a task that starts late, a wait in the events task, jobs answered after their timeout |
| Boot `main/ovms_boot.cpp` | a record in RAM that survives a reset, under a CRC; a countdown | constructor, setters, panic handler; restart, pending, ready | housekeeping, OTA, console; SD card, modem, web server | resets anywhere, unlocked setters, unpaired answers |
| Metrics `main/ovms_metrics.cpp` | value, one modified bit per modifier | set, fetch and clear the bit, listeners | all | value, bit and listener are three steps |
| Housekeeping `main/ovms_housekeeping.cpp` | the tick timer | tick, start components, mark stable | events, boot | |
| SD card `components/sdcard` | mounted, unmounting, a countdown | mount, unmount, tick | events, boot | a card may be pulled at any time |
| Modem `components/simcom` | power state and its timeout | power off, tick, activity | events, boot | a task of its own beside the ticks |
| Web server `components/ovms_webserver` | slots of WebSocket clients, their jobs, a backlog | create, destroy, transmit, take a notification, forward an event, tick | mongoose, notifications, events, boot | pointers to entries kept in jobs, three mutexes in two orders, slots and readers reused |
| Events `main/ovms_events.cpp` | queue, listeners, timers of delayed events | signal, signal later, dispatch, register, deregister | all; the flash of OTA | timers reused while at work, queue at its limit, memory handed from task to task |
| Config `main/ovms_config.cpp` | parameters in memory, their files, an archive | set, delete, rewrite, backup, restore, mount | events, boot, all | maps without a mutex, files rewritten in place, an installation by renames, a mutex kept until the boot |
| Server v3, Pushover | connection, pending flags | as server v2 | notifications, mongoose | as server v2 |

What makes each of them correct: *Notifications* deliver each reader each
message once and return the memory. *Server v2* neither loses nor repeats what
it was given, sends important changes at once, and always gets connected again.
The *network manager* tells the truth about the network and keeps one mongoose
task going. *Boot* tells crashes from restarts and lets every part finish before
a reset, but not for ever. *Events* are dispatched once and freed once, and a module
that has lost one restarts. The *web server* sends each client its own
notifications and none from freed memory. *Config* tells every change to its listeners,
loses none but those the store refuses (a file that cannot be opened or is left short is
only logged, and the shell answers "Parameter has been set." all the same), and no
configuration when a restore fails half way.

`PROJECT.json` lists all components, with the reason where one is not modelled, and
under `hazards` what is hard to test in this code, line by line. The properties
are aimed at that list.

## 2 Modules

| module | models | composed with |
|---|---|---|
| `Notify` | the notification framework | implements `NotifyBoard` |
| `NotifyBoard` | abstract: a board of things to read | |
| `MCNotify` | verbosities for TLC | extends `Notify` |
| `NotifyProofs` | safety and refinement of `Notify`, safety of `ServerV2Notify` | extends `Notify`, `ServerV2Notify` |
| `ServerV2Notify` | how server v2 empties its queues | reads `NotifyBoard` as one reader that has joined |
| `ServerV2Messages` | tables: which metrics each message shows and tests, which are important | |
| `ServerV2Status` | which status messages server v2 sends on a change | extends `ServerV2Messages`; includes the modified bits of the metrics |
| `ServerV2StatusProofs` | safety of `ServerV2Status` | extends `ServerV2Status` |
| `ServerV2Link` | connecting, logging in, losing the connection | sees `NetManager` as changes of the network |
| `ServerV2LinkProofs` | safety of `ServerV2Link` | extends `ServerV2Link` |
| `NetManager` | interfaces, events, the mongoose task | |
| `NetManagerProofs` | safety of `NetManager` and `NetJobs` | extends `NetManager`, `NetJobs` |
| `NetJobs` | the jobs handed to the mongoose task | sees `NetManager` as interfaces that come and go |
| `Boot` | the boot record | |
| `BootProofs` | safety of `Boot` and `BootRestart` | extends `Boot`, `BootRestart` |
| `BootRestart` | the restart handshake | Boot, SD card, modem, web server and events task in one module |
| `Events` | the event queue, delayed events, the abort | the mutex of the flash of OTA and the timer service in one module |
| `EventsProofs` | safety of `Events` | extends `Events` |
| `WebSocket` | the clients of the web server | includes the notification framework as its readers see it, an implementation of `NotifyBoard` |
| `WebSocketProofs` | safety and refinement of `WebSocket` | extends `WebSocket` |
| `Config` | the configuration store | sees `BootRestart` as the boot after a restore, `Events` as listeners called some time |
| `ConfigProofs` | safety of `Config` | extends `Config` |

Server v2 is split by question, not by code: the three modules share the names
of the variables they have in common (`m_mgconn`, `connected`), and each treats
as arbitrary what the other two decide. In `ServerV2Notify` and `ServerV2Status`
the connection comes, goes and is given up by the events task at any time, also
between the steps of a login, so that *connected* may be set without a connection or
with another one than has logged in, as in `ServerV2Link`. That each of the
two covers every behaviour of `ServerV2Link` is by construction of these actions, and
not checked.

Conventions: variables and actions have the source's names. An action is what the
code does between two points where another task can interfere. Variables that
the code does not have are marked *history* or described as such where they are
declared; no guard of the code's actions depends on them. The specification of a
module is `Spec`, except where two modules share a proof module: those of
`ServerV2Notify`, `NetJobs` and `BootRestart` are `V2Spec`, `JobsSpec` and `RestartSpec`,
and `NetJobs` calls `taskRuns` what is `m_mongoose_running` in the code. A definition marked
`Mutant` is a plausible mistake, used only to show that a property can fail.

## 3 Module by module

### Notify, NotifyBoard

`NotifyString` and `NotifyCommand` hold `MyNotify.m_mutex` throughout. The model
splits a raise in two kinds of step: choosing the readers (the call up to its
first `QueueEntry`) and queueing one entry per message. `raising` holds the
messages still to be queued, and is non-empty exactly while the mutex is held.
Reading and marking need only the mutex of the type, so they interleave with a
raise; registering and clearing a reader do not. `QueueEntry` holds the mutex of
the type for all it does and is one step, including the callbacks and the
clean-up.

Filters, that is the configuration and the reader's own callback, are
evaluated again each time, so their outcome is a parameter of each step. The
length of a command's result at each verbosity is a parameter as well. Only
lengths and verbosities matter of a message, never its text.

Properties: `NoOrphan` (nothing waits for a reader that is gone; its counterpart
for a message being raised, `RaiseForRegistered`, is proved with it), `IdsUnique`, `OneMessageEach` and `ReusedFits` (the reuse of results from the
highest verbosity down), `ImplementsBoard` (refinement), `EntriesLeave`
(liveness), and `SelectedReadersServed`, which does not hold.

`NotifyBoard` is the promise to a reader without entries, maps or mutexes: `Join`,
`Leave`, `Post` under a fresh number, `Take` of one item. The refinement mapping
is `Items`: entry `i` of type `t` is an item for each of its pending readers.

### ServerV2Notify

A notifier, the ticker and the network task, each with a program counter.
`IncomingNotification` tests the metric *connected* and then calls `Transmit`,
which tests `m_mgconn`: two steps, with the network in between. The ticker's
`TransmitNotifyInfo` withdraws its flag *before* it searches and
`TransmitNotifyData` *after*; both are modelled step by step, including the read of
`m_id` from an entry that the acknowledgement may have deleted (`Garbage`).
One text type stands for info, error and alert, whose code is the same; one
call of `TransmitNotifyData` sends at most five records, so at most five are
raised.

The end of a login is two steps, the flags (`Login`) and *connected* (`LoginDone`), and
the events task may give the connection up (`Disconnect`), or make the next (`Connect`),
between them. The channel is then connected with nothing to send on, and the ticker
passes records over. This ends when the connection given up (`abandoned`) is
closed, as its `MG_EV_CLOSE` makes the channel reconnect. What a connection that has not
logged in (`loggedIn`, history) is sent, the server cannot read.

Properties: `DataKept`, `TextAtMostOnce`, `NothingForgotten` (texts are always flagged;
records passed over have been sent, once the connections given up have
closed), `FlaggedDataSent`, `ChannelReadsBoard` (refinement: each
step is one of the board); `TextKeptUntilSent`, `RetransmissionScheduled` and
`NewDataFlagged` state what docs and comments say and do not hold.

### ServerV2Status

A setter is three steps (value, bits, listener), a message is three (flag taken
back, bits fetched and cleared, values read). The whole channel is one
modifier. `ServerV2Messages` has the lists of metrics as the `TransmitMsg...`
functions and `MetricModified` have them: what a message shows (`Shown`), whose bits
it tests (`Tested`), and which changes flag it (`Important`, `Flagged`).
Some metrics are shown and not tested (`Untested`), so a change of them alone is
not sent until something else is. A run takes some messages and metrics of
these tables. The messages of a tick come in the order of `Ticker1`, in which
the `Gen` message stands behind a condition of its own.

`Transmit` drops a message without a word if there is no `m_mgconn`, and the server
cannot read one from a connection that has not logged in. The bits and the flag are
taken by then and do not come back: the change goes out with the next one of the same
message, or the next whole transmission. `dropped` (history) holds the messages to which
that happened last, and the properties are about the others. The connection is as
in `ServerV2Notify`, with `m_mgconn_mutex` for those who give it up.

Properties: `ChangeKeepsBit` and `ChangesSent` for metrics that one message shows and
messages not dropped; `AllChangesSent` for every metric and `PeerForced` do not hold.

### ServerV2Link

The connection `m_mgconn`, the countdown, the state and the metric, written by
the handlers of the events task and by the callback of the mongoose task. A
connection given up is only flagged; its closing comes later and works on
whatever is current then, and so does a bad message on it (`MessageBad`).
`Reconnect` is one step under its mutex; the metric and the status of a finished login
are not under it and are separate steps.

Properties: `OneConnection` (none is left behind, the current one is alive),
`NeverStuck`, `FalseConnectedHeals`;
`ReconnectsSoon` and `ConnectedMeansLoggedIn` do not hold.

### NetManager

Handlers in the events task, quality events in a queue, and the mongoose task,
which is created at once but sets `m_mongoose_running` itself. The wait in
`StartMongooseTask` blocks the events task (`epc = "waiting"`): no handler
runs meanwhile. `m_connected_any` and `m_network_any` are recomputed by every
handler that changes what they depend on, so they are definitions.

Properties: `ToldTruth`, `ChangeTold`, `WifiFollowsSignal`, `OneManager`,
`NetworkServed`; `StartReturns` does not hold.

### NetJobs

The commands `network list`, `close` and `cleanup` of every task but mongoose's
own fill a static record, send a pointer to it and wait for a notification, for
five or ten seconds at most; the events task sends a second static record with
every clean-up and does not wait. The model has a step for each assignment to a
record that another task could come between, and the queue holds the name of a
record, as the code's holds a pointer: what is executed is what the record says
*then*. A StringWriter is a number, `live` those that exist. The number of
connections that a job leaves in its record for the answer is left out;
start and stop of the task are reduced to the flag and the end of its loop. The
interfaces are clients and access points; what happens to them waits as events,
whose handlers keep `inUse` and start the task, stop it or schedule a clean-up.

`alone` (history) holds the caller if it found the record neither in the queue nor at
work and has not timed out. Under this condition the answer is the
command's own, from exactly one execution, though an earlier job may have left a
notification behind, and the buffers live (`JobIsOwn`). Without it neither holds.

`OrphansClosed` says that connections of an interface that has gone are closed, although
the record of the clean-up may be cleared while mongoose executes it. It has two
excuses (`missed`, history): when the last client goes and the access point stays,
`StopMongooseTask` does nothing and no clean-up is scheduled; and a clean-up that finds
the queue full, of commands that have timed out, is dropped. Without the excuses it
is `AllOrphansClosed`, which does not hold; nor do `ListBegunLive` and `CallerGiven`.

### Boot

`crc` is the payload the stored CRC was computed from, so `boot_data # crc` is a
CRC that does not fit. Each setter is three steps (write, compute, store), in
the events task and in the tasks of `Tasks`, and a reset of any kind may come
between any two; the constructor may be cut short as well. History variables
remember whether a restart was asked for, whether the run was stable, and how many
unexpected early resets came in a row. The crash dump is left out: nothing
decides on it. `Restart(true)`, which resets at once, has no caller.

Properties: `LoopInhibited`, `FlagsOfLastRun` (a restart is believed only if it
was asked for, and a stable run ends a series), `PanicTold`;
`EarlyCrashCounted`, `RestartRecognised` and `ResetReasonTrue` do not hold.

### BootRestart

The events task takes one event at a time and calls its listeners in the order
in which they registered; each call is a step, with `Restart`, the modem's task and
commands between them. The SD card and the modem register in their
constructors, `Boot::Ticker1` with the first `Restart`, and the web server listens to
all events, which the dispatcher serves last. `m_restart_pending` is unsigned:
it wraps at `UintMax`. A modem without a good MUX frame for three minutes is powered
on again in whatever state it is, also on its way off (`MuxFailed`): it has increased
the count then and never answers, so the restart takes the whole of its time. In
`Handshake` it is among those still at work (`"PoweringOn"`).

`alone` says that this is the only restart and that nobody else has had the card or
the modem at work since it began. Under it `Handshake` holds: the count is right
and the module waits for everybody. Without it only `RestartHappens` and `InTime` do,
and `TimeGiven` does not.

### Events

A caller signals, or takes a timer from the pool and sends the timer service its
commands, one step for each call of FreeRTOS between which the service, which has
the highest priority, may run; the mutex of the pool is held by the caller that is not
`running`. The service executes commands, lets an active timer expire, and its
callback reads the message (the ID of the timer) and queues it. Name, data and the
copy of the message are on the heap: `string` and `msgdup` say for each event
whether they are allocated. An event that finds the queue full is freed; unless it
is a ticker, its caller waits for the mutex of the flash and aborts. The events task
also aborts when nothing comes for five seconds. The task watchdog aborts the module
when the events task has not come back to its queue for a minute, flash or not
(`Watchdog`).

A timer is inactive from its expiry until it is started again, so one whose
callback has not yet read its message, or whose start command has not yet been
executed, can be taken by another caller. `upset` (history) holds the events to
which that happened; `OnceInTime`, `NothingLeaked` and `DelayedArrives` are about the
others, and `AvailableIsFree`, that it never happens, does not hold.

Properties: those three and `LostAborts`, which covers an events task that waits for its
own flash; `AvailableIsFree`, `AlwaysAborts` and `NoAbortInFlash` do not hold.

### WebSocket

Four tasks: mongoose creates, destroys and transmits; a notifier calls the readers
of an entry one by one; the events task forwards events; the update ticker works off
the backlog in the timer service. Only mongoose waits for the client mutex: the
others try it and use the backlog when they fail, and a try may fail at any
time. Mongoose waits for the mutexes of the framework while it holds it, and the
notifier tries it while it holds those: `EntryRead` includes that neither waits
for the other for ever.

A client is its slot, and the slot's reader outlives none of its clients. What a
client leaves in the backlog is not purged when it is destroyed, and a reader refused
because the list is locked may later get the entry through the backlog; `stray`
(history) marks those entries, which may be deleted while a job still points to
them. About all others `JobsMatchPending` says that a slot has exactly one job for
each entry that waits for it, and `SentToOwn` that it is sent to the client for
whom it was raised. `SentIsLive` and `EventsForwarded` do not hold. Accesses without
the client mutex in `EventListener` and in the subscriptions are not modelled, and
neither are the jobs of log lines.

### Config

A change is a step on the map in memory, then the file is opened (truncated), written
entry by entry from the map as it is *then*, and closed, with `m_store_lock`; the
event follows. A restore unpacks the archive, then takes for each directory the
steps of `install_dir`: remove what is left of the last time, rename the present one
away, rename the new one in (or the old one back), remove the old one; each may fail.
Optional directories may be missing from the archive. After success the mutex is kept and
the module boots; a failure gives it back, although directories already
installed stay (`replaced`). A file that cannot be opened, or whose writing fails so that
entries are missing or cut (`WriteFails`), is only logged; the change is signalled and
returns as any other, and its parameter is `unsaved` until a rewrite succeeds. A crash may come between any two steps, and a boot loads
what it finds; a directory that is missing is made empty.

Properties: `ChangesKept`, `RestoredKept`, `Recoverable` and `RebootFollows`. A crash
may lose the one file that was being written: that is so in the code, and
`ChangesKept` says that it is all, beside the parameters `unsaved`. A change of a map is one step: races on the
tree of `std::map`, on which the code has no mutex, are outside the model.

## 4 Runs, bounds and fairness

| run | checks | shows |
|---|---|---|
| `notify` | `MCNotify.cfg` | all of Notify, with refinement and liveness (3,384 states) |
| `server_v2_notify` | `ServerV2Notify.cfg` | safety and liveness of the queues (850,000 states) |
| `server_v2_notify_kept` | `ServerV2NotifyKept.cfg` | counterexample to `TextKeptUntilSent` |
| `server_v2_status` | `ServerV2Status.cfg` | changes are not lost (5.1 million states) |
| `server_v2_link` | `ServerV2Link.cfg` | connections through every race (277,000 states) |
| `net_manager` | `NetManager.cfg` | interfaces and task (23,000 states) |
| `net_jobs` | `NetJobs.cfg` | jobs, timeouts and clean-ups (994,000 states) |
| `boot` | `Boot.cfg` | the record through up to four resets (408,000 states) |
| `boot_restart` | `BootRestart.cfg` | the handshake with two restarts (305,000 states) |
| `events` | `Events.cfg` | plain and delayed events at every limit, with a flash and the watchdog (131,000 states) |
| `websocket` | `WebSocket.cfg` | clients come and go over full queues and a full backlog (150,000 states) |
| `config` | `Config.cfg` | two writers, writes that fail, a backup, a restore, a crash (995,000 states) |

Further configurations, run by hand, give the other counterexamples of section 5:
`MCNotifyLength.cfg`, `ServerV2NotifyRetransmit.cfg`, `ServerV2NotifyFlag.cfg`,
`ServerV2StatusPeer.cfg`, `ServerV2StatusShared.cfg`, `ServerV2LinkLogin.cfg`,
`ServerV2LinkSoon.cfg`, `NetManagerStart.cfg`, `NetJobsGive.cfg`, `NetJobsList.cfg`,
`NetJobsOrphans.cfg`, `BootCounted.cfg`, `BootRecognised.cfg`, `BootReason.cfg`,
`BootRestartTime.cfg`, `EventsTimer.cfg`, `EventsAbort.cfg`, `EventsFlash.cfg`, `WebSocketLive.cfg` and `WebSocketEvents.cfg`.

Each module has a type invariant `TypeOK` (`V2TypeOK`, `JobsTypeOK`,
`RestartTypeOK`), with the bounds of its queues and counters. The runs leave it out: TLC
has checked it with the constants of each run (put `INVARIANT TypeOK` into the
configuration to repeat that), and a theorem of §6 states it for every value of the
constants.

### Bounds

- *Notify*: three readers, two of one verbosity, so that a result is shared by
  readers, reused for a lower level, and too long for one; two types, as ids are
  per type. No raise starts for a type that has queued `MaxId` entries, but one
  raise may queue several. Lengths below, between and above the verbosities.
- *ServerV2Notify*: two texts and two records, so that one can be raised while
  another is at work; connections are unbounded. The delay of a retransmission
  is two ticks, enough for a tick that does nothing.
- *ServerV2Status*: one change of each metric and one peer. A second change of a
  metric finds the same bit in the same state as the first; peers come and go
  without bound. The messages and metrics of the runs are of the kinds the tables tell
  apart: the regular run has one important metric that two messages show and one that only
  one does, and the message that stands behind a condition; the others need the first only.
- *ServerV2Link*: three connections, so that one is closing while another is
  replaced, and three changes of the network. The times keep their order
  (an authentication that fails waits longest), except that the short ones
  are one tick.
- *NetManager*: three tasks, one more than can be alive; three quality events
  waiting, so that an old pair is behind a new one.
- *NetJobs*: one console with two commands, so that a second one meets what a
  first one left; two clients, an access point and two causes for a clean-up, so that
  one meets the record of the other. The queue has room for two jobs: two commands
  that time out fill it, and a clean-up is dropped. One event about an interface may
  wait. Two tasks at once would share the record from its first assignment on, and
  `alone` excludes them.
- *Boot*: two tasks with the record and four resets, with the inhibition at two:
  two crashes, the inhibited boot and one more. The two setters are the two
  cores.
- *BootRestart*: eight ticks instead of sixty, two for each timeout of the modem,
  so that a modem that goes on talking outlasts the countdown and a quiet one does
  not; unsigned counters wrap at eight, above what three parts can reach.

- *Events*: a queue of one place, a command queue of two and a pool of two timers
  are all filled by three events and a ticker, two of them delayed and so
  competing for a timer, from a task, a listener and the timer service.
- *WebSocket*: two slots and two clients, so that a slot is reused as well as a second
  one used; one entry and one event against queues of one place, which metrics jobs
  fill. The entry has another reader beside.
- *Config*: one parameter with two instances, so that a file may be half
  written, and one value: a task and the events task each may change it while the
  other writes. One optional directory beside the required one, as
  `install_dir` treats every optional one alike.

### Deadlock

TLC checks it in every run except where the system really stops: in
`ServerV2Link` (no connection and no change of the network left within the
bounds), `NetManager` (the wait of section 5), `Boot` and `BootRestart` (the module
has reset for the last time), `Events` (it has aborted, or all events are
signalled), `WebSocket` and `Config` (clients, entries and changes are used up).

### Fairness

- *Notify* (`FairSpec`): a raise that has begun ends, as it holds the mutex
  and calls nothing that waits; each reader keeps reading its first entry. The channels
  do so on `ticker.1` while they are connected, the web server while
  its socket drains. A reader that never comes back keeps its entries: that is
  what "kept in memory until the channel is available again" means.
- *ServerV2Notify*: `ticker.1` keeps coming and every task finishes what it has
  begun. Nothing makes the server answer or the network come back.
- *ServerV2Link*: the events task is weakly fair, and so are the steps within
  a callback. Strong fairness for the closing of a flagged connection:
  `mg_mgr_poll` closes it between two callbacks, and the task keeps being
  interrupted by others.
- *NetJobs*: mongoose and the events task go on; nothing is asked of the callers,
  who may wait until their timeout or beyond.
- *NetManager*: each task goes on, and the events task goes on when the handle it
  waits for is NULL. Nothing makes an interface come or go.
- *BootRestart*: the timer goes on ticking, the events task goes on with its queue.
- *Events*: a task that has begun a call ends it, a flash ends, the timer service
  executes commands and expires timers, the events task takes events, the watchdog
  finds it when it does not come back. No caller has to signal anything.
- *WebSocket*: a raise is not interrupted, mongoose returns from its handlers, a frame
  is sent or its connection closed (strong, as other connections come between),
  and the ticker, which only tries the mutex every 250 ms, gets it now and then
  (strong as well).
- *Config*: a task that has the mutex goes on, listeners are called, the countdown of
  the restart goes on while the events task is free, and the queue overflows when it
  is not.
- *Boot*, *ServerV2Status*: none; only safety and action properties.

## 5 What the counterexamples show

Of the regular runs (the finding of `PROJECT.json`):

- **A text raised while the connection breaks is lost**
  (`server_v2_notify_kept`): connected is tested, `Transmit` then finds no
  connection and returns silently, and the text is marked read.

Of the configurations run by hand:

- `AllChangesSent`: a change shown by two messages is sent in one of them. The
  charge state flags the status and the environment message, but the first takes
  the bit both look for.
- `StartReturns`: the events task may wait for ever. A start while the previous
  task has been created but has not set its running flag waits for a handle that a
  running task keeps.
- `ListBegunLive`: a command that timed out is processed as the next one, whose
  record its pointer in the queue names by then. `network list` sets its
  command before its buffer, and mongoose then writes to a NULL buffer; the module
  crashes. The comment in the code sees only the crash of a timeout during the
  processing.
- `AvailableIsFree`: `ScheduleEvent` takes a timer that is not active, but a timer
  is not active either while its start command waits in the queue of the timer
  service or its callback has not yet read its message. Two events may then share a
  timer: one message is lost and leaked, the other may be signalled twice.
- `AlwaysAborts`: a task that flashes signals `config.changed` with `m_flashing` held.
  If that very event finds the queue full, the task waits for the mutex it
  holds, and the module neither aborts nor flashes again.
- `NoAbortInFlash`: the abort after a dropped event waits for a running flash. The task
  watchdog does not: it aborts the module in the middle of one when the events task has
  been silent for a minute, in a listener or because nothing is queued (the loop
  goes on without resetting the watchdog after a receive that times out).
- `AllOrphansClosed`: when the last client goes and the access point stays up, mongoose is
  not stopped, as there still is a network, and no clean-up is scheduled: connections
  over that client are left to their own timeouts. A clean-up that finds the
  queue full is dropped as well.
- `SentIsLive`: an entry refused by a locked list of clients and taken over the
  backlog later is not pending for the client, so another reader may delete it
  before it is sent. The code's comment calls that assumption the safe side.
- `EventsForwarded`: without the mutex the listener puts the first `m_client_cnt`
  slots into the backlog; after a client in a lower slot has gone, one in a higher
  slot misses the event.
- `SelectedReadersServed`: a message longer than a channel's verbosity is not
  truncated, as the user guide says it may be, but never seen: a command's readers
  are chosen with size 0, and refused and withdrawn when its result is queued.
- `ReconnectsSoon`: after a reconfigured network the closing of the old
  connection replaces the ten seconds by its own sixty or a hundred and twenty.
- `CallerGiven`: a caller that times out between mongoose's test of `job->caller`
  and its `xTaskNotifyGive(job->caller)` has it notify NULL.
- `RetransmissionScheduled`: no retransmission is scheduled when the
  acknowledgement deletes the last entry before its id is read and the id then reads as
  0, or when a call ends at one of its limits.
- `NewDataFlagged`: a record raised between the end of the search and the
  withdrawal of the flag is not sent until another is raised.
- `PeerForced`: a tick at work overwrites `m_lasttx = 0`; `m_peers` survives the
  connection, so a peer after a reconnect may force nothing.
- `ConnectedMeansLoggedIn`: the ticker times out a login that is just being
  answered; the new connection is then reported as logged in. It heals:
  `FalseConnectedHeals`.
- `EarlyCrashCounted`: a panic during the shutdown of a restart clears the
  counters, as the record says soft reset already.
- `RestartRecognised`: two setters at once can store a CRC that does not fit, and
  the restart is taken for a power-on with corrupt data.
- `ResetReasonTrue`: the reset reason shown is that of the last panic, however long
  ago, or unknown.
- `TimeGiven`: a card pulled or a modem switched off just before the restart
  answers for another part, which is then reset at work.

## 6 Proofs

Eight modules prove the formulas of the runs for every value of the constants that
satisfies the named assumptions of the module, all of which TLC evaluates on the
instance. Each follows one plan: an inductive invariant `IInv`, a lemma `Init => IInv`, one
lemma for each action or group of alike actions, `NextIInv`, `Safe` (`Spec => []IInv`),
and then the theorems.

**NotifyProofs**, from `VerbosityAssumption` and `LengthsAssumption`.
`NotifySafety` is `Spec => []` of type correctness, `NoOrphan`,
`RaiseForRegistered`, `IdsUnique` and `OneMessageEach`. Their conjunction `Inv` is
inductive: `NoOrphan` alone is not, as an entry inherits its readers from a
message of `raising`; `RaiseForRegistered` says that those are registered, which
only `ClearReader` could disturb, and it waits for the mutex; `OneMessageEach`
is what `NotifyCommand`'s sharing of results by level gives. One lemma for each
action; `ReadLemma` says what marking read and clean-up leave of an entry.
`NotifyImplementsBoard` uses the same invariant: each step is a step of the board or
leaves its variables alone (`StepOfBoard`), where an entry is the right set of
items (`ItemsLemma`, `ClearReaderLeaves`, `MarkReadTakes`, `QueueEntryPosts`).
Freshness of ids is what makes the removal of one item remove no other.
`NotifyReusedFits` needs of the loop over the verbosities only the equation each
level satisfies: `Producers` is the set of the functions that satisfy them all. That
there is exactly one would take an induction over the levels; TLC finds it
in every state it reaches.

The same module has the proofs of **ServerV2Notify**, from `BoundsAssumption` (a call
sends at most five records, so at most five are modelled). Three tasks share the
queues, the flags and the connection without a common mutex, and the invariant
says what orders them. `TextInv`: a queued text is unsent, but for the one the
ticker has sent and not yet marked, and the ticker never has the notifier's own, as
its mutex is held (`TextAtMostOnce`). `FlagInv`: from the login on what is queued is
flagged, unless it is being searched for or its notifier is at work. `ConnInv`: once
no connection given up is left (`Alone`), *connected* is said of the current one, which
has logged in, and the ticker is at work on none else; connections are made by the
task it runs in, so a search that outlives its connection never counts for the
next. `DataInv` says where the search is and what has
been written when it goes on (`DataKept`, and with `FlagInv` `NothingForgotten`).
`ServerV2NotifyReadsBoard` (`ChannelReadsBoard`) is the other side of `NotifyImplementsBoard`:
whatever interleaving of notifier, ticker and acknowledgements, each step posts one item to the
channel, takes one off, or leaves the board alone. It needs no invariant, as the ids are
fresh by construction; the model begins with the reader registered, so it is the
board's step that is proved and not its initial state. `ServerV2NotifyTypes` bounds
the countdown to the retransmission and says that the id last sent is one once given, or what
a deleted entry may show.

**NetManagerProofs**, from `NetManagerAssumption`. The invariant has three parts
with few variables in common, each proved for the whole of `Next`:

- `MongInv`: the handle `m_mongoose_task` is that of every task that has not
  freed the manager, so a wait for a NULL handle is a wait for the manager
  (gives `OneManager`);
- `WifiInv`: the last quality event waiting says what `m_wifi_good` says, so
  older ones may be late (gives `WifiFollowsSignal`). It needs lemmas on the
  last element of a queue under append and tail;
- `ToldInv`: what was told is so (gives `ToldTruth`), with `ToldStep` for the
  action property `ChangeTold` (`NetManagerTellsChanges`).

The same module has the proofs of **NetJobs**, from `NetJobsAssumption`. The record has no lock, so the invariant
follows the one caller in `alone` (`OwnInv`): while it fills the record no job for
it exists; while it waits, its job is queued once and not executed, or in
process, or executed once (`WaitInv`); the queue may be full of earlier ones. `RecordInv` says that the other record, the one of
the clean-ups, has no caller and lists nothing, so what comes of it disturbs no command. `IInvOwn` derives `JobIsOwn`.
`NetJobsTypes` is the type invariant, for which `BufInv` follows the numbers of the
StringWriters through record, callers and mongoose.

**ServerV2StatusProofs**, from `StatusAssumption`, `FlagsAreTested`, `SharedBits` and
`CallsAreOfMsgs` (each tick's calls are of messages of the instance: `Calls` filters
a constant list, which TLC evaluates). `ChangeKeepsBit` alone does not survive a setter
that has written and not yet marked; `KeptInv` says how far the message last
sent may be behind at each point of the setter (`UpToDate`) unless it was dropped, and
`AskedInv` that what has
been asked to be sent is not ahead of the value. `WorkInv` keeps the message at work
one of the list, and `OneTests` that no other fetches its bits.
`StatusTypes` adds that the ticker never leaves the list of its calls (`PosInv`).

**ServerV2LinkProofs**, from `LinkAssumption`. `AttemptInv` (an attempt begins without a
connection, and a closing one leaves a retry) makes `OneConnection` inductive.
`NeverStuck` is not inductive for two reasons, and `MovingInv` mends both:
`network.mgr.stop` may be handled late and does nothing then, so something
else must be pending; and a network manager with a network has its mongoose task.
`LinkTypes` bounds the countdown, which two tasks write, by the delays it is set to.

**BootProofs**, from `BootAssumption`. Without a lock the record and its CRC may
disagree at any time. `CountInv` therefore counts under the CRC: the payload last
summed, and the sum a setter is about to store (`SetterInv`), never have fewer early
crashes than there have been in a row, which gives `LoopInhibited`. `FlagInv` says of
the flags which run set them (`FlagsOfLastRun`) and that the panic handler leaves record
and CRC in agreement (`BootPanicTold`, an action property: a step of the constructor
after a panic does not find the record lost).
`BootTypes` is more than types: the early crashes counted are among the crashes counted, and
these are no more than the resets the module has come up from, in the record, under its CRC
and in what each setter is about to store (`CountedInv`), also when the constructor is cut short.

The same module has the proofs of **BootRestart**, from `RestartAssumption`. `InTime` rests
on `CountdownInv`: the countdown is never behind the ticks since the last restart, where a
tick begun and not yet at Boot counts for one. `Handshake` says that nobody's word
is counted twice or missed, which takes the whole order of events. `AloneInv`
counts: what is pending is at least the parts that have asked and not answered, with
those still to be told it stays at three at most, and once the modules shut down it is
exactly the former. A part that asks twice or answers unasked would break it, so
`UnmountingInv` has the card busy from the announcement of its unmounting until it is
unmounted, also when the announcement is queued behind a tick, and a modem whose MUX fails
on its way off counts as one that has not answered, to the end; `FirstInv` says
what cannot be queued before a restart, and the order of its two events after it; `TodoInv`
is about the listeners left to be called, `WebInv` about the countdown of the web server.
`RestartTypes` keeps `m_restart_pending` within its width and the countdown in its range. The
last answer sets the countdown to two, whatever time is given; with a time of one tick that is
beyond it, which the type invariant allows for.

**EventsProofs**, from `EventsAssumption`, for any callers, events, queues and pool.
`OnceInTime` is not inductive at all: what keeps an event single is where it may be.
`PlacesInv` says that an event not upset is in one place only of the five (a timer,
the timer service, an overflow, the queue, the dispatcher) and what is allocated of it there
(`OnePlace`, `Kept`). `ClaimsInv` is why timers keep to it: of the events that claim a
timer (by a command on its way, by the caller that took it, as active, or by its callback that
has not read the ID), any two are upset; so is one that claims a timer whose ID is not
its own. `IdsInv` has the IDs distinct, `UnsignalledInv` an event nowhere before it is
signalled, and `CallersInv` at most one caller between the pool and its commands,
which is the mutex. `NothingLeaked` follows from the same invariant.
`EventsTypes` says that the queue, the pool of timers and the queue of their commands keep to
their sizes (`SizesInv`).

**WebSocketProofs**, from `WebSocketAssumption`, for any number of slots, clients,
notifications and events. A job for a notification is in one of three places: in
transmission, in the queue of its slot, in the backlog. `Held` and `Single` say so without
counting, and each lemma on a queue says what an append or a tail does to them
(`Grown`, `Shrunk`). `JobsMatchPending` is then `HeldInv` and `PendingInv`, and
neither is inductive alone. A reader must not be offered an entry twice, so
`RaisingInv` has the entry being raised as the latest, alive, and held for no reader still
to be called; what reads an entry waits for the mutex of its type, which excludes it. A client
that is destroyed loses its queue, then its job, then its reader, under the mutex of the
slots (`LockInv`, `ReadersInv`); what is in the backlog by then is `stray`, and
excluded by name. For `SentToOwn`, `MeantInv` says that whatever is pending for a slot was raised
while its present client was there, `ClientsInv` that clients are told apart, and
`SentInv` that an entry which has been sent and is still pending is the job in transmission:
so it is not sent again. That queues keep to their size (`RoomInv`) is proved by
itself; without it a queue that is longer would leave an entry pending and unqueued.
`WebSocketImplementsBoard` shows that the module takes no more from the notification
framework than it promises: each step is a step of the same `NotifyBoard` that
`Notify` implements, with the slots as readers, or a stutter (`StepOfBoard`). An entry here
has no id per type, so its number is the item's; that a reader registers only when it is
not registered, and leaves only when it is, comes from `ReadersInv` and `LockInv`.
`WebSocketTypes` adds the limits of slots and clients to the types.

**ConfigProofs**, from `ConfigAssumption`. The mutex makes writing and installing
exclusive (`LockInv`), but the maps change meanwhile. `WriteInv` says of a file being
written that each entry done is what memory has, *unless a write has failed or a task
that has changed it since waits to write the file itself*; with it `StoreInv` survives every change
(`ChangesAreKept`). `InstallOf` says at each step of `install_dir` where the old and
the new configuration are (`RestoreIsRecoverable`, `RestoreIsKept`). `ConfigTypes` follows
from the same invariant.

Only model-checked: liveness under fairness, which is out of the prover's reach:
`EntriesLeave`, `FlaggedDataSent`, `FalseConnectedHeals`, `NetworkServed`,
`OrphansClosed`, `RestartHappens`, `LostAborts`, `DelayedArrives`, `EntryRead` and
`RebootFollows`. Every invariant and every action property of the regular runs that
holds is the statement of a theorem. In no regular run are the type invariants (§4),
`ImplementsBoard` of `WebSocket` and `ChannelReadsBoard` of `ServerV2Notify`, which theorems
state for all instances; TLC has found `ChannelReadsBoard` to hold with the
constants of `ServerV2Notify.cfg`, and `ImplementsBoard` with those of `WebSocket.cfg` but
two entries and no event.

## 7 Not modelled, and the plan

Not modelled, in short (`PROJECT.json` has the list): drivers and protocols of
devices, decoders of vehicles, parsers and terminals, the script engine, and
vendored libraries (mongoose, wolfSSL, wolfSSH, duktape, libtelnet, microrl, zip). Of the modelled
components: destruction of a server object at run time, the commands and the
encryption of the v2 protocol, DNS and routes of the network manager,
the error code table of the notifications, registration and deregistration of
listeners and parameters at run time, unmounting of the store by command, the
parameter cache, subscriptions and log lines of the WebSocket clients.

*Pushover* has been read and has no module: a failed connection gives
`m_mgconn_mutex` back in `MG_EV_CONNECT`, and mongoose's `MG_EV_CLOSE` of the same
connection gives it back again and clears `m_mgconn`
(`components/pushover/src/pushover.cpp:284-297`), whoever has taken it by then.

The map covers a small part of the files under `src/`. Most of them are vendored
libraries (wolfSSL, duktape, mongoose), decoders of vehicles and drivers, whose
behaviour is a computation on bytes or a register of a device rather than
a protocol between tasks. What is left and does fit is in the plan.

Order of work so far: notifications, as every channel depends on them; server v2, the
main channel; the network manager below it; boot, which decides whether the
module comes up at all; then the event system, the WebSocket clients and the
configuration store; with the proofs of all of them.

Next, in this order:

1. **Pushover** and **Server v3**, as readers of notifications beside server v2, with the
   refinement of the board for one reader by each;
2. the **transmit queues of CAN**, and the destruction of a server object.
