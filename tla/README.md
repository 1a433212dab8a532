# A TLA+ model of roastbeef

roastbeef is a fork of Stratux: a Go daemon (`src/main`, about 30,000 lines) that
collects traffic, weather, position, attitude and engine data from radios and sensors in
an aircraft, and sends them to tablets and instruments over UDP, TCP, serial lines,
Bluetooth and a web interface. One process runs some fifty goroutines that share global
variables, a handful of mutexes and many channels. The cockpit displays are web pages
(`src/web/RB-01`) whose services run in the browser and follow the daemon over WebSockets
and polls.

This directory holds TLA+ modules that model the daemon's own logic and the two services of
the displays that carry state of their own, TLC configurations
that check them on small instances, and proofs that TLAPS checks for every value of the
constants. `PROJECT.json` lists components, runs, mutants, the map from definitions to
source lines, findings, hazards and theorems. Paths below are relative to `src/main`,
those of JavaScript files to `src/web/RB-01`, unless they say otherwise.

## Running the checks

    tlasany HobbsMeter.tla
    tlc -workers 4 -config MCHobbsMeter.cfg MCHobbsMeter.tla
    tlapm HobbsMeterProofs.tla

Every passing run ends in a minute and a half or less. The *violation* runs are expected to end with a
counterexample: each shows a disagreement between the code and what a comment or document
of the repository says of it (see Findings).

## 1. Inventory

Each part is listed with its state, its operations, how it meets the others, what is hard
about it and what makes it correct.

| Part (files) | State | Operations | Meets | What is hard | Correct when | Status |
|---|---|---|---|---|---|---|
| **Message queue** (`messagequeue.go`) | ordered slice of (priority, deadline, data), one-place channel `DataAvailable`, `Closed` | Put, PeekFirst, PopFirst, GetQueueDump, Close; expiry and batch pruning inside them | one per client; filled by `sendMsg`, emptied by `connectionWriter` | long sequences of insert/expire/prune, `Closed` read without the mutex | order by priority and arrival; bounded; only the least urgent and oldest are dropped | modelled, proved |
| **Network output** (`network.go`, `clientconnection.go`) | `clientConnections` under `netMutex`; per client: sleep and throttle data, queue, goroutine | `sendMsg`, `connectionWriter`/`collectMessages`, `refreshConnectedClients`, `sleepMonitor`, TCP accept, Close/OnError/`onConnectionClosed` | called by every producer; UI broadcast channel; settings | peek/pop not atomic, one token for many Puts, close at any point, OnError needs the mutex senders hold | no lost wake-up, sleeping clients get heartbeats only, closed clients vanish | modelled in part, proved |
| **Serial outputs** (`network.go` `serialOutWatcher`, `closeSerial`) | `globalSettings.SerialOutputs`, connection per opening | watcher tick, open, reconfigure, write error, close | settings page, `clientConnections` | two closers, delete by name, settings entry shares the queue | the device that is there is served; no open port forgotten | modelled, proved |
| **UI broadcast** (`uibroadcast.go`) | list of websockets under a mutex, channel of messages | AddSocket, Send, writer | alerts, traffic and `sendMsg` send into it; one per kind of page | one-second write deadlines while holding the mutex; a socket that misses one is left out and nobody closes it | messages reach the pages in order; a page learns that it hears nothing | modelled as one page sees it |
| **Hobbs meter** (`hobbsmeter.go`) | log of legs, debounce counters, dirty and read-only flags, JSON file | load, update once a second, save, ShutdownFunc | GPS, alerts, `gracefulShutdown` | power cuts, failed saves, hand edits, touch-and-goes, short legs | saved flights stay, the loss is bounded, the total never falls | modelled, proved |
| **Data log** (`datalog.go`) | flags, two channels of 10240 rows, queue for the next tick, SQL batches, SQLite file | `logSituation` ..., `dataLog`, `dataLogWriter`, `dataLogWatchdog`, `closeDataLog` | all loggers, settings page, `gracefulShutdown` | four goroutines with flags and channels, failing transactions, closing while opening | rows kept and in order, close returns, can be started again | modelled but for timestamps and tables, proved |
| **EMS rules and alerts** (`ems.go`, `alerts.go`) | colour, alert id and raise time per rule, feed watchdog; list of alerts | `validateRules`, `checkFeed`, `pushEvent`, `updateEvent`, `newEventId` | EMS driver socket, alerts websocket | raise/reopen/close in any order around a five-minute interval | at most one active alert per rule; unique ids; feed loss reported once | modelled but for the charts and the driver socket, proved |
| **SDR manager** (`sdr.go`) | four devices, `shutdownXX` flags, `closeCh`/`wg` per device, a reader and a child process each | `sdrWatcher`, `configDevices`, readers, `sdrKill` | settings, the Ping helper, shutdown | readers that ask for their own end, children that crash while they are shut down, settings that change meanwhile | no dongle is used twice; a crashed child comes back; `sdrKill` returns | modelled, proved |
| **Ping / Pong** (`ping.go`, `pong.go`) | `Ping_connected`, `prevPingEnabled`, `shutdownPing` | watcher, reader, dump1090 child, kill | SDR manager, settings | an old reader clears the new connection's flag; kill waits for a line | reconnects, kill returns | not modelled |
| **OGN / AIS** (`ogn.go`, `ais.go`) | in, out and exit channels shared by all connections | listener, reader, publish | traffic, gps | loop sends on the channel it drains; stale exit messages | reconnects, never blocks for ever | age of a report in `TrafficDisplay`; the rest not modelled |
| **Autopilot** (`autopilot.go`, `autopilotudp.go`) | route, status, mutex over the slice header | routine, direct-to, GPRMB input, web edits | gps, alerts, network | index used after unlock; last waypoint | no index past the route; targets advance | not modelled |
| **Traffic** (`traffic.go`, `flarm-nmea.go`) | map of targets under `trafficMutex`, with Age and Last_seen | parse, merge, age, clean up, send | all receivers, network, the map page | two clocks: the daemon's ages and the page's; reports that carry an old Age | stale targets go; a target that is heard is shown | its life and age modelled and proved; merging and positions not |
| **Core** (`gen_gdl90.go`, `monotonic.go`) | settings, status, clocks | heartbeat, settings file, `gracefulShutdown` | everything | shutdown order, blocking parts, settings truncated in place | shutdown ends, settings survive | not modelled |
| **Alerts on a display** (`services/servicealerts.js`, `alerts.go`) | the page's state per alert, balloon and its timer, socket | announcement, poll, `followAlerts`, reconnection | broadcaster, `/getAlerts` | an announcement and a poll tell of the same alert; answers overtake one another | no alarm replayed that was not raised again; every alert known in the end | modelled, proved |
| **Traffic on the map** (`services/servicetraffic.js`, `plates/js/map.js`, `js/main.js`) | the list of targets with the page's own ages | reception, ageing, removal, reconnection | broadcaster, `handleTrafficWS` | snapshot and queued messages cross; the page hears nothing any more | no target outstays its time, none is missing | modelled and proved |
| GPS and sensors (`gps.go`, `sensors.go`, ...) | `mySituation` under mutexes | serial reading, NMEA parsing, AHRS | everything | floating point, hardware | - | not modelled |
| Web interface (`managementinterface.go`) | none of its own | HTTP and websocket handlers | writes settings, timers, routes | handlers run concurrently with owners | - | appears as environment actions |
| Timers, keypad, switchboard, bridge | small lists | listener, web edits | alerts, web | index before lock, hold timer against release | - | not modelled |
| Charts, exports, trace, radio, tracker, OTA, fan control | buffers, files | recording, formatting, I/O | - | - | - | not modelled |
| Decoders (`common`, `godump978`, `dump978`, `uatparse`), image and scripts | none shared | pure decoding; build | - | - | - | not modelled |

`PROJECT.json` lists them as components with their files, and under `hazards` what can go
wrong at which line.

### Interactions

    receivers, GPS, sensors, EMS --(parse)--> mySituation, traffic, alerts
            |                                        |
            | log...()                               | sendMsg (netMutex)
            v                                        v
      dataLogChan -> dataLog -> dataLogWriteChan   networkGDL90Chan -> UI broadcast
                      |               |             clientConnections[*].Queue
                      +-> dataLogWriter -> SQLite          | DataAvailable
                                                    connectionWriter -> UDP/TCP/serial
    settings page --> globalSettings --> watchdogs (data log, serial, SDR, ping, pong)
    SIGTERM, web  --> gracefulShutdown: sdrKill, pingKill, pongKill, closeDataLog, ...,
                      hobbsMeter.ShutdownFunc, ...

## 2. Modules

| Module | Models |
|---|---|
| `QueueOps` | the slice operations of a queue as pure operators |
| `MessageQueue` | one queue with its clock, token and callers |
| `PriorityBuffer` | what a queue promises its users, without slices |
| `ConnectionWriter` | one UDP or TCP client: `sendMsg`, the writer goroutine, sleep and throttle, close; uses `QueueOps` |
| `SerialOutput` | the life of one serial device through many openings |
| `HobbsMeter` | the Hobbs meter, its file, power cuts and edits |
| `DataLog` | start, stop and data path of the flight recorder |
| `AlertList` | the list of alerts as pure operators |
| `EmsAlarms` | the engine rules, the feed watchdog and the alerts they raise; uses `AlertList` |
| `AlarmPanel` | what the pilot is promised: one light per rule |
| `SdrManager` | the watcher, the four devices, their readers and children |
| `AlertsDisplay` | alerts from the daemon's list to one display, by socket and by poll |
| `TrafficDisplay` | one target from a report to the map of one display |
| `MessageQueueProofs`, `NetworkProofs` (clients and serial outputs), `HobbsMeterProofs`, `DataLogProofs`, `EmsAlarmsProofs`, `SdrManagerProofs`, `AlertsDisplayProofs`, `TrafficDisplayProofs` | theorems |
| `MC...` | small instances for TLC |

Each module's head comment says what it abstracts. Conventions: an action is a whole
handler, or the part of one between two points where another goroutine can come in; names
are the source's; operators marked *mutant* are deliberately broken variants, used to show
that each property can fail, and no specification refers to them.

### Message queue: `QueueOps`, `MessageQueue`, `PriorityBuffer`

Everything but `Put`'s first test runs under the queue's mutex, so every operation is one
action; `Put` is `PutCheck` (reads `Closed` without the mutex) and `PutInsert`, with
`Close` possible between them. `InsertPositions` states what `sort.Search` guarantees and
no more: on an unordered queue it could return any such place. That is why `QueueOrder`
is needed for the code to be right, not only nice to have. `prune` is the set of
survivors it leaves, listed in order. 110 % of `maxSize` is the constant `PruneAbove`.

`PriorityBuffer` states the promise with sets: the most urgent and, within a priority,
the oldest current message is handed out; a current message is lost only above the limit,
and then the least urgent and oldest ones first, down to exactly `MaxSize`. `BufferSpec`
is the refinement `held <- {entries}`, checked as a property and proved.

### Network clients: `ConnectionWriter`

`sendMsg` takes `netMutex` and finds the queue open (`SendMsg`), then inserts, prunes,
notifies and releases (`FinishPut`). The writer is a program counter through
`connectionWriter` and `collectMessages`: wait for the token, check `Closed`, ask the
gate, peek, ask the gate again, pop, write. `IsSleeping` and `IsThrottled` are read anew
at each call, as in the code, and may differ. A UDP client is closed by
`refreshConnectedClients`, a TCP client by its own failing write, which then needs
`netMutex` in `onConnectionClosed`. Deadlines are kept relative to the present, so time
and the number of messages need no bound.

### Serial outputs: `SerialOutput`

One device, several overlapping openings (`Conns`). The watcher's tick, the settings
page's `closeSerial` and the `delete` in `onConnectionClosed` are critical sections of
`netMutex`; the three steps of `serialConnection.Close` (port, queue, map) are separate
and may be run by the writer and by `go conn.Close()` at the same time. `SharedQueue`
tells a device that was detected in this run of the program (its settings entry holds the
queue) from one known from the settings file. An identity is reused when nothing of its
former opening can run any more.

`Prompt` assumes that a closed connection's `Close` and goroutine end before the watcher's
next ten-second tick opens the device again. It is an assumption about the tty driver; with
`Prompt = FALSE` the old connection's late `delete` takes the new one out of the map while
its port is open, and `NoOrphan` fails.

### Hobbs meter: `HobbsMeter`

`ListenerFunc` calls `update` and then saves, all under the mutex, once a second: `Second`
is one action with one disjunct for each way `update` returns (`NoFix`, `OnGround`,
`Accelerate`, `TakeOff`, `Fly`, `SlowDown`, `Land`), each ending in `Flush`, which is the
save with its failures. `save` writes a temporary file and renames it, so for `load` it
happens entirely or not at all. `PowerCut`, `BadEdit`, `RepairFile` and `Restart` are the
world and the next run of the program; `unread` records a start where the card could not
be read, after which the code keeps an empty log that is *not* read-only.

### Data log: `DataLog`

Four goroutines, each with a place in its code: `dataLogWatchdog`, `dataLog`,
`dataLogWriter` and the callers of `closeDataLog` (watchdog and `gracefulShutdown`).
Rows are numbers and move from `logChan` through `hand`, `writeChan`, `queued` and `batch`
(what a failed INSERT leaves in `insertBatchIfs`) to `filed`. A send on or close of a
closed channel sets `panicked`, which ends the program. Timestamps, tables and the split
of a statement into chunks of values are left out; short windows in which a started
goroutine has not yet made its channels are closed, and a GPS fix is assumed when logging
starts.

### Engine alarms: `AlertList`, `EmsAlarms`, `AlarmPanel`

`AlertList` has the three things `alerts.go` does to its list: `Raised` (`pushEvent` with a
timestamp), `Updated` (`updateEvent`) and `NewEventId`, the first free identifier from the
time of day on. An identifier is a number below `Day`; the time shown by the wall clock at
a raise is any of `ClockReadings`, so the clock may stand still, jump back or pass
midnight between two raises.

`EmsAlarms` models one call of `validateRules` as `Frame` (take `emsDataMutex`, note the
time), then for each rule `Evaluate` (the colour, and the closing of the old alert) and
`RaiseRule` or `ConfirmRule` (the push of the new colour), and `EndFrame`. They are separate
because each push takes and releases the list's own mutex: another part's `OtherAlert`, or
the display reading the list, may come in between, though another frame or `checkFeed` may
not. `checkFeed` is `LoseFeed` and `FollowFeed`. A rule evaluates to any colour or to none
(`ok` false, or outside every band), so the probes and bands need no model, and mixed
values of two frames posted at once are covered. Times are ages up to the age at which the
code stops telling them apart.

Left out: `TimestampEnd`, `ActiveSeconds`, titles and types (shown, and read by no code),
sounds, the message to the display, the charts, and the drivers that fill `emsData`.
`AlarmPanel` is the abstract specification: a light of one colour goes on and off, and
goes dark before it shows another colour. `PanelSpec` is its refinement with
`shown <- ActiveColors`.

### Radio receivers: `SdrManager`

`sdrWatcher` is a program counter (`phase`, `at`): it wakes once a second, shuts everything
down and ends when `sdrKill` has been called, then looks at the four flags band by band,
captures the settings once (`Capture`) and compares them with the last pass's, shuts all
devices down, and runs the two loops of `configDevices`. `shutdown` is `CloseChannel` and
`EndShutdown`, with `wg.Wait()` between them as its guard. The captured settings are a
variable of their own (`cap`): what the user changes meanwhile counts at the next pass, but
a dongle that is gone, or a serial radio that has appeared, is seen at once, as in the code.

A device is a band and a *slot*, so that a device of which a goroutine, child or handle is
left and the one opened after it are different instances; `ExclusiveUse` would be empty
without it. A reader is a program counter: UAT polls `closeCh` and reads, the others start a
child, wait for it, and restart it after five seconds when it crashed (`Restarts`). Neither a
reader of ES nor one of OGN that finds the GPS clock valid looks at `closeCh` before it starts
a child, so a device that is closed in those five seconds gets another child, which `Kill`,
the goroutine that kills it, takes down; OGN's looks only while it waits for the clock
(`ClockValid`, `SeeClosed`). `FlagOf` and `Restarts` keep the code's
exceptions: an AIS child that does not start asks for the end of the 1090 MHz receiver, and
one that crashes is not restarted.

External: the dongles and programs. `ReadSync` returns, a killed child dies. Left out: the
wait for a fix at start-up, PPM and gain as values, and the reading of the children's output.

### Alerts on a display: `AlertsDisplay`

The daemon raises alerts into its list and sends each once into the broadcaster's channel
(`Raise`), and changes `Active` without telling anybody (`Update`). The page is told of a
new alert by its socket, and learns `Active` from a poll every two seconds. An answer is the
list at the time of the poll and may be lost, late, and overtaken by the next one.
`FollowAlerts` is the JavaScript function: the state of each alert by `Id` with the time it
went inactive, and a replay of the alarm when it comes back after a minute. The balloon is a
set with its timers; `hideAlertBalloon` stops the timer.

The page's socket is `added` to the broadcaster, `dropped` by it (a write missed its
deadline; the connection stays open, because `handleAlertsWS` only waits on a ticker) or on
the way between. `comebacks`, `replays` and `missed` are history.

### A target on the map: `TrafficDisplay`

One target, its place in the daemon's table (`present`, `Age`, and `silence`, the time since
`Last_seen`) and its place on the page (`shown`, with `Age`, `ageReceived` and the time
since `receivedTs`), with the queue of messages between them. Three kinds of reports are told
apart by what they do to the age: one with a position resets `Last_seen` but keeps the old
`Age` until the next second (`Hear`), one of OGN may be late and sets both (`HearOgn`), and
one without a position sends the old position again (`HearOther`). `sendTrafficUpdates` and
the page's `update` run once a second each, in any order within it; `Tick` waits for both.

"On the map" means in the map's list. The symbol fades before: `map.js:42` declares a
`TRAFFIC_MAX_AGE_SECONDS` of 15 for its opacity, while `isTrafficAged` removes at 59.

## 3. Runs

| Run | Question | Result |
|---|---|---|
| `message_queue` | do order, limit and the buffer's promise survive every sequence of operations? | holds |
| `connection_writer` | is every wake-up seen, held-back traffic retried, a closed client cleaned up? | holds |
| `serial_own` | is a device from the settings file served again after any unplugging and reconfiguring, without forgetting an open port? | holds |
| `serial_shared` | the same for a device detected in this run | violated |
| `hobbs_meter` | is what was flown saved, kept and never reduced? | holds |
| `data_log` | are rows kept, filed in order and written in the end; is everything stopped when close returns? | holds |
| `data_log_close` | does `closeDataLog` return? | violated |
| `ems_alarms` | does the list of alerts tell each rule's colour, without flooding, mixing up alerts or hiding silence? | holds |
| `sdr_manager` | is a dongle ever used twice, does a crashed receiver come back, does `sdrKill` end, whatever fails meanwhile? | holds |
| `alerts_display` | are alarms replayed only when they came back, do balloons last, does the page end with the daemon's list? | holds |
| `alerts_missed` | has an alert that a poll shows first been announced? | violated |
| `traffic_display` | does a target leave the map in time, and come onto it in time? | holds |

What the properties say:

- `QueueOrder`, `WithinLimit`, `BufferSpec`: above. Pruning while equal priorities meet
  and outdated entries sit in the middle of the slice is where an error would hide.
- `NoLostWakeup`: a writer that waits without a token has nothing to send that it did not
  itself hold back. `HeldBackIsRetried`: it never waits for ever over a current message,
  though nothing tells it that a client woke up; the next heartbeat does.
  `ClosedIsCleanedUp`: goroutine and map entry go, wherever the writer was and whoever
  held `netMutex`.
- `NoOrphan`, `ClosedWritersEnd`, `ServedAgain`: an open port is in the map or about to be
  closed; the goroutines of closed connections end; a device that stays is served.
- `OpenLeg`: while flying the last entry is the open leg with its whole minutes, so the
  three unchecked `entries[len-1]` are safe. `CleanIsSaved`: a log that is not dirty is the
  one on the card. `LossBounded`: a power cut costs the total of the whole log at most the
  minutes of a save interval, unless a save failed. `FlightsStay`: a finished flight on the
  card never changes. `BadEditStays`: an unparsable file is not overwritten.
  `TotalNeverFalls`: dropping a short leg takes no minutes away. `ChangesAreSaved`: a failed
  save is made good.
- `RowsKept`, `FiledInOrder`, `RowsReachFile`: no row is lost before a shutdown is
  requested, rows are filed once and in order unless an INSERT failed, and every row gets
  there. `ClosedMeansStopped`: after `closeDataLog` nobody touches the database.
- `ListTellsColor`: a rule in yellow or red has one active alert, of that colour, and a green
  rule none, but for the rule a frame is just moving. `PanelSpec`: a reader of the list that
  takes no notice of `emsDataMutex` never sees two at once. `NotRaisedAgain`: one alert of a
  rule and colour per interval. `OthersUntouched`: an update by identifier never reaches
  another's alert, and the feed's is active exactly while the feed is lost.
  `SilenceIsShown`: a feed that stops in alarm is reported, and withdrawn when it is back.

- `ExclusiveUse`: two receivers never use one dongle or one band, so a dongle is opened
  only when the child or handle that had it before is gone. It holds because the restart of
  a crashed child is counted in the `WaitGroup` before the old reader leaves it; the mutant
  that forgets the count opens the dongle twice. `SdrKillEnds`: from `sdrKill` on, the
  watcher ends and everything stays shut down. `CrashIsRepaired`: an ES or OGN device whose
  child has crashed gets a child again, is shut down, or waits for the GPS clock for good; with
  a valid clock it is not left as a device without a child.
- `ReplaysAreReal`: the page replays an alarm at most as often as the alert became active
  again in the list, although it may take an older list for a newer one. What protects it is
  the minute an alert must have been inactive: an old answer cannot stretch an inactive
  time that long. `BalloonLasts`: no timer of an earlier balloon takes a later one away.
  `FollowsList`: when the conditions stay as they are the page has each alert with its state
  in the end, and for good, whatever was lost before.
- `NoGhosts`: a target on the map was heard within the cut-off, the delay of a message and
  two seconds (one each for the timers of daemon and page), also when the socket has been
  dropped or the snapshot crosses queued messages. `AppearsInTime`: a target that the daemon
  has and would tell a connected page about is not missing for longer than the two seconds
  after which the daemon repeats it, the delay of a message and two more. TLC finds both
  bounds reached: with one second less each is violated.

### Bounds, and why they are enough

- Queue: five messages, two priorities, deadlines at once or one tick later, size 2 pruned
  above 3. Pruning needs one message over the limit; with five there are two prunes, with
  expired and equal-priority entries in any place.
- Writer: three priorities, one on each side of both gates (-10, 0, 5), a queue of one
  with room for one more, deadlines of the present tick. The state is finite without
  bounding the number of messages or the time.
- Serial: three openings, so a third can be opened while two are being closed.
- Hobbs: debounces of two seconds, a minute of three, a save interval of three and legs up
  to seven seconds keep the order of the code's constants (a leg can be too short, just
  long enough, and longer than a save interval); two flights, so that one is finished while
  another is open. `MinimumLeg <= Minute` and `MaxLeg >= TakeoffDebounce` are assumptions
  of the module. Shutdown may be followed by a last second of the goroutine, as in the code.
- Data log: three rows through channels of one place: one row in each stage, and a full
  channel. The violation run needs only one row.
- SDR: two dongles (a tagged and an untagged one, or two that want the same band), three
  bands, so that a dongle can go from one to another; one fault and one change of settings
  or hardware, at any moment. A fault and a change meet in every order, and `sdrKill` comes
  at any time; each may start a reconfiguration of its own. AIS is not
  enabled in the run: it shares all steps but the two exceptions named above.
- Alerts: two alerts of two severities, one with a condition that goes, comes back and goes
  again or back (two flips), one fault; `ClearTime` of four polls with answers up to one poll
  late. `MaxDelay + MaxFaults + 1 < ClearTime` is an assumption of the module: of the thirty
  polls of the minute some are answered in time. It is exact: with `ClearTime` 3 in this
  instance, and the assumption lifted, TLC finds `ReplaysAreReal` violated.
- Traffic: `KeepTime` 7, `Cutoff` 6, as the code's 60 and 59 s; a repeat after one second,
  reports three seconds late, messages two seconds under way and up to three of them: a
  message, one that overtakes nothing but is older than the snapshot, and one more. The
  proofs need no bounds.
- EMS: two rules, so one can be early while the other is late; two handlers, so a second
  frame can wait at the mutex; a list of six alerts in a day of six identifiers, so that the
  list may hold every one of them; clock readings at midnight and just before it, so that
  a search for a free identifier collides and goes over midnight; an interval of two ticks
  and a feed timeout of one. A frame starts only when the list has room for all it may
  raise, and for the loss of the feed after it (`Reserve`), so the bound never stops a frame
  or `checkFeed` half-way. The code's list has no bound.

### Fairness, and why the code justifies it

- Goroutines run: weak fairness of each writer, closer, watcher and watchdog.
- Go's mutexes hand themselves to a waiter that has waited long enough, so acquiring
  `netMutex` in `onConnectionClosed` is strongly fair.
- `heartBeatSender` sends every second, so `SendMsg(Heartbeat)` is strongly fair (the
  mutex again). No other message, no client behaviour and no clock tick is assumed.
- A `select` picks at random among the ready channels, so a branch that is ready again and
  again is taken: strong fairness of receiving a row, of the ten-second tick and of the
  shutdown message in `DataLog`. For the tick this includes that a transaction which is
  retried for ever succeeds once.
- A frame that is served is served to its end (weak fairness of `Serve`): nothing in
  `validateRules` waits but for the list's mutex and the datagram of a new alert, which is
  assumed to return. The EMS listener calls `checkFeed` every 200 ms, and Go's mutex lets it
  in at last however many frames are posted: strong fairness of `CheckFeed`. No frame and
  no tick is assumed, so frames may stop for ever.
- SDR: the watcher and the goroutines of a device run, one-second sleeps end, `ReadSync`
  returns and a killed child dies (weak fairness of `WatcherStep`, `Progress` and `Kill`).
  No fault, no user and no GPS clock is assumed.
- Alerts: the handlers, the broadcaster's writer and the page's timers run, and polls are
  answered unless the answer is lost (weak fairness of each). No alert, no change of its
  condition and no fault is assumed. The runs of traffic check safety only; that timers are
  prompt within the second is in the guard of `Tick`.
- A card that is written to again and again takes it once: strong fairness of a successful
  save in `HobbsMeter`.

Deadlock is checked except in `connection_writer`, where nothing is left to happen after a
TCP client has gone, in the `data_log` runs, where a panic ends the program, and in
`sdr_manager`, where nothing is left to happen after `sdrKill`.

## 4. Proofs

`MessageQueueProofs`: for all priorities, ages, limits with `PruneAbove >= MaxSize >= 1`,
and bounds:

- `TypeCorrect`, `OrderKept` (`Spec => []QueueOrder`), `LimitKept` (`Spec => []WithinLimit`),
  `ImplementsBuffer` (`Spec => BufferSpec`), `OperationsDetermined`.
- The inductive invariant is `QueueInv /\ WithinLimit`: types, `QueueOrder` together with
  the fact that every entry's arrival number is below the counter (without it a new message
  could tie with an old one), and that a `Put` under way has its number left. Lemmas state what inserting at a position found by the search,
  stripping the outdated front and listing a set of survivors in increasing order do to an
  ordered sequence. `Ranks` numbers the current entries by how many of them are removed
  before each; the numbers are all different and below their count, so prune, which keeps the
  high ones, keeps exactly `MaxSize` (`PruneKeeps`). `LimitKept` rests on that.
- `ImplementsBuffer` maps the slice to the set of its entries. The two agree on counts because
  a slice in order has no message twice (`CountPlaces`). `PutInsert` is then `Accept`,
  `PopFirst` is `Deliver` or `DeliverNothing` (the first entry left by `getFirst` is current,
  and `QueueOrder` puts it before all others), `PeekFirst` and `GetQueueDump` are `Shrink`, and
  no other step but `Tick` changes what the buffer shows.
- `OperationsDetermined` is about the model as much as the code. The model describes the place
  of an insertion, the expired front and the survivors of a prune by what they must satisfy;
  in every reachable queue exactly one value does, as in the code. An operation is never
  blocked by a choice that does not exist, and none offers an outcome that the code has not.
  The place is unique because the queue is in order. That it exists, and that a finite set of
  places is listed in one way only, needs induction: `SetInduction` takes an inductive
  set of numbers in place of a predicate, and follows from the pigeonhole principle.

`HobbsMeterProofs`: for all debounces, intervals and bounds that satisfy the module's
assumption:

- `TypeCorrect`, `OpenLegKept`, `CleanIsSavedKept`, `FlightsStayKept`, `LossBoundedKept`,
  `BadEditStaysKept`, `TotalNeverFallsKept`.
- `HobbsInv == TypeOK /\ OpenLeg /\ CleanIsSaved` is inductive. `OpenLeg` is needed for the
  types (`entries[Len(entries)]` on an empty log has no type), and `CleanIsSaved` is kept
  because every branch of `update` that changes the log passes `dirty` on to the save.
  Lemma `FlushWritesOrNot` treats the save once for all branches; there is one lemma per branch.
- `FlightsStayKept` adds that a step leaves the file alone or rewrites it from a log which
  agrees with it on every settled flight.
- `LossBoundedKept` is proved under `WholeIntervals`: a save interval is a whole number of
  minutes, and a takeoff is recognized within one, as with the code's 300 and 5 seconds.
  `LossInv` says how far the card is behind in every state while saves succeed: by the
  seconds since the latest save, and the takeoff's debounce for a leg it does not have yet.
  `EarlierLegs` adds that all other legs are on the card as they are in memory, so that the
  totals differ by the minutes of the open leg alone (`TotalsDiffer`).
- `TotalNeverFallsKept` needs the sum over a log of any length. `TotalOf` is a recursive
  function; `Sums` says what it means for a list to be the sums of another, `SumsExist` and
  `TotalIsSum` that `TotalOf` is the last of them (both by `SetInduction`), and
  `MoreMinutesMoreTotal` that a log with at least the minutes of another in each place, and
  none missing but empty legs, has at least its total. `SecondCovers` shows that a second
  leaves such a log: only the open leg changes, and a leg that is dropped has no minutes yet.
- `BadEditStaysKept` rests on `GarbledIsKept`: while the file does not parse, the log is
  read-only, so no branch writes.

`DataLogProofs`: for channels of any capacity and any number of rows:

- `TypeCorrect`, `ClosedMeansStoppedKept`, `RowsAreKept`, `FiledInOrderKept`.
- `LogInv` says which program counters of the two goroutines, the watchdog and the closers can
  be together (`CloseInv`): a closer that waits has sent its message, so either the writer is
  turning to `dataLog` with it or both have ended. And a logger sends only a row there is
  (`RowToSend`).
- A row passes from the logger through a channel, `dataLog`'s hands, the second channel, the
  queue of the tick and the batch into the database. `AllKept` says that each row sent is in
  one of these, `InOrder` that from the database back to the loggers they are numbered
  without a gap while no INSERT failed. Lemmas state what appending, taking the head and
  passing a whole queue on do to such a run. `AllKept` holds after the request as well, for
  the model keeps the variables of a goroutine that has ended.

`NetworkProofs`: for a network client with any priorities, ages and limits, and for a serial
output with any number of openings:

- `TypeCorrect` and `NoLostWakeupKept` of `ConnectionWriter`. `NoLostWakeup` is inductive with
  the types: `Put` leaves a token in the one-place channel, and between taking it and waiting
  again the writer has looked at the queue and either found nothing current or closed its gate.
  The types say that the queue is in bounds, which rests on the lemma about pruning of
  `MessageQueueProofs`, stated here for this module's entries.
- `ClosedIsNoticedKept` is `ClosedIsCleanedUp` without its fairness: a writer waiting on a
  closed connection has a token, one that has ended leaves nothing in the map, and a closed
  connection is out of the map or about to be. `ClosedOnce` says where the writer may be then.
- `SerialTypeCorrect` of `SerialOutput` (instance `Serial`) holds however long a `Close` takes,
  and so does `NobodyStuckKept`: with a queue for each opening nobody waits on a closed queue
  without a token, which is `ClosedWritersEnd` without its fairness. The invariant `SlowInv`
  says that `Close` closes the port before anything else (`PortFirst`), so that a writer which
  waits on a closed queue has the token of that `Close` (`OwnQueueTold`).
- `SharedQueueEndsOutput` proves the first finding for any number of openings: when they share
  the queue (`SharedQueue`), all queues are closed or none is (`AllOrNone`), none is opened
  again, and a device with a closed queue is not served.
- `NoOrphanKept` is proved under `Prompt`: a closed connection's own `Close` ends before the
  watcher opens the device again. Without it the property is false (see `SerialOutput`
  above). The invariant `SerialInv` says that while a connection is in the map only its own
  writer closes it and nothing of an earlier one runs (`OneAtATime`), and that connections
  which share a queue see the same queue (`OneQueue`).

`EmsAlarmsProofs`: for any names, rules (a name may even occur twice in the file), handlers,
clock readings, interval, timeout and length of the day, with `MaxAlerts <= Day` (a list
with more alerts than identifiers would make `newEventId` search for ever):

- `TypeCorrect`, `ListTellsColorKept`, `NotRaisedAgainKept`, `OthersUntouchedKept`, and
  `ImplementsPanel` (`Spec => PanelSpec`): initial states map to initial states and each
  step to one light switched, or to none.
- The code finds an alert by its identifier alone, so `ListTellsColor` is far from
  inductive. `EmsInv` adds that identifiers in the list differ (`Differ`), the kept ones name
  an alert of their rule and colour (`IdsKnown`), an alert younger than the interval is the
  last of its rule and colour (`YoungIsLatest`), at most one frame is served (`OneFrame`),
  with room left (`Room`), and of every alert whether it is active (`ActiveAsWanted`).
- Lemmas: `newEventId` finds a free identifier when the list is shorter than the day (by
  counting and a least distance), what a raise and an update do to the list, and one lemma
  per action.

`TrafficDisplayProofs`: for all times with `Fresh < Cutoff <= KeepTime` and `MaxLate <=
Cutoff`, delays and queues:

- `TypeCorrect`, `NoGhostsKept`, `AppearsInTimeKept`.
- Neither property is inductive. `DisplayInv` follows the age along its way: the Age in the
  table is at most a second behind until the daemon's timer has run (`TableFresh`), a message
  is as old as it says and as long as it is under way, and a second (`MessagesFresh`), and
  what the page takes for the age is at most a message and a second behind (`MapFresh`).
- `Prompt` says why a target that is missing will be there soon: a message that the map will
  take is under way, or its age is about to be computed, or it is not old enough to be
  repeated and a report would carry an age that the map takes. Each step keeps one of the
  three, with the time waited so far bounded in each.

`SdrManagerProofs`: for any tags, enabled bands, faults and changes and up to four dongles
(`SdrAssumption`; the code looks at the first three):

- `TypeCorrect`, which says that the `WaitGroup` of a device never leaves 0 and 1,
  `ExclusiveUseKept`, `NilMeansNothingRunsKept` and `StoppedForGood`.
- `SdrInv` gives the reasons. A device the watcher has let go of is gone altogether
  (`NothingLeft`), because its `WaitGroup` counts its reader and its child runs only under a
  reader (`AllCounted`). Two devices have different dongles (`Distinct`), because a
  reconfiguration begins with no device (`Placed`, `closing`), loop 1 has given away only
  dongles before the one it looks at (`Placed`, `tagged`), and loop 2 gives away only unused
  ones (`Spared`).
- Lemmas: `RunsKeeps` covers every step of a reader or child that leaves the device its
  dongle, `NextPlaces` the walk over the bands, `CreatePlaces` a creation in either loop;
  then one lemma per action of the watcher.
- `NilMeansNothingRunsKept`: when the four pointers are nil, for which `sdrKill` waits, no
  child, reader or handle is left; it follows from `NothingLeft`. `StoppedForGood` is the
  safety half of `SdrKillEnds`: once the watcher has ended, all is shut down and stays so.
  `KilledSoFar` says which devices its last pass has shut down at each point of it.

`AlertsDisplayProofs`: for any severities, times, delays and bounds with `MaxDelay + MaxFaults
+ 1 < ClearTime`:

- `TypeCorrect`, `BalloonLastsKept`, `ReplaysAreRealKept`.
- `DisplayInv` has the answers on their way differ in age, and the balloon on screen as old
  as the one timer (`ScreenOK`); with it no timer but a balloon's own can take it away.
- `ReplaysAreReal` counts, and the page keeps no count of comebacks. `CountsInv` says that
  every answer on its way can be dated: there is a number for each age, the comebacks there
  were when the list was taken, that grows with later lists and grows strictly from a list
  with the alert inactive to a later one with it active (`Ordered`), and to the list as it is
  (`Dated`). A list taken since the page has the alert inactive is dated at the number of
  replays or later (`Paid`); if it has the alert active and a poll between was heard, later.
  That one was heard follows by counting: the polls of an interval are as many as its
  length, and those not heard are on their way or lost (`Heard`). Within `ClearTime` there
  are more than both together (`HeardInTime`), so each replay has a comeback of its own.

Only model-checked: the liveness properties and everything else about fairness, out of this
prover's reach (`HeldBackIsRetried`, `ClosedIsCleanedUp`, `ClosedWritersEnd`, `ServedAgain`,
`ChangesAreSaved`, `RowsReachFile`, `SilenceIsShown`, `SdrKillEnds`, `CrashIsRepaired`,
`FollowsList`). Of `ClosedIsCleanedUp`, `ClosedWritersEnd` and `SdrKillEnds` the safety part is
proved, as said above. All invariants and action properties of the passing runs are proved.

## 5. Findings

Each is a violation run; the details and quoted lines are in `PROJECT.json`.

1. `serial_shared`: a serial device first seen in this run is never served again after it
   was closed once: its settings entry keeps the closed queue (`network.go:177`).
   `SharedQueueEndsOutput` proves it for any number of openings.
2. `data_log_close`: `closeDataLog`, and with it the shutdown, may hang (`datalog.go:700`).
3. `alerts_missed`: an alert that is raised while a page's socket is not among the
   broadcaster's is taken from the next poll as one "already announced"
   (`services/servicealerts.js:165`), and never announced. That is a second while the page
   reconnects, and for good once a write to it has missed its deadline: the broadcaster leaves
   the socket out (`uibroadcast.go:63`) but nobody closes it, so the page never reconnects.

### Known gaps

Seen while modelling, and not given a run:

- `collectMessages` peeks, asks the gate and pops in three steps, so a message the gate is
  to hold back can be sent to a sleeping or throttled client (`network.go:547`).
- A serial output that the settings page disabled is turned into GDL90 and opened
  (`network.go:184`); `SerialOutput` has no disabled state for this reason.
- Logging cannot be switched on again in one run: the watchdog that ends the log ends with
  it (`datalog.go:675`).
- The shutdown of the log can panic: `dataLog` ends on the request and closes the channel on
  which the writer is about to send (`datalog.go:533`), or one caller of `closeDataLog` closes
  the channel on which the other still sends (`datalog.go:701`). TLC reaches both; the model
  stops there, as the program does.
- Up to ten seconds of rows are dropped at shutdown (`datalog.go:419`): `RowsKept` and
  `RowsReachFile` claim nothing after the request.
- A flight in progress can be stored with a `landedTime` although the file's header promises
  an empty one (`hobbsmeter.go:267`): the first slow second sets it and a return to speed
  does not clear it.
- `rtl_ais` is not restarted when it crashes, although `docs/hardware/sdr-and-bands.md:60`
  says so of all three programs, and when it does not start it takes the 1090 MHz receiver
  down (`sdr.go:335`). `CrashIsRepaired` is about ES and OGN.
- A shutdown flag that was set when the settings change in the same second outlives its
  device and takes down the healthy one that was opened instead (`sdr.go:868`); it stays
  closed until the next change of settings or dongles.
- `UAT.shutdown` waits for the reader before it closes the device, which is meant to
  "preempt the blocking ReadSync call" (`sdr.go:620`).
- `sdrKill` looks at the four pointers only (`sdr.go:654`). Called while a reconfiguration has
  all devices closed it returns at once, although the watcher, which sees the request only at
  its next pass, opens new devices; it shuts them down then, if the process is still there.
- `removeTarget` sends its last message so that "the web interface times it out"
  (`traffic.go:201`), but the map takes no notice of a message without a position; the
  target stays for its full time.

## 6. Plan

Done: the queue, network clients, serial outputs, the Hobbs meter, the data log, the engine
alarms, the radio receivers, and alerts and traffic as a display shows them. What would come
next, in this order:

1. Ping and Pong: connected means there is a reader; kill returns, which needs a line from
   the device (`ping.go:241`).
2. The OGN listener: it sends on the channel that it drains (`ogn.go:121`).
3. The shutdown as a composition of the parts' protocols in the order of `gracefulShutdown`.
   `data_log_close` shows one part that may not return, `SdrKillEnds` one that does.
4. The broadcaster in front of `sendMsg` with many pages, the frame handler with the data log
   (`logEMS` sends with `emsDataMutex` held), and the first message of a network client, whose
   queue is made without a lock.

The number of runs is kept at about a dozen, one question each.

Considered and left: the autopilot (its hazard is an index into a slice that was replaced; the
rest is geometry), timers and keypad (the same kind of index before the lock), and the
settings file (truncated in place; a crash between leaves the defaults). Their hazards are in
`PROJECT.json`.

## 7. Not modelled, and why

- GPS, sensors, AHRS, radio decoding and the geometry of the autopilot and traffic:
  floating-point computation, outside what TLC explores.
- Formatting and parsing of GDL90, NMEA, X-Plane and JSON: data the properties do not
  tell apart.
- BLE connections, the DHCP lease file, ICMP packets: they appear as what they do to a
  client (registered, asleep, throttled, removed).
- The other web pages. Each shows a value or a list as it comes and keeps no state that two
  handlers share. Most lines of `src/web` are vendored libraries (AngularJS in three copies,
  UI-Router, Mobile Angular UI, OpenLayers, a GLTF loader) that this project does not own; a
  model of the pages' own logic therefore covers a small share of the lines of JavaScript.
- Scripts, images and vendored C code.
