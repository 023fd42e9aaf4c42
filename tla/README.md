# A verification of linuxptp-daemon

linuxptp-daemon runs on every node of a cluster that needs precise time. It
starts `ptp4l`, `phc2sys`, `ts2phc`, `synce4l`, `gpsd`, `gpspipe` and `ubxtool`
from the profiles an operator writes, reads their output, watches the GNSS
receiver and the DPLLs of the network cards, computes from all this the state
of the node (for a grandmaster: FREERUN, LOCKED or HOLDOVER, and a clock
class), and tells `ptp4l` and the outside world.

The code is a set of goroutines that share structures, often without a lock,
and that talk to processes which fail, answer late or not at all. The modules
here model that concurrency, one module per component.

## 1. Inventory

| component | code | state | operations | talks to |
|---|---|---|---|---|
| event handler, GM state | `pkg/event/event.go`, `stats.go` | `data` (last report per process and interface), `gmSyncState`, `outOfSpec`, `frequencyTraceable` | `ProcessEvents`: event, reset; `addEvent`, `updateGMState` | receives events of all monitors over one channel; notifies subscribers |
| clock class | `pkg/event/event.go`, `pkg/pmc` | `clockClass`, `clockAccuracy`, `clockClassRequestCh` | request, timeout of a request, `updateCLockClass`, `UpdateClockClass` | `ptp4l` through `pmc` GET and SET |
| DPLL monitor | `pkg/dpll/dpll.go` | fields of `DpllConfig`, `dependingProcessStateMap`, `holdoverCloseCh` | `stateDecision`, `holdover`, `Notify`, sysfs ticker, netlink dial, join, receive, redial, `CmdStop` | hardware, event channel, notifications of GNSS |
| process manager | `pkg/daemon/daemon.go`, `gpsd.go`, `gpspipe.go` | `processManager.process`, per process `cmd`, `stopped`, `exitCh`, `execMutex` | `Run`, `applyNodePTPProfiles`, `cmdRun`, `cmdStop`, `CmdRun`, `CmdStop` | operating system processes |
| GNSS monitor | `pkg/daemon/gpsd.go`, `pkg/ublox` | `UBlox` (command, reader, buffer, status), counters | `MonitorGNSSEventsWithUblox`, `UbloxPollInit`, `PushThread`, `Pull`, `Reset`, `Stop` | `ubxtool`, event channel, leap manager |
| leap second manager | `pkg/leap` | leap file, `utcOffset`, `utcOffsetTime`, `retryUpdate`, `pmcLeapSent`; a configmap | indication, maintenance tick, `GetUtcOffset`, `populateLeapData` | GNSS monitor, configmap, `pmc`, clock class worker |
| SyncE | `pkg/synce`, parts of `config.go`, `daemon.go`, `metrics.go` | devices, `LastQLState`, `LastClockState`, metrics | `extractSynceRelations`, `ParseLog`, `ProcessSynceEvents`, `ClockQuality`, `deleteSyncEMetrics` | `synce4l`, event channel |
| ports and HA | `pkg/daemon/metrics.go`, parts of `daemon.go` | `masterOffsetIface`, `slaveIface`, metrics of roles, states and offsets, active profile | `extractMetrics`, `extractPTP4lEventState`, `announceHAFailOver` | output of `ptp4l` and `phc2sys` |
| subscriptions | `pkg/event/pubsub.go` | registry under a lock | `Register`, `Unregister`, `notify` | DPLL, GNSS |
| netlink connection of a DPLL | `pkg/dpll-netlink`, parts of `dpll.go` | `conn`, semaphore, the status fields of `DpllConfig` | `Dial`, `DumpDeviceGet`, `JoinGroup`, `monitorNtf`, redial, `stopDpll` | kernel (dump, multicast notifications) |
| hardware plugins | `addons/`, `daemon/plugin.go`, parts of `daemon.go` | `PtpSettings`, `hwplugins`, `referenceString`, `hwconfigs`; the phase adjustments in the hardware | `OnPTPConfigChange`, `findDelayCompensation`, `sendDelayCompensation`, `AfterRunPTPCommand`, `PopulateHwConfig`, creation of the DPLLs | kernel (pins), process manager, publishers |
| publishers of the device status | `cmd/main.go`, `daemon/ptpdev.go` | `refreshNodePtpDevice`, a copy of the status | ticker of `main`, `runDeviceStatusUpdate` | API server |
| configuration text, discovery of devices, debug | see section 8 | | | |

How they interact. Every monitor sends events over one bounded channel and
drops an event that does not fit. The event handler reads that channel in one
goroutine; when the GNSS state changes it starts a goroutine that notifies the
DPLLs, each of which then runs `stateDecision` in that goroutine. The clock
class leaves the handler through a goroutine per request, a channel of capacity
one and a worker that talks to `ptp4l`. The leap manager is called by that
worker without a lock and writes the same settings of `ptp4l`. The process
manager owns the life of the processes and, through `CmdStop`, of the monitors.
Before it starts the processes of a profile it calls the hooks of the plugins,
which write to the hardware and into the settings the DPLL monitors are made
from; afterwards they fill the list of the hardware status, which goroutines of
the main program copy into a resource of the cluster.

What is hard in this code:

* concurrency: `stateDecision` has three kinds of callers and no lock;
  `UBlox.status` is set by three goroutines; `cmdStop` and `cmdRun` synchronise
  over a flag, a mutex and an unbuffered channel; the refresh flag and the list
  of the hardware status are shared without a lock;
* order: requests overtake each other, notifications are delivered by goroutines
  of their own, log lines of several ports interleave, a dump and queued
  notifications tell of the same device;
* failure: `pmc` times out and that is not an error; the answer of a SET is lost;
  processes crash and restart with default settings; one profile of several
  fails; a write of the configmap fails; a netlink socket overruns; a panic in
  the middle of a profile leaves the hardware as it is;
* time: holdover must end, a dead tool must be replaced, a class must arrive.

What makes each component correct, in one line each: *GM state* — LOCKED is
backed by reports of all three sources, and state and class agree; *clock class*
— what the handler believes is what `ptp4l` has, and the class arrives; *DPLL* —
holdover is attended and ends, and no DPLL stays LOCKED without its source;
*process manager* — no process of an old configuration beside one of the new, a
crash leads to a restart, a stop to an end; *GNSS monitor* — the current tool is
read, a dead one is replaced; *leap* — the UTC offset is the one in force
before, at and after a leap, but for a reader that is overtaken; *SyncE* —
levels that belong together are put together, the quality is the best that
applies; *ports* — the tracked port is the SLAVE, the active profile is the one
`phc2sys` follows; *netlink* — what is recorded of a device never gets older and
is the current status once everything is read; *plugins* — a pin gets the delay
of its own connector on its own card, a DPLL monitor watches its own card;
*publishers* — a published status is not replaced by an older one.

The hazards behind this list are in `PROJECT.json`, each at its line.

## 2. Modules

| module | models | notes |
|---|---|---|
| `PtpState` | the constants shared by all: states, sources, clock classes | |
| `GMState` | the main loop of `ProcessEvents` with `addEvent`, `UpdateState`, `updateGMState` | one action per kind of event: a report (`ProcessEvent`), a reset of GNSS or of the DPLLs (`ResetProcess`) |
| `ClockClass` | requests, senders, worker, `pmc` | GET and SET are steps of their own; each may be answered, fail or time out, the answer of a SET may be lost |
| `ClassService` | nothing of its own: what `ClockClass` promises, as an abstract specification | a class is asked for, announced, confirmed or lost; `ClockClass!ImplementsClassService` is the refinement |
| `Dpll` | one DPLL with all its goroutines | `stateDecision` is split at the blocking send and at the assignment of its outcome, so two of them may interleave |
| `ProcessManager` | `Run`, `applyNodePTPProfiles` and the goroutine of every process over several configurations | an instance is a process of one configuration (generation) |
| `GnssMonitor` | the ticker loop, push goroutines, `CmdStop` | `UbloxPollInit`, `Reset` and `Stop` are split where another goroutine may run |
| `Leap` | the leap manager, its configmap, the worker's use of it, restarts | `setUtcOffset` and `GetUtcOffset` are two steps each: there is no lock |
| `SyncE` | devices, log lines, quality levels, metrics | the quality table is complete; the map is walked in any order |
| `Ports` | port roles, tracked slave, clock state, HA | `ptp4l` and `phc2sys` are modelled from the lines the code looks for |
| `Netlink` | the connection of a DPLL monitor: dial, dump, join, reader, redial | devices and pins are counted changes, so that older and newer differ; the kernel is external |
| `HardwarePlugin` | the hooks of both plugins, the creation of the DPLL monitors, the ticker of `main`, the publishers | profile, hardware, status list and resource are state; the pins of a card and the API server are external |
| `*Proofs` (`ClockClass`, `GMState`, `Dpll`, `ProcessManager`, `Netlink`, `HardwarePlugin`, `SyncE`, `Ports`) | theorems | section 6; `GMStateProofs` also has those about `GnssMonitor` and `Leap`, whose `Init`, `Next` and `Spec` are called `GnssInit`, `LeapInit` and so on, so that one module can extend all three |
| `MC*` | constants for TLC | |

Each component module has the same layout: constants with a named assumption,
variables with the field of the code they stand for, one action per operation,
`Spec`, `FairSpec` where something must happen, the properties, and at the end,
under *Statements the code does not satisfy*, statements from comments, tables
or messages of the repository that TLC refutes (section 7). An operator whose
comment begins with *A slip* is the operator after it with a plausible mistake;
each breaks one property, which shows that the property depends on the code.

Correspondence with the code is line by line in the `map` of `PROJECT.json`.
Conventions: a Go `select` with `default` on a channel is a choice between
sending and dropping; a `nil` or absent map entry is a value of its own
(`NoReport`, `NOTSET`, `None`, `NoIface`); a metric that is deleted is the value
it had before it was first set. A `panic` is an absorbing label of the goroutine
that panics; in the program it ends the process.

## 3. Abstractions

* Offsets are *in range* or not. The offset a holdover computes from its slope
  is within `MaxInSpecOffset` or ends the holdover, at any tick.
* Timers expire at any time; fairness says that they do.
* The event channel of `Dpll`, `GnssMonitor` is a choice: an event arrives or is
  dropped. In `SyncE` it is a queue with the bound `MaxEvents`.
* In `GMState` there is one configuration, as there is one grandmaster profile
  on a node; events carry a time stamp up to `MaxTime`. `ProcessEvents` has
  a branch for a reset of ts2phc (`event.go:639-643`), but nothing in the
  repository sends one (`gpsd.go:227`, `dpll.go:528` and `dpll.go:792` are the
  senders of resets), so the model has no such event.
* In `ProcessManager` command lines are left out; a profile is applied or fails
  with some of its processes prepared (`Partial`). Output forwarded to a socket
  (`stdoutToSocket`, `daemon.go:910-961`) is left out.
* In `Leap` time is counted in maintenance periods, and the data race between
  `setUtcOffset` and `GetUtcOffset` is modelled line by line: the time is
  assigned, then the offset; the time is tested (`ClassTestsTime`), then the
  offset or the list is read (`ClassReadsOffset`). The manager and time itself
  may move between the two lines of the reader. The length of the list is tested
  and the list indexed in one step, as the list only grows; a torn `time.Time`
  is not modelled. The first tick may be due at once: the manager has then run for
  a period in which nothing happened. The text, the hash and the expiry of the file are left out.
* In `SyncE` lines about a whole device are left out: `ProcessSynceEvents` does
  nothing with a line that names no port. One line of unread output suffices,
  since `synce4l` does not depend on the daemon and its ports are independent.
* In `Dpll` a status read over netlink is an input, received or not; how it gets
  there is `Netlink`, where in turn what `stateDecision` makes of it is left out.
  Attributes are decoded: a message carries a device or pin and the number of
  its last change, or nothing the code uses. What the monitor cannot know (a
  change between dump and join, one that shares a batch with a later message, a
  device whose dump entry has no lock status) is collected in `missed`, a
  variable the code does not have.
* In `HardwarePlugin` an update has one profile with a section for the e810
  plugin, one interface per card and no clock IDs of its own. Connector names
  and labels are equal or not: the code compares them without regard to case.
  Delays stay within 32 bits. The order in which maps are walked shows in
  `AddSettings`, where it decides which filters are there when the loop ends
  early; the order of the plugins changes nothing. There the clock ID of a card
  is read again for every property of its filter, and each read may fail and
  give 0 (`keys` are the pairs of card and property, `readable` those for which
  the read succeeds), so one filter may be split between two clock IDs. Settings
  are forgotten when the DPLLs are made, and the DPLLs when the processes are
  started: no code of the module looks at them later. A copy of the status list
  made while the daemon writes it is the value `None`. The variable `version`
  counts the states of that list; the code has no such counter, it is there to
  say what older means. Settings of the profile and of the plugin are one map
  that the DPLL monitors get.
* In `Ports` an offset is measured or the faulty one; CLOCK_REALTIME is left out.
  `Alias` gives the card of a port, `ProfileOf` the configuration whose `ptp4l`
  runs it. They need not agree: a card may serve two configurations and a
  configuration several cards (`HasOwnCard`, and section 7).
* In `SyncE` every configuration has a device: `synce4l` does not run without
  one. In `HardwarePlugin` the connectors of a profile are a set with the order
  `Before` in which the code walks them, and `Last` is the one that is sent last.

## 4. Runs

`tlc -config X.cfg MCY` checks run X, where Y is the part of X before the
underscore.

| run | question | bounds |
|---|---|---|
| `GMState_reports` | is LOCKED justified and does it need every source, does the worst DPLL decide, do state and class agree, do old reports stay out, with resets in between (`TypeOK`, `LockedIsJustified`, `RelockNeedsEverySource`, `WorstDpllDecides`, `ClassMatchesState`, `ReportsNeverGoBack`) | 2 interfaces, one with GNSS, time stamps 0 and 1, so that reports can be late; more receivers are covered by the theorems |
| `ClockClass_live` | `TypeOK`, `BeliefIsAnnounced`, `ClassConverges`, and the refinement `ImplementsClassService` | 2 request goroutines, 3 classes, a restart of `ptp4l`, a lost answer: enough for a request to overtake another, and for a stale one to be sent last |
| `Dpll_live` | `HoldoverEnds`, `NotLockedWithoutSource`, `ReportsCatchUp`; does a DPLL without GNSS follow status and offset (`FollowsHardware`) | two setups: GNSS source and sysfs with two of the statuses, 1PPS source and netlink with all; one holdover at a time, 4 channels |
| `Dpll_netlink` | `TypeOK`, `HoldoverAttended` when the notification reader decides, too | GNSS source, netlink, one holdover at a time, four of the statuses |
| `ProcessManager_live` | `OneGenerationAtATime`, `CrashedIsRestarted`, `SignalledIsStopped` | ts2phc and gpspipe over 2 configurations, failing profiles and pipes; a process that is waited for and one that is not |
| `ProcessManager_stop` | refutes `LaunchedIsStopped` | 2 processes, 2 configurations |
| `GnssMonitor_live` | `CurrentToolIsRead`, `ToolIsReplaced` | 2 tools at once, one line between two ticks, limits of 1 for silence (10 and 3 in the code), starts may fail |
| `Leap_live` | `OffsetIsRight`, `OffsetConverges`, `ConfigmapCatchesUp` | one leap, one restart, times 2 to 5 with a window from 4 periods to 1 before the leap: a call of `GetUtcOffset` may begin before an indication, an update or a leap and end after it |
| `SyncE_levels` | `TypeOK`, `DeviceIsItsSection`, `LevelsAreSent`, `QualityIsBest`, `NoMetricLeft` | one device with two ports, two devices of different kinds; three pairs of levels, two of which differ in both parts, so that parts put together wrongly are seen |
| `Netlink_live` | `InStep`, `NeverOlder`, `StatusIsRecorded` | the two DPLLs of the card, one of another card, two pins that the filter tells apart; 2 messages in the socket, 2 in a batch; the EEC has 3 changes, since a message that is older than a dump takes two, the others 2 |
| `HardwarePlugin_apply` | `PinsAreAdjusted`, `DpllIsOfItsCard`, `OtherPinsAreLeft`, `StatusNeverOlder` | 2 cards with pins of the same label, the filter of one with two properties, one pin that refuses adjustments, 2 profiles, one of which cannot be compensated; 2 updates, a crash between them, 2 interchangeable publishers |
| `Ports_roles` | `TypeOK`, `SlaveIsTracked`, `FaultIsNoticed`, `ActiveProfileIsFollowed` | two profiles, one of which runs a `ptp4l` with two ports; the two are interchangeable, so they are a symmetry set |

Why the bounds are enough. The interesting cases of every module need two of
something: two interfaces, two goroutines, two configurations, two tools, two
ports. `ReportsNeverGoBack` needs two time stamps. The bound on holdover
goroutines in the runs of `Dpll` is one at a time although the code has none; the
theorem `Attended` covers any number. The limits on silence in `GnssMonitor`
only shorten the wait, since ticks with and without lines come in any order.
Two publishers are enough for one to be late, and the theorem `NeverOlder` covers
any number; two updates are enough for what a profile leaves behind.
`Ports` runs the `ptp4l` of one profile because configurations share no entry
of the maps; the HA part has both.

Deadlock is not checked where the system may really stop: after a stop, after
the end of the bounded time, or, in `Ports`, when the bounded output is unread.

## 5. Fairness

Weak fairness of every goroutine: Go schedules what can run. Beyond that:

* a `select` with several ready cases chooses at random, so no case that is
  ready again and again is passed over for ever (strong fairness of the exit
  case of the DPLL loop, and of both channels in `Leap`);
* a timer expires (`HoldoverTimeout`, `Maintain`);
* Go's mutexes do not starve a waiter (strong fairness of `Start` in
  `ProcessManager` and of `UnRegisterAllSubscriber` in `Dpll`);
* the event handler empties the event channel, so an event that is sent again
  and again is not dropped each time; likewise a request that is made again and
  again is answered by `pmc`, and not every write of the configmap fails;
* a process that was signalled ends;
* `Receive` on a netlink socket returns what is there, and fails when a message
  was dropped or the connection is closed; nothing obliges the kernel to accept
  a connection, so a monitor that gave up is exempt from `StatusIsRecorded`.

Nothing is assumed of the hardware, of the receiver, of the operator or of a
process that was not signalled.

## 6. Theorems

All are proved by TLAPS for every value of the constants that satisfies the
module's assumption.

| theorem | statement |
|---|---|
| `ClockClassProofs!TypeCorrect` | types; the worker never handles a request for the uninitialised class |
| `ClockClassProofs!Belief` | `BeliefIsAnnounced`, for any number of request goroutines |
| `GMStateProofs!TypeCorrect` | types |
| `GMStateProofs!ClassCorrect` | `ClassMatchesState` |
| `GMStateProofs!Relock` | `RelockNeedsEverySource`, an action property |
| `GMStateProofs!NeverGoBack` | `ReportsNeverGoBack`, an action property |
| `GMStateProofs!WorstDpll` | `WorstDpllDecides` |
| `GMStateProofs!Justified` | `LockedIsJustified` |
| `ClockClassProofs!Implements` | `ImplementsClassService`: the goroutines, the channel, the worker and `pmc` implement `ClassService` |
| `ProcessManagerProofs!TypeCorrect` | types |
| `ProcessManagerProofs!OneGeneration` | `OneGenerationAtATime`, for any processes, orders and number of configurations |
| `NetlinkProofs!ReaderIsInStep` | `InStep`, for any devices, pins, queues and batches |
| `NetlinkProofs!RecordsGrow` | `NeverOlder`, an action property |
| `HardwarePluginProofs!NeverOlder` | `StatusNeverOlder`, for any number of publishers |
| `HardwarePluginProofs!MonitorsAreOfTheirCards` | `DpllIsOfItsCard`, for any profiles and cards, and whichever reads of clock IDs fail |
| `HardwarePluginProofs!PinsAdjusted` | `PinsAreAdjusted`, and that the adjustment is of the last connector of the pin (`WantedByLast`) |
| `HardwarePluginProofs!OthersAreLeft` | `OtherPinsAreLeft`, an action property |
| `PortsProofs!TypeCorrect` | types |
| `PortsProofs!SlaveTracked` | `SlaveIsTracked`, for any profiles and ports |
| `PortsProofs!FaultNoticed` | `FaultIsNoticed` |
| `PortsProofs!ActiveProfileFollowed` | `ActiveProfileIsFollowed` |
| `SyncEProofs!TypeCorrect` | types |
| `SyncEProofs!DeviceCorrect` | `DeviceIsItsSection`, for any order of sections |
| `SyncEProofs!LevelsCorrect` | `LevelsAreSent` |
| `SyncEProofs!QualityCorrect` | `QualityIsBest`, over the complete table |
| `SyncEProofs!MetricsCorrect` | `NoMetricLeft` |
| `GMStateProofs!CurrentToolRead` | `CurrentToolIsRead` of `GnssMonitor`, for any number of tools |
| `GMStateProofs!OffsetRight` | `OffsetIsRight` of `Leap`, an action property, of behaviours in which at most one leap is announced, if the first file is up to date (`Outdated = {0}`): in every interleaving of the lines of `GetUtcOffset` with those of the manager, what the worker gets is right unless both lines of `setUtcOffset` overtake it |
| `DpllProofs!TypeCorrect` | types |
| `DpllProofs!Attended` | `HoldoverAttended`, for both sources and both interfaces to the hardware |

The arguments:

* *Clock class.* `BeliefIsAnnounced` is inductive only together with the fact
  that no request in flight is for the uninitialised class: otherwise a GET that
  timed out (all zero) would look like the class that was asked for. That fact
  is `RequestsAreInitialized` and is proved first. The refinement maps the
  requests in the senders, in the channel and with the worker to the set `asked`
  of the service. `AskedFor` says that the worker handles a request of that set,
  `WorkerSettles` that it leaves the set when the worker is done, unless there is
  another for the same class; `Belief` gives the step in which nothing needs to
  be changed, where the class that is confirmed is the one `ptp4l` has.
* *GM state.* `ProcessStateReports` says what `UpdateState` computes from the
  reports of one process; `ComputeGMBranches` and `ComputeGMValues` characterise
  `updateGMState` by the states of the three processes. `Justified` needs
  `GMInv`: the reports of the first GNSS interface, and for a LOCKED state the
  reports that stay behind it when one is replaced. The theorem would
  not hold if ts2phc sent resets: that branch removes the reports and keeps the
  state.
* *DPLL.* `HoldoverAttended` is about the moment; between the choice of a branch
  and its assignment other goroutines start and close holdovers. `DpllInv` adds
  where a goroutine with each branch can be, that a holdover which is on has an
  open channel, and that a goroutine which is about to publish HOLDOVER has
  started its holdover. Each caller of `stateDecision` is a lemma.
* *Process manager.* That no old process is alive is not inductive: a goroutine
  of an old configuration might be about to start one. `QuietInv` says that the
  goroutines of earlier configurations, and of the processes the daemon has
  already waited for, either never ran or were stopped and are past the last
  look at their flag. It needs `RunsInv` (a live process has a goroutine that
  waits for it), `DaemonInv` (the process that is waited for was told to stop)
  and `LaunchInv` (what is still to be started has no goroutine).
* *Netlink.* `IInv` adds to the types: `Connection`, the phases of a connection
  (before the join nothing is queued and no reader runs); `Ordered`, by which the
  messages of a source are queued in the order of its changes and nothing
  recorded is newer than what is still to be read; and `Accounted`, by which the
  status of a device is recorded or queued unless it was missed.
* *Plugins.* `PublishInv`: what a publisher with the newest resource is about to
  write was read after what the resource has; this holds because the resource is
  got before the list is read. `CardInv`: the clock IDs and the filters in the
  settings are those of the cards, property by property, from the hook until the
  monitors are created; an entry that is filed under a clock ID other than 0 is
  of the card with that ID. `AdjustInv` is for the pins: the compensations are
  those of the profile (`OfProfile`), and a pin with a connector is still to be
  sent or has its adjustment (`Sent`), for one that accepts it. `PinPhaseAdjust`
  takes the connectors in order and the last one wins, hence `LastExists`.
* *Ports.* The invariants of the runs speak of an empty log; while lines are
  unread nothing of the kind holds of the metrics. `SlaveTold`, `FaultTold` and
  `ActiveTold` say instead that the last unread line which has a say tells the
  truth, or none is left and what is believed is the truth. A line that is read
  is the first, so it is the last with a say only if no other is left. `OneTracked`
  says that the two fields for the tracked port agree and that at most one port
  of a `ptp4l` follows a master, `CardUnlocked` that the card of a profile that
  has it to itself is not LOCKED while no port is tracked.
* *SyncE.* `LogsBoth`: the second level of a port is missing from the log only if
  there are extended levels. `SSMTold` is about the first of the two, `LevelsTold` about both:
  what is stored for a port, with what is still unread of it, is what was sent
  last. `QualityIsBest` is inductive with the types: no two rows of an option
  have the same levels (`OneRowApplies`), so the order of the map is irrelevant.
  `MetricsOfPorts` says that only ports of the configuration have metrics, so
  that removing those leaves none.
* *GNSS monitor.* `ReadInv`: a tool is alive only after it was started, and a push
  goroutine of it starts with it. A goroutine leaves the current tool only when
  the tool has ended, and one that finishes a line of an old tool goes on with
  the current one.
* *Leap.* `BeforeInv`: until the leap, the file and the configmap are the first
  entry, or that and the announced leap, messages in the channel are of the one
  or the other, and during an update the old offset is still read; a worker that
  is about to read the list finds the leap there. `AfterInv`: afterwards nothing
  on file or in a message lies ahead (`Passed`), so the last entry is read, but
  by a worker that tested the time before the leap. The invariant is about the
  worker between its two lines, which is why the theorem needs it: `OffsetIsRight`
  is about the step of its second line. The theorem is about behaviours without a second announcement: if the first leap
  was never put on file, because nothing valid was received or it was lost with
  a restart, the entry before the second is too old. This is the outdated file
  of section 7.

Every safety property of the runs is a theorem. Out of the prover's reach, and
left to TLC, is liveness: `ClassConverges`, `HoldoverEnds`,
`NotLockedWithoutSource`, `ReportsCatchUp`, `FollowsHardware`,
`CrashedIsRestarted`, `SignalledIsStopped`, `ToolIsReplaced`, `OffsetConverges`,
`ConfigmapCatchesUp` and `StatusIsRecorded`. After a second announced leap
`OffsetIsRight` does not hold in general (section 7).

## 7. Known divergences

Statements of the repository that the code does not satisfy. Each is a
definition of its module, and the configuration named refutes it with a trace.
`ProcessManager_stop` is listed as a run; the others are kept to reproduce the
traces. A configuration that names several statements has all but one of them
as comments: TLC refutes them one at a time.

| statement | configuration | what happens |
|---|---|---|
| "cmdStop stops ptpProcess launched by cmdRun" (`daemon.go:1036`) | `ProcessManager_stop` | a stop before `cmd.Start` signals nothing, then waits for `cmdRun`, which waits for output |
| "Run in a for loop to listen for any LinuxPTPConfUpdate changes" (`daemon.go:260`) | `ProcessManager_failed` | after a failed profile, processes that were never started stay listed and the next update waits for their `exitCh` |
| "Don't restart after termination" (`gpspipe.go:125`) | `ProcessManager_gpspipe` | the check and the start are not under the mutex |
| FREERUN out of spec has class 140 (`event.go:292`) | `GMState_refuted`, `OutOfSpecIsClass140` | needs `frequencyTraceable`, which no producer sets |
| a DPLL that is NA gives FREERUN (`event.go:307`) | `GMState_refuted`, `FreerunWithoutDpll` | the code keeps the last state and waits for the DPLL |
| "make sure only one clock class update is tried if it fails next try will pass" (`event.go:69`) | `ClockClass_retry` | after a lost answer to a SET, going back to the old class is never requested |
| "update only when ClockClass is changed or clockAccuracy changes" (`event.go:817`) | `ClockClass_accuracy` | the accuracy is not compared |
| "failed to send dpll event, retying" (`dpll.go:747`) | `Dpll_retry` | there is no retry |
| row 3 of the table at `event.go:264` has LOCKED | `Dpll_refuted`, `RelocksWithGnss` | `sourceLost` is cleared only by a change of GNSS |
| FREERUN when out of range (`event.go:274`, `:282`) | `Dpll_refuted`, `OutOfRangeIsFreerunWithGnss` | no branch for a locked DPLL on GNSS out of range |
| closing `exitCh`: "terminate loop" (`dpll.go:256`) | `Dpll_refuted`, `StopTerminatesMonitor` | the monitor blocks on the channel of a holdover that has ended |
| "Cancel any holdover" (`dpll.go:772`) | `Dpll_races`, `NoHoldoverAfterStop` | the deferred decision of a cancelled holdover starts another |
| "Handle the closed channel panic if necessary" (`dpll.go:756`) | `Dpll_races`, `NoSendOnClosed` | two callers of `stateDecision` close the same channel; the goroutine that panics has no recover |
| "UbloxPollInit only initializes if not running" (`gpsd.go:253`) | `GnssMonitor_refuted`, `OneTool` | a late push goroutine sets DEAD after the new tool was started |
| "Need to ensure cleanup" (`gpsd.go:122`) | `GnssMonitor_refuted`, `NoToolLeft` | STOPPED is overwritten by ACTIVE and the tool outlives the monitor |
| a fix of 3 in range is LOCKED (`event.go:256`) | `GnssMonitor_refuted`, `FixIsLocked` | a header whose value has not arrived is taken for a lost fix |
| a leap is announced until it happens | `Leap_refuted`, `AnnouncedUntilLeap` | the clock class worker writes back settings it read before the flag was set |
| the flag has the direction of the leap (`leap-file.go:261-268`) | `Leap_refuted`, `FlagIsRight` | after a GET that timed out every leap looks positive |
| `GetUtcOffset` gives the offset in force (`leap-file.go:103-113`) | `Leap_refuted`, `NoOffsetBeforeItsLeap` | the worker finds the old leap past, both lines of `setUtcOffset` run for a leap to come, and the worker then reads the offset of that leap: the exception in `OffsetIsRight` |
| the offset is right with an outdated file | `Leap_refuted`, `OffsetIsRight` with `Outdated <- MCOutdated` and `Changes <- MCPositive` | before a leap the last entry but one is returned, even if a leap is missing between the two; the same happens with a first file that is up to date when the first of two leaps is missed (`MaxLeaps = 2`) |
| the ports of a device are those "AFTER the device section ... (UNTIL next device section)" (`config.go:194`) | `SyncE_refuted`, `IfacesAreItsSections` | the list is never emptied; a later device has the earlier ports too. The first device found is the right one, so nothing else is wrong (`DeviceIsItsSection`) |
| stopping removes the metrics | `SyncE_refuted`, `NoClockStateLeft` | an event handled late creates the clock state again |
| "monitorNtf receives a multicast unsolicited notification and calls dpll state updating function" (`dpll.go:380`) | `Netlink_refuted`, `NothingMissed` | a change between the dump and the join is in neither; of a batch only the last message is recorded |
| "dpll monitoring exited, initiating redial" (`dpll.go:558`) | `Netlink_refuted`, `FailureIsRetried` | when the redial, the dump or the join fails, the semaphore is nil or held by the monitor itself, and it never dials again |
| errors in the delays are only logged (`e810.go:169`) | `HardwarePlugin_refuted`, `NoPanic` | the nil pointer that comes with the error is dereferenced |
| "multiple dpll objects identified by clock id" (`daemon.go:732`) | `HardwarePlugin_refuted`, `EachDpllHasItsCard` | an interface without a clock ID in the settings gets that of the interface before it |
| a DPLL has the filter of its card, or none | `HardwarePlugin_refuted`, `FiltersAreWhole` | the clock ID is read once per property (`e810.go:195`), and a read that fails takes one property out of the filter |
| the adjustments are those of the profile | `HardwarePlugin_refuted`, `OldAdjustmentsAreRemoved` | a pin the new profile does not mention keeps the adjustment of an old one |
| "clear hwconfig before updating" (`daemon.go:370`) | `HardwarePlugin_refuted`, `ReportsAreCurrent` | the plugin keeps the reports of all profiles and appends them again |
| "Run a loop to update the device status" (`main.go:150`) | `HardwarePlugin_status`, `StatusIsPublished` | the flag is cleared after the publisher is started, and an update in between is not published |
| a clock is LOCKED only with a slave | `Ports_refuted`, `LockedHasSlave` | only a fault of the slave resets the state |
| a fault of the slave resets the clock of its card | `Ports_refuted`, `NoCardLockedAfterFault` with `Alias <- MCTwoCards` | a configuration with two cards: the card of an earlier slave stays LOCKED when the last slave fails |
| the role is recognised, as in "LISTENING to PASSIVE" (`metrics.go:633`) | `Ports_refuted`, `RoleIsKnown` | that transition and two others are not in the list |
| a faulty port shows no offset | `Ports_refuted`, `FaultyOffsetIsShown` | summary lines use the name of the interface, faults the alias |

Also seen while modelling, without a run: the offset thresholds have no effect
in `ProcessTs2PhcEvents` (`daemon.go:1088`), where LOCKED stays LOCKED out of
range; `len(ifaces) >= portId-1` (`metrics.go:297`) allows one port too many;
the quality TNC is printed as "UNKNOWN" (`synce.go:176`); the leap flag of
`ptp4l` is never cleared by the daemon; `main` may return while `Run` still
stops processes.

## 8. Not modelled

* Configuration text (`config.go` except the SyncE relations), command lines,
  scheduling options: sequential text processing.
* Of the plugins: the values written to sysfs pins and the default script, whose
  failures are only logged; the vital product data (`phaseAdjust.go:216-304`),
  which nothing outside the tests reads; several profiles with plugin sections.
* Of `pkg/dpll-netlink`: the encoding of attributes, the texts of
  `dpll-uapi.go`, and the requests nothing calls (`DoDeviceIdGet`, `DoDeviceGet`,
  `DoPinGet`).
* `pkg/network`, `debug`, metrics server, flags: input and output.
* `stdoutToSocket`; the one-shot queries of `ubxtool`; the deletion of `ptp4l`
  metrics.

## 9. Plan

1. Done: the components above; the abstract clock class service and the proof
   that `ClockClass` implements it; the netlink connection and the plugins; the
   proofs of all safety properties.
2. Composition. `EventHandler` = `GMState` with `ClockClass`, seen through
   `ClassService`. Then GNSS reports, notification and two DPLLs that share
   `dependingProcessStateMap`, around the handler: once GNSS is lost for good the
   class leaves 6.
3. More of the components: the socket mode of `cmdRun`, the deletion of metrics
   while events are in flight, several profiles in one update.
4. Proofs: the composition, once it is modelled, from the theorems about its
   parts.
