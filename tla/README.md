# A TLA+ development of the tedge-dot connector runtime

`tedge-dot` connects OT devices (Modbus, OPC UA, SNMP, CAN, AVEVA PI, ...) to thin-edge.io over
MQTT. This directory holds TLA+ models of its Rust implementation (`src/impl/rust`), the TLC
configurations that check them on small instances, and proofs checked by TLAPS of the properties
that matter most for every instance. Paths below are relative to `src/impl/rust` unless they start
with `src/`; `sdk` is `crates/sdk/src`.

The models are translated from the code. Where they disagree with the contract
(`src/doc/contract/ot-connector-contract.md`), a README, a specification or a comment of the
code, the code is what is modelled, the sentence is what is checked, and the disagreement is a
finding (see [Findings](#findings)).

## 1. The system

One process hosts any number of connectors, one per config file. A connector is one asynchronous
task, the main loop of the runtime, which drives one protocol module for all its devices and talks
to one MQTT broker.

| Component | State it keeps | Operations | What makes it correct |
|---|---|---|---|
| Service, supervisors (`src/main.rs`) | `Connectors::running`, `stopping`; per path a stop channel, a reload `Notify`, an attempt | start, reload (SIGHUP or detected change), restart after failure, stop with a grace period | one connector per config, none left behind, connectors follow the files, an unusable file disturbs nothing |
| File watcher (`src/watch.rs`) | watched libraries, `baseline`, `pending` | poll, rebuild | no change is lost, also one made during a reload; reloads cease |
| Stall watchdog (`src/main.rs`, `Progress`) | time of the last mark | mark, look | a hang is noticed in time, slowness is not a hang |
| Main loop (`sdk/runtime.rs`) | configuration, schedule, reads in flight, subscribed points, reconnect schedules, links | tick, read result, sample, command, reload, restore, stop | one call per device, no read under a command, every point has one delivery path, recovery |
| Reporting policy (`sdk/report.rs`) | per point: last published, candidate, held reading, clocks | offer, offer_replayed, due, reset | changes are not lost, order, rate limit, debounce, heartbeat |
| Request budgets (`sdk/concurrency.rs`) | per endpoint and in total: limit, in flight, successes | acquire, reduce, grow, release | never above the budget, no lost wake-up, nothing leaks, limits recover |
| MQTT session (`sdk/runtime.rs`) | request queue, incoming queue, `online`, retained topics | event-loop task, restore, publish_retained, stop | retained state agrees with the connector after every reconnect, the final health is shown, no publish blocks the loop |
| Commands (`sdk/runtime.rs`) | retained command topic | write, write-batch, call-method | every request ends in one final status that tells what the device took |
| Management (`sdk/runtime.rs`, `sdk/config.rs`) | document, file, running configuration | set-config, define-device, remove-device, reload_from_file | file, document, module and runtime agree, or the old state is kept |
| Measurement publisher (`sdk/runtime.rs`, `sdk/measure.rs`) | open messages, frames and samplers per device | add, flush, deadline, rebuild | no reading lost or published twice, order of time, exact aggregates |
| Configuration and libraries (`sdk/config.rs`, `library.rs`) | none | load, merge, judge a command's document | a point means what was written, commands cannot set what is local |
| Reporting and batch policies (`sdk/report.rs`, `measure.rs`, `config.rs`) | none | merge of the three levels, checks, names of series | the most specific setting counts, series have one name each |
| Parameters and descriptor (`sdk/descriptor.rs`) | none | describe, capability payload | sets are complete, keys lead back to one point |
| Values and transforms (`sdk/decode.rs`, `map.rs`, `model.rs`) | none | decode, scale, map, and back | a value goes both ways unchanged |
| Command line, stdout loop (`src/main.rs`, `run_stdout_until`) | jobs with their due times; schedules | read, poll, write; the loop without a broker | selection, pace and exit status; every device on a way of delivery |
| OPC UA (`crates/connector-opcua`) | session, health, subscription, translation of node ids | the `Connector` trait, retry task, event loop of the library | health is not better than the session, nothing is left behind, lost items are noticed |
| SNMP (`crates/connector-snmp`) | routes, engines, request sessions | poll, notification listener, reconnect | an answer for each object, traps reach their device through restarts of the agent |
| AVEVA PI (`crates/connector-aveva-pi`) | streams, chunk size, cursors and their file | poll, channels, catch-up, writes | no event lost or repeated, requests within the server's limits |
| PROFIBUS (`crates/connector-profibus`) | process images shared with the bus thread | connect, read, write, disconnect | writes reach the bus, good reads are current, the thread ends |
| Modbus (`crates/connector-modbus`) | a connection per device under a lock | read, write, reconnect | an answer belongs to its request, a field write changes no other bit |
| CAN bus, CANopen (`crates/connector-canbus`, `-canopen`) | last frames and receive loops; a bus handle and its thread | subscribe, read, write | neighbouring signals are kept, loops end, writes keep their order |
| C implementation (`src/impl/c`) | as above | as above | the same contract |
| Flows (`src/flows`) | alarm and command state per device | a message at a time | agree with the connector's topics |
| Conformance and bench tools | none | tests | test equipment |

How they interact: the service spawns a supervisor per config; a supervisor spawns an attempt
(`run_one`), which is the main loop beside the stall watchdog; a reload is a permit in a `Notify`;
a stop is a watch channel. The main loop calls the module through the `Connector` trait, hands reads
to tasks that report over a channel, receives pushed samples over another, offers every sample to
the reporting state of its point and publishes what comes out. Read tasks take requests from the
budgets shared by all connectors' endpoints. The event loop of the MQTT client runs in a task of its
own and reaches the main loop through the incoming queue, the `online` flag and a `Notify`.

What is hard about it:

- **concurrency**: reads in tasks beside a loop that writes, reconnects, subscribes and replaces the
  configuration; supervisors, attempts and reloads that overlap; budgets with hand-made waiting;
- **failure**: devices that fail and recover in parts (transport up, reads failing, push refused),
  subscriptions that die silently, attempts that end or hang, files that cannot be used;
- **ordering**: replayed readings between live ones, a held reading and a newer one, a file written
  while it is being read, a stop during a reload;
- **time**: backoffs against poll intervals, per-call timeouts against the stall limit, the settle
  time of the watcher, the grace period;
- **protocols**: answers that come after their request was given up, sessions that a library opens
  again without a word, agents that restart with another engine, images and caches that two tasks share.

`PROJECT.json` lists every component, and every hazard at its line with the properties aimed at it.

## 2. Modules

| Module | Models | Checked through | Proved in |
|---|---|---|---|
| `ReportState` | `sdk/report.rs`, the `Reporter` of `runtime.rs` | `MCReportState` | `ReportStateProofs` |
| `Runtime` | `run_until_reloadable` and what it calls | `MCRuntime` | `RuntimeProofs` |
| `Budgets` | `sdk/concurrency.rs` | `MCBudgets` | `BudgetsProofs` |
| `Service` | `src/main.rs`, `src/watch.rs`, `reload_from_file` | `MCService` | `ServiceProofs` |
| `Watchdog` | `Progress`, `stall_limit`, `stall_watchdog` against a pass of the loop | itself | `WatchdogProofs` |
| `Session` | the event-loop task, `publish_retained`, `restore_mqtt_session`, the last will | itself | `SessionProofs` |
| `Retained` | abstract: what a session promises of a topic | refined by `Session` (`InOrderShown`) | `SessionProofs` |
| `Commands` | `handle_command`, `handle_management`, `commit_config`, `reload_from_file`, `persist_config` | `MCModules` | `CommandsProofs` |
| `Batcher` | `sdk/measure.rs`, the `Publisher` of `runtime.rs` | `MCModules` | `CommandsProofs` |
| `Library` | `sdk/library.rs` | `MCModules` | |
| `Policies` | the `report` and `batch` tables, series names | `MCModules` | |
| `Values` | `sdk/decode.rs`, `map.rs`, `model.rs`, the form of a parameter | `MCModules` | |
| `Descriptor` | `sdk/descriptor.rs`, the keys of the flow `ot-parameter-state` | `MCModules` | |
| `Cli`, `Stdout` | the commands of `src/main.rs`; `run_stdout_until` | `MCModules` | |
| `OpcUa`, `OpcUaRead` | `connector-opcua`: the life of a session and its subscription; a pipelined read | `MCConnectors` | `ConnectorsProofs` |
| `Snmp` | `connector-snmp`: routes and engines | `MCConnectors` | `ConnectorsProofs` |
| `SnmpPoll`, `SnmpForms` | `connector-snmp`: a poll; objects, values, settings, notifications | `MCConnectors` | |
| `PiPush`, `Pi`, `PiForms` | `connector-aveva-pi`: channels and catch-up; resolution, reads, writes; values and settings | `MCConnectors` | |
| `Profibus` | `connector-profibus` | `MCConnectors` | `ConnectorsProofs` |
| `Modbus` | `connector-modbus` | `MCConnectors` | `ConnectorsProofs` |
| `Canopen` | `connector-canopen` | `MCConnectors` | `ConnectorsProofs` |
| `Canbus` | `connector-canbus` | `MCConnectors` | |
| `Modules` | `Commands` and the grouped points of `Batcher`, which are proved about | `MCModules` | `CommandsProofs` |
| `Connectors` | the connectors that are proved about, under one set of constants and variables | `MCConnectors` | `ConnectorsProofs` |

The modules meet at narrow points, so they are checked apart: `Runtime` starts and ends the reads
that `Budgets` admits and produces the readings that `ReportState` filters, of which `Batcher` makes
measurements; `Service` sees of an attempt only whether it connects, runs, reloads, hangs or returns,
which is what `Runtime` details; `Watchdog` sees of a pass only how long its calls take; `Session` sees
of the main loop only what it publishes and when it waits; `Commands` is what `Runtime` knows as one
command or reload. The connectors see of the runtime the calls of the `Connector` trait, in any order the
main loop may make them, and that a call may be given up after `operation_timeout`.

`MCModules` and `MCConnectors` put modules that share no state into one run. A behaviour chooses a
part in its first state and stays with it, and the variables of the others keep their initial values.
`MCModules` extends `Modules`, which extends `Commands` and has an instance of `Batcher` for grouped points, and
`MCConnectors` extends `Connectors`, which extends `Profibus` and has instances of `OpcUa`, `OpcUaRead`, `Modbus`,
`Canopen` and `Snmp` with variables of their own. These are the parts that
theorems are about, so a run checks the very definitions the theorems name, with the constants of the cfg; their
properties hold in every state, whichever part runs. The other parts are instances in the MC modules. As only one
part runs, they share the variables `x1`, `x2`, ...: each `INSTANCE ... WITH` says which variable of the module is
which, and the rest are 0. A property of such a part is `part = "..." => ` the property of the module, so it
says of the module exactly what a run of its own would say.

### ReportState

One point, its policy (`deadband`, `min_interval`, `debounce`, `max_interval`) chosen initially from
`Policies`. Variables are the fields of `ReportState`: the last published observation, the two
clocks of live and replayed publishing, the candidate that is settling, the held reading, the
heartbeat request. Four history variables tell the properties what the state does not: the newest
reading, the last publish, when the point was last heard of, and `steady`, the readings that every later
one agrees with, each with its time. Actions: `OfferReading` (live), `OfferReplayedReading` (with a source time),
`DuePass` (the loop's pass over all points), `Reset` (a write, a reconnect, a restored session) and
`Tick` (time). An observation is a number, which a deadband compares, or another kind of value, which
it does not.

### Runtime

The loop is at its `select!` or at an await inside an arm. `at` names the place, `todo` the devices
it still has to visit there, `call` the device whose protocol call is awaited; every await of the
loop is a place between two steps, in which read tasks end, timers run out, devices change their
condition and requests arrive. Each arm of the `select!` is an action or a chain of them: the tick
(reads, push checks, heartbeats, reconnects, re-subscribes), a read's result, reload, command, stop,
each of the last three through `drain_reads!`. `condition` says what a device would answer;
`session` and `loops` are what a module keeps per device. Points are classes (polled, pushed,
push-only), because `subscribe_device` and `build_schedule` treat the points of a class alike.
Constants say what the module can do (`HasReader`, `HasReconnect`, `HasCheck`), so the same
specification covers modules as different as Modbus and CAN bus.

### Budgets

`Budget` is an endpoint or the total. A step is one critical section of a budget's mutex or one await:
a read takes a request of its endpoint, then of the total, sleeps on `freed` in between, may take
further requests, sees refusals (which halve the limit) or successes (which let it grow), and gives
everything back in two drops.

### Service

`file` is the disk: a write gives a path a stamp it never had, as metadata does. `svc` is where `run`
is: starting (`StartAll`, `NewWatcher`, `FirstBaseline`), serving (`Poll`, `Hangup`), reloading
(`Discover`, `FinishStopping` or `GraceEnds`, `Reconcile`, `Rebuild`), stopping. Per config, `sup` is
where `supervise` is and `attempt` where `run_one` is; `cfg` is what the attempt runs with, so that it
can be compared with the file. `lingering` are attempts whose cancellation was asked for and has not
taken effect.

### Watchdog

Time in units of ten seconds. A pass of the loop is a sequence of parts (reads, heartbeats,
reconnects, ...), each of which makes some calls of slow devices, each of up to `Operation`.
`idle` is `Progress::idle`. `Wedge` is a call its timeout does not end.

### Session and Retained

A status topic has a number, raised by the main loop with each new value; `retained` is what the
broker holds, `seen` what it has shown in this session. The request queue (`Cap`), the client's unacknowledged
publishes (`Inflight`), the queue of incoming publishes (`InCap`), the connection, which may be up, down or
dead without notice, and the last will are as in the client library. The loop waits in `publish_retained`
for at most its timeout, in `restore_mqtt_session` for as long as a subscribe takes. `Retained` is the
abstract register: values are given, some are shown, never an older one after a newer one in one session;
`InOrderShown` is `R!Spec` with `shown <- seen`.

### Commands

Where the loop is (`at`), the file, the document held, the configuration that runs, the one the module was
configured with, the retained description, the schedule. A management command goes through candidate,
save, commit, reconnect and re-arm, each of which may fail; a hand edit, a disk that refuses and a crash come
between any two. A write-batch writes point after point until one fails.

### Batcher, Library, Policies, Values, Descriptor

`Batcher` is one device: the open message of a time group, the layers of a frame, the slot of a sampled point.
The other four are pure: a step looks at one input of a bounded set and a property compares what the code's
operators make of it with a reference definition (what a merge means, the value written and read back, the
points a key leads to). Numbers keep what matters of their width: bytes are digits to a small base, so that
carries, signs and the largest safe integer are reached.

### Cli and Stdout

`Cli` makes the calls of `read`, `read --interval` and `write` one after another, with devices that cannot be
reached and points that read badly; wildcard matching, duplicate paths and service names are looked at as
inputs. `Stdout` is the loop without broker, commands and tasks; as it keeps no link status, the reconnect
schedules are all it knows.

### The connectors

- `OpcUa`: one device; `handle`, `health`, `push` and `trans` are the connector's, `loop` and `event` the event
  loop of the client library, `server` the server with its sessions and its numbering of namespaces. A call may
  be cancelled at every await, and the requests of the retry task may fail. A subscription that a cancelled
  subscribe leaves on the session is not told apart, because the runtime reconnects before the next one. `OpcUaRead` has blocks in flight, busy and refusing servers and a link that is
  lost between two answers.
- `Snmp`: addresses found by name lookups that change, a shared listener that routes by source or through a
  trusted forwarder, agents that restart or are replaced, late traps, two devices with one SNMPv3 user.
  `SnmpPoll` is one poll with unanswered requests, clock and engine discovery and errors for a whole request.
- `PiPush`: the archive, the wire of a channel, the live buffer, pages of history, cursors in memory and in the
  file, restarts at any point, another subscribe in every phase of the task. `Pi`: points found later, requests that the server finds too long and that are
  halved, credentials read again.
- `Profibus`: connector and bus thread meet in images under a lock; the thread copies one peripheral at a time.
- `Modbus`: a reader task and a command share a connection; a request that is given up is served nevertheless
  and its answer stays on the line.
- `Canbus`: caches and loops are numbered, because a connect makes new ones while old loops may run on. Signals
  come from the database as they are: `Number` is the bit number the code counts to, `Position` the bit of the
  frame that it reaches, which is another one below zero. `CanbusSound` asks of a signal whose numbers are all
  within the frame that it reads back; and it says exactly which Motorola signals lie where the database has them,
  those within a byte. The others are finding 17.
  `Canopen`: requests given up stay queued for the thread of their bus.

## 3. What the runs check

The run marked `!` is expected to violate its property: it documents a finding.

| Run | Checks | Instance | Shows |
|---|---|---|---|
| `report_live` | `PolicyKept`, `NewestReported` | 7 policies, 3 readings of 4 values and 2 qualities, 8 instants | live readings: no change is lost, and every promise of a policy holds |
| `report_replay` | `InOrder`, `ReplayRateLimited` | the same policies, live and replayed readings in any order of source times, resets | order and rate limit on source time |
| `runtime` | `IndexesCurrent`, `Quiesced`, `ExclusiveUse`, `DeliveryPath`, `PushKept` | one polled and one push-only device, tasks, heartbeats, a fault, a command or a reload to other devices, a stop | what the loop may not do at any await |
| `runtime_recovers` | `Recovers` | one device with polled and pushed points, read in the loop, two faults, a module that can only be connected as a whole | delivery and link come back once the device stays well |
| `budgets` | `WithinBudget`, `NoLostWakeup`, `Accounted`, `Served` | 3 reads, 2 of them at one endpoint, a capped endpoint, a tight total | budgets are kept, nothing leaks, waiting ends |
| `service` | `Orderly`, `Settles` | a config, a library, 3 writes or removals, a failure, a stop at any point | connectors follow the files, reloads cease |
| `service_overstay` | `NoneLeft`, `StopEnds` | 2 configs, one named, SIGHUP, writes during the start, attempts that never see their stop | the grace period ends what does not end itself |
| `watchdog` | `AlarmInTime`, `HangsOnly` | reads in tasks, push, two silent devices | a hang is noticed, slowness is not taken for one |
| `session` | `StatusRestored`, `PublishReturns`, `StoppedShown`, `InOrderShown` | a device, queues of one, a change, two incoming commands, a drop of the connection | what the broker shows agrees with the connector after the last reconnect, and the stop is shown |
| `session_held_up` ! | `LoopGoesOn` | as `session` | finding 1 |
| `modules` | `OneConfiguration`, `BatchTold`, `ConfigurationSound`, `MeasuredOnce`, `MeasuredAll`, `ValuesSound`, `DescriptorSound`, `CommandLineSound` | nine parts, see `MCModules` | the parts of the SDK and of the command line around the main loop |
| `connectors` | `OpcUaSound`, `SnmpSound`, `SnmpRouted`, `PiSound`, `ProfibusSound`, `ModbusSound`, `CanbusSound`, `CanopenSound` | twelve parts, see `MCConnectors` | the connectors with their tasks, servers and devices |

Properties that belong together are asked together, each part by its own name in its module:

| Asked as | Parts |
|---|---|
| `PolicyKept` | `NewsKept`, `HeldKept`, `RateLimited`, `OnlySettled`, `HeartbeatOnTime` |
| `PushKept` | `OneDelivery`, `SubscribeRetried` |
| `Served` | `AcquireEnds`, `Regrows` |
| `Orderly` | `NoOverlap`, `Undisturbed` |
| `Settles` | `UpToDate`, `ReloadStops`, `GoesQuiet` |
| `HangsOnly` | `NoFalseAlarm`, `Rescued` |
| `OneConfiguration` | `Agreed`, `FileKept` |
| `ConfigurationSound` | `LoadedAsWritten`, `CommandsKeepLocal`; `Reconstructed`, `Heartbeats`, `Chosen`, `SeriesApart` |
| `MeasuredOnce`, `MeasuredAll` | `EachOnce`, `FrameOrder`, `LayersFilled`; `NothingForgotten`, `AggregateExact` |
| `ValuesSound` | `WireExact`, `UnitsNearest`, `MapReadsBack`, `FormWrites` |
| `CommandLineSound` | `CliSound` (`ExitTells`, `Paced`, `LookedAtRight`), `StdoutSound` (`NotStranded`, `OneWay`) |
| `OpcUaSound` | `HealthCurrent`, `NoSessionsLeft`, `OneForwarder`, `PushNoticed`, `TranslationCurrent`; `ReadAnswers`, `BlocksKept` |
| `SnmpSound` | `Polled`; `RawExact`, `TypedExact`, `ConfigSound`, `NotificationTold` |
| `SnmpRouted` | `RoutesAgree`, `PinsOwn`, `TrapsAccepted`, `InformsAnswered` |
| `PiSound` | `PushSound` (`CursorHonest`, `NoGap`, `OnceInOrder`); `EachAsked`, `ChunkLearned`, `WritesReadBack`, `GoodIsMeasured`, `Trusted`, `Addressed` |
| `ProfibusSound` | `WritesReach`, `ReadsCurrent`, `ReportTrue`, `Stopped` |
| `ModbusSound` | `EveryPoint`, `OwnAnswer`, `OneRequest`, `FieldOnly`, `WholeValue` |
| `CanbusSound` | `NeighboursKept`, `TasksEnd`, `ReadsBack`, `BytesAsInDatabase` |
| `CanopenSound` | `ReadsWritten`, `InOrder`, `OneHandle` |

Every property of a passing run has mutants in `PROJECT.json`, most of them one for each part: a
definition of the code changed the way a plausible bug would change it, under which TLC finds the
property violated.

### Bounds

- *ReportState*: intervals of policies are 2 and 3 instants and the clock has 8 (4 when source times
  multiply the states), so every interval runs out with time to see what follows; three readings are
  enough for one published, one held or settling, and a newer one.
- *Runtime*: two devices where devices can be mixed up, one where the question is about a single device;
  `MaxFaults` changes of condition and `MaxRequests` commands and reloads. Deliveries are counted as
  none, one or several. `runtime` also passes with `MaxFaults = 2`, in four minutes.
- *Budgets*: three reads, two of them at one endpoint, so that there is a waiter, a holder and a
  competitor at each budget; growth after `RegrowAfter = 2` successes instead of the code's constant.
- *Service*: `MaxWrites` edits and removals, `MaxHangups`, `MaxFailures`: one edit that is being
  applied, one during the reload, one after it.
- *Watchdog*: a unit is ten seconds. `Operation = 3` is the default of 30 s; `Stall = 17` is the smallest
  limit that `NoFalseAlarm` allows two silent devices, with subscriptions to restore: the longest stretch
  between two marks takes 16 (`WatchdogProofs!Longest`). The default of 120 s is `Stall = 12`.
- *Session*: queues of one, so that each is full and empty within a few steps; one change of a status and
  two commands, so that one is being handled while another arrives; one drop of the connection, which may
  come at any step, also during the restore of the first session. The code's queues have 32 places.
- *Commands*: one device besides none, two commands, two mishaps (edit, failed save, crash).
- *Batcher*: three readings, windows of 1 and samples every 2 units of time, messages of one series and frames
  of two layers, so that size, window and layer each close a message.
- *Pure parts*: the sets of inputs are in the modules (`Forms`, `Inputs`, `ReportTables`, ...) and the `WITH`s
  of the MC modules: every combination of the options that the code's branches tell apart, with a value on each
  side of every comparison.
- *OpcUa*: two points, so that some and not all items are lost, and two faults or cancelled calls.
- *Snmp*: an agent that is replaced once and restarts twice; the other devices' agents stay.
- *PiPush*: a point, two values at one time, pages of one event, a live buffer of one event, three events, one
  restart or lost channel. *Pi*: five points of different length, a server that takes one at a time.
- *Profibus*, *Modbus*, *Canbus*, *Canopen*: one device, two connections, and two or three requests or frames: an
  old and a new connection with something left on the old one. Bytes and registers have two to four bits. *Canbus*
  writes the lowest bit and two Motorola signals that pass out of their byte, one of them below zero.

The proofs do not depend on the instances.

### Fairness

- *ReportState*: the loop makes its passes, and time goes on once a pass has nothing to do.
- *Runtime*: the loop takes its steps (calls are bounded by `operation_timeout`), the tick is taken
  again and again (`select!` picks an enabled arm at random), reads end, results are taken, poll
  intervals and backoffs run out. Nothing is assumed about devices.
- *Budgets*: a waiting read is polled by the executor, and reads end. No order among waiters is assumed,
  because the code keeps none; `AcquireEnds` therefore supposes that no further reads start.
- *Service*: tasks that can go on are polled, the ticks of the watcher and all timers fire. Nothing is
  assumed about files, signals and failures, nor, in `service_overstay`, that an attempt sees its stop.
- *Watchdog*: time goes on, and the watchdog looks.
- *Session*: the loop and the event-loop task are polled while they can go on; the `select!` of the loop takes
  the reconnect at last; the broker accepts a connection at last, acknowledges what arrives and publishes
  the last will. Nothing is assumed about drops, nor about room in the queues.
- `modules` and `connectors` check invariants only and assume nothing.

## 4. What is proved

All theorems hold for every value of the constants that satisfies the assumptions stated next to
them: `DeviceAssumption`, `PointsAssumption`, `RoomAssumption` and so on say no more than that constants
have their types, that limits, queues and bytes are not empty (`config.rs` rejects a limit of 0) and that the
configs and libraries are different files. `PowerAssumption` of `Connectors` says that the powers of two a Modbus
register and its field are cut with are positive numbers, which the provers, who know nothing of exponentiation,
cannot find out. Seven theorems have a hypothesis of their own, in `ASSUME`; each
excludes what the code really does otherwise.

| Theorem | States | Only when |
|---|---|---|
| `ReportStateProofs!Types` | the state of a point is well formed | |
| `ReportStateProofs!PublishesInOrder` | readings are published in the order they were read | |
| `ReportStateProofs!ReplayLimited` | replayed readings keep the rate limit on their source times, also with live publishes between them | |
| `ReportStateProofs!LivePolicyKept` | live readings: no news is lost, a held change is not dropped, rate limit, settling and heartbeats are kept | no replays and no resets (see [where the properties end](#where-the-properties-end)); no policy both limits and debounces (finding 2) |
| `RuntimeProofs!Types` | the state of the loop is well formed | |
| `RuntimeProofs!IndexesStayCurrent` | no device index used after an await is stale | |
| `RuntimeProofs!NoReadUnderCommand` | no read task runs under a command, a reload, a connect or after the end | |
| `RuntimeProofs!EveryPointHasPath` | a point is delivered by push or polled, never neither | |
| `RuntimeProofs!OneCallPerDevice` | calls of the loop never overlap the device's read task | no heartbeats, or no device both polled and pushed (finding 3) |
| `RuntimeProofs!OneDeliveryEach` | push delivery of a device never runs twice | the module reconnects single devices |
| `RuntimeProofs!PushDeliveryKept` | the same, and a failed subscribe stays on the schedule until one succeeds | that, and pushed points cannot be polled |
| `BudgetsProofs!Types`, `BudgetsKept` | no limit reaches 0; requests in flight stay within the budgets | |
| `BudgetsProofs!NoWakeupIsLost` | a sleeping read has nothing to take, or a notification on its way | |
| `BudgetsProofs!NothingLeaks` | what a budget counts is what the reads hold of it | |
| `ServiceProofs!Types`, `NothingLeftBehind` | supervisors, entries and attempts stay paired; an ended service has left no attempt | |
| `ServiceProofs!ReloadsAreOrderly` | successors start when those they replace are gone; an unusable file takes no serving connector down | attempts end in time; no file renames the service or is refused by the running module (finding 4) |
| `WatchdogProofs!HangsAreNoticed` | a loop is never without a mark for longer than the limit and one look | |
| `WatchdogProofs!SlowIsNotHung` | the watchdog restarts only what hangs | the limit is above `Longest` (finding 5 is an instance below it) |
| `SessionProofs!Types` | loop, client, event-loop task and broker are well formed, queues within their room | |
| `SessionProofs!SessionImplementsRetained` | the session implements `Retained` | |
| `CommandsProofs!OneConfigurationLeft` | module, runtime, document, description and schedule are of one configuration, and the file is the document held | |
| `CommandsProofs!BatchesTold` | the results of a batch tell what the device took | |
| `CommandsProofs!EachReadingOnce` | measurements of grouped points: a reading is in one message or one open layer, no message is empty or has a point twice, a frame point's messages are in the order of its readings | |
| `ConnectorsProofs!BusSound` | PROFIBUS: exchanges carry the writes, good reads are current, reports are true, the thread ends | |
| `ConnectorsProofs!OpcUaHolds` | OPC UA: health is not better than the session, a close leaves nothing behind, there is one forwarder, lost items are noticed, node ids are the session's; a read answers for each node and keeps its blocks | no server numbers its namespaces anew (finding 6) |
| `ConnectorsProofs!ModbusHolds` | Modbus: a read answers for each point with the answer to its own request, one request at a time is on a connection, a field write changes no other bit, a typed value is read whole | |
| `ConnectorsProofs!CanopenHolds` | CANopen: reads give what was last written, writes keep their order, a bus has one handle | |
| `ConnectorsProofs!SnmpHolds` | SNMP: a device's requests and notifications use one address of its own, traps must come from an engine of an agent it was resolved to, those of an agent a poll has met are accepted, who asks for the receiver's engine is told | |

The arguments:

- *ReportState*. Order needs that the held reading and the candidate are newer than the last published
  one and no newer than the last offered one (`HeldIsNewer`). The rate limit on source time needs that the
  state still knows the source time of the last replayed publish after any number of live ones
  (`SourceKept`), and that a heartbeat is slower than the limit, as the merged policy is adjusted
  (`Effective`, `HeartbeatSlower`). `LiveInv` is the live policy: what is held or settling is the newest reading and there
  is something held whenever the newest reading is news (`Current`), the candidate is among the readings
  that have been steady, and the state's times are those of the history (`Clocked`). What each function of
  `report.rs` may do to a state is one operator (`SettledResult`, `DebouncedResult`, `CandidateResult`,
  `ReleaseResult`), proved once and used by every property.
- *Runtime*. `IInv` is `TypeOK /\ InPass /\ Known /\ Apart /\ IndexesCurrent /\ DeliveryPath`. `InPass`
  says that the devices a pass has still to visit are of the running configuration, `Known` that the
  tasks running are those the loop knows of, and `Apart` that a device the loop visits for a
  reconnect, a subscribe or a write has no read in flight. Quiescence and exclusiveness are not
  inductive alone: they hold because a drain empties `reading` before the loop leaves it, and
  because the devices collected for a visit were filtered by `reading` when they were collected and
  no read starts in between. Deliveries are single because a subscribe comes only where the old delivery has
  ended (`Ended`). A retry is kept because a device is owed a subscribe or subscribed, never
  both, the push check visits subscribed devices only, and no read clears the entry of a device that cannot
  be read (`Retry`). With heartbeats, reads and heartbeats are of different devices (`Disjoint`).
- *Budgets*. A sleeping read has registered for notification before it tried once more, so the
  invariant relates three things: what is free, who has been notified, and who still has to try. The accounts
  are a bijection in disguise: `Out(b)` is the set of the requests that are out, `Counted` says that the
  counter is its cardinality, and a step adds or removes one element. This needs that a read holds requests
  only while it reads (`HeldInRead`) and waits only at its own endpoint or the total (`AtOwn`).
- *Service*. `IInv` is `TypeOK /\ Waiting`: `stopping` is empty outside the two places that wait for it
  and `running` is empty once the service stops. `NoneLeft` follows from the pairing of entries and
  supervisors. For `Orderly`, no configuration an attempt took asks for a restart (`NoRestarts`), so a
  reload stops only connectors whose file is gone, and a serving one is up until it is asked (`Up`).
- *Watchdog*. `idle` is below the limit plus what the timer has run since the watchdog last looked. For slow
  devices, `idle` and the time the rest of the stretch may still take (`Ahead`) never exceed `Longest`, the time
  of the longest arm of the loop and the reconnects, or the start of a session, that may follow it without a
  mark: `ReconnectTime` per silent device, a reconnect that just keeps its time and then a subscribe that does not.
- *Session*. A value goes from the main loop through the request queue, the client's window and the wire to
  the broker. `Lined` says that the parts of this pipeline are in order, each and one after the other,
  through retransmission and a publish given up after its timeout; `Passed`, that what a connected client has
  still to send is no older than what the session was shown; `HealthOnce`, that the loop which may stop has given
  the health once, so that the health of the stop is newer than all that is still under way. The refinement follows step by step:
  arrivals are steps of `Retained`, everything else stutters.
- *Commands*. `Aligned` says for every place of a command which of the five copies are already of the new
  configuration; `Undisturbed`, that without a mishap the file is ahead of the document exactly between save and
  commit and holds nothing that was set by hand. In a batch, all points before the current one were taken
  (`Writes`).
- *Batcher*. `Batched` is about the layers, the depths, the messages, the readings and the time of the last layer, and
  each operation on layers keeps it: closing a key, opening a layer, splitting one and putting a reading into one, of
  which `offer`, the passes, `due` and a flush are made. `Layered`: a point is in the layers up to its depth and in no
  others, so a close that resets the depths of the points it meets resets exactly those of its key, and a layer never
  gets a point twice. `Ascend`: the layers of a frame ascend in time, and a layer a point is not in yet is later than
  all its readings, published or waiting, so the next reading is later too, whatever its own time. `Once` is
  `EachOnce` without counting; the count follows because the message a reading is in is a function of the reading.
- *Profibus*. The shared outputs are what the writes add up to, whether or not a thread runs (`OutputsTold`),
  which needs `EncodeTold`: a write of a bit, of bytes or of a raw value changes the image as the
  peripheral was told, and nothing else. `Links` says of a connected peripheral that a cycle has been made and
  that its shared inputs are those of the cycle once they were given out.
- *OpcUa*. `Owned`: a session is in hand of a call, or in `sessions`, or there is none, and the event loop is
  accordingly. `UaRecorded`: the event that has not been recorded yet is about the loop as it is, and what was
  recorded last was. `SessionsLeft`: a session the server still has beside the connector's own is one for every
  fault that kept it from being closed. `Watched`: what is watched does not wait for the retry task. `UaNumbered`:
  translations are of the numbering in force, which holds only where no server renumbers.
- *OpcUaRead*. `OneBlock`: a node is in exactly one block, in flight or to be sent, until it has an outcome, and
  in none afterwards. A block has its place by its start alone, for any size of blocks (`BlockUnique`), so a block
  sent again, answered in part or refused touches no node of another.
- *Modbus*. `Locked`: who waits for an answer holds the lock of its connection. `Counted`: request numbers are
  given once. `CleanLines`: a connection on which nothing was given up carries nothing but the request its
  holder waits for, asked or answered; this is `OneRequest` and, with `Sampling`, `OwnAnswer`. For a field
  (`Fielded`), as long as at most the last connection of a TCP device has a request given up, the older ones carry no
  write, what was looked at is what the register holds until it is written, and the merged value agrees with it
  outside the field, which is arithmetic of division for every place and width of the field.
- *Canopen*. `Placed`: a connect is on the bus opened last, a read or a write on the connector's, and what is waited
  for is the last request made. `Ascending`: each queue is in the order of the requests. `Awaited`: a bus where
  nothing was given up has at most the request that is waited for. `Ahead`: while requests were given up on the last
  bus only, the object has a value older than every write that is queued. `LastWritten`: without anything
  given up, the object has the value last confirmed, or that of the write whose answer is about to be taken.
- *Snmp*. `LinkTypes`: addresses and devices belong to each other, and attaching one device takes nothing from another.
  `Seen` says of an engine that its agent has it, or had it, and has not started less often since: it is true of every
  engine that is pinned, in the answer of a poll or in a message, so a trap that comes late cannot be ahead of the
  agent, and stays true because a replacement has an engine that was never seen. `RouteKnown` and `PollKnown` say
  whose engines these are. A message through the forwarder is tried for every device (`TryStep`), and only the one
  it is for keeps what it teaches; the others' knowledge is as it was.

Only model-checked:

- everything that needs fairness, because TLAPS does not handle `ENABLED`: `NewestReported`, `Recovers`,
  `AcquireEnds`, `Regrows`, `UpToDate`, `ReloadStops`, `GoesQuiet`, `StopEnds`, `Rescued`, `StatusRestored`,
  `PublishReturns`, `StoppedShown`;
- `Library`, `Values`, `Policies`, `Descriptor`, `Cli`, `Stdout`, `SnmpForms` and `PiForms`: what recursive
  definitions compute for every input takes induction over data, which the installed provers do not do;
- `MeasuredAll` of `Batcher` (aggregates and deadlines), and `SnmpPoll`, `PiPush`, `Pi` and `Canbus`: their
  properties are invariants of concrete instances only. Most compare the state with counts, aggregates or bits of everything that came before
  (the values a slot held, the events of an archive, the signals of a frame), where a step is again an
  induction over data.

A proof that could not be completed corrected a model: `OpcUa!CloseSession` took a session from the server that
the server had already lost, so its count could go below zero, where `NoSessionsLeft` is true for the wrong reason.
It now leaves a lost session alone.

## 5. Findings

Disagreements of the code with what its documents and comments say, quoted in `PROJECT.json`:

1. `session_held_up`, a run: the loop waits for room to subscribe while the event-loop task waits for the
   loop to take a publish.
2. Publishing a held reading discards a newer one that is settling (`NewsKept` with a policy of both
   `min_interval` and `debounce`).
3. A heartbeat reads a device while its task is reading it (`ExclusiveUse` with one device that is both polled
   and pushed).
4. An unusable file takes a connector down when it also changes the service (`Undisturbed` with
   `Kinds = {"moved", "bad"}`).
5. Reconnecting four silent devices is taken for a hang (`NoFalseAlarm` with `Stall = 12`, `MaxSlow = 4`).
6. OPC UA: a session the library opens by itself keeps the translation of the old one
   (`TranslationCurrent` with `Renumbers = TRUE`).
7. OPC UA: items that the retry task added are not counted by the check of a subscription.
8. A `set-config` of `mqtt` is answered successful, and takes effect with the next restart.
9. AVEVA PI: the first event of a point without a cursor is lost when it overflows the live buffer.
10. AVEVA PI: a digital point found later has no digital set, so its writes are refused.
11. PROFIBUS: every peripheral is connected after a cycle, whether it answers or not.
12. PROFIBUS: a raw point that starts beyond the image panics while the images are locked.
13. PROFIBUS: a write beyond the outputs is answered successful and never sent.
14. Modbus: a connection with an answer outstanding is used again when the batch had one good point.
15. Modbus: a field of several registers is written to the first one only.
16. CAN bus: a reconnect of one device detaches the receive loops of all and empties their caches.
17. CAN bus: a Motorola signal that passes out of a byte goes on in the byte before instead of the one after
    (`BytesAsInDatabase` says that these signals, and no others, are not where the database has them).
18. Descriptor: two types whose sets collide through a group are not warned of.

Observations that no document contradicts:

- *Values*: the form of a parameter ignores the point's transform, so a scaled integer is offered with the raw
  limits; a mapped write may read back as another label when an earlier case covers its value.
- *Batcher*: splitting by size may publish part of the second layer before the rest of the first; the time of the
  last layer is forgotten when the table is rebuilt.
- *Command line*: a read that loses its link drops the samples that came with the error, and a single read then
  skips the remaining devices; `--count 0` succeeds without reading.
- *SNMP*: duplicate hosts are compared as they are written; a late trap can teach the old engine again until
  the next poll.
- *AVEVA PI*: edits of the archive older than the cursor are not delivered; samples handed to the runtime and
  lost in a crash after the cursor was written are not replayed; an aborted task may deliver once more.
- *PROFIBUS*: a reconnect zeroes the outputs of the whole bus; a value wider than its field is cut and answered
  successful.
- *Modbus*: a write given up on an old connection may be applied after a newer one; a connect that fails leaves
  the old connection in the map.
- *CAN bus*: a receive error ends the loop until the device is subscribed again; integer writes are cut to the
  width of the signal; two writes to one message revert each other until the frame is received.
- *CANopen*: a download that was given up is executed later; an unknown point fails the whole read.
- *Management*: a command writes the document it holds over a file that was edited since the last reload.

### Where the properties end

The instances of the passing runs are chosen where the code keeps its promises. Beyond them it does
not, and the same specifications show it when a constant is changed:

| Change | Property | What happens |
|---|---|---|
| `ReportLive.cfg`: `Resets = TRUE` | `HeldKept` | a write or a reconnect discards a held change |
| `ReportLive.cfg`: `Replays = TRUE` | `RateLimited` | the next live reading after a replay that published nothing passes the rate limit |
| `Runtime.cfg`: a device both `Polled` and `Pushed` | `SubscribeRetried` | a healthy poll cancels the retry of a failed subscribe; the points stay polled |
| `Runtime.cfg`: `HasCheck` and `HasReconnect` `FALSE` (CAN bus) | `OneDelivery` | a push-only module is connected again on every backoff and collects deliveries |
| `RuntimeRecovers.cfg`: `HasReader = TRUE` | `Recovers` | a device that is always being read is never recovered for push |
| `RuntimeRecovers.cfg`: `HasReader = TRUE`, no `Pushed` | `Recovers` | a device whose points come due only when its backoff has just ended is reconnected in every pass and never read |
| `Service.cfg`: `EarlyWrites = TRUE` | `UpToDate` | a file written between its read and the first baseline is not noticed |
| `Service.cfg`: two configs, one of them `Named` | `UpToDate` | a named config that is missing ends every reload before it is applied |
| `Connectors.cfg`: `Renumbers = TRUE` | `TranslationCurrent` | finding 6 |
| `Service.cfg`: `MayOverstay = TRUE` | `NoOverlap` | a reload starts a successor while the cancelled attempt is still there |

One more is outside what the properties say. `ReloadStops` is about a reload that happens: a file
created, applied by SIGHUP or by a reload that was already running, and removed again leaves the
snapshot as the baseline has it, and its connector runs on until the next reload.

## 6. Plan

Done: the modules of section 2, with the proofs of section 4. Next, in order:

1. The link and push recovery part of `Runtime` shown to implement an abstract link that follows the
   device's condition; a converse of `SlowIsNotHung` (below `Longest` there is a false alarm) for all instances.
2. Inductive invariants, beside the proofs that exist, for `NothingForgotten` of `Batcher` and
   `NoGap` of `PiPush`.
3. Larger instances where the composition could hide something: two devices of one bus in `Profibus`, two
   points in `PiPush`, a second connector that shares the budgets.
4. The stateful flows (alarms, command forwarding), and the C runtime where it differs.

### Not modelled

- OPC UA certificates, keys and their command line; parsing of TOML, JSON and arguments; logging, wording and
  layout: I/O and formatting, in which the properties above have no part.
- OPC UA structures and browsing, floating-point values, frames of the PROFIBUS library, HTTP below the errors
  the PI client tells apart: data the properties do not tell apart, or code of libraries.
- The bench connector, the bench tool and the conformance tool: test equipment.
- The C implementation: the Rust one is the reference.
- Flows other than the keys of `ot-parameter-state`: they run in thin-edge, outside the process.
