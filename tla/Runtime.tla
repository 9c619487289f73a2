------------------------------- MODULE Runtime -------------------------------
(***************************************************************************)
(* The main loop of a connector (sdk/src/runtime.rs, run_until_reloadable):*)
(* one task that polls devices, watches push delivery, reconnects failed   *)
(* devices on a backoff schedule, serves commands and applies new          *)
(* configurations, while the reads it started run in tasks of their own.   *)
(*                                                                         *)
(* The loop is at a select!, or at an await inside one of its arms: `at'   *)
(* names the place, `todo' the devices the place has still to visit and    *)
(* `call' the device whose protocol call is awaited there.  Between two    *)
(* steps of the loop the reader tasks finish, timers run out, devices fail *)
(* and recover, and requests arrive.                                       *)
(*                                                                         *)
(* A device has polled points, push-capable points or both; the points of  *)
(* one class share their fate, as subscribe_device treats them.  Samples   *)
(* and the reporting policy are in ReportState, request budgets in         *)
(* Budgets.                                                                *)
(***************************************************************************)
EXTENDS Integers, Sequences

CONSTANTS
    Device,       \* device names
    NoDevice,     \* no protocol call is awaited
    Configs,      \* the sets of devices a configuration may define
    Polled,       \* devices with points that are only polled
    Pushed,       \* devices with points the module delivers by push
    PushOnly,     \* those of Pushed whose pushed points cannot be polled
    HasReader,    \* the module hands out readers (Connector::reader)
    HasReconnect, \* the module reconnects a single device
    HasCheck,     \* the module implements check_subscription
    Heartbeats,   \* some pushed point has a heartbeat (report.max_interval)
    Stops,        \* whether the connector may be asked to stop
    MaxFaults,    \* bound: changes of the devices' condition
    MaxRequests   \* bound: commands and reloads

ASSUME DeviceAssumption == NoDevice \notin Device
ASSUME ConfigsAssumption == Configs \subseteq SUBSET Device
ASSUME PointsAssumption ==
    /\ Polled \subseteq Device
    /\ Pushed \subseteq Device
    /\ PushOnly \subseteq Pushed
ASSUME ModuleAssumption ==
    /\ HasReader \in BOOLEAN
    /\ HasReconnect \in BOOLEAN
    /\ HasCheck \in BOOLEAN
    /\ Heartbeats \in BOOLEAN
    /\ Stops \in BOOLEAN
ASSUME BoundsAssumption == MaxFaults \in Nat /\ MaxRequests \in Nat

VARIABLES
    at, todo, call,  \* where the loop is
    after,           \* where it goes once the reads in flight are drained
    config,          \* the devices of the running configuration
    reading,         \* devices with a read in flight, as the loop knows them
    task,            \* the reader task of each device, and its result
    subscribed,      \* devices whose push points are delivered by push
    schedule,        \* the classes of points on the polling schedule
    poll_due,        \* devices with points due to be polled
    links,           \* LinkTracker::states
    reconnects,      \* the reconnect schedule
    push_recovery,   \* the reconnect schedule of dead push delivery
    condition,       \* environment: the condition of each device
    session,         \* module: whether a device's connection is open
    loops,           \* module: the push deliveries running for a device
    owed,            \* history: devices whose last subscribe failed
    reload,          \* a reload was requested (Notify permit)
    inbox,           \* command requests received
    faults, requests \* the bounds' counters

place == <<at, todo, call, after>>
link_state == <<links, reconnects, push_recovery>>
delivery == <<subscribed, schedule, poll_due, owed>>
module == <<condition, session, loops>>
inputs == <<reload, inbox, faults, requests>>
vars == <<place, config, reading, task, delivery, link_state, module, inputs>>

-----------------------------------------------------------------------------
(* Devices.                                                                *)

\* ok: all works.  nosub: reads work, push is refused.  app: the transport
\* works, every read fails.  down: the transport is down.
Conditions == {"ok", "nosub", "app", "down"}

Readable == {"ok", "nosub"}

\* The points of d on the schedule that a read can return.
CanRead(d) == "polled" \in schedule[d] \/ ("pushed" \in schedule[d] /\ d \notin PushOnly)

\* What a read of d returns: a sample that is not bad, nothing but failures, or
\* no sample at all (a module that drops points it can only push).
ReadResults(d) ==
    CASE ~CanRead(d) -> {"none", "failed"}
      [] CanRead(d) /\ session[d] /\ condition[d] \in Readable -> {"good"}
      [] OTHER -> {"failed"}

\* A heartbeat reads pushed points on demand.
HeartbeatResults(d) ==
    CASE d \in PushOnly -> {"none"}
      [] d \notin PushOnly /\ session[d] /\ condition[d] \in Readable -> {"good"}
      [] OTHER -> {"failed", "bad"}

\* Deliveries are counted as none, one or several (2).
OneMore(n) == IF n = 0 THEN 1 ELSE 2

SubscribeSucceeds(d) == session[d] /\ condition[d] = "ok"

-----------------------------------------------------------------------------
(* Pure helpers of the loop.                                               *)

\* build_schedule: what is not delivered by push is polled.
BuildSchedule(devices, pushed) ==
    [d \in Device |->
        {c \in {"polled", "pushed"} :
            /\ d \in devices
            /\ c = "polled" => d \in Polled
            /\ c = "pushed" => d \in Pushed /\ d \notin pushed}]

\* Every entry of a new schedule is due at once.
AllDue(s) == {d \in Device : s[d] # {}}

\* next_link_state with the state kept when there is nothing to publish.
NextLinkState(current, healthy) ==
    IF healthy THEN "connected"
    ELSE IF current = "connected" THEN "degraded" ELSE current

NotePoll(d, healthy) == links' = [links EXCEPT ![d] = NextLinkState(@, healthy)]

\* entry(d).or_insert_with(ReconnectEntry::new).
OrInsert(entry) == IF entry = "none" THEN "waiting" ELSE entry

\* ReconnectEntry::re_arm, when there is an entry.
ReArm(entry) == IF entry = "none" THEN "none" ELSE "waiting"

\* on_poll_result: the link and the reconnect schedule follow the read.
OnPollResult(d, result) ==
    \/ /\ result = "none"
       /\ UNCHANGED <<links, reconnects>>
    \/ /\ result = "good"
       /\ NotePoll(d, TRUE)
       /\ reconnects' = [reconnects EXCEPT ![d] = "none"]
    \/ /\ result = "failed"
       /\ NotePoll(d, FALSE)
       /\ reconnects' = [reconnects EXCEPT ![d] = OrInsert(@)]

-----------------------------------------------------------------------------
(* Start: connect to every device, then set up push delivery.              *)

Init ==
    /\ config \in Configs
    /\ at = "connect" /\ todo = {} /\ call = NoDevice /\ after = "select"
    /\ reading = {}
    /\ task = [d \in Device |-> "none"]
    /\ subscribed = {}
    /\ schedule = [d \in Device |-> {}]
    /\ poll_due = {}
    /\ links = [d \in Device |-> "none"]
    /\ reconnects = [d \in Device |-> "none"]
    /\ push_recovery = [d \in Device |-> "none"]
    /\ condition \in [Device -> Conditions]
    /\ session = [d \in Device |-> FALSE]
    /\ loops = [d \in Device |-> 0]
    /\ owed = {}
    /\ reload = FALSE
    /\ inbox = << >>
    /\ faults = 0
    /\ requests = 0

\* connect() reports each device of the configuration.
ConnectAll ==
    /\ at = "connect"
    /\ session' = [d \in Device |-> d \in config /\ condition[d] # "down"]
    /\ links' = [d \in Device |->
                    IF d \notin config THEN links[d]
                    ELSE IF condition[d] # "down" THEN "connected"
                    ELSE "disconnected"]
    /\ at' = "setup"
    /\ UNCHANGED <<todo, call, after, config, reading, task, delivery, reconnects,
                   push_recovery, condition, loops, inputs>>

\* connect() fails or times out as a whole: the recorded links stay.
ConnectFails ==
    /\ at = "connect"
    /\ at' = "setup"
    /\ UNCHANGED <<todo, call, after, config, reading, task, delivery, link_state,
                   module, inputs>>

\* Mutant: a failed subscribe is not put on the reconnect schedule.
Setup_ForgetsFailed ==
    LET armed == {d \in config \intersect Pushed : SubscribeSucceeds(d)}
        planned == BuildSchedule(config, armed)
    IN  /\ at = "setup"
        /\ subscribed' = armed
        /\ loops' = [d \in Device |-> IF d \in armed THEN OneMore(loops[d]) ELSE loops[d]]
        /\ schedule' = planned
        /\ poll_due' = AllDue(planned)
        /\ reconnects' = [d \in Device |-> "none"]
        /\ push_recovery' = [d \in Device |-> "none"]
        /\ owed' = (config \intersect Pushed) \ armed
        /\ at' = "select"
        /\ UNCHANGED <<todo, call, after, config, reading, task, links, condition,
                       session, inputs>>

\* setup_subscriptions, and everything else derived from the configuration.
Setup ==
    LET armed == {d \in config \intersect Pushed : SubscribeSucceeds(d)}
        failed == (config \intersect Pushed) \ armed
        planned == BuildSchedule(config, armed)
    IN  /\ at = "setup"
        /\ subscribed' = armed
        /\ loops' = [d \in Device |-> IF d \in armed THEN OneMore(loops[d]) ELSE loops[d]]
        /\ schedule' = planned
        /\ poll_due' = AllDue(planned)
        /\ reconnects' = [d \in Device |-> IF d \in failed THEN "waiting" ELSE "none"]
        /\ push_recovery' = [d \in Device |-> "none"]
        /\ owed' = failed
        /\ at' = "select"
        /\ UNCHANGED <<todo, call, after, config, reading, task, links, condition,
                       session, inputs>>

-----------------------------------------------------------------------------
(* The tick: reads.                                                        *)

Tick ==
    LET due == {d \in config \ reading : d \in poll_due /\ schedule[d] # {}} IN
    /\ at = "select"
    /\ at' = "read"
    /\ todo' = due
    /\ poll_due' = poll_due \ due
    /\ UNCHANGED <<call, after, config, reading, task, subscribed, schedule, owed,
                   link_state, module, inputs>>

\* The reader is handed out only while the device is connected.
ReaderOf(d) == HasReader /\ session[d]

\* A device due to be reconnected is not read first.
SkipRead(d) ==
    /\ at = "read" /\ call = NoDevice /\ d \in todo
    /\ ReaderOf(d) /\ reconnects[d] = "due"
    /\ todo' = todo \ {d}
    /\ UNCHANGED <<at, call, after, config, reading, task, delivery, link_state,
                   module, inputs>>

SpawnRead(d) ==
    /\ at = "read" /\ call = NoDevice /\ d \in todo
    /\ ReaderOf(d) /\ reconnects[d] # "due"
    /\ todo' = todo \ {d}
    /\ reading' = reading \union {d}
    /\ task' = [task EXCEPT ![d] = "running"]
    /\ UNCHANGED <<at, call, after, config, delivery, link_state, module, inputs>>

BeginInlineRead(d) ==
    /\ at = "read" /\ call = NoDevice /\ d \in todo
    /\ ~ReaderOf(d)
    /\ call' = d
    /\ UNCHANGED <<at, todo, after, config, reading, task, delivery, link_state,
                   module, inputs>>

EndInlineRead ==
    /\ at = "read" /\ call # NoDevice
    /\ \E result \in ReadResults(call) : OnPollResult(call, result)
    /\ todo' = todo \ {call}
    /\ call' = NoDevice
    /\ UNCHANGED <<at, after, config, reading, task, delivery, push_recovery,
                   module, inputs>>

EndReads ==
    /\ at = "read" /\ call = NoDevice /\ todo = {}
    /\ at' = "check"
    /\ todo' = subscribed
    /\ UNCHANGED <<call, after, config, reading, task, delivery, link_state,
                   module, inputs>>

-----------------------------------------------------------------------------
(* The tick: push delivery and heartbeats.                                 *)

\* push_action: a push-only device's link is judged by the check, a device with
\* polled points has its dead delivery recovered on a schedule of its own.
CheckSubscription(d) ==
    LET live == session[d] /\ loops[d] > 0
        polled == schedule[d] # {}
    IN  /\ at = "check" /\ d \in todo
        /\ todo' = todo \ {d}
        /\ \/ /\ ~HasCheck
              /\ UNCHANGED link_state
           \/ /\ HasCheck /\ ~polled
              /\ NotePoll(d, live)
              /\ reconnects' = [reconnects EXCEPT ![d] = IF live THEN "none" ELSE OrInsert(@)]
              /\ UNCHANGED push_recovery
           \/ /\ HasCheck /\ polled
              /\ push_recovery' = [push_recovery EXCEPT
                                       ![d] = IF live THEN "none" ELSE OrInsert(@)]
              /\ UNCHANGED <<links, reconnects>>
        /\ UNCHANGED <<at, call, after, config, reading, task, delivery, module, inputs>>

\* Mutant: push recovery outlives the device's pushed points.
EndChecks_KeepsRecovery ==
    /\ at = "check" /\ todo = {}
    /\ at' = "heartbeat"
    /\ todo' \in (IF Heartbeats THEN SUBSET subscribed ELSE {{}})
    /\ UNCHANGED <<call, after, config, reading, task, delivery, link_state,
                   module, inputs>>

\* retain_pushed, then the heartbeat reads that are due.
EndChecks ==
    /\ at = "check" /\ todo = {}
    /\ push_recovery' = [d \in Device |-> IF d \in subscribed THEN push_recovery[d]
                                          ELSE "none"]
    /\ at' = "heartbeat"
    /\ todo' \in (IF Heartbeats THEN SUBSET subscribed ELSE {{}})
    /\ UNCHANGED <<call, after, config, reading, task, delivery, links, reconnects,
                   module, inputs>>

BeginHeartbeat(d) ==
    /\ at = "heartbeat" /\ call = NoDevice /\ d \in todo
    /\ call' = d
    /\ UNCHANGED <<at, todo, after, config, reading, task, delivery, link_state,
                   module, inputs>>

\* A failed call counts like a failed poll, bad samples do not; a good one makes
\* the link connected and leaves the reconnect schedule alone.
EndHeartbeat ==
    /\ at = "heartbeat" /\ call # NoDevice
    /\ \E result \in HeartbeatResults(call) :
          \/ /\ result = "failed"
             /\ OnPollResult(call, result)
          \/ /\ result = "good"
             /\ NotePoll(call, TRUE)
             /\ UNCHANGED reconnects
          \/ /\ result \in {"bad", "none"}
             /\ UNCHANGED <<links, reconnects>>
    /\ todo' = todo \ {call}
    /\ call' = NoDevice
    /\ UNCHANGED <<at, after, config, reading, task, delivery, push_recovery,
                   module, inputs>>

-----------------------------------------------------------------------------
(* The tick: reconnects.                                                   *)

\* Mutant: a device is reconnected under its read.
ReconnectDue_WhileRead(d) == reconnects[d] = "due" \/ push_recovery[d] = "due"

ReconnectDue(d) ==
    /\ reconnects[d] = "due" \/ push_recovery[d] = "due"
    /\ d \notin reading

EndHeartbeats ==
    /\ at = "heartbeat" /\ call = NoDevice /\ todo = {}
    /\ at' = "reconnect"
    /\ todo' = {d \in Device : ReconnectDue(d)}
    /\ UNCHANGED <<call, after, config, reading, task, delivery, link_state,
                   module, inputs>>

BeginReconnect(d) ==
    /\ at = "reconnect" /\ call = NoDevice /\ d \in todo
    /\ call' = d
    /\ UNCHANGED <<at, todo, after, config, reading, task, delivery, link_state,
                   module, inputs>>

\* Both schedules of the device back off, whatever the attempt did.
BackOff(d) ==
    /\ reconnects' = [reconnects EXCEPT ![d] = ReArm(@)]
    /\ push_recovery' = [push_recovery EXCEPT ![d] = ReArm(@)]

\* The devices a reconnect of d re-establishes: d, or every device when the
\* module can only connect() as a whole.
Reestablished(d) == IF HasReconnect THEN {d} ELSE config

AfterTransport ==
    \/ /\ call \in Pushed
       /\ at' = "resubscribe"
       /\ UNCHANGED <<todo, call, poll_due>>
    \/ /\ call \notin Pushed
       /\ todo' = todo \ {call}
       /\ call' = NoDevice
       /\ poll_due' = IF Pushed = {} THEN poll_due ELSE AllDue(schedule)
       /\ UNCHANGED at

\* The transport is back: not published, the next healthy read will.  A new
\* session ends the push deliveries of the old one; a connect() as a whole opens
\* new state beside them.  A device with no push points only has its schedule
\* rebuilt, and that only by a module that can subscribe at all.
ReconnectRestores ==
    /\ at = "reconnect" /\ call # NoDevice
    /\ condition[call] # "down"
    /\ session' = [d \in Device |-> IF d \in Reestablished(call)
                                    THEN condition[d] # "down" ELSE session[d]]
    /\ loops' = IF HasReconnect THEN [loops EXCEPT ![call] = 0] ELSE loops
    /\ links' = [d \in Device |->
                    IF d \in Reestablished(call) /\ condition[d] = "down"
                    THEN "disconnected" ELSE links[d]]
    /\ BackOff(call)
    /\ AfterTransport
    /\ UNCHANGED <<after, config, reading, task, subscribed, schedule, owed, condition,
                   inputs>>

\* The attempt fails cleanly, and the device is reported disconnected once.
ReconnectRefused ==
    /\ at = "reconnect" /\ call # NoDevice
    /\ condition[call] = "down"
    /\ links' = [links EXCEPT ![call] = "disconnected"]
    /\ BackOff(call)
    /\ todo' = todo \ {call}
    /\ call' = NoDevice
    /\ UNCHANGED <<at, after, config, reading, task, delivery, module, inputs>>

\* The attempt fails as a call (an error, or the operation timeout).
ReconnectFails ==
    /\ at = "reconnect" /\ call # NoDevice
    /\ condition[call] = "down"
    /\ BackOff(call)
    /\ todo' = todo \ {call}
    /\ call' = NoDevice
    /\ UNCHANGED <<at, after, config, reading, task, delivery, links, module, inputs>>

\* Mutant: the schedule is not rebuilt after a device is subscribed again.
Resubscribe_KeepsSchedule ==
    LET d == call
        armed == SubscribeSucceeds(d)
    IN  /\ at = "resubscribe"
        /\ subscribed' = IF armed THEN subscribed \union {d} ELSE subscribed \ {d}
        /\ loops' = IF armed THEN [loops EXCEPT ![d] = OneMore(@)] ELSE loops
        /\ owed' = IF armed THEN owed \ {d} ELSE owed \union {d}
        /\ reconnects' = IF armed THEN reconnects
                         ELSE [reconnects EXCEPT ![d] = OrInsert(@)]
        /\ todo' = todo \ {d}
        /\ call' = NoDevice
        /\ at' = "reconnect"
        /\ UNCHANGED <<after, config, reading, task, links, push_recovery, condition,
                       session, schedule, poll_due, inputs>>

\* subscribe_device on the new transport, and the schedule that follows from it.
Resubscribe ==
    LET d == call
        armed == SubscribeSucceeds(d)
        pushed == IF armed THEN subscribed \union {d} ELSE subscribed \ {d}
        planned == BuildSchedule(config, pushed)
    IN  /\ at = "resubscribe"
        /\ subscribed' = pushed
        /\ loops' = IF armed THEN [loops EXCEPT ![d] = OneMore(@)] ELSE loops
        /\ owed' = IF armed THEN owed \ {d} ELSE owed \union {d}
        /\ reconnects' = IF armed THEN reconnects
                         ELSE [reconnects EXCEPT ![d] = OrInsert(@)]
        /\ schedule' = planned
        /\ poll_due' = AllDue(planned)
        /\ todo' = todo \ {d}
        /\ call' = NoDevice
        /\ at' = "reconnect"
        /\ UNCHANGED <<after, config, reading, task, links, push_recovery, condition,
                       session, inputs>>

EndReconnects ==
    /\ at = "reconnect" /\ call = NoDevice /\ todo = {}
    /\ at' = "select"
    /\ UNCHANGED <<todo, call, after, config, reading, task, delivery, link_state,
                   module, inputs>>

-----------------------------------------------------------------------------
(* The other arms of the select!.                                          *)

\* A result taken from read_rx: in the select!, or while draining.
TakeResult(d) ==
    /\ task[d] \in {"good", "failed", "none_read"}
    /\ task' = [task EXCEPT ![d] = "none"]
    /\ reading' = reading \ {d}
    /\ OnPollResult(d, IF task[d] = "none_read" THEN "none" ELSE task[d])

ReadResult(d) ==
    /\ at = "select"
    /\ TakeResult(d)
    /\ UNCHANGED <<place, config, delivery, push_recovery, module, inputs>>

\* drain_reads!: wait for every read in flight.
DrainResult(d) ==
    /\ at = "drain" /\ reading # {}
    /\ TakeResult(d)
    /\ UNCHANGED <<place, config, delivery, push_recovery, module, inputs>>

EndDrain ==
    /\ at = "drain" /\ reading = {}
    /\ at' = after
    /\ UNCHANGED <<todo, call, after, config, reading, task, delivery, link_state,
                   module, inputs>>

\* Mutant: a reload does not wait for the reads in flight.
ReloadArm_NoDrain ==
    /\ at = "select" /\ reload
    /\ reload' = FALSE
    /\ at' = "reload"
    /\ UNCHANGED <<todo, call, after, config, reading, task, delivery, link_state, module,
                   inbox, faults, requests>>

ReloadArm ==
    /\ at = "select" /\ reload
    /\ reload' = FALSE
    /\ at' = "drain" /\ after' = "reload"
    /\ UNCHANGED <<todo, call, config, reading, task, delivery, link_state, module,
                   inbox, faults, requests>>

\* Mutant: a command does not wait for the reads in flight.
CommandArm_NoDrain ==
    /\ at = "select" /\ inbox # << >>
    /\ LET request == Head(inbox) IN
       /\ at' = IF request.verb = "manage" THEN "manage"
                ELSE IF request.device \in config THEN "write" ELSE "select"
       /\ todo' = IF at' = "write" THEN {request.device} ELSE {}
    /\ inbox' = Tail(inbox)
    /\ UNCHANGED <<call, after, config, reading, task, delivery, link_state, module,
                   reload, faults, requests>>

\* A command for a device this instance does not own is left unanswered.
CommandArm ==
    /\ at = "select" /\ inbox # << >>
    /\ LET request == Head(inbox) IN
       /\ after' = IF request.verb = "manage" THEN "manage"
                   ELSE IF request.device \in config THEN "write" ELSE "select"
       /\ todo' = IF after' = "write" THEN {request.device} ELSE {}
    /\ inbox' = Tail(inbox)
    /\ at' = "drain"
    /\ UNCHANGED <<call, config, reading, task, delivery, link_state, module,
                   reload, faults, requests>>

BeginWrite(d) ==
    /\ at = "write" /\ call = NoDevice /\ d \in todo
    /\ call' = d
    /\ UNCHANGED <<at, todo, after, config, reading, task, delivery, link_state,
                   module, inputs>>

\* Written or failed, the result is published and the loop goes on.
EndWrite ==
    /\ at = "write" /\ call # NoDevice
    /\ at' = "select" /\ todo' = {} /\ call' = NoDevice
    /\ UNCHANGED <<after, config, reading, task, delivery, link_state, module, inputs>>

\* The candidate or the file cannot be used, or changes nothing.
KeepConfig ==
    /\ at \in {"manage", "reload"}
    /\ at' = "select"
    /\ UNCHANGED <<todo, call, after, config, reading, task, delivery, link_state,
                   module, inputs>>

\* Mutant: the devices of the old configuration are not disconnected.
CommitConfig_NoDisconnect(new) ==
    /\ at \in {"manage", "reload"}
    /\ config' = new
    /\ at' = "connect"
    /\ UNCHANGED <<todo, call, after, reading, task, delivery, link_state, module, inputs>>

\* commit_config: every device is disconnected and connected again.
CommitConfig(new) ==
    /\ at \in {"manage", "reload"}
    /\ config' = new
    /\ session' = [d \in Device |-> FALSE]
    /\ loops' = [d \in Device |-> 0]
    /\ at' = "connect"
    /\ UNCHANGED <<todo, call, after, reading, task, delivery, link_state, condition,
                   inputs>>

\* A stop, or a reload that needs the connector restarted.
StopArm ==
    /\ \/ at = "select" /\ Stops
       \/ at = "reload" /\ Stops
    /\ at' = "drain" /\ after' = "stopped"
    /\ UNCHANGED <<todo, call, config, reading, task, delivery, link_state, module,
                   inputs>>

Stopped ==
    /\ at = "stopped"
    /\ UNCHANGED vars

-----------------------------------------------------------------------------
(* Around the loop.                                                        *)

\* A reader task finishes and sends its result.
FinishRead(d) ==
    /\ task[d] = "running"
    /\ \E result \in ReadResults(d) :
          task' = [task EXCEPT ![d] = IF result = "none" THEN "none_read" ELSE result]
    /\ UNCHANGED <<place, config, reading, delivery, link_state, module, inputs>>

\* A point comes due; the loop looks only at the next tick.
PollDue(d) ==
    /\ at = "select" /\ schedule[d] # {} /\ d \notin poll_due
    /\ poll_due' = poll_due \union {d}
    /\ UNCHANGED <<place, config, reading, task, subscribed, schedule, owed,
                   link_state, module, inputs>>

\* The delay of a reconnect entry, a second at least, passes only while the loop
\* waits: at the select!, for its reads, or for a protocol call; the delay set by an
\* attempt outlasts the subscribe that follows it (it grows past operation_timeout).
BackoffEnds(d) ==
    /\ at \in {"select", "drain"} \/ call # NoDevice
    /\ ~(at = "resubscribe" /\ call = d)
    /\ \/ /\ reconnects[d] = "waiting"
          /\ reconnects' = [reconnects EXCEPT ![d] = "due"]
          /\ UNCHANGED push_recovery
       \/ /\ push_recovery[d] = "waiting"
          /\ push_recovery' = [push_recovery EXCEPT ![d] = "due"]
          /\ UNCHANGED reconnects
    /\ UNCHANGED <<place, config, reading, task, delivery, links, module, inputs>>

\* A device's condition changes, or its session is dropped under it.
Fault(d, c) ==
    /\ faults < MaxFaults
    /\ faults' = faults + 1
    /\ condition' = [condition EXCEPT ![d] = c]
    /\ \/ /\ c = condition[d] \/ c = "down"
          /\ session' = [session EXCEPT ![d] = FALSE]
          /\ loops' = [loops EXCEPT ![d] = 0]
       \/ /\ c # condition[d] /\ c = "nosub"
          /\ loops' = [loops EXCEPT ![d] = 0]
          /\ UNCHANGED session
       \/ /\ c # condition[d] /\ c \in {"ok", "app"}
          /\ UNCHANGED <<session, loops>>
    /\ UNCHANGED <<place, config, reading, task, delivery, link_state, reload, inbox,
                   requests>>

Request ==
    /\ requests < MaxRequests
    /\ requests' = requests + 1
    /\ \/ /\ reload' = TRUE
          /\ UNCHANGED inbox
       \/ /\ \E request \in {[verb |-> "manage", device |-> NoDevice]} \union
                            [verb : {"write"}, device : Device] :
                inbox' = Append(inbox, request)
          /\ UNCHANGED reload
    /\ UNCHANGED <<place, config, reading, task, delivery, link_state, module, faults>>

Loop ==
    \/ ConnectAll \/ ConnectFails \/ Setup
    \/ Tick
    \/ \E d \in Device : SkipRead(d) \/ SpawnRead(d) \/ BeginInlineRead(d)
    \/ EndInlineRead \/ EndReads
    \/ \E d \in Device : CheckSubscription(d)
    \/ EndChecks
    \/ \E d \in Device : BeginHeartbeat(d)
    \/ EndHeartbeat \/ EndHeartbeats
    \/ \E d \in Device : BeginReconnect(d)
    \/ ReconnectRestores \/ ReconnectRefused \/ ReconnectFails \/ Resubscribe
    \/ EndReconnects
    \/ \E d \in Device : ReadResult(d) \/ DrainResult(d)
    \/ EndDrain \/ ReloadArm \/ CommandArm
    \/ \E d \in Device : BeginWrite(d)
    \/ EndWrite \/ KeepConfig
    \/ \E new \in Configs : CommitConfig(new)
    \/ StopArm

Environment ==
    \E d \in Device :
        \/ FinishRead(d) \/ PollDue(d) \/ BackoffEnds(d)
        \/ \E c \in Conditions : Fault(d, c)

Next == Loop \/ Environment \/ Request \/ Stopped

Spec == Init /\ [][Next]_vars

\* The loop never waits for ever at an await (every protocol call is bounded by
\* operation_timeout), reads end, timers run out, and the select!, which polls
\* its arms in random order, does not pass over a ready result for ever.
Fairness ==
    /\ WF_vars(Loop)
    /\ SF_vars(Tick)
    /\ \A d \in Device :
          /\ WF_vars(FinishRead(d))
          /\ SF_vars(PollDue(d))
          /\ SF_vars(BackoffEnds(d))
          /\ SF_vars(ReadResult(d))

FairSpec == Spec /\ Fairness
-----------------------------------------------------------------------------
(* Properties.                                                             *)

Places == {"connect", "setup", "select", "read", "check", "heartbeat", "reconnect",
           "resubscribe", "drain", "write", "manage", "reload", "stopped"}
Entries == {"none", "waiting", "due"}
Requests == [verb : {"write"}, device : Device]
            \union [verb : {"manage"}, device : {NoDevice}]

\* The state of run_until_reloadable is well formed: what the loop visits and
\* awaits are devices, and only a device on the schedule has points due.
TypeOK ==
    /\ at \in Places
    /\ todo \subseteq Device
    /\ call \in Device \union {NoDevice}
    /\ after \in {"select", "reload", "manage", "write", "stopped"}
    /\ config \in Configs
    /\ reading \subseteq Device
    /\ task \in [Device -> {"none", "running", "good", "failed", "none_read"}]
    /\ subscribed \subseteq Device
    /\ schedule \in [Device -> SUBSET {"polled", "pushed"}]
    /\ poll_due \subseteq AllDue(schedule)
    /\ links \in [Device -> {"none", "connected", "degraded", "disconnected"}]
    /\ reconnects \in [Device -> Entries]
    /\ push_recovery \in [Device -> Entries]
    /\ condition \in [Device -> Conditions]
    /\ session \in [Device -> BOOLEAN]
    /\ loops \in [Device -> 0..2]
    /\ owed \subseteq Device
    /\ reload \in BOOLEAN
    /\ inbox \in Seq(Requests)
    /\ faults \in 0..MaxFaults
    /\ requests \in 0..MaxRequests

\* The device indexes kept across awaits stay valid: the reads the loop believes
\* in flight are exactly the reader tasks whose result it has not taken, and they
\* and the pushed points are of the configuration now running, so the indexing
\* of config.devices in the read_rx arm, in drain_reads! and in the checks of
\* push delivery never picks another device or panics.
IndexesCurrent ==
    /\ reading = {d \in Device : task[d] # "none"}
    /\ reading \subseteq config
    /\ at \notin {"connect", "setup"} => subscribed \subseteq config

\* drain_reads!: no reader task is running while a command is executed, a
\* configuration is replaced, devices are connected, or the loop has ended.
Quiesced ==
    at \in {"write", "manage", "reload", "connect", "setup", "stopped"} =>
        \A d \in Device : task[d] = "none"

\* Contract 5.6: a device never has more than one read in flight, and its writes
\* and reconnects wait for the one in flight.
ExclusiveUse == call # NoDevice => task[call] # "running"

\* Every point of the running configuration that is not delivered by push is on
\* the polling schedule, and no other point is, whenever the select! or a tick
\* can act on it: no failed or repeated subscribe leaves a point on neither.
DeliveryPath ==
    at \notin {"connect", "setup"} => schedule = BuildSchedule(config, subscribed)

\* A device whose last subscribe failed stays on the reconnect schedule until a
\* subscribe succeeds (the subscribe_failed loop and the re-subscribe after a
\* reconnect).
SubscribeRetried ==
    at = "select" => \A d \in owed \intersect config : reconnects[d] # "none"

\* Push delivery of a device is never running twice (subscribe_device: items
\* still live must not be created twice).
OneDelivery == \A d \in Device : loops[d] <= 1

\* Push delivery through failed subscribes and reconnects: a device has at most one
\* delivery running, and one whose subscribe failed stays scheduled until it succeeds
\* (subscribe_device, setup_subscriptions, reconnect).
PushKept == OneDelivery /\ SubscribeRetried

\* The device answers, and grants push or has points that can be polled instead.
Well(d) == d \in config /\ (condition[d] = "ok" \/ (condition[d] = "nosub" /\ d \notin PushOnly))

\* All points of d are delivered, its link says so and nothing retries.
Delivered(d) ==
    /\ session[d] /\ links[d] = "connected"
    /\ reconnects[d] = "none" /\ push_recovery[d] = "none"
    /\ d \in Pushed => \/ d \in subscribed /\ loops[d] > 0
                       \/ "pushed" \in schedule[d] /\ d \notin PushOnly

\* A device that stays well ends up connected with all its points delivered and
\* no reconnect pending, whatever failed before: a lost session, a dead
\* subscription, a failed connect(), a new configuration.
Recovers == \A d \in Device : <>[]Well(d) => <>[]Delivered(d)
=============================================================================
