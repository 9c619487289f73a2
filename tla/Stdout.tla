-------------------------------- MODULE Stdout --------------------------------
(***************************************************************************)
(* The loop of a connector that prints its samples (sdk/src/runtime.rs,    *)
(* run_stdout_until): no broker, no commands, no reader tasks; every call  *)
(* of the protocol module is awaited in place.  It has no link status: the *)
(* reconnect schedules are all it knows of a device.  The samples and the  *)
(* reporting policies, which a reconnect resets, are in ReportState.       *)
(*                                                                         *)
(* As in Runtime, a device has polled points, push-capable points or both, *)
(* and `at' is the part of the tick the loop is in, `todo' the devices it  *)
(* has still to visit there.                                               *)
(***************************************************************************)
EXTENDS Naturals

CONSTANTS
    Device, Polled, Pushed,
    PushOnly,      \* those of Pushed whose pushed points cannot be polled
    HasReconnect,  \* the module reconnects a single device
    MaxFaults      \* bound: changes of the devices' condition

VARIABLES
    at, todo,
    subscribed,    \* devices whose pushed points are delivered by push
    schedule,      \* the classes of each device's points on the polling schedule
    poll_due,      \* devices with points due
    reconnects, push_recovery,
    condition,     \* environment: the condition of each device
    session,       \* module: whether its connection is open
    delivery,      \* module: whether its push delivery is running
    looked_at,     \* history: devices that are as they were when the tick last looked
    faults

vars == <<at, todo, subscribed, schedule, poll_due, reconnects, push_recovery,
          condition, session, delivery, looked_at, faults>>
env == <<condition, faults>>

\* ok: all works.  nosub: push is refused.  app: every read fails.  down: no transport.
Conditions == {"ok", "nosub", "app", "down"}
Readable(d) == session[d] /\ condition[d] \in {"ok", "nosub"}

\* build_schedule.
BuildSchedule(pushed) ==
    [d \in Device |-> {c \in {"polled", "pushed"} :
        (c = "polled" => d \in Polled) /\ (c = "pushed" => d \in Pushed \ pushed)}]

AllDue(s) == {d \in Device : s[d] # {}}
OrInsert(entry) == IF entry = "none" THEN "waiting" ELSE entry

\* What a read returns: nothing for points that can only be pushed.
ReadResult(d) ==
    IF schedule[d] \ (IF d \in PushOnly THEN {"pushed"} ELSE {}) = {} THEN "none"
    ELSE IF Readable(d) THEN "good" ELSE "failed"

Init ==
    /\ at = "connect" /\ todo = {}
    /\ subscribed = {} /\ schedule = [d \in Device |-> {}] /\ poll_due = {}
    /\ reconnects = [d \in Device |-> "none"] /\ push_recovery = [d \in Device |-> "none"]
    /\ condition = [d \in Device |-> "ok"]
    /\ session = [d \in Device |-> FALSE] /\ delivery = [d \in Device |-> FALSE]
    /\ looked_at = {} /\ faults = 0

\* connect(): as a whole it may also fail or time out, which is only logged.
Connect(opened) ==
    /\ at = "connect"
    /\ opened \subseteq {d \in Device : condition[d] # "down"}
    /\ session' = [d \in Device |-> d \in opened]
    /\ at' = "setup"
    /\ UNCHANGED <<todo, subscribed, schedule, poll_due, reconnects, push_recovery, delivery,
                   looked_at, env>>

\* setup_subscriptions: a device whose subscribe failed is to be established again.
Setup ==
    LET armed == {d \in Pushed : session[d] /\ condition[d] = "ok"} IN
    /\ at = "setup"
    /\ subscribed' = armed
    /\ delivery' = [d \in Device |-> d \in armed]
    /\ schedule' = BuildSchedule(armed)
    /\ poll_due' = AllDue(schedule')
    /\ reconnects' = [d \in Device |-> IF d \in Pushed \ armed THEN "waiting" ELSE "none"]
    /\ at' = "select"
    /\ UNCHANGED <<todo, push_recovery, session, looked_at, env>>

-----------------------------------------------------------------------------
(* The tick.                                                               *)

Tick ==
    /\ at = "select"
    /\ at' = "poll" /\ todo' = poll_due
    /\ poll_due' = {}
    /\ looked_at' = {}
    /\ UNCHANGED <<subscribed, schedule, reconnects, push_recovery, session, delivery, env>>

\* Mutant: a batch without a sample that failed is a healthy one.
Judge_EmptyIsHealthy(entry, result) == IF result = "failed" THEN OrInsert(entry) ELSE "none"

\* An empty batch says nothing about the device.
Judge(entry, result) ==
    CASE result = "good" -> "none"
      [] result = "failed" -> OrInsert(entry)
      [] OTHER -> entry

Poll(d) ==
    /\ at = "poll" /\ d \in todo
    /\ reconnects' = [reconnects EXCEPT ![d] = Judge(@, ReadResult(d))]
    /\ looked_at' = IF ReadResult(d) = "none" THEN looked_at ELSE looked_at \union {d}
    /\ todo' = todo \ {d}
    /\ UNCHANGED <<at, subscribed, schedule, poll_due, push_recovery, session, delivery, env>>

EndPolls ==
    /\ at = "poll" /\ todo = {}
    /\ at' = "check" /\ todo' = subscribed
    /\ UNCHANGED <<subscribed, schedule, poll_due, reconnects, push_recovery, session, delivery,
                   looked_at, env>>

\* Mutant: dead push delivery of a device that is polled waits for the polls to fail.
Pending_Polled(d, verdict) ==
    /\ reconnects' = IF schedule[d] = {} THEN [reconnects EXCEPT ![d] = verdict] ELSE reconnects
    /\ UNCHANGED push_recovery

\* The schedule a verdict goes to: a device that is polled too has one of its own for push.
Pending(d, verdict) ==
    IF schedule[d] = {}
    THEN reconnects' = [reconnects EXCEPT ![d] = verdict] /\ UNCHANGED push_recovery
    ELSE push_recovery' = [push_recovery EXCEPT ![d] = verdict] /\ UNCHANGED reconnects

CheckSubscription(d) ==
    LET entry == IF schedule[d] = {} THEN reconnects[d] ELSE push_recovery[d] IN
    /\ at = "check" /\ d \in todo
    /\ Pending(d, IF session[d] /\ delivery[d] THEN "none" ELSE OrInsert(entry))
    /\ looked_at' = looked_at \union IF schedule[d] = {} THEN {d} ELSE {}
    /\ todo' = todo \ {d}
    /\ UNCHANGED <<at, subscribed, schedule, poll_due, session, delivery, env>>

\* retain_pushed, then the heartbeats that are due.
EndChecks(beats) ==
    /\ at = "check" /\ todo = {}
    /\ push_recovery' = [d \in Device |-> IF d \in subscribed THEN push_recovery[d] ELSE "none"]
    /\ beats \subseteq subscribed
    /\ at' = "heartbeat" /\ todo' = beats
    /\ UNCHANGED <<subscribed, schedule, poll_due, reconnects, session, delivery, looked_at, env>>

\* A heartbeat read that fails counts as a failed poll, unless the module cannot do one.
Heartbeat(d, fails) ==
    /\ at = "heartbeat" /\ d \in todo
    /\ fails => ~Readable(d) /\ d \notin PushOnly
    /\ reconnects' = [reconnects EXCEPT ![d] = IF fails THEN OrInsert(@) ELSE @]
    /\ todo' = todo \ {d}
    /\ UNCHANGED <<at, subscribed, schedule, poll_due, push_recovery, session, delivery,
                   looked_at, env>>

EndHeartbeats ==
    /\ at = "heartbeat" /\ todo = {}
    /\ at' = "reconnect"
    /\ todo' = {d \in Device : "due" \in {reconnects[d], push_recovery[d]}}
    /\ UNCHANGED <<subscribed, schedule, poll_due, reconnects, push_recovery, session, delivery,
                   looked_at, env>>

\* re_arm: both schedules of the device back off, whatever the attempt did.
ReArm(entries, d) == [entries EXCEPT ![d] = IF @ = "none" THEN "none" ELSE "waiting"]

\* The attempt fails, or reports the device as anything but connected.
ReconnectFails(d) ==
    /\ at = "reconnect" /\ d \in todo
    /\ reconnects' = ReArm(reconnects, d) /\ push_recovery' = ReArm(push_recovery, d)
    /\ todo' = todo \ {d}
    /\ UNCHANGED <<at, subscribed, schedule, poll_due, session, delivery, looked_at, env>>

\* subscribe_device: a device that is refused is polled again.
Resubscribed(d, armed) == IF armed THEN subscribed \union {d} ELSE subscribed \ {d}

\* The transport is back, of one device or of all: its push delivery ended with the old one.
\* The device is subscribed again and the schedule rebuilt.
ReconnectRestores(d) ==
    LET again == IF HasReconnect THEN {d} ELSE Device
        armed == d \in Pushed /\ condition[d] = "ok"
    IN /\ at = "reconnect" /\ d \in todo
       /\ condition[d] # "down"
       /\ session' = [e \in Device |-> IF e \in again THEN condition[e] # "down" ELSE session[e]]
       /\ delivery' = [e \in Device |-> IF e = d THEN armed ELSE delivery[e] /\ e \notin again]
       /\ subscribed' = IF d \in Pushed THEN Resubscribed(d, armed) ELSE subscribed
       /\ schedule' = IF Pushed = {} THEN schedule ELSE BuildSchedule(subscribed')
       /\ poll_due' = IF Pushed = {} THEN poll_due ELSE AllDue(schedule')
       /\ reconnects' = IF d \in Pushed /\ ~armed
                        THEN [ReArm(reconnects, d) EXCEPT ![d] = OrInsert(@)]
                        ELSE ReArm(reconnects, d)
       /\ push_recovery' = ReArm(push_recovery, d)
       /\ looked_at' = looked_at \ again
       /\ todo' = todo \ {d}
       /\ UNCHANGED <<at, env>>

EndTick ==
    /\ at = "reconnect" /\ todo = {}
    /\ at' = "select"
    /\ UNCHANGED <<todo, subscribed, schedule, poll_due, reconnects, push_recovery, session,
                   delivery, looked_at, env>>

-----------------------------------------------------------------------------
(* The other arms, and the world.                                          *)

Stop ==
    /\ at = "select"
    /\ at' = "stopped"
    /\ session' = [d \in Device |-> FALSE] /\ delivery' = [d \in Device |-> FALSE]
    /\ UNCHANGED <<todo, subscribed, schedule, poll_due, reconnects, push_recovery, looked_at, env>>

\* Points come due, and the delay of an entry ends.
TimePasses(d) ==
    /\ at = "select"
    /\ \/ /\ schedule[d] # {} /\ d \notin poll_due
          /\ poll_due' = poll_due \union {d}
          /\ UNCHANGED <<reconnects, push_recovery>>
       \/ /\ "waiting" \in {reconnects[d], push_recovery[d]}
          /\ reconnects' = [reconnects EXCEPT ![d] = IF @ = "waiting" THEN "due" ELSE @]
          /\ push_recovery' = [push_recovery EXCEPT ![d] = IF @ = "waiting" THEN "due" ELSE @]
          /\ UNCHANGED poll_due
    /\ UNCHANGED <<at, todo, subscribed, schedule, session, delivery, looked_at, env>>

\* A device changes, or its session is dropped under it.
Fault(d, c) ==
    /\ faults < MaxFaults
    /\ faults' = faults + 1
    /\ condition' = [condition EXCEPT ![d] = c]
    /\ session' = [session EXCEPT ![d] = @ /\ c # "down" /\ c # condition[d]]
    /\ delivery' = [delivery EXCEPT ![d] = @ /\ session'[d] /\ c # "nosub"]
    /\ looked_at' = looked_at \ {d}
    /\ UNCHANGED <<at, todo, subscribed, schedule, poll_due, reconnects, push_recovery>>

Next ==
    \/ \E opened \in SUBSET Device : Connect(opened)
    \/ Setup \/ Tick \/ EndPolls \/ EndHeartbeats \/ EndTick \/ Stop
    \/ \E beats \in SUBSET subscribed : EndChecks(beats)
    \/ \E d \in Device :
          \/ Poll(d) \/ CheckSubscription(d) \/ ReconnectFails(d) \/ ReconnectRestores(d)
          \/ TimePasses(d)
          \/ \E fails \in BOOLEAN : Heartbeat(d, fails)
          \/ \E c \in Conditions : Fault(d, c)

-----------------------------------------------------------------------------
(* Properties.                                                             *)

\* Every class of points arrives: pushed, or polled where a read returns it.
Delivering(d) ==
    /\ d \in Polled => Readable(d)
    /\ d \in Pushed => \/ d \in subscribed /\ delivery[d] /\ session[d]
                       \/ d \notin subscribed /\ d \notin PushOnly /\ Readable(d)

\* A device whose points do not arrive is on a reconnect schedule from the end of the tick that
\* looked at it, by a poll that returned something or a check of its delivery, and a device that
\* could never be subscribed stays on one: nothing clears the entry but evidence of health.
NotStranded ==
    at = "select" =>
        /\ \A d \in looked_at : ~Delivering(d) => {reconnects[d], push_recovery[d]} # {"none"}
        /\ \A d \in PushOnly \ (Polled \union subscribed) : reconnects[d] # "none"

\* A point is polled exactly when it is not delivered by push.
OneWay == at \notin {"connect", "setup"} => schedule = BuildSchedule(subscribed)

StdoutSound == NotStranded /\ OneWay
=============================================================================
