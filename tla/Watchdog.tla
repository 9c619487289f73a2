------------------------------ MODULE Watchdog ------------------------------
(***************************************************************************)
(* The stall watchdog of run_one (impl/rust/src/main.rs) against the main  *)
(* loop of runtime.rs: every protocol call is bounded by operation_timeout,*)
(* the loop marks its Progress once per pass, and a loop that has not      *)
(* marked for stall_limit is cancelled as hung.                            *)
(*                                                                         *)
(* Time passes in units; a call of a device that answers takes none, a     *)
(* call of a slow or silent one takes up to operation_timeout.             *)
(***************************************************************************)
EXTENDS Naturals

CONSTANTS
    MaxSlow,     \* how many devices may be slow or silent at once
    MaxCalls,    \* how many calls a command makes: the writes of a batch, or disconnect and connect
    Operation,   \* operation_timeout
    Stall,       \* stall_timeout as configured
    Period,      \* how often the watchdog looks
    Inline,      \* the module has no readers: the loop itself reads the devices
    Subscribes   \* the module delivers points by push

ASSUME WatchdogAssumption ==
    /\ MaxSlow \in Nat /\ MaxCalls \in Nat
    /\ Operation \in Nat \ {0} /\ Stall \in Nat \ {0} /\ Period \in Nat \ {0}
    /\ {Inline, Subscribes} \subseteq BOOLEAN

VARIABLES
    at,      \* where the attempt is
    left,    \* calls of slow devices left in this part of the pass, the present one included
    reading, \* slow devices whose reads are in flight in tasks
    spent,   \* how long the present call has taken
    idle,    \* Progress::idle
    timer    \* since the watchdog last looked

vars == <<at, left, reading, spent, idle, timer>>

\* ConnectorConfig::stall_limit.
StallLimit == IF Stall < 2 * Operation THEN 2 * Operation ELSE Stall

\* The parts of the code that call the module.
Calls == {"connect", "subscribe", "reads", "heartbeats", "reconnects", "resubscribe", "command"}

Init ==
    /\ at = "connect"
    /\ left \in 0 .. 1
    /\ reading = 0 /\ spent = 0
    /\ idle = 0 /\ timer = 0

Mark == idle' = 0

\* Go on to a part of the pass in which some calls of slow devices are made.
GoOn(part, calls) ==
    /\ at' = part
    /\ left' \in 0 .. calls
    /\ spent' = 0

\* connect() of the module, one call for all devices.
ConnectEnds ==
    /\ at = "connect" /\ left = 0
    /\ GoOn("subscribe", IF Subscribes THEN MaxSlow ELSE 0)
    /\ UNCHANGED <<reading, idle, timer>>

\* setup_subscriptions, a call per device.
SubscribeEnds ==
    /\ at = "subscribe" /\ left = 0
    /\ GoOn("select", 0)
    /\ UNCHANGED <<reading, idle, timer>>

\* The tick: the devices due are read, in the loop or by tasks.
Tick ==
    /\ at = "select"
    /\ GoOn("reads", IF Inline THEN MaxSlow ELSE 0)
    /\ reading' \in IF Inline THEN {0} ELSE reading .. MaxSlow
    /\ UNCHANGED <<idle, timer>>

ReadsEnd ==
    /\ at = "reads" /\ left = 0
    /\ GoOn("heartbeats", IF Subscribes THEN MaxSlow ELSE 0)
    /\ UNCHANGED <<reading, idle, timer>>

\* Mutant: no mark at the end of the reads.
HeartbeatsEnd_NoMark ==
    /\ at = "heartbeats" /\ left = 0
    /\ GoOn("reconnects", MaxSlow - reading)
    /\ UNCHANGED <<reading, idle, timer>>

\* The loop marks its progress, then reconnects the devices due that are not being read.
HeartbeatsEnd ==
    /\ at = "heartbeats" /\ left = 0
    /\ GoOn("reconnects", MaxSlow - reading)
    /\ Mark
    /\ UNCHANGED <<reading, timer>>

\* attempt_reconnect within its time, and the subscribe that follows.
Restored ==
    /\ at = "reconnects" /\ left > 0 /\ spent < Operation
    /\ Subscribes
    /\ at' = "resubscribe"
    /\ spent' = 0
    /\ UNCHANGED <<left, reading, idle, timer>>

ResubscribeEnds ==
    /\ at = "resubscribe"
    /\ at' = "reconnects"
    /\ left' = left - 1
    /\ spent' = 0
    /\ UNCHANGED <<reading, idle, timer>>

ReconnectsEnd ==
    /\ at = "reconnects" /\ left = 0
    /\ GoOn("select", 0)
    /\ UNCHANGED <<reading, idle, timer>>

\* Any other arm: read results, pushed samples, a restored session.
OtherArm ==
    /\ at = "select"
    /\ Mark
    /\ reading' \in 0 .. reading
    /\ UNCHANGED <<at, left, spent, timer>>

\* A command or a reload: the reads in flight, which may wait for one another at the budget of
\* their endpoint, are drained, then the calls of the command are made.
Command ==
    /\ at = "select"
    /\ GoOn("command", reading + MaxCalls)
    /\ reading' = 0
    /\ UNCHANGED <<idle, timer>>

CommandEnds ==
    /\ at = "command" /\ left = 0
    /\ GoOn("select", 0)
    /\ Mark
    /\ UNCHANGED <<reading, timer>>

\* `bounded`: a call ends, at the latest when its time is over.
CallEnds ==
    /\ at \in Calls \ {"resubscribe"} /\ left > 0
    /\ left' = left - 1
    /\ spent' = 0
    /\ UNCHANGED <<at, reading, idle, timer>>

\* A call that its bound does not end: a driver that loops, a lock that is never released.
Wedge ==
    /\ at \in Calls /\ left > 0
    /\ at' = "wedged"
    /\ left' = 0 /\ spent' = 0
    /\ UNCHANGED <<reading, idle, timer>>

(***************************************************************************)
(* Time passes during a call.  Between the passes it does too, but the     *)
(* next tick is 200 ms away, less than a unit: only the watchdog's timer   *)
(* moves.                                                                  *)
(***************************************************************************)
Elapse ==
    /\ timer < Period
    /\ \/ at \in Calls /\ left > 0 /\ spent < Operation
          /\ spent' = spent + 1 /\ idle' = idle + 1
       \/ at = "wedged" /\ idle' = idle + 1 /\ UNCHANGED spent
       \/ at = "select" /\ UNCHANGED <<spent, idle>>
    /\ timer' = timer + 1
    /\ UNCHANGED <<at, left, reading>>

\* Mutant: the watchdog waits for twice its limit.
StallWatchdog_Late ==
    /\ timer = Period
    /\ timer' = 0
    /\ at' = IF idle >= 2 * StallLimit THEN "stalled" ELSE at
    /\ UNCHANGED <<left, reading, spent, idle>>

\* Mutant: looking at the progress counts as progress.
StallWatchdog_Marks ==
    /\ timer = Period
    /\ timer' = 0
    /\ at' = IF idle >= StallLimit THEN "stalled" ELSE at
    /\ idle' = 0
    /\ UNCHANGED <<left, reading, spent>>

\* stall_watchdog.
StallWatchdog ==
    /\ timer = Period
    /\ timer' = 0
    /\ at' = IF idle >= StallLimit THEN "stalled" ELSE at
    /\ UNCHANGED <<left, reading, spent, idle>>

\* The supervisor starts the next attempt, with a Progress of its own.
Restart ==
    /\ at = "stalled"
    /\ GoOn("connect", 1)
    /\ Mark
    /\ reading' = 0
    /\ timer' = 0

Next ==
    \/ ConnectEnds \/ SubscribeEnds \/ Tick \/ ReadsEnd \/ HeartbeatsEnd
    \/ Restored \/ ResubscribeEnds \/ ReconnectsEnd \/ OtherArm \/ Command \/ CommandEnds
    \/ CallEnds \/ Wedge \/ Elapse \/ StallWatchdog \/ Restart

Spec == Init /\ [][Next]_vars

\* Time goes on, and so does the watchdog.
FairSpec == Spec /\ WF_vars(Elapse) /\ WF_vars(StallWatchdog) /\ WF_vars(Restart)

-----------------------------------------------------------------------------
(* Properties                                                              *)

(***************************************************************************)
(* The loop is never without a mark for longer than the limit and one      *)
(* period of the watchdog: whatever a call does, the connector is restarted*)
(* by then (stall_watchdog, Progress).                                     *)
(***************************************************************************)
AlarmInTime == idle <= StallLimit + Period

(***************************************************************************)
(* The watchdog restarts only a connector whose protocol call does not     *)
(* return: slow and silent devices, whose calls the runtime ends itself,   *)
(* do not look like a hang (Progress, stall_limit, bounded).               *)
(***************************************************************************)
NoFalseAlarm == [][at' = "stalled" => at \in {"wedged", "stalled"}]_vars

(***************************************************************************)
(* A connector hung in a protocol call is restarted (stall_watchdog).      *)
(***************************************************************************)
Rescued == (at = "wedged") ~> (at = "connect")

(***************************************************************************)
(* A restart by the watchdog and a hung protocol call go together: nothing *)
(* else is restarted, and every hang is (stall_watchdog, bounded).         *)
(***************************************************************************)
HangsOnly == NoFalseAlarm /\ Rescued

=============================================================================
