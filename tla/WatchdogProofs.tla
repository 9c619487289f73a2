--------------------------- MODULE WatchdogProofs ---------------------------
(***************************************************************************)
(* A connector is without a mark for at most stall_limit and one period of *)
(* the watchdog, for all limits, however many devices are silent and       *)
(* wherever a call hangs.                                                  *)
(***************************************************************************)
EXTENDS Watchdog, Integers, TLAPS

(***************************************************************************)
(* At each look of the watchdog the idle time is below the limit, and      *)
(* since then it has grown by no more than the watchdog's timer.           *)
(***************************************************************************)
IInv ==
    /\ idle \in Nat /\ timer \in 0 .. Period
    /\ idle < StallLimit + IF at = "stalled" THEN Period + 1 ELSE timer

LEMMA LimitIsPositive == StallLimit \in Nat /\ StallLimit > 0
BY WatchdogAssumption DEF StallLimit

LEMMA InitHolds == Init => IInv
BY LimitIsPositive, WatchdogAssumption DEF Init, IInv

LEMMA StepHolds == IInv /\ [Next]_vars => IInv'
<1> SUFFICES ASSUME IInv, [Next]_vars PROVE IInv'
  OBVIOUS
<1> USE LimitIsPositive, WatchdogAssumption
<1>1. CASE \/ ConnectEnds \/ SubscribeEnds \/ Tick \/ ReadsEnd \/ Restored
           \/ ResubscribeEnds \/ ReconnectsEnd \/ Command \/ CallEnds \/ Wedge
  <2>1. idle' = idle /\ timer' = timer /\ at # "stalled" /\ at' # "stalled"
    BY <1>1 DEF ConnectEnds, SubscribeEnds, Tick, ReadsEnd, Restored, ResubscribeEnds,
                ReconnectsEnd, Command, CallEnds, Wedge, GoOn, Calls
  <2> QED BY <2>1 DEF IInv, StallLimit
<1>2. CASE HeartbeatsEnd \/ OtherArm \/ CommandEnds
  <2>1. idle' = 0 /\ timer' = timer /\ at' # "stalled"
    BY <1>2 DEF HeartbeatsEnd, OtherArm, CommandEnds, GoOn, Mark
  <2> QED BY <2>1 DEF IInv, StallLimit
<1>3. CASE Elapse
  <2>1. /\ idle' \in {idle, idle + 1} /\ timer' = timer + 1 /\ timer < Period
        /\ at # "stalled" /\ at' = at
    BY <1>3 DEF Elapse, Calls
  <2> QED BY <2>1 DEF IInv, StallLimit
<1>4. CASE StallWatchdog
  <2>1. idle' = idle /\ timer' = 0
    BY <1>4 DEF StallWatchdog
  <2>2. at' # "stalled" => idle < StallLimit
    BY <1>4 DEF StallWatchdog, IInv
  <2> QED BY <2>1, <2>2 DEF IInv, StallLimit
<1>5. CASE Restart
  BY <1>5 DEF Restart, GoOn, Mark, IInv, StallLimit
<1>6. CASE UNCHANGED vars
  BY <1>6 DEF vars, IInv, StallLimit
<1> QED BY <1>1, <1>2, <1>3, <1>4, <1>5, <1>6 DEF Next

(***************************************************************************)
(* Whatever the protocol module does, a loop that stops marking its        *)
(* progress is noticed within the limit and one period (stall_watchdog).   *)
(***************************************************************************)
THEOREM HangsAreNoticed == Spec => []AlarmInTime
<1>1. IInv => AlarmInTime
  BY LimitIsPositive, WatchdogAssumption DEF IInv, AlarmInTime
<1> QED BY InitHolds, StepHolds, <1>1, PTL DEF Spec

-----------------------------------------------------------------------------
(* Slowness is not taken for a hang.                                       *)

(***************************************************************************)
(* How long n calls that keep their time t take: the reconnect of a device,*)
(* which may take just less than its time, with the subscribe that follows *)
(* it; a subscribe or a heartbeat of each device; the reads and heartbeats *)
(* of a tick, or the calls of a command, whichever takes longer.           *)
(***************************************************************************)
Take(n, t) == n * t
ReconnectTime == IF Subscribes THEN 2 * Operation - 1 ELSE Operation
SubscribeTime == IF Subscribes THEN Take(MaxSlow, Operation) ELSE 0
TickTime == (IF Inline THEN Take(MaxSlow, Operation) ELSE 0) + SubscribeTime
ArmTime == IF TickTime < Take(MaxCalls, Operation) THEN Take(MaxCalls, Operation) ELSE TickTime

(***************************************************************************)
(* The longest that a loop goes without a mark when every call keeps its   *)
(* time: after the reconnects of a pass, or after the start, the next arm. *)
(***************************************************************************)
StartTime == Operation + SubscribeTime
Longest == ArmTime + IF Take(MaxSlow, ReconnectTime) < StartTime THEN StartTime
                     ELSE Take(MaxSlow, ReconnectTime)

(***************************************************************************)
(* The time that calls which keep theirs may still take before the next    *)
(* mark, from where the loop is.                                           *)
(***************************************************************************)
Ahead ==
    CASE at = "connect" -> Take(left, Operation) - spent + SubscribeTime + ArmTime
      [] at = "subscribe" -> Take(left, Operation) - spent + ArmTime
      [] at = "select" -> Take(reading, Operation) + ArmTime
      [] at = "reads" -> Take(left, Operation) - spent + SubscribeTime
      [] at = "heartbeats" -> Take(left, Operation) - spent
      [] at = "reconnects" -> Take(left, ReconnectTime) - spent + Take(reading, Operation) + ArmTime
      [] at = "resubscribe" ->
            Take(left - 1, ReconnectTime) + Operation - spent + Take(reading, Operation) + ArmTime
      [] at = "command" -> Take(left, Operation) - spent
      [] OTHER -> 0

PassOK ==
    /\ at \in Calls \union {"select", "wedged", "stalled"}
    /\ left \in Nat /\ reading \in 0 .. MaxSlow /\ spent \in 0 .. Operation /\ idle \in Nat
    /\ at \in Calls /\ left = 0 => spent = 0 /\ at # "resubscribe"
    /\ at \in {"connect", "subscribe"} => reading = 0
    /\ at \in {"reconnects", "resubscribe"} => left <= MaxSlow - reading

Bounded == at \notin {"wedged", "stalled"} => idle + Ahead <= Longest

SlowInv == PassOK /\ Bounded

\* Products of numbers of calls and times.
LEMMA Product == ASSUME NEW a \in Nat, NEW c \in Nat PROVE Take(a, c) \in Nat
BY SMT DEF Take

LEMMA ProductNone == ASSUME NEW c \in Nat PROVE Take(0, c) = 0
BY SMT DEF Take

LEMMA ProductOne == ASSUME NEW c \in Nat PROVE Take(1, c) = c
BY SMT DEF Take

LEMMA ProductGrows ==
    ASSUME NEW a \in Nat, NEW b \in Nat, NEW c \in Nat, a <= b PROVE Take(a, c) <= Take(b, c)
BY SMT DEF Take

LEMMA ProductLonger ==
    ASSUME NEW a \in Nat, NEW c \in Nat, NEW d \in Nat, c <= d PROVE Take(a, c) <= Take(a, d)
BY SMT DEF Take

LEMMA ProductSum == ASSUME NEW a \in Nat, NEW b \in Nat, NEW c \in Nat
                    PROVE  Take(a + b, c) = Take(a, c) + Take(b, c)
BY SMT DEF Take

LEMMA ProductLess == ASSUME NEW a \in Nat, NEW c \in Nat, a > 0
                     PROVE  Take(a - 1, c) = Take(a, c) - c /\ Take(a - 1, c) \in Nat
<1>1. Take(a - 1, c) = Take(a, c) - c
  BY SMT DEF Take
<1>2. a - 1 \in Nat
  BY SMT
<1> QED
  BY <1>1, <1>2, Product

\* Two facts of arithmetic.
LEMMA Below ==
    ASSUME NEW m \in Nat, NEW r \in Nat, NEW n \in 0 .. m - r
    PROVE  n + r \in Nat /\ n + r <= m
BY SMT

LEMMA Shrinks ==
    ASSUME NEW i \in Nat, NEW x \in Int, NEW y \in Int, NEW l \in Nat, y <= x, i + x <= l
    PROVE  i + y <= l
BY SMT

\* What is used of the times.
LEMMA Times ==
    /\ Operation \in Nat /\ Operation > 0 /\ MaxSlow \in Nat /\ MaxCalls \in Nat
    /\ ReconnectTime \in Nat /\ ReconnectTime >= Operation
    /\ Subscribes => ReconnectTime = 2 * Operation - 1
    /\ SubscribeTime \in Nat /\ ArmTime \in Nat /\ Longest \in Nat
    /\ SubscribeTime = IF Subscribes THEN Take(MaxSlow, Operation) ELSE 0
    /\ Take(MaxCalls, Operation) <= ArmTime
    /\ (IF Inline THEN Take(MaxSlow, Operation) ELSE 0) + SubscribeTime <= ArmTime
    /\ Take(MaxSlow, ReconnectTime) + ArmTime <= Longest
    /\ Operation + SubscribeTime + ArmTime <= Longest
<1>1. Operation \in Nat /\ Operation > 0 /\ MaxSlow \in Nat /\ MaxCalls \in Nat
  BY WatchdogAssumption
<1>2. Take(MaxSlow, Operation) \in Nat /\ Take(MaxCalls, Operation) \in Nat
  BY <1>1, Product
<1>3. /\ ReconnectTime \in Nat /\ ReconnectTime >= Operation
      /\ Subscribes => ReconnectTime = 2 * Operation - 1
  BY <1>1 DEF ReconnectTime
<1>4. Take(MaxSlow, ReconnectTime) \in Nat
  BY <1>1, <1>3, Product
<1>5. SubscribeTime \in Nat /\ SubscribeTime = IF Subscribes THEN Take(MaxSlow, Operation) ELSE 0
  BY <1>2 DEF SubscribeTime
<1>6. TickTime \in Nat /\ TickTime = (IF Inline THEN Take(MaxSlow, Operation) ELSE 0) + SubscribeTime
  BY <1>2, <1>5 DEF TickTime
<1>7. ArmTime \in Nat /\ Take(MaxCalls, Operation) <= ArmTime /\ TickTime <= ArmTime
  BY <1>2, <1>6 DEF ArmTime
<1>8. StartTime = Operation + SubscribeTime /\ StartTime \in Nat
  BY <1>1, <1>5 DEF StartTime
<1>9. /\ Longest \in Nat /\ Take(MaxSlow, ReconnectTime) + ArmTime <= Longest
      /\ StartTime + ArmTime <= Longest
  BY <1>4, <1>7, <1>8 DEF Longest
<1> QED
  BY <1>1, <1>3, <1>5, <1>6, <1>7, <1>8, <1>9

\* Every step keeps a pass well formed.
LEMMA PassStep == ASSUME PassOK, [Next]_vars PROVE PassOK'
<1> USE WatchdogAssumption DEF PassOK, Calls
<1>1. CASE ConnectEnds \/ SubscribeEnds \/ ReadsEnd \/ ReconnectsEnd \/ CommandEnds
  BY <1>1 DEF ConnectEnds, SubscribeEnds, ReadsEnd, ReconnectsEnd, CommandEnds, GoOn, Mark
<1>2. CASE HeartbeatsEnd
  BY <1>2 DEF HeartbeatsEnd, GoOn, Mark
<1>3. CASE Tick
  BY <1>3 DEF Tick, GoOn
<1>4. CASE OtherArm
  BY <1>4 DEF OtherArm, Mark
<1>5. CASE Command
  BY <1>5 DEF Command, GoOn
<1>6. CASE Restored \/ ResubscribeEnds \/ CallEnds
  BY <1>6 DEF Restored, ResubscribeEnds, CallEnds
<1>7. CASE Wedge \/ Elapse \/ StallWatchdog
  BY <1>7 DEF Wedge, Elapse, StallWatchdog
<1>8. CASE Restart
  BY <1>8 DEF Restart, GoOn, Mark
<1>9. CASE UNCHANGED vars
  BY <1>9 DEF vars
<1> QED
  BY <1>1, <1>2, <1>3, <1>4, <1>5, <1>6, <1>7, <1>8, <1>9 DEF Next

\* The time ahead is never negative.
LEMMA AheadPositive == ASSUME PassOK PROVE Ahead \in Nat
<1> USE Times
<1>1. left \in Nat /\ reading \in Nat /\ spent \in Nat /\ spent <= Operation
  BY DEF PassOK
<1>2. Take(left, Operation) \in Nat /\ Take(left, ReconnectTime) \in Nat /\ Take(reading, Operation) \in Nat
  BY <1>1, Product
<1>3. CASE left = 0
  <2>1. at \in Calls => spent = 0 /\ at # "resubscribe"
    BY <1>3 DEF PassOK
  <2>2. Take(left, Operation) = 0 /\ Take(left, ReconnectTime) = 0
    BY <1>3, ProductNone
  <2> QED
    BY <1>2, <2>1, <2>2 DEF Ahead, Calls
<1>4. CASE left > 0
  <2>1. /\ Take(left - 1, Operation) = Take(left, Operation) - Operation
        /\ Take(left - 1, Operation) \in Nat
    BY <1>1, <1>4, ProductLess
  <2>2. /\ Take(left - 1, ReconnectTime) = Take(left, ReconnectTime) - ReconnectTime
        /\ Take(left - 1, ReconnectTime) \in Nat
    BY <1>1, <1>4, ProductLess
  <2>3. Take(left, Operation) - spent \in Nat /\ Take(left, ReconnectTime) - spent \in Nat
    BY <1>1, <1>2, <2>1, <2>2
  <2>4. Take(left - 1, ReconnectTime) + Operation - spent \in Nat
    BY <1>1, <2>2
  <2> QED
    BY <1>2, <2>3, <2>4 DEF Ahead
<1> QED
  BY <1>1, <1>3, <1>4

\* The time ahead shrinks by what passes, and starts again with each mark within what is left.
LEMMA BoundedStep == ASSUME PassOK, PassOK', Bounded, [Next]_vars PROVE Bounded'
<1> USE Times
<1>0. /\ left \in Nat /\ reading \in Nat /\ reading <= MaxSlow /\ spent \in Nat
      /\ spent <= Operation /\ idle \in Nat
      /\ left' \in Nat /\ reading' \in Nat /\ reading' <= MaxSlow /\ spent' \in Nat
  BY DEF PassOK
<1>00. /\ Take(left, Operation) \in Nat /\ Take(left, ReconnectTime) \in Nat /\ Take(reading, Operation) \in Nat
       /\ Take(left', Operation) \in Nat /\ Take(left', ReconnectTime) \in Nat
       /\ Take(reading', Operation) \in Nat /\ Take(MaxSlow, Operation) \in Nat
       /\ Take(MaxSlow, ReconnectTime) \in Nat
  BY <1>0, Product
<1>m. ASSUME NEW n \in Nat, n <= MaxSlow
      PROVE  Take(n, Operation) <= Take(MaxSlow, Operation) /\ Take(n, Operation) <= Take(MaxSlow, ReconnectTime)
  <2>1. Take(n, Operation) <= Take(MaxSlow, Operation) /\ Take(n, ReconnectTime) <= Take(MaxSlow, ReconnectTime)
    BY <1>m, ProductGrows
  <2>2. Take(n, Operation) <= Take(n, ReconnectTime)
    BY ProductLonger
  <2>4. Take(n, Operation) \in Nat /\ Take(n, ReconnectTime) \in Nat /\ Take(MaxSlow, ReconnectTime) \in Nat
    BY Product
  <2> QED
    BY <2>1, <2>2, <2>4
<1>1. CASE ConnectEnds
  <2>1. /\ at = "connect" /\ left = 0 /\ at' = "subscribe" /\ spent' = 0
        /\ idle' = idle /\ reading' = reading
        /\ left' \in 0 .. (IF Subscribes THEN MaxSlow ELSE 0)
    BY <1>1 DEF ConnectEnds, GoOn
  <2>2. Take(left', Operation) <= SubscribeTime
    <3>1. CASE Subscribes
      BY <1>0, <1>m, <2>1, <3>1
    <3>2. CASE ~Subscribes
      <4>1. left' = 0
        BY <2>1, <3>2
      <4> QED
        BY <4>1, ProductNone
    <3> QED
      BY <3>1, <3>2
  <2>3. spent = 0 /\ Take(left, Operation) = 0
    BY <2>1, ProductNone DEF PassOK, Calls
  <2>4. Ahead = SubscribeTime + ArmTime /\ Ahead' = Take(left', Operation) + ArmTime
    BY <1>00, <2>1, <2>3 DEF Ahead
  <2> QED
    BY <1>0, <1>00, <2>1, <2>2, <2>4 DEF Bounded
<1>2. CASE SubscribeEnds
  <2>1. /\ at = "subscribe" /\ left = 0 /\ at' = "select" /\ idle' = idle /\ reading' = reading
    BY <1>2 DEF SubscribeEnds, GoOn
  <2>2. spent = 0 /\ Take(left, Operation) = 0 /\ Take(reading', Operation) = 0
    <3>1. spent = 0 /\ reading = 0
      BY <2>1 DEF PassOK, Calls
    <3> QED
      BY <2>1, <3>1, ProductNone
  <2>3. Ahead = ArmTime /\ Ahead' = ArmTime
    BY <2>1, <2>2 DEF Ahead
  <2> QED
    BY <2>1, <2>3 DEF Bounded
<1>3. CASE Tick
  <2>1. /\ at = "select" /\ at' = "reads" /\ spent' = 0 /\ idle' = idle
        /\ left' \in 0 .. (IF Inline THEN MaxSlow ELSE 0)
    BY <1>3 DEF Tick, GoOn
  <2>2. Take(left', Operation) <= IF Inline THEN Take(MaxSlow, Operation) ELSE 0
    <3>1. CASE Inline
      BY <1>0, <1>m, <2>1, <3>1
    <3>2. CASE ~Inline
      <4>1. left' = 0
        BY <2>1, <3>2
      <4> QED
        BY <3>2, <4>1, ProductNone
    <3> QED
      BY <3>1, <3>2
  <2>3. Ahead = Take(reading, Operation) + ArmTime /\ Ahead' = Take(left', Operation) + SubscribeTime
    BY <1>00, <2>1 DEF Ahead
  <2> QED
    BY <1>0, <1>00, <2>1, <2>2, <2>3 DEF Bounded
<1>4. CASE ReadsEnd
  <2>1. /\ at = "reads" /\ left = 0 /\ at' = "heartbeats" /\ spent' = 0 /\ idle' = idle
        /\ left' \in 0 .. (IF Subscribes THEN MaxSlow ELSE 0)
    BY <1>4 DEF ReadsEnd, GoOn
  <2>2. Take(left', Operation) <= SubscribeTime
    <3>1. CASE Subscribes
      BY <1>0, <1>m, <2>1, <3>1
    <3>2. CASE ~Subscribes
      <4>1. left' = 0
        BY <2>1, <3>2
      <4> QED
        BY <4>1, ProductNone
    <3> QED
      BY <3>1, <3>2
  <2>3. spent = 0 /\ Take(left, Operation) = 0
    BY <2>1, ProductNone DEF PassOK, Calls
  <2>4. Ahead = SubscribeTime /\ Ahead' = Take(left', Operation)
    BY <1>00, <2>1, <2>3 DEF Ahead
  <2> QED
    BY <1>0, <1>00, <2>1, <2>2, <2>4 DEF Bounded
<1>5. CASE HeartbeatsEnd
  <2>1. /\ at' = "reconnects" /\ spent' = 0 /\ idle' = 0 /\ reading' = reading
        /\ left' \in 0 .. MaxSlow - reading
    BY <1>5 DEF HeartbeatsEnd, GoOn, Mark
  <2>0. left' + reading \in Nat /\ left' + reading <= MaxSlow
    BY <1>0, <2>1, Below
  <2>2. Take(left', ReconnectTime) + Take(reading, ReconnectTime) <= Take(MaxSlow, ReconnectTime)
    <3>1. Take(left' + reading, ReconnectTime) <= Take(MaxSlow, ReconnectTime)
      BY <2>0, ProductGrows
    <3>2. Take(left' + reading, ReconnectTime) = Take(left', ReconnectTime) + Take(reading, ReconnectTime)
      BY <1>0, ProductSum
    <3> QED
      BY <3>1, <3>2
  <2>3. Take(reading, Operation) <= Take(reading, ReconnectTime)
    BY <1>0, ProductLonger
  <2>4. Take(reading, ReconnectTime) \in Nat
    BY <1>0, Product
  <2>5. Ahead' = Take(left', ReconnectTime) + Take(reading, Operation) + ArmTime
    BY <1>00, <2>1 DEF Ahead
  <2> QED
    BY <1>00, <2>1, <2>2, <2>3, <2>4, <2>5 DEF Bounded
<1>6. CASE Restored
  <2>1. /\ at = "reconnects" /\ left > 0 /\ spent < Operation /\ Subscribes /\ at' = "resubscribe"
        /\ spent' = 0 /\ left' = left /\ reading' = reading /\ idle' = idle
    BY <1>6 DEF Restored
  <2>2. /\ Take(left - 1, ReconnectTime) = Take(left, ReconnectTime) - ReconnectTime
        /\ Take(left - 1, ReconnectTime) \in Nat
    BY <1>0, <2>1, ProductLess
  <2>3. /\ Ahead = Take(left, ReconnectTime) - spent + Take(reading, Operation) + ArmTime
        /\ Ahead' = Take(left - 1, ReconnectTime) + Operation + Take(reading, Operation) + ArmTime
    BY <1>0, <1>00, <2>1, <2>2 DEF Ahead
  <2> QED
    BY <1>0, <1>00, <2>1, <2>2, <2>3 DEF Bounded
<1>7. CASE ResubscribeEnds
  <2>1. /\ at = "resubscribe" /\ at' = "reconnects" /\ left' = left - 1
        /\ spent' = 0 /\ reading' = reading /\ idle' = idle
    BY <1>7 DEF ResubscribeEnds
  <2>3. /\ Ahead = Take(left', ReconnectTime) + Operation - spent + Take(reading, Operation) + ArmTime
        /\ Ahead' = Take(left', ReconnectTime) + Take(reading, Operation) + ArmTime
    BY <1>0, <1>00, <2>1 DEF Ahead
  <2> QED
    BY <1>0, <1>00, <2>1, <2>3 DEF Bounded
<1>8. CASE ReconnectsEnd
  <2>1. at = "reconnects" /\ left = 0 /\ at' = "select" /\ idle' = idle /\ reading' = reading
    BY <1>8 DEF ReconnectsEnd, GoOn
  <2>2. spent = 0 /\ Take(left, ReconnectTime) = 0
    BY <2>1, ProductNone DEF PassOK, Calls
  <2>3. Ahead = Take(reading, Operation) + ArmTime /\ Ahead' = Take(reading, Operation) + ArmTime
    BY <1>00, <2>1, <2>2 DEF Ahead
  <2> QED
    BY <2>1, <2>3 DEF Bounded
<1>9. CASE OtherArm \/ CommandEnds
  <2>1. at' = "select" /\ idle' = 0
    BY <1>9 DEF OtherArm, CommandEnds, GoOn, Mark
  <2>2. Take(reading', Operation) <= Take(MaxSlow, ReconnectTime)
    BY <1>0, <1>m
  <2>3. Ahead' = Take(reading', Operation) + ArmTime
    BY <2>1 DEF Ahead
  <2> QED
    BY <1>00, <2>1, <2>2, <2>3 DEF Bounded
<1>10. CASE Command
  <2>1. /\ at = "select" /\ at' = "command" /\ spent' = 0 /\ idle' = idle
        /\ left' <= reading + MaxCalls
    BY <1>0, <1>10 DEF Command, GoOn
  <2>2. Take(left', Operation) <= Take(reading, Operation) + Take(MaxCalls, Operation)
    <3>1. Take(left', Operation) <= Take(reading + MaxCalls, Operation)
      BY <1>0, <2>1, ProductGrows
    <3>2. Take(reading + MaxCalls, Operation) = Take(reading, Operation) + Take(MaxCalls, Operation)
      BY <1>0, ProductSum
    <3> QED
      BY <3>1, <3>2
  <2>3. Ahead = Take(reading, Operation) + ArmTime /\ Ahead' = Take(left', Operation)
    BY <1>00, <2>1 DEF Ahead
  <2>4. Take(MaxCalls, Operation) \in Nat
    BY Product
  <2> QED
    BY <1>0, <1>00, <2>1, <2>2, <2>3, <2>4 DEF Bounded
<1>11. CASE CallEnds
  <2>1. /\ at \in Calls \ {"resubscribe"} /\ left > 0 /\ left' = left - 1 /\ spent' = 0
        /\ at' = at /\ reading' = reading /\ idle' = idle
    BY <1>11 DEF CallEnds
  <2>2. Take(left', Operation) = Take(left, Operation) - Operation
    BY <1>0, <2>1, ProductLess
  <2>3. Take(left', ReconnectTime) = Take(left, ReconnectTime) - ReconnectTime
    BY <1>0, <2>1, ProductLess
  <2>4. Ahead \in Int /\ Ahead' \in Int /\ Ahead' <= Ahead
    BY <1>0, <1>00, <2>1, <2>2, <2>3 DEF Ahead, Calls
  <2>5. at \notin {"wedged", "stalled"}
    BY <2>1 DEF Calls
  <2>6. idle + Ahead <= Longest
    BY <2>5 DEF Bounded
  <2>7. idle' + Ahead' <= Longest
    BY <1>0, <2>1, <2>4, <2>6, Shrinks
  <2> QED
    BY <2>7 DEF Bounded
<1>12. CASE Wedge
  <2>1. at' = "wedged"
    BY <1>12 DEF Wedge
  <2> QED
    BY <2>1 DEF Bounded
<1>13. CASE Elapse
  <2>1. /\ at' = at /\ left' = left /\ reading' = reading
        /\ \/ at \in Calls /\ left > 0 /\ spent' = spent + 1 /\ idle' = idle + 1
           \/ at = "wedged"
           \/ at = "select" /\ idle' = idle
    BY <1>13 DEF Elapse
  <2>2. CASE at \in Calls /\ left > 0 /\ spent' = spent + 1 /\ idle' = idle + 1
    <3>1. Take(left - 1, ReconnectTime) \in Nat
      BY <1>0, <2>2, ProductLess
    <3>2. Ahead \in Int
      BY <1>0, <1>00, <2>1, <2>2, <3>1 DEF Ahead
    <3>3. Ahead' = Ahead - 1
      BY <1>0, <1>00, <2>1, <2>2, <3>1 DEF Ahead, Calls
    <3> QED
      BY <1>0, <2>1, <2>2, <3>2, <3>3 DEF Bounded, Calls
  <2>3. CASE at = "wedged"
    BY <2>1, <2>3 DEF Bounded
  <2>4. CASE at = "select" /\ idle' = idle
    <3>1. Ahead' = Ahead
      BY <2>1, <2>4 DEF Ahead
    <3> QED
      BY <2>1, <2>4, <3>1 DEF Bounded
  <2> QED
    BY <2>1, <2>2, <2>3, <2>4
<1>14. CASE StallWatchdog
  <2>1. (at' = "stalled" \/ at' = at) /\ left' = left /\ reading' = reading /\ spent' = spent
          /\ idle' = idle
    BY <1>14 DEF StallWatchdog
  <2>2. at' = at => Ahead' = Ahead
    BY <2>1 DEF Ahead
  <2> QED
    BY <2>1, <2>2 DEF Bounded
<1>15. CASE Restart
  <2>1. at' = "connect" /\ left' \in 0 .. 1 /\ spent' = 0 /\ idle' = 0
    BY <1>15 DEF Restart, GoOn, Mark
  <2>2. Take(left', Operation) <= Operation
    <3>1. Take(left', Operation) <= Take(1, Operation)
      BY <1>0, <2>1, ProductGrows
    <3> QED
      BY <3>1, ProductOne
  <2>3. Ahead' = Take(left', Operation) + SubscribeTime + ArmTime
    BY <1>00, <2>1 DEF Ahead
  <2> QED
    BY <1>00, <2>1, <2>2, <2>3 DEF Bounded
<1>16. CASE UNCHANGED vars
  BY <1>16 DEF vars, Bounded, Ahead
<1> QED
  BY <1>1, <1>2, <1>3, <1>4, <1>5, <1>6, <1>7, <1>8, <1>9, <1>10, <1>11, <1>12, <1>13, <1>14,
     <1>15, <1>16 DEF Next

LEMMA SlowInit == ASSUME Init PROVE SlowInv
<1> USE Times
<1>1. PassOK
  BY DEF Init, PassOK, Calls
<1>2. Bounded
  <2>1. at = "connect" /\ left \in Nat /\ left <= 1 /\ spent = 0 /\ idle = 0
    BY DEF Init
  <2>2. Take(left, Operation) <= Operation /\ Take(left, Operation) \in Nat
    <3>1. Take(left, Operation) <= Take(1, Operation) /\ Take(left, Operation) \in Nat
      BY <2>1, ProductGrows, Product
    <3> QED
      BY <3>1, ProductOne
  <2>3. Ahead = Take(left, Operation) + SubscribeTime + ArmTime
    BY <2>1, <2>2 DEF Ahead
  <2> QED
    BY <2>1, <2>2, <2>3 DEF Bounded
<1> QED
  BY <1>1, <1>2 DEF SlowInv

(***************************************************************************)
(* How large stall_timeout has to be: when it is above the time that the   *)
(* calls of the slow devices take in the longest stretch between two marks,*)
(* each ended by its own timeout, the watchdog restarts no connector that  *)
(* does not hang (stall_limit, stall_watchdog, bounded, Progress).         *)
(***************************************************************************)
THEOREM SlowIsNotHung ==
    ASSUME StallLimit > Longest
    PROVE  Spec => NoFalseAlarm
<1>1. Init => SlowInv
  BY SlowInit
<1>2. SlowInv /\ [Next]_vars => SlowInv'
  BY PassStep, BoundedStep DEF SlowInv
<1>3. SlowInv /\ [Next]_vars => [at' = "stalled" => at \in {"wedged", "stalled"}]_vars
  <2> SUFFICES ASSUME SlowInv, Next, at' = "stalled", at \notin {"wedged", "stalled"}
               PROVE  FALSE
    OBVIOUS
  <2>1. StallWatchdog /\ idle >= StallLimit
    <3>1. CASE StallWatchdog
      BY <3>1 DEF StallWatchdog
    <3>2. CASE ~StallWatchdog
      BY <3>2 DEF Next, ConnectEnds, SubscribeEnds, Tick, ReadsEnd, HeartbeatsEnd, Restored,
                  ResubscribeEnds, ReconnectsEnd, OtherArm, Command, CommandEnds, CallEnds, Wedge,
                  Elapse, Restart, GoOn
    <3> QED
      BY <3>1, <3>2
  <2>2. Ahead \in Nat /\ idle \in Nat /\ idle + Ahead <= Longest
    BY AheadPositive DEF SlowInv, Bounded, PassOK
  <2> QED
    BY <2>1, <2>2, Times, LimitIsPositive
<1> QED
  BY <1>1, <1>2, <1>3, PTL DEF Spec, NoFalseAlarm
=============================================================================
