------------------------------- MODULE Canbus -------------------------------
(***************************************************************************)
(* The CAN bus connector (connector-canbus): a task per subscription gives *)
(* out the signals of the frames it receives and keeps the last frame of   *)
(* each message, into which a write of one signal is put.                  *)
(*                                                                         *)
(* One device, with one message of Octets bytes of Octet bits. A signal is *)
(* given by its position in the message; the database of messages and the  *)
(* identifiers are left out.                                               *)
(***************************************************************************)
EXTENDS Integers, Sequences, FiniteSets, FiniteSetsExt

CONSTANTS Octet, Octets, MaxConnects, MaxFrames, MaxFaults

VARIABLES
    state,     \* the device's state: its cache of frames and its task, 0 for none
    caches,    \* the caches made so far, each the last frame or << >>
    loops,     \* the tasks started so far: cache, running, and the frames not taken yet
    frames,    \* frames on the bus so far
    faults,
    last,      \* history: the last frame the task of the subscription took
    written,   \* history: what the last write went by: its base and what it sent
    stray      \* history: tasks whose handle was dropped by another connect

vars == <<state, caches, loops, frames, faults, last, written, stray>>

N == Octet * Octets
Frame == [0 .. N - 1 -> 0 .. 1]
Zero == [b \in 0 .. N - 1 |-> 0]

-----------------------------------------------------------------------------
(* Signals.                                                                *)

\* A signal as it comes from the database: nothing checks where its bits lie.
Signals == [start : 0 .. N - 1, count : 1 .. N, order : {"intel", "motorola"}]

\* The number of a signal's bit i, counted from the least significant one.
Number_MotorolaUp(s, i) == IF s.order = "intel" THEN s.start + i ELSE s.start - i
Number(s, i) == IF s.order = "intel" THEN s.start + i ELSE s.start - (s.count - 1 - i)

\* The bit of the frame with that number. Below zero the byte is rounded towards 0 and the bit in it
\* is what a shift keeps of a negative number, so the first octet is met again (a build that checks
\* shifts panics instead); other numbers outside the frame are no bit of it.
Position(s, i) == LET n == Number(s, i) IN IF n \in 1 - Octet .. -1 THEN n + Octet ELSE n

\* The signal's bits that are written to, or taken from, bit b of the frame.
BitsAt(s, b) == {i \in 0 .. s.count - 1 : Position(s, i) = b}

\* A bit that is not in the frame is 0.
Extract(frame, s) ==
    MapThenSumSet(LAMBDA i : 2 ^ i * frame[Position(s, i)], UNION {BitsAt(s, b) : b \in 0 .. N - 1})

\* The least significant bit is written last.
Encode_WholeByte(frame, s, bits) == [b \in 0 .. N - 1 |->
    IF BitsAt(s, b) # {} THEN (bits \div 2 ^ Min(BitsAt(s, b))) % 2
    ELSE IF b \div Octet = s.start \div Octet THEN 0 ELSE frame[b]]
Encode(frame, s, bits) == [b \in 0 .. N - 1 |->
    IF BitsAt(s, b) # {} THEN (bits \div 2 ^ Min(BitsAt(s, b))) % 2 ELSE frame[b]]

SignExtend_OffByOne(v, count) == IF v > 2 ^ (count - 1) THEN v - 2 ^ count ELSE v
SignExtend(v, count) == IF v >= 2 ^ (count - 1) THEN v - 2 ^ count ELSE v

Decode(v, dt, s) == IF dt = "int" THEN SignExtend(v, s.count) ELSE v
ValueToBits(v, s) == v % 2 ^ s.count
Values(dt, s) == IF dt = "int" THEN -(2 ^ (s.count - 1)) .. 2 ^ (s.count - 1) - 1 ELSE 0 .. 2 ^ s.count - 1

\* How a database of messages numbers the bits of a Motorola signal: from the highest bit down, and on
\* from the lowest bit of a byte to the highest of the next one.
Dbc(s) ==
    LET place == (s.start \div Octet) * Octet + (Octet - 1 - (s.start % Octet))
    IN [i \in 0 .. s.count - 1 |->
          LET p == place + s.count - 1 - i IN (p \div Octet) * Octet + (Octet - 1 - (p % Octet))]

-----------------------------------------------------------------------------
(* The connector.                                                          *)

Off == [on |-> FALSE, cache |-> 0, task |-> 0]

\* Every connect gives the device a new state; the handle of a task in the old one is dropped,
\* which leaves the task running. An interface that cannot be opened leaves the old state.
Connect ==
    /\ Len(caches) < MaxConnects
    /\ state' = [on |-> TRUE, cache |-> Len(caches) + 1, task |-> 0]
    /\ caches' = Append(caches, << >>)
    /\ stray' = IF state.task = 0 THEN stray ELSE stray \union {state.task}
    /\ UNCHANGED <<loops, frames, faults, last, written>>

Aborted_Detached(l) == l
Aborted(l) == [l EXCEPT !.running = FALSE, !.queue = << >>]

Disconnect ==
    /\ state.on /\ state' = Off
    /\ loops' = [l \in DOMAIN loops |-> IF l = state.task THEN Aborted(loops[l]) ELSE loops[l]]
    /\ UNCHANGED <<caches, frames, faults, last, written, stray>>

Subscribe ==
    /\ state.on /\ state.task = 0 /\ Len(loops) < MaxConnects
    /\ state' = [state EXCEPT !.task = Len(loops) + 1]
    /\ loops' = Append(loops, [cache |-> state.cache, running |-> TRUE, queue |-> << >>])
    /\ last' = << >>
    /\ UNCHANGED <<caches, frames, faults, written, stray>>

\* A frame reaches every task that listens, also one that is sent by this connector.
OnBus(frame) ==
    /\ frames < MaxFrames /\ frames' = frames + 1
    /\ loops' = [l \in DOMAIN loops |->
          IF loops[l].running THEN [loops[l] EXCEPT !.queue = Append(@, frame)] ELSE loops[l]]

Arrives(frame) ==
    /\ OnBus(frame)
    /\ UNCHANGED <<state, caches, faults, last, written, stray>>

Kept_First(cache, frame) == IF cache = << >> THEN frame ELSE cache
Kept(cache, frame) == frame

\* subscribe_loop: the frame is kept, then its signals are given out.
Take(l) ==
    /\ loops[l].running /\ loops[l].queue # << >>
    /\ LET frame == Head(loops[l].queue)
       IN /\ caches' = [caches EXCEPT ![loops[l].cache] = Kept(@, frame)]
          /\ last' = IF l = state.task THEN frame ELSE last
    /\ loops' = [loops EXCEPT ![l].queue = Tail(@)]
    /\ UNCHANGED <<state, frames, faults, written, stray>>

\* A receive error ends the task, after a bad sample for each of its points.
ReceiveError(l) ==
    /\ loops[l].running /\ faults < MaxFaults /\ faults' = faults + 1
    /\ loops' = [loops EXCEPT ![l].running = FALSE]
    /\ UNCHANGED <<state, caches, frames, last, written, stray>>

\* A write puts the signal into the last frame received, or into zeroes.
Base(cache) == IF caches[cache] = << >> THEN Zero ELSE caches[cache]

Execute(s, v) ==
    /\ state.on
    /\ LET frame == Encode(Base(state.cache), s, ValueToBits(v, s))
       IN OnBus(frame)
          /\ written' = [base |-> IF last = << >> THEN Zero ELSE last, signal |-> s, value |-> v,
                         frame |-> frame,
                         own |-> state.task # 0 /\ loops[state.task].cache = state.cache]
    /\ UNCHANGED <<state, caches, faults, last, stray>>

-----------------------------------------------------------------------------
Nothing == [base |-> Zero, signal |-> [start |-> 0, count |-> 1, order |-> "intel"], value |-> 0,
            frame |-> Zero, own |-> FALSE]

Init ==
    /\ state = Off /\ caches = << >> /\ loops = << >> /\ frames = 0 /\ faults = 0
    /\ last = << >> /\ written = Nothing /\ stray = {}

\* The frames of the bus are told apart by their second and last bit; the signals written are the
\* lowest bit and two that begin with the highest bit of a byte and pass out of it.
Next ==
    \/ Connect
    \/ Disconnect
    \/ Subscribe
    \/ \E a, b \in 0 .. 1 : Arrives([Zero EXCEPT ![1] = a, ![N - 1] = b])
    \/ \E l \in DOMAIN loops : Take(l) \/ ReceiveError(l)
    \/ \E v \in 0 .. 1 : Execute([start |-> 0, count |-> 1, order |-> "intel"], v)
    \/ \E start \in {Octet - 1, 2 * Octet - 1} :
          Execute([start |-> start, count |-> Octet + 1, order |-> "motorola"], 1)

-----------------------------------------------------------------------------
(* Properties.                                                             *)

\* Every bit of the signal has its own place in the frame.
Fits(s) == \A i \in 0 .. s.count - 1 : Number(s, i) \in 0 .. N - 1

\* A write under its own subscription sends the last frame that was received, with no bit changed
\* but those of the signal written; they hold the value, if the signal fits.
NeighboursKept == written.own =>
    /\ Fits(written.signal) => Extract(written.frame, written.signal) = written.value
    /\ \A b \in 0 .. N - 1 :
          (\A i \in 0 .. written.signal.count - 1 : Position(written.signal, i) # b) =>
              written.frame[b] = written.base[b]

\* No task outlives its subscription, but for one whose handle another connect has dropped.
TasksEnd == \A l \in DOMAIN loops : loops[l].running => l = state.task \/ l \in stray

\* A value in the range of a signal that fits is read back as it was written.
ReadsBack == \A s \in Signals, dt \in {"int", "uint"} : Fits(s) =>
    \A v \in Values(dt, s) : Decode(Extract(Encode(Zero, s, ValueToBits(v, s)), s), dt, s) = v

\* A Motorola signal has its bits where the database of messages puts them if they are all in one byte,
\* and only then: the code goes on in the byte below, against what its comments say.
OneByte(s) == \A i \in 0 .. s.count - 1 : Dbc(s)[i] \div Octet = s.start \div Octet
BytesAsInDatabase == \A s \in Signals : s.order = "motorola" =>
    (OneByte(s) <=> \A i \in 0 .. s.count - 1 : Position(s, i) = Dbc(s)[i])

CanbusSound == NeighboursKept /\ TasksEnd /\ (frames = 0 => ReadsBack /\ BytesAsInDatabase)
=============================================================================
