------------------------------ MODULE Profibus ------------------------------
(***************************************************************************)
(* The PROFIBUS-DP connector (connector-profibus): the connector answers   *)
(* reads and writes from the process images it shares with the bus thread, *)
(* which exchanges them with the peripherals cycle by cycle.               *)
(*                                                                         *)
(* A byte is a function from its Bits bits; an image of inputs is a value. *)
(* The station of a peripheral, its parameters and the frames on the bus   *)
(* are left out: an exchange with a peripheral succeeds or is lost.        *)
(***************************************************************************)
EXTENDS Naturals, FiniteSets

CONSTANTS
    Peripheral,
    Bits, ImageSize,      \* bits of a byte, bytes of an image of outputs
    MaxConnects, MaxWrites, MaxFaults

ASSUME ImageAssumption == Bits \in Nat \ {0} /\ ImageSize \in Nat

VARIABLES
    stage,     \* what the connector is doing: idle, stopping (the bus thread), waiting (for a cycle)
    goal,      \* what it does once the bus thread has stopped
    shared,    \* the state shared with the bus thread; on: there is one
    thread,    \* the bus thread: at, whether it has been told to stop, cycles completed
    turn,      \* peripherals not yet exchanged with, and not yet copied, in this cycle
    pi,        \* the thread's own images: i (inputs) and q (outputs)
    ready,     \* the readiness channel: none, sent or closed
    phy,       \* the byte stream: up, broken (not noticed yet), down
    backoff,   \* no attempt to open the stream is due yet
    station,   \* the peripherals: on, in (what they measure), out (what they were told)
    told,      \* history: what the successful writes of this connection add up to
    unsent,    \* history: peripherals written to since their outputs were last taken over
    latest,    \* history: the inputs a peripheral last sent
    reported,  \* what the last connect reported: none, connected or disconnected
    used       \* connects, writes and faults so far

vars == <<stage, goal, shared, thread, turn, pi, ready, phy, backoff, station, told, unsent, latest,
          reported, used>>

Byte == [0 .. Bits - 1 -> 0 .. 1]
Zero == [b \in 0 .. Bits - 1 |-> 0]
Zeroed == [i \in 0 .. ImageSize - 1 |-> Zero]
All(x) == [d \in Peripheral |-> x]

-----------------------------------------------------------------------------
(* Points and values.                                                      *)

None == [off |-> 0, cnt |-> 0]

\* The points a configuration may give a peripheral: cnt = 0 is no bit offset, size = 0 no datatype
\* (nor does the size of a bit field's datatype matter).
Forms == [start : 0 .. ImageSize, bit : {None}, size : 0 .. 2, typed : BOOLEAN, input : BOOLEAN,
          write : BOOLEAN]
    \union [start : 0 .. ImageSize, bit : [off : 0 .. Bits - 1, cnt : {1}], size : {0}, typed : BOOLEAN,
            input : BOOLEAN, write : BOOLEAN]

Configure(p) ==
    /\ ~(p.typed /\ p.size = 0 /\ p.bit = None)
    /\ ~(p.write /\ p.input)

Points == {p \in Forms : Configure(p)}

\* Grown with zeroes as far as the write needs.
WriteBytesInto(image, start, bytes) ==
    LET end == start + Cardinality(DOMAIN bytes)
        length == Cardinality(DOMAIN image)
    IN [i \in 0 .. (IF end > length THEN end ELSE length) - 1 |->
          IF i >= start /\ i < end THEN bytes[i - start] ELSE IF i < length THEN image[i] ELSE Zero]

Mask(p) == p.bit.off .. p.bit.off + p.bit.cnt - 1

EncodeField_WholeByte(p, image, byte) == [image EXCEPT ![p.start] =
    [b \in 0 .. Bits - 1 |-> IF b \in Mask(p) THEN byte[b - p.bit.off] ELSE 0]]
EncodeField(p, image, byte) == [image EXCEPT ![p.start] =
    [b \in 0 .. Bits - 1 |-> IF b \in Mask(p) THEN byte[b - p.bit.off] ELSE @[b]]]

Refused == [i \in {} |-> Zero]

\* encode_point: bytes is what the write carries, as raw bytes or as the encoding of a value.
EncodePoint(p, image, raw, bytes) ==
    IF raw THEN WriteBytesInto(image, p.start, bytes)
    ELSE IF p.bit # None
         THEN IF p.start < Cardinality(DOMAIN image) THEN EncodeField(p, image, bytes[0]) ELSE Refused
    ELSE IF p.size = Cardinality(DOMAIN bytes) THEN WriteBytesInto(image, p.start, bytes)
    ELSE Refused

-----------------------------------------------------------------------------
(* The connector.                                                          *)

Spend(what, max) == used[what] < max /\ used' = [used EXCEPT ![what] = @ + 1]

\* connect and disconnect first stop the bus thread: the flag, then the join.
Begin(what) ==
    /\ stage = "idle" /\ Spend("connects", MaxConnects)
    /\ stage' = "stopping" /\ goal' = what
    /\ thread' = [thread EXCEPT !.stop = TRUE]
    /\ UNCHANGED <<shared, turn, pi, ready, phy, backoff, station, told, unsent, latest, reported>>

Joined_AtOnce == stage = "stopping"
Joined == stage = "stopping" /\ thread.at = "none"

Disconnect ==
    /\ Joined /\ goal = "disconnect"
    /\ stage' = "idle" /\ goal' = "" /\ reported' = "none"
    /\ shared' = [shared EXCEPT !.on = FALSE]
    /\ UNCHANGED <<thread, turn, pi, ready, phy, backoff, station, told, unsent, latest, used>>

Spawn ==
    /\ Joined /\ goal = "connect"
    /\ stage' = "waiting" /\ reported' = "none"
    /\ shared' = [on |-> TRUE, inputs |-> All(0), outputs |-> All(Zeroed), link |-> All("unknown")]
    /\ thread' = [at |-> "opening", stop |-> FALSE, cycles |-> 0]
    /\ turn' = [exchange |-> Peripheral, copy |-> {}]
    /\ pi' = [i |-> All(0), q |-> All(Zeroed)]
    /\ ready' = "none" /\ backoff' = FALSE
    /\ told' = All(Zeroed) /\ unsent' = {} /\ latest' = All(0)
    /\ UNCHANGED <<goal, phy, station, used>>

\* The first cycle, the thread's end or thirty seconds end the wait.
Answer(status) ==
    /\ stage = "waiting"
    /\ status = "connected" <=> ready = "sent"
    /\ stage' = "idle" /\ goal' = "" /\ reported' = status
    /\ UNCHANGED <<shared, thread, turn, pi, ready, phy, backoff, station, told, unsent, latest, used>>

Bad == [good |-> FALSE, from |-> 0]
Good(inputs) == [good |-> TRUE, from |-> inputs]

\* A point is decoded if it lies within the image.
DecodePoint(p, inputs) ==
    IF (p.bit # None /\ p.start < ImageSize) \/ (p.bit = None /\ p.start + p.size <= ImageSize)
    THEN Good(inputs) ELSE Bad

\* What a read of a point answers: its quality and the inputs it is decoded from.
ReadPoint(d, p) ==
    IF ~p.input \/ ~shared.on \/ shared.link[d] # "connected" THEN Bad
    ELSE DecodePoint(p, shared.inputs[d])

\* Whole bytes are written with all their bits set, single bits with either value.
Written == {[i \in 0 .. n - 1 |-> [b \in 0 .. Bits - 1 |-> v]] : n \in 1 .. 2, v \in 0 .. 1}

\* The write changes the shared outputs, which the thread takes over in its next cycle.
Execute(d) ==
    /\ stage = "idle" /\ shared.on /\ Spend("writes", MaxWrites)
    /\ \E p \in {x \in Points : x.write /\ x.typed}, raw \in BOOLEAN, bytes \in Written :
       LET image == EncodePoint(p, shared.outputs[d], raw, bytes)
       IN /\ image # Refused
          /\ shared' = [shared EXCEPT !.outputs[d] = image]
          /\ told' = [told EXCEPT ![d] = [i \in 0 .. ImageSize - 1 |-> [b \in 0 .. Bits - 1 |->
                LET bitwise == ~raw /\ p.bit # None
                IN IF bitwise /\ i = p.start /\ b = p.bit.off THEN bytes[0][0]
                   ELSE IF ~bitwise /\ i >= p.start /\ i - p.start \in DOMAIN bytes THEN bytes[i - p.start][b]
                   ELSE @[i][b]]]]
    /\ unsent' = unsent \union {d}
    /\ UNCHANGED <<stage, goal, thread, turn, pi, ready, phy, backoff, station, latest, reported>>

-----------------------------------------------------------------------------
(* The bus thread.                                                         *)

\* The stream is opened at the start, for at most ten seconds, and otherwise the thread panics.
Online ==
    /\ thread.at = "opening"
    /\ thread' = [thread EXCEPT !.at = "loop"] /\ phy' = "up"
    /\ UNCHANGED <<stage, goal, shared, turn, pi, ready, backoff, station, told, unsent, latest,
                   reported, used>>

Faulted_Kept == shared.link
Faulted == All("fault")

Panic ==
    /\ thread.at \in {"opening", "loop"} /\ Spend("faults", MaxFaults)
    /\ thread' = [thread EXCEPT !.at = "none"]
    /\ shared' = [shared EXCEPT !.link = Faulted]
    /\ ready' = IF ready = "none" THEN "closed" ELSE ready
    /\ UNCHANGED <<stage, goal, turn, pi, phy, backoff, station, told, unsent, latest, reported>>

\* The peripherals are gone through in the order they were added.
IsNext(d, left) == left # {} /\ d = CHOOSE x \in left : TRUE

\* TcpPhy::stream and drop_stream: a lost stream is noticed when it is used, and opened again after
\* a delay.
Use ==
    CASE phy = "up" -> phy' = "up" /\ UNCHANGED backoff
      [] phy = "broken" -> phy' = "down" /\ backoff' = TRUE
      [] phy = "down" /\ backoff -> UNCHANGED <<phy, backoff>>
      [] OTHER -> phy' \in {"up", "down"} /\ backoff' = TRUE

\* fdl.poll: the exchange with one peripheral, or its loss.
Exchange(d) ==
    /\ thread.at = "loop" /\ ~thread.stop /\ IsNext(d, turn.exchange)
    /\ phy = "up" /\ station[d].on
    /\ station' = [station EXCEPT ![d].out = pi.q[d]]
    /\ pi' = [pi EXCEPT !.i[d] = station[d].in]
    /\ latest' = [latest EXCEPT ![d] = station[d].in]
    /\ turn' = [turn EXCEPT !.exchange = @ \ {d}]
    /\ UNCHANGED <<stage, goal, shared, thread, ready, phy, backoff, told, unsent, reported, used>>

Lost(d) ==
    /\ thread.at = "loop" /\ ~thread.stop /\ IsNext(d, turn.exchange)
    /\ Use
    /\ turn' = [turn EXCEPT !.exchange = @ \ {d}]
    /\ UNCHANGED <<stage, goal, shared, thread, pi, ready, station, told, unsent, latest, reported, used>>

CycleCompletes ==
    /\ thread.at = "loop" /\ ~thread.stop /\ turn.exchange = {}
    /\ thread' = [thread EXCEPT !.at = "cycle", !.cycles = 1]
    /\ turn' = [turn EXCEPT !.copy = Peripheral]
    /\ UNCHANGED <<stage, goal, shared, pi, ready, phy, backoff, station, told, unsent, latest,
                   reported, used>>

\* Under the lock the inputs are given out and the outputs taken; between two peripherals it is free.
Copied_FirstCycle(d) == IF shared.link[d] = "connected" THEN shared.inputs[d] ELSE pi.i[d]
Copied(d) == pi.i[d]
Taken_Grown(d) == IF DOMAIN shared.outputs[d] = 0 .. ImageSize - 1 THEN shared.outputs[d] ELSE pi.q[d]
Taken(d) == [i \in 0 .. ImageSize - 1 |-> shared.outputs[d][i]]

Copy(d) ==
    /\ thread.at = "cycle" /\ IsNext(d, turn.copy)
    /\ shared' = [shared EXCEPT !.inputs[d] = Copied(d), !.link[d] = "connected"]
    /\ pi' = [pi EXCEPT !.q[d] = Taken(d)]
    /\ unsent' = unsent \ {d}
    /\ turn' = [turn EXCEPT !.copy = @ \ {d}]
    /\ UNCHANGED <<stage, goal, thread, ready, phy, backoff, station, told, latest, reported, used>>

Signal ==
    /\ thread.at = "cycle" /\ turn.copy = {}
    /\ thread' = [thread EXCEPT !.at = "loop"]
    /\ turn' = [turn EXCEPT !.exchange = Peripheral]
    /\ ready' = IF ready = "none" THEN "sent" ELSE ready
    /\ UNCHANGED <<stage, goal, shared, pi, phy, backoff, station, told, unsent, latest, reported, used>>

\* The flag is looked at between two polls.
Ends ==
    /\ thread.at = "loop" /\ thread.stop
    /\ thread' = [thread EXCEPT !.at = "none"]
    /\ ready' = IF ready = "none" THEN "closed" ELSE ready
    /\ UNCHANGED <<stage, goal, shared, turn, pi, phy, backoff, station, told, unsent, latest, reported, used>>

-----------------------------------------------------------------------------
(* The plant.                                                              *)

Plant(d) ==
    /\ Spend("faults", MaxFaults)
    /\ \E on \in BOOLEAN, in \in 0 .. 1 : station' = [station EXCEPT ![d].on = on, ![d].in = in]
    /\ UNCHANGED <<stage, goal, shared, thread, turn, pi, ready, phy, backoff, told, unsent, latest, reported>>

StreamBreaks ==
    /\ phy = "up" /\ Spend("faults", MaxFaults) /\ phy' = "broken"
    /\ UNCHANGED <<stage, goal, shared, thread, turn, pi, ready, backoff, station, told, unsent, latest,
                   reported>>

BackoffOver ==
    /\ backoff /\ backoff' = FALSE
    /\ UNCHANGED <<stage, goal, shared, thread, turn, pi, ready, phy, station, told, unsent, latest,
                   reported, used>>

-----------------------------------------------------------------------------
Init ==
    /\ stage = "idle" /\ goal = "" /\ ready = "none" /\ phy = "down" /\ backoff = FALSE
    /\ shared = [on |-> FALSE, inputs |-> All(0), outputs |-> All(Zeroed), link |-> All("unknown")]
    /\ thread = [at |-> "none", stop |-> FALSE, cycles |-> 0]
    /\ turn = [exchange |-> Peripheral, copy |-> {}]
    /\ pi = [i |-> All(0), q |-> All(Zeroed)]
    /\ station = All([on |-> TRUE, in |-> 1, out |-> Zeroed])
    /\ told = All(Zeroed) /\ unsent = {} /\ latest = All(0) /\ reported = "none"
    /\ used = [connects |-> 0, writes |-> 0, faults |-> 0]

Next ==
    \/ \E what \in {"connect", "disconnect"} : Begin(what)
    \/ Disconnect
    \/ Spawn
    \/ \E status \in {"connected", "disconnected"} : Answer(status)
    \/ \E d \in Peripheral : Execute(d)
    \/ Online
    \/ Panic
    \/ \E d \in Peripheral : Exchange(d) \/ Lost(d) \/ Copy(d) \/ Plant(d)
    \/ CycleCompletes
    \/ Signal
    \/ Ends
    \/ StreamBreaks
    \/ BackoffOver

Spec == Init /\ [][Next]_vars

-----------------------------------------------------------------------------
(* Properties.                                                             *)

\* Once the thread has taken over the outputs of a peripheral, every exchange carries exactly what
\* the writes of this connection add up to, each write leaving the bits it does not address alone.
WritesReach == \A d \in Peripheral : thread.at # "none" /\ d \notin unsent => pi.q[d] = told[d]

\* Between two cycles a good read gives the inputs the peripheral last sent; and none is good before
\* the first cycle, after the thread has failed, or once the connector is disconnected.
ReadsCurrent == \A d \in Peripheral : \A p \in {x \in Points : x.input} : ReadPoint(d, p).good =>
    /\ thread.cycles > 0 /\ (thread.at # "none" \/ thread.stop)
    /\ thread.at = "loop" /\ turn.exchange = Peripheral => ReadPoint(d, p).from = latest[d]

\* A connect that reported its peripherals connected has seen a whole cycle.
ReportTrue == reported = "connected" => \A d \in Peripheral : shared.link[d] \in {"connected", "fault"}

\* Nothing is sent on the bus once disconnect has returned.
Stopped == ~shared.on => thread.at = "none"

\* Exchanges carry what the writes add up to, a good read is what the peripheral last sent, a connect
\* reports what it has seen, and nothing is sent once disconnect has returned.
ProfibusSound == WritesReach /\ ReadsCurrent /\ ReportTrue /\ Stopped
=============================================================================
