------------------------------- MODULE Modbus -------------------------------
(***************************************************************************)
(* The Modbus connector (connector-modbus): a reader task and the          *)
(* connector's own commands share the connection of a device, a request at *)
(* a time, under a bound on the time a request may take.                   *)
(*                                                                         *)
(* The device has one holding register, of Bits bits, and one coil. A      *)
(* request that is given up is still served, and its answer comes later.   *)
(***************************************************************************)
EXTENDS Naturals, Sequences, FiniteSets

CONSTANTS
    Bits, Start, Count,   \* the register, and the bit field that may be written in it
    Batch,                \* the points of a read: "holding", "coil", "unknown"
    MaxOpened, MaxRequests, MaxFaults

VARIABLES
    transport,   \* "tcp", "rtu", or "none" before configure
    current,     \* the connection of the device, 0 for none
    opened,      \* connections opened so far
    held,        \* by connection: who holds its lock
    asked,       \* by connection: the requests not served yet
    answers,     \* by connection: the answers not taken yet
    reading,     \* the read in progress: its connection, its samples; waits: for which answer
    command,     \* the connector's own operation in progress
    holding, coil,   \* the device
    requests, faults,
    slipped,     \* history: the connections on which a request was given up
    harmed       \* history: a write changed bits it should have left alone

vars == <<transport, current, opened, held, asked, answers, reading, command, holding, coil, requests, faults,
          slipped, harmed>>

Nobody == "nobody"
Idle == [at |-> "idle", on |-> 0, verb |-> "none", value |-> 0, waits |-> 0]
NoRead == [at |-> "idle", on |-> 0, samples |-> << >>, dead |-> FALSE, waits |-> 0]

-----------------------------------------------------------------------------
(* Points and values.                                                      *)

Tables == {"coil", "discrete", "holding", "input"}
IsBit(table) == table \in {"coil", "discrete"}
IsWritable(table) == table \in {"coil", "holding"}

\* A point: bytes = 0 is no datatype, count = 0 is none configured.
Forms == [table : Tables, bytes : {0, 1, 2, 4, 8}, count : 0 .. 2, typed : BOOLEAN, write : BOOLEAN]

Configure(p) ==
    /\ ~(p.typed /\ p.bytes = 0 /\ ~IsBit(p.table))
    /\ ~(p.write /\ ~IsWritable(p.table))

RegisterCount_Floor(p) == IF p.count > 0 THEN p.count ELSE IF p.typed THEN p.bytes \div 2 ELSE 1
RegisterCount(p) == IF p.count > 0 THEN p.count ELSE IF p.typed THEN (p.bytes + 1) \div 2 ELSE 1

Field(r) == (r \div 2 ^ Start) % 2 ^ Count
Outside(r) == <<r % 2 ^ Start, (r \div 2 ^ Start) \div 2 ^ Count>>
Fits(v) == v < 2 ^ Count
Merged_Whole(r, v) == v * 2 ^ Start
Merged(r, v) == r - Field(r) * 2 ^ Start + v * 2 ^ Start

-----------------------------------------------------------------------------
(* The line of a connection and the device behind it.                      *)

Ask(on, what, value) ==
    /\ requests < MaxRequests /\ requests' = requests + 1
    /\ asked' = [asked EXCEPT ![on] = Append(@, [id |-> requests + 1, what |-> what, value |-> value])]
    /\ UNCHANGED answers

\* The device serves the requests of a connection in order, and may never answer one.
Serve(on) ==
    /\ asked[on] # << >>
    /\ LET request == Head(asked[on])
           value == IF request.what = "read_coil" THEN coil ELSE holding
       IN /\ asked' = [asked EXCEPT ![on] = Tail(@)]
          /\ \/ answers' = [answers EXCEPT ![on] = Append(@, [id |-> request.id, value |-> value])]
                /\ UNCHANGED faults
             \/ faults < MaxFaults /\ faults' = faults + 1 /\ UNCHANGED answers
          /\ holding' = IF request.what \in {"write", "write_field"} THEN request.value ELSE holding
          /\ coil' = IF request.what = "write_coil" THEN request.value ELSE coil
          /\ harmed' = \/ harmed
                        \/ /\ request.what = "write_field" /\ Outside(request.value) # Outside(holding)
                           /\ \/ slipped = {}
                              \/ transport = "tcp" /\ slipped = {opened} /\ on = opened
    /\ UNCHANGED <<transport, current, opened, held, reading, command, requests, slipped>>

\* The next answer on the line is taken for the one waited for, unless its id tells it is another's.
Accepted(id, answer) == transport = "rtu" \/ answer.id = id

-----------------------------------------------------------------------------
(* A read: ModbusReader and read_models.                                   *)

StartRead ==
    /\ reading.at = "idle" /\ transport # "none"
    /\ reading' = IF current = 0
          THEN [NoRead EXCEPT !.at = "done", !.samples = [i \in DOMAIN Batch |-> "not_connected"]]
          ELSE [NoRead EXCEPT !.at = "lock", !.on = current]
    /\ UNCHANGED <<transport, current, opened, held, asked, answers, command, holding, coil, requests, faults,
                   slipped, harmed>>

Free_Always(on) == TRUE
Free(on) == held[on] = Nobody

LockForRead ==
    /\ reading.at = "lock" /\ Free(reading.on)
    /\ held' = [held EXCEPT ![reading.on] = "reader"]
    /\ reading' = [reading EXCEPT !.at = "next"]
    /\ UNCHANGED <<transport, current, opened, asked, answers, command, holding, coil, requests, faults, slipped,
                   harmed>>

Sampled(sample) == [reading EXCEPT !.samples = Append(@, sample), !.at = "next", !.waits = 0]

\* The next point: an unknown one, or one after a request that timed out, is not asked for.
ReadOne ==
    /\ reading.at = "next" /\ Len(reading.samples) < Len(Batch)
    /\ LET point == Batch[Len(reading.samples) + 1]
       IN IF point = "unknown" \/ reading.dead
          THEN reading' = Sampled(IF point = "unknown" THEN "unknown" ELSE "skipped")
               /\ UNCHANGED <<requests, asked, answers>>
          ELSE Ask(reading.on, IF point = "coil" THEN "read_coil" ELSE "read_holding", 0)
               /\ reading' = [reading EXCEPT !.at = "wait", !.waits = requests + 1]
    /\ UNCHANGED <<transport, current, opened, held, command, holding, coil, faults, slipped, harmed>>

TakeAnswer(on) == answers' = [answers EXCEPT ![on] = Tail(@)] /\ UNCHANGED asked

ReadAnswered ==
    /\ reading.at = "wait" /\ answers[reading.on] # << >>
    /\ LET answer == Head(answers[reading.on])
       IN \/ reading' = Sampled("error")
          \/ Accepted(reading.waits, answer)
             /\ reading' = Sampled(IF answer.id = reading.waits THEN "good" ELSE "anothers")
    /\ TakeAnswer(reading.on)
    /\ UNCHANGED <<transport, current, opened, held, command, holding, coil, requests, faults, slipped,
                   harmed>>

TimedOut_GoesOn(sample) == Sampled(sample)
TimedOut(sample) == [Sampled(sample) EXCEPT !.dead = TRUE]

ReadTimesOut ==
    /\ reading.at = "wait"
    /\ reading' = TimedOut("timeout")
    /\ slipped' = slipped \union {reading.on}
    /\ UNCHANGED <<transport, current, opened, held, asked, answers, command, holding, coil, requests, faults, harmed>>

ReadEnds ==
    /\ reading.at = "next" /\ Len(reading.samples) = Len(Batch)
    /\ reading' = [reading EXCEPT !.at = "done"]
    /\ held' = [held EXCEPT ![reading.on] = Nobody]
    /\ UNCHANGED <<transport, current, opened, asked, answers, command, holding, coil, requests, faults, slipped,
                   harmed>>

Delivered ==
    /\ reading.at = "done" /\ reading' = NoRead
    /\ UNCHANGED <<transport, current, opened, held, asked, answers, command, holding, coil, requests, faults,
                   slipped, harmed>>

-----------------------------------------------------------------------------
(* The connector's own operations, one at a time.                          *)

ConfigureDevice(t) ==
    /\ transport = "none" /\ transport' = t
    /\ UNCHANGED <<current, opened, held, asked, answers, reading, command, holding, coil, requests, faults,
                   slipped, harmed>>

\* connect keeps the connection there is until it has another, reconnect gives it up first.
BeginConnect(verb) ==
    /\ command = Idle /\ transport # "none" /\ opened < MaxOpened
    /\ command' = [Idle EXCEPT !.at = "connect"]
    /\ current' = IF verb = "reconnect" THEN 0 ELSE current
    /\ UNCHANGED <<transport, opened, held, asked, answers, reading, holding, coil, requests, faults, slipped, harmed>>

BuildContext ==
    /\ command.at = "connect" /\ command' = Idle
    /\ \/ current' = opened + 1 /\ opened' = opened + 1 /\ UNCHANGED faults
       \/ faults < MaxFaults /\ faults' = faults + 1 /\ UNCHANGED <<current, opened>>
    /\ UNCHANGED <<transport, held, asked, answers, reading, holding, coil, requests, slipped, harmed>>

Disconnect ==
    /\ command = Idle /\ current # 0 /\ current' = 0
    /\ UNCHANGED <<transport, opened, held, asked, answers, reading, command, holding, coil, requests, faults,
                   slipped, harmed>>

\* execute: verb is what is written, the register, the coil or the bit field of the register.
Execute(verb, value) ==
    /\ command = Idle /\ current # 0 /\ requests < MaxRequests
    /\ command' = [at |-> "lock", on |-> current, verb |-> verb, value |-> value, waits |-> 0]
    /\ UNCHANGED <<transport, current, opened, held, asked, answers, reading, holding, coil, requests, faults,
                   slipped, harmed>>

LockForWrite ==
    /\ command.at = "lock" /\ Free(command.on)
    /\ held' = [held EXCEPT ![command.on] = "command"]
    /\ command' = [command EXCEPT !.at = IF command.verb = "write_field" THEN "look" ELSE "write"]
    /\ UNCHANGED <<transport, current, opened, asked, answers, reading, holding, coil, requests, faults, slipped,
                   harmed>>

\* The first request of a write of a bit field reads the register, the last request writes.
WritePoint ==
    /\ command.at \in {"look", "write"}
    /\ IF command.at = "look" THEN Ask(command.on, "read_holding", 0)
       ELSE Ask(command.on, command.verb, command.value)
    /\ command' = [command EXCEPT !.waits = requests + 1,
                                  !.at = IF command.at = "look" THEN "looking" ELSE "writing"]
    /\ UNCHANGED <<transport, current, opened, held, reading, holding, coil, faults, slipped, harmed>>

Unlocked == held' = [held EXCEPT ![command.on] = Nobody]

\* A value that does not fit the field fails, and so does a request answered with an exception.
WriteAnswered ==
    /\ command.at \in {"looking", "writing"} /\ answers[command.on] # << >>
    /\ LET answer == Head(answers[command.on])
       IN \/ command.at = "looking" /\ Accepted(command.waits, answer) /\ Fits(command.value)
             /\ command' = [command EXCEPT !.at = "write", !.value = Merged(answer.value, @)]
             /\ UNCHANGED held
          \/ command' = Idle /\ Unlocked
    /\ TakeAnswer(command.on)
    /\ UNCHANGED <<transport, current, opened, reading, holding, coil, requests, faults, slipped, harmed>>

WriteTimesOut ==
    /\ command.at \in {"look", "looking", "write", "writing"}
    /\ command' = Idle /\ Unlocked
    /\ slipped' = slipped \union {command.on}
    /\ UNCHANGED <<transport, current, opened, asked, answers, reading, holding, coil, requests, faults, harmed>>

-----------------------------------------------------------------------------
Init ==
    /\ transport = "none" /\ current = 0 /\ opened = 0
    /\ held = [c \in 1 .. MaxOpened |-> Nobody]
    /\ asked = [c \in 1 .. MaxOpened |-> << >>] /\ answers = asked
    /\ reading = NoRead /\ command = Idle
    /\ holding = 2 ^ Bits - 1 /\ coil = 0
    /\ requests = 0 /\ faults = 0 /\ slipped = {} /\ harmed = FALSE

Next ==
    \/ \E t \in {"tcp", "rtu"} : ConfigureDevice(t)
    \/ \E c \in 1 .. MaxOpened : Serve(c)
    \/ StartRead
    \/ LockForRead
    \/ ReadOne
    \/ ReadAnswered
    \/ ReadTimesOut
    \/ ReadEnds
    \/ Delivered
    \/ \E verb \in {"connect", "reconnect"} : BeginConnect(verb)
    \/ BuildContext
    \/ Disconnect
    \/ Execute("write", 0) \/ Execute("write_coil", 1)
    \/ \E v \in {1, 2 ^ Count} : Execute("write_field", v)
    \/ LockForWrite
    \/ WritePoint
    \/ WriteAnswered
    \/ WriteTimesOut

Spec == Init /\ [][Next]_vars

-----------------------------------------------------------------------------
(* Properties.                                                             *)

\* A read answers for each of its points, and asks for nothing more once a request has timed out.
EveryPoint ==
    LET s == reading.samples
    IN /\ reading.at = "done" => Len(s) = Len(Batch)
       /\ \A i, j \in DOMAIN s : s[i] = "timeout" /\ i < j => s[j] \in {"skipped", "unknown"}

\* A good sample is the answer to its own request; on a serial line this is so as long as no
\* request has been given up on the connection.
OwnAnswer == \A i \in DOMAIN reading.samples :
    reading.samples[i] = "anothers" => transport = "rtu" /\ reading.on \in slipped

\* Only the holder of the lock has a request on a connection.
OneRequest == \A c \in 1 .. MaxOpened :
    /\ Cardinality({x \in {<<"reader", reading.on, reading.waits>>, <<"command", command.on, command.waits>>} :
                        x[2] = c /\ x[3] # 0}) <= 1
    /\ c \notin slipped => Len(asked[c]) + Len(answers[c]) <= 1

\* A write of a bit field changes no other bit, unless a request had been given up: on an
\* earlier connection, or on the same one of a serial line.
FieldOnly == ~harmed

\* A typed value is read whole unless the point says how many registers to read.
WholeValue == \A p \in Forms : Configure(p) /\ ~IsBit(p.table) /\ p.typed /\ p.count = 0 =>
    2 * RegisterCount(p) >= p.bytes

ModbusSound == EveryPoint /\ OwnAnswer /\ OneRequest /\ FieldOnly /\ (command.at = "connect" => WholeValue)
=============================================================================
