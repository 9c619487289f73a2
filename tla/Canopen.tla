------------------------------ MODULE Canopen ------------------------------
(***************************************************************************)
(* The CANopen connector (connector-canopen): one thread per open bus      *)
(* serves the requests of its handle in turn; the connector waits for each *)
(* answer, and the runtime may give the wait up.                           *)
(*                                                                         *)
(* One node with one object, whose value is the number of the write that   *)
(* set it. A request that has been given up is served nevertheless.        *)
(***************************************************************************)
EXTENDS Naturals, Sequences

CONSTANTS Batch, MaxBuses, MaxRequests, MaxFaults

VARIABLES
    buses,      \* the buses opened: whether each has a handle, and its thread runs
    queue,      \* by bus: the requests queued for its thread
    bus,        \* the bus of the connector, 0 for none
    op,         \* what the connector is doing, on which bus, and for which answer it waits
    answer,     \* what that answer is: << >>, or <<ok, value>>
    samples,    \* the samples of a read so far
    object,     \* the value of the object
    requests, faults,
    confirmed,  \* history: the write last answered successful
    dropped,    \* history: the buses on which a request was given up
    backwards   \* history: a write was served after a later one

vars == <<buses, queue, bus, op, answer, samples, object, requests, faults, confirmed, dropped, backwards>>

Idle == [at |-> "idle", on |-> 0, id |-> 0]

-----------------------------------------------------------------------------
(* The thread of a bus.                                                    *)

Served_Any(q) == DOMAIN q
Served(q) == {1}

Serve(b) ==
    /\ buses[b].running /\ queue[b] # << >>
    /\ \E i \in Served(queue[b]), ok \in BOOLEAN :
       LET request == queue[b][i]
       IN /\ ok \/ faults < MaxFaults
          /\ faults' = IF ok THEN faults ELSE faults + 1
          /\ queue' = [queue EXCEPT ![b] = SubSeq(@, 1, i - 1) \o SubSeq(@, i + 1, Len(@))]
          /\ object' = IF ok /\ request.what = "download" THEN request.id ELSE object
          /\ backwards' = (backwards \/ (ok /\ request.what = "download" /\ request.id < object))
          /\ answer' = IF op.on = b /\ op.id = request.id THEN <<ok, object'>> ELSE answer
    /\ UNCHANGED <<buses, bus, op, samples, requests, confirmed, dropped>>

\* The thread ends when its handle is gone and what was queued has been served.
Ends(b) ==
    /\ buses[b].running /\ ~buses[b].handle /\ queue[b] = << >>
    /\ buses' = [buses EXCEPT ![b].running = FALSE]
    /\ UNCHANGED <<queue, bus, op, answer, samples, object, requests, faults, confirmed, dropped,
                   backwards>>

-----------------------------------------------------------------------------
(* The connector.                                                          *)

Ask(b, what, at) ==
    /\ requests < MaxRequests /\ requests' = requests + 1
    /\ queue' = [queue EXCEPT ![b] = Append(@, [id |-> requests + 1, what |-> what])]
    /\ op' = [at |-> at, on |-> b, id |-> requests + 1]
    /\ answer' = << >>

\* connect opens a bus of its own before the one in use is given up; open may fail.
Open ==
    /\ op = Idle /\ Len(buses) < MaxBuses
    /\ buses' = Append(buses, [handle |-> TRUE, running |-> TRUE])
    /\ op' = [at |-> "start", on |-> Len(buses) + 1, id |-> 0]
    /\ UNCHANGED <<queue, bus, answer, samples, object, requests, faults, confirmed, dropped, backwards>>

\* The nodes are started, then each is probed.
StartAll ==
    /\ op.at = "start" /\ Ask(op.on, "start", "starting")
    /\ UNCHANGED <<buses, bus, samples, object, faults, confirmed, dropped, backwards>>

Probe ==
    /\ op.at = "starting" /\ answer # << >> /\ Ask(op.on, "probe", "probing")
    /\ UNCHANGED <<buses, bus, samples, object, faults, confirmed, dropped, backwards>>

Released_Kept(b) == buses
Released(b) == [i \in DOMAIN buses |-> IF i = b THEN [buses[i] EXCEPT !.handle = FALSE] ELSE buses[i]]

Connected ==
    /\ op.at = "probing" /\ answer # << >>
    /\ buses' = Released(bus) /\ bus' = op.on /\ op' = Idle
    /\ UNCHANGED <<queue, answer, samples, object, requests, faults, confirmed, dropped, backwards>>

Disconnect ==
    /\ op = Idle /\ bus # 0
    /\ buses' = Released(bus) /\ bus' = 0
    /\ UNCHANGED <<queue, op, answer, samples, object, requests, faults, confirmed, dropped, backwards>>

Read ==
    /\ op = Idle /\ bus # 0 /\ samples' = << >> /\ Batch[1] # "unknown"
    /\ Ask(bus, "upload", "reading")
    /\ UNCHANGED <<buses, bus, object, faults, confirmed, dropped, backwards>>

\* An object that cannot be read is a bad sample; an unknown point fails the whole read.
ReadOn ==
    /\ op.at = "reading" /\ answer # << >>
    /\ samples' = Append(samples, answer)
    /\ IF Len(samples) + 1 = Len(Batch) \/ Batch[Len(samples) + 2] = "unknown"
       THEN op' = Idle /\ UNCHANGED <<queue, requests, answer>>
       ELSE Ask(bus, "upload", "reading")
    /\ UNCHANGED <<buses, bus, object, faults, confirmed, dropped, backwards>>

Execute ==
    /\ op = Idle /\ bus # 0 /\ Ask(bus, "download", "writing")
    /\ UNCHANGED <<buses, bus, samples, object, faults, confirmed, dropped, backwards>>

Executed ==
    /\ op.at = "writing" /\ answer # << >> /\ op' = Idle
    /\ confirmed' = IF answer[1] THEN op.id ELSE confirmed
    /\ UNCHANGED <<buses, queue, bus, answer, samples, object, requests, faults, dropped, backwards>>

\* The runtime bounds every operation: the wait is dropped, and with it the bus of a connect.
GiveUp ==
    /\ op # Idle /\ op' = Idle
    /\ buses' = IF op.at \in {"start", "starting", "probing"} THEN Released(op.on) ELSE buses
    /\ dropped' = dropped \union {op.on}
    /\ UNCHANGED <<queue, bus, answer, samples, object, requests, faults, confirmed, backwards>>

-----------------------------------------------------------------------------
Init ==
    /\ buses = << >> /\ queue = [b \in 1 .. MaxBuses |-> << >>] /\ bus = 0 /\ op = Idle
    /\ answer = << >> /\ samples = << >>
    /\ object = 0 /\ requests = 0 /\ faults = 0 /\ confirmed = 0 /\ dropped = {} /\ backwards = FALSE

Next ==
    \/ \E b \in DOMAIN buses : Serve(b) \/ Ends(b)
    \/ Open
    \/ StartAll
    \/ Probe
    \/ Connected
    \/ Disconnect
    \/ Read
    \/ ReadOn
    \/ Execute
    \/ Executed
    \/ GiveUp

Spec == Init /\ [][Next]_vars

-----------------------------------------------------------------------------
(* Properties.                                                             *)

\* As long as no request has been given up, a read gives the value last written.
ReadsWritten == dropped = {} => \A i \in DOMAIN samples :
    op.at = "reading" /\ samples[i][1] => samples[i][2] = confirmed

\* Writes take effect in the order they were made, given up or not, unless one given up is still
\* queued for an earlier bus.
InOrder == backwards => \E b \in dropped : b < Len(buses)

\* A bus has a handle only while it is the connector's, or is about to be.
OneHandle == \A b \in DOMAIN buses : buses[b].handle =>
    b = bus \/ (op.on = b /\ op.at \in {"start", "starting", "probing"})

CanopenSound == ReadsWritten /\ InOrder /\ OneHandle
=============================================================================
