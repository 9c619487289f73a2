------------------------------ MODULE SnmpPoll ------------------------------
(***************************************************************************)
(* One poll of an SNMP agent (connector-snmp/src/lib.rs read_objects and   *)
(* read_batch, poll.rs): the object points of a device are asked for in    *)
(* batches, each a request that is sent again when it is not answered,     *)
(* with the discovery and the clock of an SNMPv3 engine, and with the      *)
(* whole-request errors of SNMPv1.                                         *)
(***************************************************************************)
EXTENDS Naturals, SequencesExt, FiniteSetsExt

CONSTANTS
    Objects,      \* the object points, 1 .. Objects; the even ones are scalars
    MaxVarbinds,  \* points per request (max_varbinds)
    Retries       \* how often a request is sent again (retries)

VARIABLES
    poll,      \* "idle", "run" or "done"
    version,   \* "v1", "v2c" or "v3"
    ready,     \* whether the engine of the agent is known, or need not be
    todo,      \* the batches to ask for: [bulk, pending]
    batch,     \* the batch being asked for, or NoBatch
    retry,     \* of the request: [attempts, resynced]
    probes,    \* discovery attempts of this request
    proved,    \* history: whether the engine of the session has authenticated a response
    dead,      \* whether the rest of the cycle is pointless
    samples,   \* the samples so far: [point, good, from]
    asked      \* history: attempts of this request, and requests after the cycle was dead

vars == <<poll, version, ready, todo, batch, retry, probes, proved, dead, samples, asked>>

Object == 1 .. Objects
NoBatch == [bulk |-> FALSE, pending |-> << >>]
Fresh == [attempts |-> 0, resynced |-> FALSE]
NotAsked == [now |-> 0, late |-> 0]

\* scalar_parent: only a scalar can be asked for by its parent.
Scalar(p) == p % 2 = 0
Bad(points) == [i \in DOMAIN points |-> [point |-> points[i], good |-> FALSE, from |-> 0]]

Init ==
    /\ poll = "idle" /\ version = "v1" /\ ready = TRUE
    /\ todo = << >> /\ batch = NoBatch /\ retry = Fresh /\ probes = 0 /\ proved = TRUE /\ dead = FALSE
    /\ samples = << >> /\ asked = NotAsked

\* The points of a group in chunks of max_varbinds.
Chunks(points, bulk) ==
    [i \in 1 .. (Len(points) + MaxVarbinds - 1) \div MaxVarbinds |->
        [bulk |-> bulk,
         pending |-> SubSeq(points, (i - 1) * MaxVarbinds + 1,
                            Min({i * MaxVarbinds, Len(points)}))]]

\* read_objects: scalars by GETBULK when the device allows it, the others by GET.  The session is
\* new, or its engine was discovered before.
Begin(v, bulk) ==
    /\ poll = "idle"
    /\ poll' = "run" /\ version' = v
    /\ ready' \in {TRUE, v # "v3"} /\ proved' \in {TRUE, v # "v3"}
    /\ LET all == [i \in Object |-> i]
           scalars == SelectSeq(all, LAMBDA p : bulk /\ Scalar(p))
           others == SelectSeq(all, LAMBDA p : ~(bulk /\ Scalar(p)))
       IN todo' = Chunks(scalars, TRUE) \o Chunks(others, FALSE)
    /\ UNCHANGED <<batch, retry, probes, dead, samples, asked>>

\* The next batch is asked for ...
NextBatch ==
    /\ poll = "run" /\ batch = NoBatch /\ todo # << >> /\ ~dead
    /\ batch' = Head(todo) /\ todo' = Tail(todo)
    /\ retry' = Fresh /\ probes' = 0 /\ asked' = [asked EXCEPT !.now = 0]
    /\ UNCHANGED <<proved, poll, version, ready, dead, samples>>

\* ... or skipped.
SkipBatch ==
    /\ poll = "run" /\ batch = NoBatch /\ todo # << >> /\ dead
    /\ samples' = samples \o Bad(Head(todo).pending) /\ todo' = Tail(todo)
    /\ UNCHANGED <<proved, poll, version, ready, batch, retry, probes, dead, asked>>

Done ==
    /\ poll = "run" /\ batch = NoBatch /\ todo = << >>
    /\ poll' = "done"
    /\ UNCHANGED <<proved, version, ready, todo, batch, retry, probes, dead, samples, asked>>

Asking == poll = "run" /\ batch # NoBatch
\* An attempt is sent.
Sent == asked' = [now |-> asked.now + 1, late |-> asked.late + IF dead THEN 1 ELSE 0]

\* Mutant: the cycle goes on after every failure.
Failed_GoesOn(stops) ==
    /\ samples' = samples \o Bad(batch.pending)
    /\ batch' = NoBatch
    /\ UNCHANGED dead

\* failed_batch, and stops_the_cycle.
Failed(stops) ==
    /\ samples' = samples \o Bad(batch.pending)
    /\ dead' = (dead \/ stops)
    /\ batch' = NoBatch

-----------------------------------------------------------------------------
(* Discovery (Session::discover).                                          *)

Discovered ==
    /\ Asking /\ ~ready
    /\ ready' = TRUE /\ proved' = FALSE
    /\ UNCHANGED <<poll, version, todo, batch, retry, probes, dead, samples, asked>>

\* An error, or an engine that is not the configured one.
DiscoveryFails ==
    /\ Asking /\ ~ready
    /\ \E stops \in BOOLEAN : Failed(stops)
    /\ UNCHANGED <<proved, poll, version, ready, todo, retry, probes, asked>>

DiscoveryTimesOut ==
    /\ Asking /\ ~ready
    /\ probes' = probes + 1
    /\ IF probes' > Retries THEN Failed(TRUE) ELSE UNCHANGED <<samples, dead, batch>>
    /\ UNCHANGED <<proved, poll, version, ready, todo, retry, asked>>

-----------------------------------------------------------------------------
(* An attempt and what judge makes of it.                                  *)

\* Mutant: a request that fails to send is sent again without counting.
NoAnswer_NotCounted ==
    /\ Asking /\ ready /\ Sent
    /\ retry' = [retry EXCEPT !.attempts = IF @ = Retries THEN @ + 1 ELSE @]
    /\ IF retry'.attempts > Retries /\ asked.now > Retries + 1 THEN Failed(TRUE)
       ELSE UNCHANGED <<samples, dead, batch>>
    /\ UNCHANGED <<proved, poll, version, ready, todo, probes>>

\* No answer in time, or the socket fails.
NoAnswer ==
    /\ Asking /\ ready /\ Sent
    /\ retry' = [retry EXCEPT !.attempts = @ + 1]
    /\ IF retry'.attempts > Retries THEN Failed(TRUE) ELSE UNCHANGED <<samples, dead, batch>>
    /\ UNCHANGED <<proved, poll, version, ready, todo, probes>>

\* The clock of the engine moved on: once, the request is repeated with the one it reported.
Resync ==
    /\ Asking /\ ready /\ version = "v3" /\ ~retry.resynced /\ Sent
    /\ retry' = [retry EXCEPT !.resynced = TRUE]
    /\ UNCHANGED <<proved, poll, version, ready, todo, batch, probes, dead, samples>>

\* Authentication fails: the engine is discovered again before the next request.
AuthFails ==
    /\ Asking /\ ready /\ version = "v3" /\ Sent
    /\ ready' = FALSE
    /\ Failed(TRUE)
    /\ UNCHANGED <<proved, poll, version, todo, retry, probes>>

\* The answer does not decode: the points are bad, and the cycle goes on.
Undecodable ==
    /\ Asking /\ ready /\ Sent
    /\ Failed(FALSE)
    /\ UNCHANGED <<proved, poll, version, ready, todo, retry, probes>>

\* Mutant: a varbind is taken for the point at its place whatever its name.
MapReply_ByPlace(reply) ==
    [i \in DOMAIN batch.pending |->
        [point |-> batch.pending[i], good |-> i \in DOMAIN reply /\ reply[i] # 0,
         from |-> IF i \in DOMAIN reply THEN reply[i] ELSE 0]]

\* map_reply: a varbind under the name asked for, not an exception.
MapReply(reply) ==
    [i \in DOMAIN batch.pending |->
        LET named == i \in DOMAIN reply /\ reply[i] = batch.pending[i]
        IN [point |-> batch.pending[i], good |-> named, from |-> IF named THEN reply[i] ELSE 0]]

\* The agent answers without an error: as asked, with fewer varbinds, with others, with
\* exceptions (0).
Reply(names) ==
    /\ Asking /\ ready /\ Sent
    /\ samples' = samples \o MapReply(names)
    /\ batch' = NoBatch /\ proved' = TRUE
    /\ UNCHANGED <<poll, version, ready, todo, retry, probes, dead>>

\* Mutant: the point at fault is asked for again with the others.
ErrorReply_KeepsPoint(index) ==
    /\ Asking /\ ready /\ Sent
    /\ IF version = "v1" /\ ~batch.bulk /\ index \in DOMAIN batch.pending
       THEN /\ samples' = Append(samples, Bad(batch.pending)[index])
            /\ batch' = IF Len(batch.pending) = 1 THEN NoBatch
                        ELSE [batch EXCEPT !.pending = Tail(@)]
       ELSE samples' = samples \o Bad(batch.pending) /\ batch' = NoBatch
    /\ retry' = Fresh /\ probes' = 0
    /\ UNCHANGED <<proved, poll, version, ready, todo, dead>>

\* An error status: SNMPv1 names the point at fault, and the rest are asked for without it; they
\* all fail otherwise.
ErrorReply(index) ==
    /\ Asking /\ ready
    /\ IF version = "v1" /\ ~batch.bulk /\ index \in DOMAIN batch.pending
       THEN /\ samples' = Append(samples, Bad(batch.pending)[index])
            /\ batch' = IF Len(batch.pending) = 1 THEN NoBatch
                        ELSE [batch EXCEPT !.pending = RemoveAt(@, index)]
            /\ asked' = [asked EXCEPT !.now = 0]
       ELSE samples' = samples \o Bad(batch.pending) /\ batch' = NoBatch /\ Sent
    /\ retry' = Fresh /\ probes' = 0
    /\ UNCHANGED <<proved, poll, version, ready, todo, dead>>

Replies == UNION {[1 .. n -> {0} \union Object] : n \in 0 .. MaxVarbinds}

Next ==
    \/ \E v \in {"v1", "v2c", "v3"}, bulk \in BOOLEAN : (v # "v1" \/ ~bulk) /\ Begin(v, bulk)
    \/ NextBatch \/ SkipBatch \/ Done
    \/ Discovered \/ DiscoveryFails \/ DiscoveryTimesOut
    \/ NoAnswer \/ Resync \/ AuthFails \/ Undecodable
    \/ \E names \in Replies : Reply(names)
    \/ \E index \in 0 .. MaxVarbinds + 1 : ErrorReply(index)

-----------------------------------------------------------------------------
\* A poll answers once for every point and ends: whatever the agent does, a value is published
\* for the point it was answered for, a request is sent a bounded number of times, nothing more is
\* sent to an agent that was found unreachable, and when a sample is good (so that after_read
\* takes the engine for the one traps must come from) that engine has authenticated a response.
Polled ==
    /\ poll = "done" => \A p \in Object : Cardinality({i \in DOMAIN samples : samples[i].point = p}) = 1
    /\ \A i \in DOMAIN samples : samples[i].good => samples[i].from = samples[i].point
    /\ asked.now <= Retries + 2 /\ asked.late = 0
    /\ (poll = "done" /\ \E i \in DOMAIN samples : samples[i].good) => proved
=============================================================================
