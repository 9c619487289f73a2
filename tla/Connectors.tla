----------------------------- MODULE Connectors -----------------------------
(***************************************************************************)
(* The connectors that are proved about, in one module: PROFIBUS with the  *)
(* names of its own module, the others as instances.  A constant or a      *)
(* variable has the name it has in its module, unless two of them would    *)
(* have the same.                                                          *)
(***************************************************************************)
EXTENDS Profibus, Sequences

CONSTANTS
    UaPoint, UaFaults, Renumbers,                   \* OPC UA
    Nodes, BlockSize, MaxInFlight, BusyRetries,     \* an OPC UA read
    RegisterBits, Start, Count, Batch, MaxOpened, MaxRequests,  \* Modbus
    CanBatch, MaxBuses, CanRequests,                \* CANopen
    Generations, MaxBoots, Changing                 \* SNMP

ASSUME PointAssumption == IsFiniteSet(UaPoint) /\ UaFaults \in Nat

ASSUME ReadAssumption ==
    Nodes \in Nat /\ BlockSize \in Nat /\ MaxInFlight \in Nat /\ BusyRetries \in Nat

ASSUME ModbusAssumption ==
    /\ Batch \in Seq({"holding", "coil", "unknown"})
    /\ MaxOpened \in Nat /\ MaxRequests \in Nat /\ MaxFaults \in Nat

\* What the provers do not know of exponentiation: a register, and a field in it, have values.
ASSUME PowerAssumption ==
    /\ 2 ^ RegisterBits \in Nat \ {0} /\ 2 ^ Start \in Nat \ {0} /\ 2 ^ Count \in Nat \ {0}

ASSUME CanopenAssumption == MaxBuses \in Nat

ASSUME SnmpAssumption == Generations \in Nat /\ MaxBoots \in Nat /\ Changing \subseteq {"left", "right"}

VARIABLES
    call, then, handle, health, trans, push, forwarders, loop, event, live, server, ua_faults,
    blocks, running, result, lost, any_ok, sent, answer,
    transport, current, opened, held, asked, answers, reading, command, holding, coil, requests,
    faults, slipped, harmed,
    buses, queue, bus, op, can_answer, samples, object, can_requests, can_faults, confirmed, dropped,
    backwards,
    resolved, by_addr, route, sess, listener, polling, agents, met, fresh, ignored

ua_vars == <<call, then, handle, health, trans, push, forwarders, loop, event, live, server, ua_faults>>
read_vars == <<blocks, running, result, lost, any_ok, sent, answer>>
mb_vars == <<transport, current, opened, held, asked, answers, reading, command, holding, coil, requests,
             faults, slipped, harmed>>
co_vars == <<buses, queue, bus, op, can_answer, samples, object, can_requests, can_faults, confirmed,
             dropped, backwards>>
sn_vars == <<resolved, by_addr, route, sess, listener, polling, agents, met, fresh, ignored>>

O == INSTANCE OpcUa WITH Point <- UaPoint, MaxFaults <- UaFaults, faults <- ua_faults
R == INSTANCE OpcUaRead
MB == INSTANCE Modbus WITH Bits <- RegisterBits
CO == INSTANCE Canopen WITH
    Batch <- CanBatch, MaxRequests <- CanRequests, answer <- can_answer, requests <- can_requests,
    faults <- can_faults
SN == INSTANCE Snmp WITH reading <- polling

-----------------------------------------------------------------------------
(* Properties, beside that of Profibus.                                    *)

\* OPC UA: the recorded health of a session is never better than the session; closing it leaves
\* neither a forwarder nor a session of the server behind; a check of a subscription that passes
\* finds every point watched; node ids are those translated for the session; and a polling read
\* answers for every point and sends nothing over a lost link.
OpcUaSound ==
    /\ O!HealthCurrent /\ O!NoSessionsLeft /\ O!OneForwarder /\ O!PushNoticed
    /\ O!TranslationCurrent
    /\ R!ReadAnswers /\ R!BlocksKept

\* Modbus: a read answers for each point with the answer to its own request, one request at a time is
\* on a connection, and the write of a field changes no other bit.
ModbusSound == MB!ModbusSound

\* CANopen: as long as no request is given up a read gives what the last confirmed write wrote, writes
\* take effect in their order unless one given up is queued for an earlier bus, and a bus has one
\* handle.
CanopenSound == CO!CanopenSound

\* SNMP: requests and notifications of a device use one address, which is no other's; traps must come
\* from the engine of an agent the device was resolved to, and those of an agent that a poll has met
\* are accepted, through restarts, replacements, forwarders and late messages; and whoever asks for
\* this receiver's engine is told.
SnmpRouted == SN!SnmpSound
=============================================================================
