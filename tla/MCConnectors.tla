----------------------------- MODULE MCConnectors -----------------------------
(***************************************************************************)
(* The protocol connectors: a behaviour chooses one of them and runs it.   *)
(* Those of Connectors have variables of their own, which otherwise stay   *)
(* as they were in the beginning; the others are instances of their modules*)
(* here.  As only one runs, these share their variables: x1 is the first of*)
(* the part that runs, x2 its second.                                      *)
(***************************************************************************)
EXTENDS Connectors

CONSTANT Part   \* the parts a behaviour chooses from

VARIABLES part, x1, x2, x3, x4, x5, x6, x7, x8, x9, x10, x11, x12, x13, x14, x15, x16, x17

\* The points of a Modbus read, and of a CANopen read.
MCBatch == <<"holding", "unknown", "coil">>
MCCanBatch == <<"p", "q", "unknown">>

SP == INSTANCE SnmpPoll WITH
    Objects <- 5, MaxVarbinds <- 2, Retries <- 1, poll <- x1, version <- x2, ready <- x3,
    todo <- x4, batch <- x5, retry <- x6, probes <- x7, proved <- x8, dead <- x9, samples <- x10,
    asked <- x11
SF == INSTANCE SnmpForms WITH
    Octet <- 8, Word <- 2, Pack <- 4, MaxArcs <- 3, form <- x1
PP == INSTANCE PiPush WITH
    Points <- <<"a">>, Values <- {1, 2}, MaxTime <- 3, MaxArchived <- 3, PageSize <- 1,
    MaxCount <- 2, MaxEvents <- 2, MaxAge <- 1, LiveBuffer <- 1, MaxFaults <- 1, now <- x1,
    archive <- x2, wire <- x3, readers <- x4, buffer <- x5, overflow <- x6, pc <- x7, todo <- x8,
    work <- x9, paging <- x10, answers <- x11, cursor <- x12, saved <- x13, got <- x14,
    delivered <- x15, announced <- x16, mishaps <- x17
PA == INSTANCE Pi WITH
    Points <- <<"a", "b", "c", "d", "e">>, Digital <- {"a", "b"},
    Size <- [a |-> 1, b |-> 1, c |-> 4, d |-> 1, e |-> 1], MaxWebIds <- 5, MaxUrl <- 6,
    ServerLimit <- 1, MaxFaults <- 2, exists <- x1, credential <- x2, state <- x3, due <- x4,
    pending <- x5, values <- x6, failure <- x7, too_long <- x8, outcome <- x9, written <- x10,
    trouble <- x11
PF == INSTANCE PiForms WITH
    Width <- 3, Safe <- 6, FloatMax <- 12, pi <- x1
CB == INSTANCE Canbus WITH
    Octet <- 2, Octets <- 2, MaxConnects <- 2, MaxFrames <- 3, MaxFaults <- 1, state <- x1,
    caches <- x2, loops <- x3, frames <- x4, faults <- x5, last <- x6, written <- x7, stray <- x8

\* The variables from the n-th on, when the part that runs has fewer.
Off12 == x12 = 0 /\ x13 = 0 /\ x14 = 0 /\ x15 = 0 /\ x16 = 0 /\ x17 = 0
spare12 == <<x12, x13, x14, x15, x16, x17>>
Off9 == x9 = 0 /\ x10 = 0 /\ x11 = 0 /\ Off12
spare9 == <<x9, x10, x11, spare12>>
Off2 == x2 = 0 /\ x3 = 0 /\ x4 = 0 /\ x5 = 0 /\ x6 = 0 /\ x7 = 0 /\ x8 = 0 /\ Off9
spare2 == <<x2, x3, x4, x5, x6, x7, x8, spare9>>
Off1 == x1 = 0 /\ Off2
spare1 == <<x1, spare2>>

PartInit ==
    /\ part \in Part /\ Init /\ O!Init /\ R!Init /\ MB!Init /\ CO!Init /\ SN!Init
    /\ \/ part \in {"profibus", "opcua", "opcua read", "modbus", "canopen", "snmp"} /\ Off1
       \/ part = "snmp poll" /\ SP!Init /\ Off12
       \/ part = "snmp forms" /\ SF!Init /\ Off2
       \/ part = "pi push" /\ PP!Init
       \/ part = "pi" /\ PA!Init /\ Off12
       \/ part = "pi forms" /\ PF!Init /\ Off2
       \/ part = "canbus" /\ CB!Init /\ Off9

PartNext ==
    /\ UNCHANGED part
    /\ \/ part = "profibus" /\ Next /\ UNCHANGED <<ua_vars, read_vars, mb_vars, co_vars, sn_vars, spare1>>
       \/ part = "opcua" /\ O!Next /\ UNCHANGED <<vars, read_vars, mb_vars, co_vars, sn_vars, spare1>>
       \/ part = "opcua read" /\ R!Next /\ UNCHANGED <<vars, ua_vars, mb_vars, co_vars, sn_vars, spare1>>
       \/ part = "modbus" /\ MB!Next /\ UNCHANGED <<vars, ua_vars, read_vars, co_vars, sn_vars, spare1>>
       \/ part = "canopen" /\ CO!Next /\ UNCHANGED <<vars, ua_vars, read_vars, mb_vars, sn_vars, spare1>>
       \/ part = "snmp" /\ SN!Next /\ UNCHANGED <<vars, ua_vars, read_vars, mb_vars, co_vars, spare1>>
       \/ /\ UNCHANGED <<vars, ua_vars, read_vars, mb_vars, co_vars, sn_vars>>
          /\ \/ part = "snmp poll" /\ SP!Next /\ UNCHANGED spare12
             \/ part = "snmp forms" /\ SF!Next /\ UNCHANGED spare2
             \/ part = "pi push" /\ PP!Next
             \/ part = "pi" /\ PA!Next /\ UNCHANGED spare12
             \/ part = "pi forms" /\ PF!Next /\ UNCHANGED spare2
             \/ part = "canbus" /\ CB!Next /\ UNCHANGED spare9

-----------------------------------------------------------------------------
(* Properties, beside those of Connectors.                                 *)

\* SNMP: a poll answers once for every point, with what the agent said of that object; and objects,
\* values and settings keep their meaning between text, number and wire.
SnmpSound ==
    /\ part = "snmp poll" => SP!Polled
    /\ part = "snmp forms" => SF!SnmpFormsSound

\* AVEVA PI: the runtime gets a point's events in order and once, none is passed over by the cursor,
\* which is never ahead of what was given to the runtime; a polled point is asked for once and gets an
\* answer of its own within the limits of the server, which are learned once; what is written is
\* what is read back.
PiSound ==
    /\ part = "pi push" => PP!PushSound
    /\ part = "pi" => PA!PiSound
    /\ part = "pi forms" => PF!PiFormsSound

\* CAN bus: signals keep their bits and their neighbours, and a task that is replaced ends.
CanbusSound == part = "canbus" => CB!CanbusSound
=============================================================================
