------------------------------ MODULE MCModules ------------------------------
(***************************************************************************)
(* The parts of the SDK and of the command line that do not share state    *)
(* with one another: a behaviour chooses one of them and runs it.  Those of*)
(* Modules have variables of their own, which otherwise stay as they were  *)
(* in the beginning; the others are instances of their modules here.  As   *)
(* only one runs, these share their variables: x1 is the first of the part *)
(* that runs, x2 its second.                                               *)
(***************************************************************************)
EXTENDS Modules

CONSTANT Part   \* the parts a behaviour chooses from

VARIABLES part, x1, x2, x3, x4, x5, x6, x7, x8, x9, x10, x11, x12, x13, x14, x15, x16, x17

L == INSTANCE Library WITH
    load <- x1, guard <- x2
\* A point that is sampled at a fixed rate.
S == INSTANCE Batcher WITH
    TimePoint <- {}, FramePoint <- {}, Value <- {1, 3}, Window <- 1, Every <- 2, MaxLayers <- 2,
    Budget <- 1, MaxReadings <- 3, MaxClock <- 4, MaxTs <- 2, clock <- x1, open <- x2, depth <- x3,
    last_layer <- x4, slot <- x5, plain <- x6, next <- x7, stale <- x8, unit <- x9,
    units_settled <- x10, published_units <- x11, readings <- x12, out <- x13, held <- x14,
    seen <- x15, sampled <- x16, phase <- x17
V == INSTANCE Values WITH
    Base <- 4, SafeMax <- 50, trip <- x1
P == INSTANCE Policies WITH
    Shortest <- 1, Longest <- 3, MaxSeries <- 3, loaded <- x1
D == INSTANCE Descriptor WITH
    Types <- {<< >>, <<"a">>, <<"a", "-">>, <<"a", "-", "b">>, <<"-">>},
    Groups <- {{<<"g">>}, {<<"b">>, <<"c">>}}, Names <- {{<<"s">>}, {<<"s">>, <<"f">>}},
    Keys <- {<<"q">>, <<"p">>, <<"s", ".", "q">>, <<"s", ".">>},
    Fragments <- {<<"f">>, <<"s">>, << >>}, described <- x1
T == INSTANCE Cli WITH
    Points <- [d1 |-> {"rw", "w"}, d2 |-> {"rw", "r"}], Interval <- [d1 |-> 1, d2 |-> 2],
    Count <- 2, MaxClock <- 4, Alphabet <- {"a", "b"}, MaxText <- 4, verb <- x1, selectors <- x2,
    picked <- x3, at <- x4, jobs <- x5, due <- x6, remaining <- x7, clock <- x8, pass <- x9,
    failures <- x10, saw_bad <- x11, fate <- x12, polls <- x13, looked <- x14
U == INSTANCE Stdout WITH
    Device <- {"a", "b"}, Polled <- {"a"}, Pushed <- {"a", "b"}, PushOnly <- {"b"},
    HasReconnect <- TRUE, MaxFaults <- 2, at <- x1, todo <- x2, subscribed <- x3, schedule <- x4,
    poll_due <- x5, reconnects <- x6, push_recovery <- x7, condition <- x8, session <- x9,
    delivery <- x10, looked_at <- x11, faults <- x12

\* The variables from the n-th on, when the part that runs has fewer.
Off16 == x16 = 0 /\ x17 = 0
spare16 == <<x16, x17>>
Off15 == x15 = 0 /\ Off16
spare15 == <<x15, spare16>>
Off13 == x13 = 0 /\ x14 = 0 /\ Off15
spare13 == <<x13, x14, spare15>>
Off3 == x3 = 0 /\ x4 = 0 /\ x5 = 0 /\ x6 = 0 /\ x7 = 0 /\ x8 = 0 /\ x9 = 0 /\ x10 = 0 /\ x11 = 0 /\ x12 = 0 /\ Off13
spare3 == <<x3, x4, x5, x6, x7, x8, x9, x10, x11, x12, spare13>>
Off2 == x2 = 0 /\ Off3
spare2 == <<x2, spare3>>
Off1 == x1 = 0 /\ Off2
spare1 == <<x1, spare2>>

PartInit ==
    /\ part \in Part /\ Init /\ G!Init
    /\ \/ part \in {"commands", "grouped"} /\ Off1
       \/ part = "library" /\ L!Init /\ Off3
       \/ part = "sampled" /\ S!Init
       \/ part = "values" /\ V!Init /\ Off2
       \/ part = "policies" /\ P!Init /\ Off2
       \/ part = "descriptor" /\ D!Init /\ Off2
       \/ part = "command line" /\ T!Init /\ Off15
       \/ part = "stdout" /\ U!Init /\ Off13

PartNext ==
    /\ UNCHANGED part
    /\ \/ part = "commands" /\ Next /\ UNCHANGED <<batch_vars, spare1>>
       \/ part = "grouped" /\ G!Next /\ UNCHANGED <<vars, spare1>>
       \/ /\ UNCHANGED <<vars, batch_vars>>
          /\ \/ part = "library" /\ L!Next /\ UNCHANGED spare3
             \/ part = "sampled" /\ S!Next
             \/ part = "values" /\ V!Next /\ UNCHANGED spare2
             \/ part = "policies" /\ P!Next /\ UNCHANGED spare2
             \/ part = "descriptor" /\ D!Next /\ UNCHANGED spare2
             \/ part = "command line" /\ T!Next /\ UNCHANGED spare15
             \/ part = "stdout" /\ U!Next /\ UNCHANGED spare13

-----------------------------------------------------------------------------
(* Properties, beside those of Modules and Commands.                       *)

\* A configuration that loads means what was written in it and in the libraries it refers to, and
\* a command cannot change what only an administrator of the device may set; points publish when and
\* under the names that it asks for, and the descriptor says so.
ConfigurationSound ==
    /\ part = "library" => L!LoadedAsWritten /\ L!CommandsKeepLocal
    /\ part = "policies" => P!PoliciesSound

\* Whatever is held back has a deadline at which it goes out, and a sampled point is published with
\* the time-weighted aggregates of what it held.
MeasuredAll ==
    /\ G!NothingForgotten
    /\ part = "sampled" => S!NothingForgotten /\ S!AggregateExact

\* Bytes, scaled numbers and mapped values go both ways without becoming another value, and the
\* form of a parameter takes what can be written.
ValuesSound == part = "values" => V!WireExact /\ V!UnitsNearest /\ V!MapReadsBack /\ V!FormWrites

\* What `describe' renders is complete, routes back to one point, and is what the flow publishes;
\* nothing is shared across device types by accident.
DescriptorSound == part = "descriptor" => D!DescriptorSound

\* The commands of the command line act on the points that are meant, poll them when they are due
\* and end with the status the readings deserve; printed output keeps every device on one way of
\* delivery or on its way back to one.
CommandLineSound ==
    /\ part = "command line" => T!CliSound
    /\ part = "stdout" => U!StdoutSound
=============================================================================
