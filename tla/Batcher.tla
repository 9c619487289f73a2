------------------------------- MODULE Batcher -------------------------------
(***************************************************************************)
(* Measurement output (sdk/src/measure.rs, Publisher in runtime.rs): the   *)
(* table of one device, which decides when a reading is published and with *)
(* which time.  Points are grouped by time, by frame, or sampled, plainly  *)
(* or as aggregates over the time their values were held.  All points      *)
(* belong to one group, so to one topic.                                   *)
(***************************************************************************)
EXTENDS Integers, SequencesExt, FiniteSetsExt

CONSTANTS
    TimePoint, FramePoint,  \* points by batch.group_by
    Window,                 \* batch.window of a frame
    Every,                  \* batch.every of a sampled point
    MaxLayers,              \* layers of a frame (MAX_LAYERS, 64)
    Budget,                 \* series of a message (SIZE_BUDGET, in series of equal size)
    Value,                  \* values of the sampled point, {} for a device without one
    MaxReadings, MaxClock, MaxTs  \* bounds

VARIABLES
    clock,        \* the device clock
    open,         \* per policy the open message, or the layers of the frame, in order, each with the
                  \* readings still to be published and all its points
    depth,        \* per point the layer its next value goes into
    last_layer,   \* the time of the last layer, 0 for none
    slot,         \* the aggregated point: [value, since, sum, good, lo, hi], value None if none
    plain,        \* the value of the plainly sampled point
    next,         \* the next sample time
    stale,        \* whether the device is stale
    unit, units_settled, published_units,
    readings,     \* history: what was offered to the grouped points: [point, id]
    out,          \* history: the messages published: [time, series, units]
    held,         \* history: what the aggregated point held in each instant of this period ...
    seen,         \* ... and every value it was given
    sampled,      \* the last sample of the aggregated point, with what was held then
    phase         \* "run", or "flushed" before the table is rebuilt

vars == <<clock, open, depth, last_layer, slot, plain, next, stale, unit, units_settled,
          published_units, readings, out, held, seen, sampled, phase>>

None == -1
Policy == {"time", "frame"}
Points == TimePoint \union FramePoint
PolicyOf(p) == IF p \in TimePoint THEN "time" ELSE "frame"
NoSlot(now) == [value |-> None, since |-> now, sum |-> 0, good |-> 0, lo |-> None, hi |-> None]

Init ==
    /\ clock = 0 /\ open = [k \in Policy |-> << >>] /\ depth = [p \in Points |-> 0]
    /\ last_layer = 0 /\ slot = NoSlot(0) /\ plain = None /\ next = Every /\ stale = FALSE
    /\ unit = 1 /\ units_settled = FALSE /\ published_units = 0
    /\ readings = {} /\ out = << >> /\ held = << >> /\ seen = {} /\ sampled = << >> /\ phase = "run"

-----------------------------------------------------------------------------
(* Messages.                                                               *)

\* settle_units: before the first measurement of the topic, its units when they have changed.
Settle == /\ units_settled' = TRUE
          /\ published_units' = IF units_settled THEN published_units ELSE unit

Message(o) == [time |-> o.time, series |-> o.part, units |-> published_units']

\* Mutant: only the first layer is published.
Closed_First(k) == IF open[k] = << >> THEN << >> ELSE <<Head(open[k])>>

\* What closing a key publishes: every layer. None is empty (LayersFilled), as a layer is opened or
\* split only for the reading that goes into it.
Closed(k) == open[k]

\* The depths after close(k).
Reset(k) == [p \in Points |-> IF \E i \in DOMAIN open[k] : p \in open[k][i].points
                              THEN 0 ELSE depth[p]]

\* The messages of a sequence of layers, their units settled.
Publish(layers) ==
    /\ IF layers = << >> THEN UNCHANGED <<units_settled, published_units>> ELSE Settle
    /\ out' = out \o [i \in DOMAIN layers |-> Message(layers[i])]

-----------------------------------------------------------------------------
(* Readings.                                                               *)

\* add: whether the reading closes the open message or frame of its key first.
Closes(p, ts) ==
    LET k == PolicyOf(p) IN
    /\ open[k] # << >>
    /\ IF k = "frame"
       THEN Head(open[k]).opened + Window <= clock \/ depth[p] >= MaxLayers
       ELSE depth[p] > 0 \/ Head(open[k]).time # ts

\* A frame that reached its layer cap keeps its window.
Opened(p) ==
    LET k == PolicyOf(p) IN
    IF k = "frame" /\ open[k] # << >> /\ Head(open[k]).opened + Window > clock
    THEN Head(open[k]).opened ELSE clock

\* Mutant: a layer keeps its reading's time.
LayerTime_AsRead(p, ts) == ts

\* Layer times strictly increase per key.
LayerTime(p, ts) == IF PolicyOf(p) = "frame" /\ last_layer # 0 /\ ts <= last_layer
                    THEN last_layer + 1 ELSE ts

\* The layer that the reading opens when its point is already in every other.
NewLayer(p, ts) == [time |-> LayerTime(p, ts), opened |-> Opened(p), part |-> {}, points |-> {}]

\* Whether the open part leaves no room for another series.
Full(layer) == layer.part # {} /\ Cardinality(layer.part) >= Budget

\* The layer with a reading put into it, after its full part was published.
Put(layer, r) ==
    [layer EXCEPT !.part = (IF Full(layer) THEN {} ELSE @) \union {r}, !.points = @ \union {r.point}]

\* offer and add for a point grouped by time or frame.
Offer(p, ts) ==
    /\ phase = "run" /\ Cardinality(readings) < MaxReadings
    /\ LET k == PolicyOf(p)
           r == [point |-> p, id |-> Cardinality(readings) + 1]
           closes == Closes(p, ts)
           layers == IF closes THEN << >> ELSE open[k]
           before == IF closes THEN Reset(k) ELSE depth
           i == before[p] + 1
           new == i > Len(layers)
           grown == IF new THEN Append(layers, NewLayer(p, ts)) ELSE layers
       IN /\ last_layer' = IF new /\ k = "frame" THEN LayerTime(p, ts) ELSE last_layer
          /\ Publish((IF closes THEN Closed(k) ELSE << >>)
                     \o (IF Full(grown[i]) THEN <<grown[i]>> ELSE << >>))
          /\ open' = [open EXCEPT ![k] = [grown EXCEPT ![i] = Put(@, r)]]
          /\ depth' = [before EXCEPT ![p] = i]
          /\ readings' = readings \union {r}
    /\ UNCHANGED <<clock, slot, plain, next, stale, unit, held, seen, sampled, phase>>

\* Mutant: the time a value was held is not added when it is replaced.
Hold_NotClosed(v, now) ==
    [slot EXCEPT !.value = v, !.since = now,
                 !.lo = IF v = None THEN @ ELSE IF @ = None \/ v < @ THEN v ELSE @,
                 !.hi = IF v > @ THEN v ELSE @]

\* Slot::close and Slot::hold: the held value's time, then the value held from now on.
CloseSlot(now) ==
    LET ns == IF slot.value = None THEN 0 ELSE now - slot.since
    IN [slot EXCEPT !.sum = @ + slot.value * ns, !.good = @ + ns, !.since = now]
Hold(v, now) ==
    [CloseSlot(now) EXCEPT !.value = v,
                           !.lo = IF v = None THEN @ ELSE IF @ = None \/ v < @ THEN v ELSE @,
                           !.hi = IF v > @ THEN v ELSE @]

\* offer for a sampled point; a bad reading (None) empties its slot.
OfferSampled(v) ==
    /\ phase = "run" /\ Value # {}
    /\ slot' = Hold(v, clock) /\ plain' = v
    /\ seen' = seen \union ({v} \ {None})
    /\ UNCHANGED <<clock, open, depth, last_layer, next, stale, unit, units_settled,
                   published_units, readings, out, held, sampled, phase>>

\* set_stale: an aggregated slot counts no good time from here to its next good reading.
SetStale ==
    /\ phase = "run" /\ Value # {}
    /\ stale' = ~stale
    /\ slot' = IF stale' THEN Hold(None, clock) ELSE slot
    /\ UNCHANGED <<clock, open, depth, last_layer, plain, next, unit, units_settled,
                   published_units, readings, out, held, seen, sampled, phase>>

-----------------------------------------------------------------------------
(* Time, passes and rebuilds.                                              *)

Tick ==
    /\ phase = "run" /\ clock < MaxClock
    /\ clock' = clock + 1
    /\ held' = Append(held, slot.value) /\ sampled' = << >>
    /\ UNCHANGED <<open, depth, last_layer, slot, plain, next, stale, unit, units_settled,
                   published_units, readings, out, seen, phase>>

\* end_of_pass: the open message of every time key.
EndOfPass ==
    /\ phase = "run" /\ open["time"] # << >>
    /\ Publish(Closed("time"))
    /\ depth' = Reset("time") /\ open' = [open EXCEPT !["time"] = << >>]
    /\ UNCHANGED <<clock, last_layer, slot, plain, next, stale, unit, readings, held, seen,
                   sampled, phase>>

\* Mutant: a frame is not a deadline.
NextDeadline_Samples == {next}

\* next_deadline: what due has to do next.
NextDeadline == {next} \union {open["frame"][i].opened + Window : i \in DOMAIN open["frame"] \intersect {1}}

\* The mean, the minimum, the maximum and the last of the period, and the plain value.
Sample ==
    LET s == CloseSlot(clock)
    IN [good |-> s.good, sum |-> s.sum, lo |-> s.lo, hi |-> s.hi, last |-> s.value,
        held |-> held, seen |-> seen, plain |-> IF stale THEN None ELSE plain]

\* Mutant: the range of the period before is kept.
Restart_KeepsRange == [CloseSlot(clock) EXCEPT !.sum = 0, !.good = 0]

\* Slot::restart: the next period starts with the value held now.
Restart == [CloseSlot(clock) EXCEPT !.sum = 0, !.good = 0, !.lo = slot.value, !.hi = slot.value]

\* due: frames whose window has ended, and samples that are due, on the grid of the period.
Due ==
    /\ phase = "run" /\ \E d \in NextDeadline : d <= clock
    /\ LET ended == open["frame"] # << >> /\ Head(open["frame"]).opened + Window <= clock
       IN IF ended
          THEN /\ Publish(Closed("frame"))
               /\ depth' = Reset("frame") /\ open' = [open EXCEPT !["frame"] = << >>]
          ELSE UNCHANGED <<open, depth, out, units_settled, published_units>>
    /\ IF next > clock THEN UNCHANGED <<slot, next, held, seen, sampled>>
       ELSE /\ sampled' = <<Sample>>
            /\ slot' = Restart
            /\ held' = << >> /\ seen' = {slot.value} \ {None}
            /\ next' = IF next + Every <= clock THEN clock + Every ELSE next + Every
    /\ UNCHANGED <<clock, last_layer, plain, stale, unit, readings, phase>>

\* flush_all: a reload or a stop publishes everything that is open ...
FlushAll ==
    /\ phase = "run"
    /\ Publish(Closed("time") \o Closed("frame"))
    /\ open' = [k \in Policy |-> << >>]
    /\ depth' = [p \in Points |-> 0]
    /\ phase' = "flushed"
    /\ UNCHANGED <<clock, last_layer, slot, plain, next, stale, unit, readings, held, seen,
                   sampled>>

\* ... and Batcher::new takes over only the units it published.
Rebuild ==
    /\ phase = "flushed"
    /\ \E u \in {0, 1} : unit' = u
    /\ units_settled' = FALSE
    /\ last_layer' = 0 /\ slot' = NoSlot(clock) /\ plain' = None /\ next' = clock + Every
    /\ stale' = FALSE /\ readings' = {} /\ out' = << >> /\ held' = << >> /\ seen' = {} /\ sampled' = << >>
    /\ phase' = "run"
    /\ UNCHANGED <<clock, open, depth, published_units>>

Next ==
    \/ \E p \in Points, ts \in 1 .. MaxTs : Offer(p, ts)
    \/ \E v \in Value \union {None} : OfferSampled(v)
    \/ SetStale \/ Tick \/ EndOfPass \/ Due \/ FlushAll \/ Rebuild

Spec == Init /\ [][Next]_vars

-----------------------------------------------------------------------------
(* Properties.                                                             *)

Series == UNION {{<<i, s>> : s \in out[i].series} : i \in DOMAIN out}
Waiting == UNION {UNION {open[k][i].part : i \in DOMAIN open[k]} : k \in Policy}

\* No message is published without a series.
LayersFilled == \A k \in Policy : \A i \in DOMAIN open[k] : open[k][i].part # {}

\* Every reading taken for the measurements is published once or waits in an open message,
\* through splits, layers, full frames, passes and rebuilds, and never in a message that holds
\* its point twice.
EachOnce ==
    /\ {s[2] : s \in Series} \union Waiting = readings
    /\ Cardinality(Series) + Cardinality(Waiting) = Cardinality(readings)
    /\ phase = "flushed" => Waiting = {}
    /\ \A i \in DOMAIN out : \A a, b \in out[i].series : a.point = b.point => a = b

\* The values of a frame point are published with times that strictly increase in the order they
\* were read, although readings come late, repeat a time or share a layer.
FrameOrder ==
    \A x, y \in Series :
        x[2].point \in FramePoint /\ x[2].point = y[2].point /\ x[2].id < y[2].id =>
            out[x[1]].time < out[y[1]].time

\* A deadline is known for every frame that waits; the units in force are out before any series.
NothingForgotten ==
    /\ open["frame"] # << >> =>
          \E d \in NextDeadline : d <= Head(open["frame"]).opened + Window
    /\ \A i \in DOMAIN out : out[i].units = unit

\* The aggregates of a period are those of the values held in it and no others.
AggregateExact ==
    \A i \in DOMAIN sampled :
        LET s == sampled[i]
            good == SelectSeq(s.held, LAMBDA v : v # None)
        IN /\ s.good = Len(good)
           /\ s.sum = FoldSeq(LAMBDA v, acc : v + acc, 0, good)
           /\ s.seen # {} => s.lo = Min(s.seen) /\ s.hi = Max(s.seen)
=============================================================================
