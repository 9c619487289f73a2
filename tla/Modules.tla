------------------------------- MODULE Modules -------------------------------
(***************************************************************************)
(* The parts of the SDK beside the main loop that are proved about:        *)
(* Commands with the names of its own module, and the measurements of      *)
(* grouped points as an instance of Batcher.                               *)
(***************************************************************************)
EXTENDS Commands

CONSTANTS
    TimePoint, FramePoint, Window, Every, MaxLayers, Budget, MaxReadings, MaxClock, MaxTs

ASSUME GroupAssumption ==
    /\ TimePoint \intersect FramePoint = {}     \* a point has one batch policy
    /\ MaxLayers \in Nat \ {0} /\ MaxTs \in Nat

VARIABLES
    clock, open, depth, last_layer, slot, plain, next, stale, unit, units_settled, published_units,
    readings, out, held, seen, sampled, phase

batch_vars == <<clock, open, depth, last_layer, slot, plain, next, stale, unit, units_settled,
                published_units, readings, out, held, seen, sampled, phase>>

\* No point is sampled here.
G == INSTANCE Batcher WITH Value <- {}

\* Measurements: a reading is published in one message, with at least its own series, or waits in an
\* open one, and a frame point's messages are in the order of its readings.
MeasuredOnce == G!EachOnce /\ G!FrameOrder /\ G!LayersFilled
=============================================================================
