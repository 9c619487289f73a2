------------------------------- MODULE Retained -------------------------------
(***************************************************************************)
(* What an MQTT session promises of a topic: the connector gives the topic *)
(* one value after another, and some of them arrive, never an older one    *)
(* after a newer one.  A new session starts over: what was not             *)
(* acknowledged in the one before is sent again.                           *)
(***************************************************************************)
EXTENDS Naturals

CONSTANT Topic

VARIABLES
    want,   \* the values given so far, numbered from 1
    shown   \* the number of the last value that arrived, 0 for none

vars == <<want, shown>>

Init == want = [t \in Topic |-> 0] /\ shown = [t \in Topic |-> 0]

\* The connector gives some topics new values.
Give(T) == want' = [t \in Topic |-> want[t] + IF t \in T THEN 1 ELSE 0] /\ UNCHANGED shown

\* A value arrives that is not older, perhaps not the newest.
Show(t) ==
    /\ \E v \in shown[t] .. want[t] : shown' = [shown EXCEPT ![t] = v]
    /\ UNCHANGED want

\* A new session.
Again == shown' = [t \in Topic |-> 0] /\ UNCHANGED want

Next == (\E T \in SUBSET Topic : Give(T)) \/ (\E t \in Topic : Show(t)) \/ Again

Spec == Init /\ [][Next]_vars
=============================================================================
