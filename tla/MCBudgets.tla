------------------------------ MODULE MCBudgets ------------------------------
(* Three devices: two share an endpoint, the third has its own, capped by its *)
(* module; the total is smaller than the endpoints' budgets together.         *)
EXTENDS Budgets

CONSTANTS d1, d2, d3, e1, e2

Devices == {d1, d2, d3}
Endpoints == {e1, e2}
Shared == [d \in Devices |-> IF d = d3 THEN e2 ELSE e1]
Inflights == [d \in Devices |-> IF d = d1 THEN 4 ELSE 3]
Caps == [e \in Endpoints |-> IF e = e2 THEN 0 ELSE NoCap]
Wants == [d \in Devices |-> IF d = d1 THEN 3 ELSE IF d = d2 THEN 2 ELSE 0]

\* Every read that waits is served once no more are started, and an endpoint that
\* stops refusing regains its configured budget (take, back_off, success).
Served == AcquireEnds /\ Regrows
=============================================================================
