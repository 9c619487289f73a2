--------------------------- MODULE MCReportState ---------------------------
(* Small policies, observations and qualities for ReportState.             *)
EXTENDS ReportState

Number(n) == [kind |-> "number", value |-> n]
NaN == [kind |-> "nan", value |-> 0]
Text(n) == [kind |-> "other", value |-> n]

Off == [kind |-> "off", amount |-> 0]
Absolute(n) == [kind |-> "absolute", amount |-> n]
Percent(n) == [kind |-> "percent", amount |-> n]

P(on_change, deadband, min, max, debounce) ==
    [on_change |-> on_change, deadband |-> deadband, min_interval |-> min,
     max_interval |-> max, debounce |-> debounce]

\* Policies that hold a change back or let it settle, but not both.
MCPolicies ==
    {P(FALSE, Off, 2, 0, 0), P(TRUE, Off, 0, 3, 0), P(TRUE, Off, 2, 0, 0),
     P(FALSE, Absolute(2), 2, 3, 0), P(FALSE, Percent(50), 3, 2, 0),
     P(FALSE, Off, 0, 0, 2), P(FALSE, Absolute(2), 0, 3, 2)}

MCNumbers == {Number(0), Number(1), Number(3), NaN}
MCMixed == {Number(0), Number(2), Text(0)}
MCQualities == {"good", "bad"}
=============================================================================
