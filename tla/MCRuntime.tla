------------------------------ MODULE MCRuntime ------------------------------
(* Small instances of Runtime: one or two devices, the features of a module   *)
(* chosen by the .cfg.                                                        *)
EXTENDS Runtime

CONSTANTS d1, d2

\* The first device alone, and both.
OneOrBoth == {{d1}, {d1, d2}}
JustOne == {{d1}}
Both == {d1, d2}
First == {d1}
None == {}
Second == {d2}

=============================================================================
