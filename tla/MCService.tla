------------------------------ MODULE MCService ------------------------------
(* Small instances of Service: one or two configs, with or without a library. *)
EXTENDS Service

CONSTANTS c1, c2, lib

OneConfig == {c1}
TwoConfigs == {c1, c2}
Second == {c2}
OneLibrary == {lib}
NoPaths == {}

LibOrBad == {"lib", "bad"}
Moved == {"moved"}

\* Once files stop changing, the service runs what they say, has stopped what is gone
\* and goes quiet (Watcher, discover_configs, reconcile).
Settles == UpToDate /\ ReloadStops /\ GoesQuiet

=============================================================================
