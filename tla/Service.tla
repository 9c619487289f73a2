------------------------------- MODULE Service -------------------------------
(***************************************************************************)
(* The long-running service of impl/rust/src/main.rs: `run` and its one    *)
(* reload path for SIGHUP and for detected file changes, the file watcher  *)
(* of watch.rs, the Connectors of the process, one supervisor task per     *)
(* config file, and the attempts a supervisor makes.                       *)
(*                                                                         *)
(* A step is what the code does between two awaits.  Files change, signals *)
(* arrive and attempts fail at any point in between.                       *)
(***************************************************************************)
EXTENDS Naturals, FiniteSets

CONSTANTS
    Config,       \* the paths of connector configs
    Library,      \* the paths of point libraries
    Named,        \* the configs named one by one on the command line; the others share a directory
    Kinds,        \* what may be written to a config
    MaxWrites,    \* bound: how often files change
    MaxHangups,   \* bound: how many SIGHUPs arrive
    MaxFailures,  \* bound: how often attempts fail or wedge by themselves
    EarlyWrites,  \* files may change while the service starts
    MayOverstay,  \* a connector may need longer than STOP_GRACE to stop
    MayStop       \* the service may be asked to stop

(***************************************************************************)
(* "plain" is a usable config, "lib" one that references the libraries,    *)
(* "moved" one of another service name, protocol or broker, "rejected" one *)
(* of those that the protocol module refuses, and "bad" one that does not  *)
(* parse.                                                                  *)
(***************************************************************************)
AllKinds == {"plain", "lib", "moved", "rejected", "bad"}

ASSUME ServiceAssumption ==
    /\ IsFiniteSet(Config) /\ IsFiniteSet(Library)
    /\ Config \intersect Library = {}
    /\ Named \subseteq Config
    /\ Kinds \subseteq AllKinds
    /\ MaxWrites \in Nat /\ MaxHangups \in Nat /\ MaxFailures \in Nat
    /\ {EarlyWrites, MayOverstay, MayStop} \subseteq BOOLEAN

VARIABLES
    file,       \* what is on disk; a write gives a path a stamp it never had
    svc,        \* where `run` is
    configs,    \* the paths a reload discovered
    running,    \* Connectors::running, the paths that have a supervisor
    stopping,   \* Connectors::stopping
    libraries,  \* Watcher::libraries
    baseline,   \* Watcher::baseline
    pending,    \* Watcher::pending: no snapshot or one
    hangup,     \* a SIGHUP is waiting to be received
    sup,        \* where the supervisor of a path is
    stop,       \* its stop channel
    permit,     \* its Notify for reloads holds a permit
    attempt,    \* where its attempt is
    outcome,    \* what its last attempt returned
    cfg,        \* the configuration the attempt runs with
    lingering,  \* paths with a cancelled attempt that has not ended yet
    served,     \* history: the connector has run and has not failed by itself since
    writes, hangups, failures  \* counters for the bounds

files == <<file, writes>>
watcher == <<libraries, baseline, pending>>
tasks == <<sup, stop, permit, attempt, outcome, cfg, lingering, served, failures>>
connectors == <<configs, running, stopping>>
signals == <<hangup, hangups>>
vars == <<files, svc, connectors, watcher, signals, tasks>>

Path == Config \union Library
Absent == [stamp |-> 0, kind |-> "absent"]
Nothing == [p \in {} |-> Absent]
NoConfig == [config |-> Absent, libs |-> Nothing]

Present(p) == file[p] # Absent

-----------------------------------------------------------------------------
(* Reading files                                                           *)

\* referenced_library_files: a file that does not parse references none.
Referenced(content) == IF content.kind = "lib" THEN Library ELSE {}

\* library::resolve: the file parses and every library it references is there.
Resolves(c) ==
    /\ Present(c)
    /\ file[c].kind # "bad"
    /\ \A l \in Referenced(file[c]) : Present(l)

Resolve(c) == [config |-> file[c], libs |-> [l \in Referenced(file[c]) |-> file[l]]]

\* What `configure` of the protocol module makes of a resolved config.
Accepted(c) == file[c].kind # "rejected"

Usable(c) == Resolves(c) /\ Accepted(c)

ServiceOf(content) == IF content.kind \in {"moved", "rejected"} THEN 2 ELSE 1

NeedsRestart(old, new) == ServiceOf(old.config) # ServiceOf(new.config)

\* discover_configs: a named path that does not exist is an error.
DiscoverFails == \E c \in Named : ~Present(c)

\* Mutant: a path that has a connector is kept.
Discovered_StillRunning == {c \in Config : Present(c) \/ c \in running}

Discovered == {c \in Config : Present(c)}

\* Watcher::config_files and Watcher::snapshot.
ConfigFiles == {c \in Config : c \in Named \/ Present(c)}
Snapshot == [p \in ConfigFiles \union libraries |-> file[p]]

\* Watcher::rebuild.
Rebuilt == UNION {Referenced(file[c]) : c \in ConfigFiles}

-----------------------------------------------------------------------------
(* Connectors                                                              *)

\* Connectors::start for every path of ps, and a reload permit for every path of rs.
StartAndNotify(ps, rs) ==
    /\ running' = running \union ps
    /\ sup' = [c \in Config |-> IF c \in ps THEN "spawn" ELSE sup[c]]
    /\ stop' = [c \in Config |-> stop[c] /\ c \notin ps]
    /\ permit' = [c \in Config |-> IF c \in ps THEN FALSE ELSE permit[c] \/ c \in rs]
    /\ served' = [c \in Config |-> served[c] /\ c \notin ps]
    /\ UNCHANGED <<attempt, outcome, cfg, lingering, failures>>

\* Ask the supervisors of cs to stop and keep their handles in `stopping`.
AskToStop(cs) ==
    /\ running' = running \ cs
    /\ stopping' = stopping \union cs
    /\ stop' = [c \in Config |-> stop[c] \/ c \in cs]
    /\ UNCHANGED <<sup, permit, attempt, outcome, cfg, lingering, served, failures>>

-----------------------------------------------------------------------------
(* `run`                                                                   *)

Init ==
    /\ file \in [Path -> {Absent} \union {[stamp |-> 1, kind |-> k] : k \in {"plain", "lib"}}]
    /\ \A l \in Library : file[l].kind # "lib"
    /\ \A c \in Named : Present(c)
    /\ svc = "start"
    /\ configs = {} /\ running = {} /\ stopping = {}
    /\ libraries = {} /\ baseline = Nothing /\ pending = {}
    /\ hangup = FALSE
    /\ sup = [c \in Config |-> "none"]
    /\ stop = [c \in Config |-> FALSE]
    /\ permit = [c \in Config |-> FALSE]
    /\ attempt = [c \in Config |-> "none"]
    /\ outcome = [c \in Config |-> "none"]
    /\ cfg = [c \in Config |-> NoConfig]
    /\ lingering = {}
    /\ served = [c \in Config |-> FALSE]
    /\ writes = 0 /\ hangups = 0 /\ failures = 0

\* The connectors start; their tasks run from here on.
StartAll ==
    /\ svc = "start"
    /\ IF DiscoverFails
       THEN /\ svc' = "ended"
            /\ UNCHANGED <<running, tasks>>
       ELSE /\ svc' = "new watcher"
            /\ StartAndNotify(Discovered, {})
    /\ UNCHANGED <<files, configs, stopping, watcher, signals>>

\* Watcher::new.
NewWatcher ==
    /\ svc = "new watcher"
    /\ libraries' = Rebuilt
    /\ svc' = "baseline"
    /\ UNCHANGED <<files, connectors, baseline, pending, signals, tasks>>

FirstBaseline ==
    /\ svc = "baseline"
    /\ baseline' = Snapshot
    /\ svc' = "serve"
    /\ UNCHANGED <<files, connectors, libraries, pending, signals, tasks>>

\* Mutant: a difference is acted on without moving the baseline.
Poll_KeepsBaseline ==
    /\ svc = "serve"
    /\ IF Snapshot = baseline
       THEN pending' = {} /\ UNCHANGED <<baseline, svc>>
       ELSE IF Snapshot \notin pending
       THEN pending' = {Snapshot} /\ UNCHANGED <<baseline, svc>>
       ELSE pending' = {} /\ UNCHANGED baseline /\ svc' = "discover"
    /\ UNCHANGED <<files, connectors, libraries, signals, tasks>>

\* One tick of poll_watcher, Watcher::poll: a change is acted on once it has settled.
Poll ==
    /\ svc = "serve"
    /\ IF Snapshot = baseline
       THEN pending' = {} /\ UNCHANGED <<baseline, svc>>
       ELSE IF Snapshot \notin pending
       THEN pending' = {Snapshot} /\ UNCHANGED <<baseline, svc>>
       ELSE pending' = {} /\ baseline' = Snapshot /\ svc' = "discover"
    /\ UNCHANGED <<files, connectors, libraries, signals, tasks>>

\* next_hangup.
Hangup ==
    /\ svc = "serve" /\ hangup
    /\ hangup' = FALSE
    /\ svc' = "discover"
    /\ UNCHANGED <<files, connectors, watcher, hangups, tasks>>

\* Discovery and Connectors::reconcile up to its await; an error leaves everything as it is.
Discover ==
    /\ svc = "discover"
    /\ IF DiscoverFails
       THEN /\ svc' = "rebuild"
            /\ UNCHANGED <<connectors, tasks>>
       ELSE /\ svc' = "reconcile"
            /\ configs' = Discovered
            /\ AskToStop(running \ Discovered)
    /\ UNCHANGED <<files, watcher, signals>>

\* Mutant: a reload starts connectors without waiting for those that stop.
FinishStopping_AtOnce(from, to) ==
    /\ svc = from
    /\ lingering' = lingering \union {c \in stopping : attempt[c] # "none"}
    /\ stopping' = {}
    /\ svc' = to
    /\ UNCHANGED <<files, configs, running, watcher, signals, sup, stop, permit, attempt,
                   outcome, cfg, served, failures>>

\* Connectors::finish_stopping, every supervisor ended within STOP_GRACE.
FinishStopping(from, to) ==
    /\ svc = from
    /\ \A c \in stopping : sup[c] = "ended"
    /\ stopping' = {}
    /\ svc' = to
    /\ UNCHANGED <<files, configs, running, watcher, signals, tasks>>

\* Mutant: connectors that do not stop in time are waited for.
GraceEnds_Waits(from, to) ==
    /\ MayOverstay
    /\ svc = from
    /\ UNCHANGED vars

(***************************************************************************)
(* Connectors::finish_stopping, STOP_GRACE over: the supervisors left are  *)
(* cancelled and their ends awaited.  A cancelled supervisor drops its     *)
(* AbortOnDrop, which asks for the attempt's cancellation and does not     *)
(* wait for it.                                                            *)
(***************************************************************************)
GraceEnds(from, to) ==
    LET left == {c \in stopping : sup[c] # "ended"} IN
    /\ MayOverstay
    /\ svc = from
    /\ left # {}
    /\ sup' = [c \in Config |-> IF c \in left THEN "ended" ELSE sup[c]]
    /\ lingering' = lingering \union {c \in left : attempt[c] \notin {"none", "done"}}
    /\ attempt' = [c \in Config |-> IF c \in left THEN "none" ELSE attempt[c]]
    /\ cfg' = [c \in Config |-> IF c \in left THEN NoConfig ELSE cfg[c]]
    /\ stopping' = {}
    /\ svc' = to
    /\ UNCHANGED <<files, configs, running, watcher, signals, stop, permit, outcome, served,
                   failures>>

\* The rest of reconcile, from the paths discovered before the wait.
Reconcile ==
    /\ svc = "restart"
    /\ StartAndNotify(configs \ running, configs \intersect running)
    /\ configs' = {}
    /\ svc' = "rebuild"
    /\ UNCHANGED <<files, stopping, watcher, signals>>

\* Mutant: the files as they are after the reload become the baseline.
Rebuild_MovesBaseline ==
    /\ svc = "rebuild"
    /\ libraries' = Rebuilt
    /\ baseline' = Snapshot
    /\ svc' = "serve"
    /\ UNCHANGED <<files, connectors, pending, signals, tasks>>

Rebuild ==
    /\ svc = "rebuild"
    /\ libraries' = Rebuilt
    /\ svc' = "serve"
    /\ UNCHANGED <<files, connectors, baseline, pending, signals, tasks>>

\* Mutant: the handles of stopping connectors are a local of the interrupted reload.
StopAll_ForgetsStopping ==
    /\ MayStop
    /\ svc \in {"serve", "reconcile"}
    /\ configs' = {}
    /\ running' = {}
    /\ stopping' = running
    /\ stop' = [c \in Config |-> stop[c] \/ c \in running]
    /\ svc' = "stop"
    /\ UNCHANGED <<files, watcher, signals, sup, permit, attempt, outcome, cfg, lingering,
                   served, failures>>

\* A shutdown, also one that interrupts a reload waiting in reconcile; Connectors::stop_all.
StopAll ==
    /\ MayStop
    /\ svc \in {"serve", "reconcile"}
    /\ configs' = {}
    /\ AskToStop(running)
    /\ svc' = "stop"
    /\ UNCHANGED <<files, watcher, signals>>

-----------------------------------------------------------------------------
(* supervise and run_one                                                   *)

others == <<files, svc, connectors, watcher, signals>>

Spawn(c) ==
    /\ sup[c] = "spawn"
    /\ sup' = [sup EXCEPT ![c] = "await"]
    /\ attempt' = [attempt EXCEPT ![c] = "load"]
    /\ UNCHANGED <<others, stop, permit, outcome, cfg, lingering, served, failures>>

Return(c, result) ==
    /\ attempt' = [attempt EXCEPT ![c] = "done"]
    /\ outcome' = [outcome EXCEPT ![c] = result]
    /\ cfg' = [cfg EXCEPT ![c] = NoConfig]

\* run_one up to its first await: the file is read and the module configured.
Load(c) ==
    /\ attempt[c] = "load"
    /\ IF Usable(c)
       THEN /\ attempt' = [attempt EXCEPT ![c] = "connect"]
            /\ cfg' = [cfg EXCEPT ![c] = Resolve(c)]
            /\ UNCHANGED outcome
       ELSE Return(c, "Err")
    /\ UNCHANGED <<others, sup, stop, permit, lingering, served, failures>>

\* run_until_reloadable waits for the broker to accept the session ...
Connected(c) ==
    /\ attempt[c] = "connect"
    /\ attempt' = [attempt EXCEPT ![c] = "run"]
    /\ served' = [served EXCEPT ![c] = TRUE]
    /\ UNCHANGED <<others, sup, stop, permit, outcome, cfg, lingering, failures>>

\* ... and a reload meanwhile restarts the attempt.
ReloadWhileConnecting(c) ==
    /\ attempt[c] = "connect" /\ permit[c]
    /\ permit' = [permit EXCEPT ![c] = FALSE]
    /\ Return(c, "Restart")
    /\ UNCHANGED <<others, sup, stop, lingering, served, failures>>

\* The reload arm of the main loop takes the permit and drains the reads in flight.
Reload(c) ==
    /\ attempt[c] = "run" /\ permit[c]
    /\ permit' = [permit EXCEPT ![c] = FALSE]
    /\ attempt' = [attempt EXCEPT ![c] = "reload"]
    /\ UNCHANGED <<others, sup, stop, outcome, cfg, lingering, served, failures>>

\* Mutant: a file that cannot be used ends the attempt.
ReloadFromFile_NotKept(c) ==
    /\ attempt[c] = "reload"
    /\ IF ~Usable(c)
       THEN Return(c, "Err")
       ELSE /\ attempt' = [attempt EXCEPT ![c] = "run"]
            /\ cfg' = [cfg EXCEPT ![c] = Resolve(c)]
            /\ UNCHANGED outcome
    /\ UNCHANGED <<others, sup, stop, permit, lingering, served, failures>>

\* reload_from_file: the file is kept out, restarts the connector, or is applied.
ReloadFromFile(c) ==
    /\ attempt[c] = "reload"
    /\ IF Resolves(c) /\ NeedsRestart(cfg[c], Resolve(c))
       THEN Return(c, "Restart")
       ELSE /\ attempt' = [attempt EXCEPT ![c] = "run"]
            /\ cfg' = [cfg EXCEPT ![c] = IF Usable(c) THEN Resolve(c) ELSE @]
            /\ UNCHANGED outcome
    /\ UNCHANGED <<others, sup, stop, permit, lingering, served, failures>>

\* The attempt sees its stop channel.
StopAttempt(c) ==
    /\ attempt[c] \in {"connect", "run"} /\ stop[c]
    /\ Return(c, "Stopped")
    /\ UNCHANGED <<others, sup, stop, permit, lingering, served, failures>>

\* The broker does not answer, the module panics or an error ends the loop.
Fail(c) ==
    /\ failures < MaxFailures
    /\ attempt[c] \in {"connect", "run"}
    /\ failures' = failures + 1
    /\ served' = [served EXCEPT ![c] = FALSE]
    /\ Return(c, "Err")
    /\ UNCHANGED <<others, sup, stop, permit, lingering>>

\* A protocol call does not return ...
Wedge(c) ==
    /\ failures < MaxFailures
    /\ attempt[c] = "run"
    /\ failures' = failures + 1
    /\ served' = [served EXCEPT ![c] = FALSE]
    /\ attempt' = [attempt EXCEPT ![c] = "wedged"]
    /\ UNCHANGED <<others, sup, stop, permit, outcome, cfg, lingering>>

\* ... until the stall watchdog cancels the attempt.
StallWatchdog(c) ==
    /\ attempt[c] = "wedged"
    /\ Return(c, "Err")
    /\ UNCHANGED <<others, sup, stop, permit, lingering, served, failures>>

\* supervise takes the attempt's result.
AttemptEnds(c) ==
    /\ sup[c] = "await" /\ attempt[c] = "done"
    /\ attempt' = [attempt EXCEPT ![c] = "none"]
    /\ sup' = [sup EXCEPT ![c] = IF stop[c] \/ outcome[c] = "Stopped" THEN "ended"
                                 ELSE IF outcome[c] = "Restart" THEN "spawn"
                                 ELSE "backoff"]
    /\ UNCHANGED <<others, stop, permit, outcome, cfg, lingering, served, failures>>

BackoffEnds(c) ==
    /\ sup[c] = "backoff"
    /\ sup' = [sup EXCEPT ![c] = "spawn"]
    /\ UNCHANGED <<others, stop, permit, attempt, outcome, cfg, lingering, served, failures>>

BackoffReload(c) ==
    /\ sup[c] = "backoff" /\ permit[c]
    /\ permit' = [permit EXCEPT ![c] = FALSE]
    /\ sup' = [sup EXCEPT ![c] = "spawn"]
    /\ UNCHANGED <<others, stop, attempt, outcome, cfg, lingering, served, failures>>

BackoffStop(c) ==
    /\ sup[c] = "backoff" /\ stop[c]
    /\ sup' = [sup EXCEPT ![c] = "ended"]
    /\ UNCHANGED <<others, stop, permit, attempt, outcome, cfg, lingering, served, failures>>

\* The cancellation of an attempt takes effect at its next await.
LingerEnds(c) ==
    /\ c \in lingering
    /\ lingering' = lingering \ {c}
    /\ UNCHANGED <<others, sup, stop, permit, attempt, outcome, cfg, served, failures>>

-----------------------------------------------------------------------------
(* The surroundings                                                        *)

MayWrite ==
    /\ writes < MaxWrites
    /\ EarlyWrites \/ svc \notin {"start", "new watcher", "baseline"}
    /\ writes' = writes + 1
    /\ UNCHANGED <<svc, connectors, watcher, signals, tasks>>

WriteConfig(c, kind) ==
    /\ MayWrite
    /\ file' = [file EXCEPT ![c] = [stamp |-> writes + 2, kind |-> kind]]

WriteLibrary(l) ==
    /\ MayWrite
    /\ file' = [file EXCEPT ![l] = [stamp |-> writes + 2, kind |-> "plain"]]

Remove(p) ==
    /\ MayWrite
    /\ Present(p)
    /\ file' = [file EXCEPT ![p] = Absent]

SendHangup ==
    /\ hangups < MaxHangups
    /\ hangups' = hangups + 1
    /\ hangup' = TRUE
    /\ UNCHANGED <<files, svc, connectors, watcher, tasks>>

Surroundings ==
    \/ \E c \in Config, kind \in Kinds : WriteConfig(c, kind)
    \/ \E l \in Library : WriteLibrary(l)
    \/ \E p \in Path : Remove(p)
    \/ SendHangup
    \/ \E c \in Config : Fail(c) \/ Wedge(c)

-----------------------------------------------------------------------------

Stopping == FinishStopping("reconcile", "restart") \/ FinishStopping("stop", "ended")
Overstaying == GraceEnds("reconcile", "restart") \/ GraceEnds("stop", "ended")

ReloadSteps == Discover \/ Reconcile \/ Rebuild
Starting == StartAll \/ NewWatcher \/ FirstBaseline

Supervisor(c) == Spawn(c) \/ AttemptEnds(c) \/ BackoffEnds(c) \/ BackoffReload(c)
Attempt(c) ==
    \/ Load(c) \/ Connected(c) \/ ReloadWhileConnecting(c) \/ Reload(c) \/ ReloadFromFile(c)
    \/ StallWatchdog(c) \/ LingerEnds(c)

Ended == svc = "ended" /\ UNCHANGED vars

Next ==
    \/ Starting \/ Poll \/ Hangup \/ ReloadSteps \/ Stopping \/ Overstaying \/ StopAll
    \/ \E c \in Config : Supervisor(c) \/ Attempt(c) \/ StopAttempt(c) \/ BackoffStop(c)
    \/ Surroundings
    \/ Ended

Spec == Init /\ [][Next]_vars

(***************************************************************************)
(* Fairness: the runtime polls every task that can go on, the tick of the  *)
(* watcher and the timers of a backoff, of the grace period and of the     *)
(* watchdog fire.  Nothing is assumed about files, signals and failures,   *)
(* nor, where connectors may overstay, that an attempt ever sees its stop. *)
(***************************************************************************)
Fairness ==
    /\ WF_vars(Starting) /\ WF_vars(Poll) /\ WF_vars(Hangup) /\ WF_vars(ReloadSteps)
    /\ WF_vars(Stopping) /\ WF_vars(Overstaying)
    /\ \A c \in Config :
          /\ WF_vars(Supervisor(c)) /\ WF_vars(Attempt(c)) /\ WF_vars(BackoffStop(c))
          /\ MayOverstay \/ WF_vars(StopAttempt(c))

FairSpec == Spec /\ Fairness

-----------------------------------------------------------------------------
(* Properties                                                              *)

Content == [stamp : 0 .. MaxWrites + 1, kind : AllKinds \union {"absent"}]

\* Every variable has its type.
Typed ==
    /\ file \in [Path -> Content]
    /\ svc \in {"start", "new watcher", "baseline", "serve", "discover", "reconcile", "restart",
                "rebuild", "stop", "ended"}
    /\ configs \subseteq Config /\ running \subseteq Config /\ stopping \subseteq Config
    /\ libraries \subseteq Library
    /\ hangup \in BOOLEAN
    /\ sup \in [Config -> {"none", "spawn", "await", "backoff", "ended"}]
    /\ stop \in [Config -> BOOLEAN] /\ permit \in [Config -> BOOLEAN]
    /\ attempt \in [Config -> {"none", "load", "connect", "run", "reload", "wedged", "done"}]
    /\ outcome \in [Config -> {"none", "Err", "Restart", "Stopped"}]
    /\ lingering \subseteq Config
    /\ served \in [Config -> BOOLEAN]
    /\ writes \in 0 .. MaxWrites /\ hangups \in 0 .. MaxHangups
    /\ failures \in 0 .. MaxFailures

\* Supervisors, their entries in Connectors, and their attempts.
Paired ==
    /\ running \intersect stopping = {}
    /\ \A c \in Config :
          /\ c \notin running \union stopping => sup[c] \in {"none", "ended"}
          /\ attempt[c] # "none" <=> sup[c] = "await"
          /\ cfg[c] # NoConfig <=> attempt[c] \in {"connect", "run", "reload", "wedged"}

(***************************************************************************)
(* The state is well formed: a path has at most one supervisor, in         *)
(* `running` or in `stopping`, a supervisor outside them has ended, and an *)
(* attempt that runs has a configuration.                                  *)
(***************************************************************************)
TypeOK == Typed /\ Paired

(***************************************************************************)
(* A reload starts connectors only when the attempts of those it stopped   *)
(* are gone, so that the final health of an old session cannot follow the  *)
(* first of a new one with its service name (Connectors::reconcile,        *)
(* finish_stopping).                                                       *)
(***************************************************************************)
NoOverlap ==
    svc = "restart" => lingering = {} /\ \A c \in Config \ running : attempt[c] = "none"

(***************************************************************************)
(* The service ends only after every attempt it started has ended or was   *)
(* cancelled, also when the shutdown interrupts a reload that is stopping  *)
(* connectors (Connectors::stopping, stop_all).                            *)
(***************************************************************************)
NoneLeft == svc = "ended" => \A c \in Config : attempt[c] = "none"

(***************************************************************************)
(* A connector that has run and has not failed by itself is never down     *)
(* because of what a file contains: a reload of a file that cannot be used *)
(* keeps the running configuration (reload_from_file, supervise).          *)
(***************************************************************************)
Undisturbed == \A c \in Config : served[c] => sup[c] # "backoff"

(***************************************************************************)
(* A reload and the connectors it touches: what it starts never runs       *)
(* beside what it stops, and what it cannot use does not take a serving    *)
(* connector down (reconcile, finish_stopping, reload_from_file).          *)
(***************************************************************************)
Orderly == NoOverlap /\ Undisturbed

(***************************************************************************)
(* Once files stop changing, every connector whose file can be used runs   *)
(* what the file and the libraries it references say; a change made during *)
(* a reload is not lost (Watcher, run, supervise, reload_from_file).       *)
(***************************************************************************)
UpToDate ==
    <>[](\/ svc \in {"stop", "ended"}
         \/ \A c \in Config :
               Usable(c) => c \in running /\ attempt[c] \in {"run", "reload"} /\ cfg[c] = Resolve(c))

(***************************************************************************)
(* A reload that begins when a file is gone for good stops its connector   *)
(* (discover_configs, Connectors::reconcile).  That a removal causes a     *)
(* reload is not implied: a file created again and removed again while a   *)
(* reload runs leaves the snapshot as the baseline has it.                 *)
(***************************************************************************)
ReloadStops ==
    \A c \in Config :
        [](svc = "discover" /\ []~Present(c) => <>(c \notin running /\ attempt[c] = "none"))

(***************************************************************************)
(* Once files stop changing, the watcher goes quiet: libraries watched for *)
(* the first time cause no endless reloads (Watcher::rebuild, poll).       *)
(***************************************************************************)
GoesQuiet == <>[](svc \in {"serve", "stop", "ended"})

(***************************************************************************)
(* A service asked to stop ends, whatever its connectors are doing         *)
(* (Connectors::stop_all, finish_stopping).                                *)
(***************************************************************************)
StopEnds == (svc = "stop") ~> (svc = "ended")

=============================================================================
