---------------------------- MODULE ServiceProofs ----------------------------
(***************************************************************************)
(* Supervisors, their entries and their attempts stay paired, a service    *)
(* that has ended has left no attempt, and reloads are orderly, for every  *)
(* set of configs and libraries and every order of edits, signals,         *)
(* failures and stops.                                                     *)
(***************************************************************************)
EXTENDS Service, TLAPS

(***************************************************************************)
(* `stopping` is in use only while the service waits for it, and a service *)
(* that stops or has ended runs nothing: what NoneLeft needs.  `cfg` is a  *)
(* function on the configs, of which Typed says nothing.                   *)
(***************************************************************************)
Waiting ==
    /\ svc \notin {"reconcile", "stop"} => stopping = {}
    /\ svc \in {"start", "stop", "ended"} => running = {}
    /\ cfg = [c \in Config |-> cfg[c]]

Linked == Paired /\ Waiting

IInv == TypeOK /\ Waiting

-----------------------------------------------------------------------------
(* The types                                                               *)

LEMMA Bounds == MaxWrites \in Nat /\ MaxHangups \in Nat /\ MaxFailures \in Nat
BY ServiceAssumption, Zenon

LEMMA InitTyped == Init => Typed
<1> SUFFICES ASSUME Init PROVE Typed
  OBVIOUS
<1>1. file \in [Path -> Content]
  <2>1. {Absent} \union {[stamp |-> 1, kind |-> k] : k \in {"plain", "lib"}} \subseteq Content
    BY ServiceAssumption DEF Absent, Content, AllKinds
  <2> QED BY <2>1 DEF Init
<1>2. writes \in 0 .. MaxWrites /\ hangups \in 0 .. MaxHangups /\ failures \in 0 .. MaxFailures
  BY ServiceAssumption DEF Init
<1>3. sup \in [Config -> {"none", "spawn", "await", "backoff", "ended"}]
      /\ attempt \in [Config -> {"none", "load", "connect", "run", "reload", "wedged", "done"}]
      /\ outcome \in [Config -> {"none", "Err", "Restart", "Stopped"}]
  BY DEF Init
<1>4. stop \in [Config -> BOOLEAN] /\ permit \in [Config -> BOOLEAN] /\ served \in [Config -> BOOLEAN]
      /\ hangup \in BOOLEAN
  BY DEF Init
<1> QED BY <1>1, <1>2, <1>3, <1>4 DEF Init, Typed

LEMMA StartTyped ==
  ASSUME Typed, NEW ps \in SUBSET Config, NEW rs, StartAndNotify(ps, rs)
  PROVE  /\ running' \subseteq Config
         /\ sup' \in [Config -> {"none", "spawn", "await", "backoff", "ended"}]
         /\ stop' \in [Config -> BOOLEAN] /\ permit' \in [Config -> BOOLEAN]
         /\ served' \in [Config -> BOOLEAN]
         /\ UNCHANGED <<attempt, outcome, lingering, failures>>
<1>1. running' \subseteq Config
  BY DEF StartAndNotify, Typed
<1>2. sup' \in [Config -> {"none", "spawn", "await", "backoff", "ended"}]
  BY DEF StartAndNotify, Typed
<1>3. stop' \in [Config -> BOOLEAN] /\ served' \in [Config -> BOOLEAN]
  BY Zenon DEF StartAndNotify
<1>4. permit' \in [Config -> BOOLEAN]
  <2>1. \A c \in Config : (IF c \in ps THEN FALSE ELSE permit[c] \/ c \in rs) \in BOOLEAN
    OBVIOUS
  <2> QED BY <2>1, Zenon DEF StartAndNotify
<1> QED BY <1>1, <1>2, <1>3, <1>4 DEF StartAndNotify

LEMMA AskTyped ==
  ASSUME Typed, NEW cs \in SUBSET Config, AskToStop(cs)
  PROVE  /\ running' \subseteq Config /\ stopping' \subseteq Config
         /\ stop' \in [Config -> BOOLEAN]
         /\ UNCHANGED <<sup, permit, attempt, outcome, lingering, served, failures>>
<1>1. stop' \in [Config -> BOOLEAN]
  BY Zenon DEF AskToStop
<1> QED BY <1>1 DEF AskToStop, Typed

LEMMA ServiceStepTyped ==
  ASSUME Typed,
         \/ Starting \/ Poll \/ Hangup \/ ReloadSteps \/ Stopping \/ Overstaying \/ StopAll
  PROVE  Typed'
<1>0. Rebuilt \subseteq Library /\ Discovered \in SUBSET Config
  BY DEF Rebuilt, Referenced, Discovered
<1>1. CASE StartAll
  <2>1. CASE DiscoverFails
    BY <1>1, <2>1 DEF StartAll, Typed, tasks, files, watcher, signals
  <2>2. CASE ~DiscoverFails
    <3>1. StartAndNotify(Discovered, {})
          /\ UNCHANGED <<file, writes, configs, stopping, libraries, hangup, hangups>>
          /\ svc' = "new watcher"
      BY <1>1, <2>2 DEF StartAll, files, watcher, signals
    <3>2. /\ running' \subseteq Config
          /\ sup' \in [Config -> {"none", "spawn", "await", "backoff", "ended"}]
          /\ stop' \in [Config -> BOOLEAN] /\ permit' \in [Config -> BOOLEAN]
          /\ served' \in [Config -> BOOLEAN]
          /\ UNCHANGED <<attempt, outcome, lingering, failures>>
      BY <1>0, <3>1, StartTyped
    <3> QED BY <3>1, <3>2 DEF Typed
  <2> QED BY <2>1, <2>2
<1>2. CASE NewWatcher \/ Rebuild
  BY <1>0, <1>2 DEF NewWatcher, Rebuild, Typed, tasks, files, connectors, signals
<1>3. CASE FirstBaseline \/ Poll
  BY <1>3 DEF FirstBaseline, Poll, Typed, tasks, files, connectors, signals
<1>4. CASE Hangup
  BY <1>4 DEF Hangup, Typed, tasks, files, connectors, watcher
<1>5. CASE Discover
  <2>1. CASE DiscoverFails
    BY <1>5, <2>1 DEF Discover, Typed, tasks, files, connectors, watcher, signals
  <2>2. CASE ~DiscoverFails
    <3> DEFINE cs == running \ Discovered
    <3>1. AskToStop(cs) /\ configs' \subseteq Config /\ svc' = "reconcile"
          /\ UNCHANGED <<file, writes, libraries, hangup, hangups>>
      BY <1>0, <1>5, <2>2 DEF Discover, files, watcher, signals
    <3>2. cs \in SUBSET Config
      BY DEF Typed
    <3> HIDE DEF cs
    <3>3. /\ running' \subseteq Config /\ stopping' \subseteq Config
          /\ stop' \in [Config -> BOOLEAN]
          /\ UNCHANGED <<sup, permit, attempt, outcome, lingering, served, failures>>
      BY <3>1, <3>2, AskTyped
    <3> QED BY <3>1, <3>3 DEF Typed
  <2> QED BY <2>1, <2>2
<1>6. CASE Stopping
  BY <1>6 DEF Stopping, FinishStopping, Typed, tasks, files, watcher, signals
<1>7. CASE Overstaying
  <2>1. PICK from \in {"reconcile", "stop"}, to \in {"restart", "ended"} : GraceEnds(from, to)
    BY <1>7 DEF Overstaying
  <2>2. sup' \in [Config -> {"none", "spawn", "await", "backoff", "ended"}]
    BY <2>1 DEF GraceEnds, Typed
  <2>3. attempt' \in [Config -> {"none", "load", "connect", "run", "reload", "wedged", "done"}]
    BY <2>1 DEF GraceEnds, Typed
  <2>4. lingering' \subseteq Config
    BY <2>1 DEF GraceEnds, Typed
  <2>5. UNCHANGED <<file, writes, configs, running, libraries, hangup, hangups, stop, permit, outcome,
                    served, failures>> /\ stopping' = {} /\ svc' = to
    BY <2>1 DEF GraceEnds, files, watcher, signals
  <2> QED BY <2>1, <2>2, <2>3, <2>4, <2>5 DEF Typed
<1>8. CASE Reconcile
  <2> DEFINE ps == configs \ running  rs == configs \intersect running
  <2>1. StartAndNotify(ps, rs) /\ svc' = "rebuild" /\ configs' = {}
        /\ UNCHANGED <<file, writes, stopping, libraries, hangup, hangups>>
    BY <1>8 DEF Reconcile, files, watcher, signals
  <2>2. ps \in SUBSET Config
    BY DEF Typed
  <2> HIDE DEF ps, rs
  <2>3. /\ running' \subseteq Config
        /\ sup' \in [Config -> {"none", "spawn", "await", "backoff", "ended"}]
        /\ stop' \in [Config -> BOOLEAN] /\ permit' \in [Config -> BOOLEAN]
        /\ served' \in [Config -> BOOLEAN]
        /\ UNCHANGED <<attempt, outcome, lingering, failures>>
    BY <2>1, <2>2, StartTyped
  <2> QED BY <2>1, <2>3 DEF Typed
<1>9. CASE StopAll
  <2>1. AskToStop(running) /\ configs' = {} /\ svc' = "stop"
        /\ UNCHANGED <<file, writes, libraries, hangup, hangups>> /\ running \in SUBSET Config
    BY <1>9 DEF StopAll, files, watcher, signals, Typed
  <2>2. /\ running' \subseteq Config /\ stopping' \subseteq Config
        /\ stop' \in [Config -> BOOLEAN]
        /\ UNCHANGED <<sup, permit, attempt, outcome, lingering, served, failures>>
    BY <2>1, AskTyped
  <2> QED BY <2>1, <2>2 DEF Typed
<1> QED BY <1>1, <1>2, <1>3, <1>4, <1>5, <1>6, <1>7, <1>8, <1>9 DEF Starting, ReloadSteps

LEMMA TaskStepTyped ==
  ASSUME Typed, NEW c \in Config,
         \/ Supervisor(c) \/ Attempt(c) \/ StopAttempt(c) \/ BackoffStop(c) \/ Fail(c) \/ Wedge(c)
  PROVE  Typed'
<1> USE DEF others, files, connectors, watcher, signals
<1>1. CASE Spawn(c) \/ AttemptEnds(c)
  BY <1>1 DEF Spawn, AttemptEnds, Typed
<1>2. CASE BackoffEnds(c) \/ BackoffReload(c) \/ BackoffStop(c)
  BY <1>2 DEF BackoffEnds, BackoffReload, BackoffStop, Typed
<1>3. CASE Load(c)
  BY <1>3 DEF Load, Return, Typed
<1>4. CASE Connected(c) \/ Reload(c) \/ LingerEnds(c)
  BY <1>4 DEF Connected, Reload, LingerEnds, Typed
<1>5. CASE ReloadWhileConnecting(c) \/ StallWatchdog(c) \/ StopAttempt(c)
  BY <1>5 DEF ReloadWhileConnecting, StallWatchdog, StopAttempt, Return, Typed
<1>6. CASE ReloadFromFile(c)
  BY <1>6 DEF ReloadFromFile, Return, Typed
<1>7. CASE Fail(c) \/ Wedge(c)
  <2>0. failures \in 0 .. MaxFailures /\ failures < MaxFailures /\ failures' = failures + 1
    BY <1>7 DEF Fail, Wedge, Typed
  <2>1. failures' \in 0 .. MaxFailures
    BY <2>0, Bounds
  <2> QED BY <1>7, <2>1 DEF Fail, Wedge, Return, Typed
<1> QED BY <1>1, <1>2, <1>3, <1>4, <1>5, <1>6, <1>7 DEF Supervisor, Attempt

LEMMA WriteTyped ==
  ASSUME Typed, NEW p \in Path, NEW content \in Content, MayWrite,
         file' = [file EXCEPT ![p] = content]
  PROVE  Typed'
<1>1. file' \in [Path -> Content]
  BY DEF Typed
<1>0. writes \in 0 .. MaxWrites /\ writes < MaxWrites /\ writes' = writes + 1
  BY DEF MayWrite, Typed
<1>2. writes' \in 0 .. MaxWrites
  BY <1>0, Bounds
<1> QED BY <1>1, <1>2 DEF MayWrite, Typed, connectors, watcher, signals, tasks

LEMMA SurroundingsTyped ==
  ASSUME Typed, Surroundings
  PROVE  Typed'
<1>room. MayWrite => writes \in 0 .. MaxWrites /\ writes < MaxWrites
  BY DEF MayWrite, Typed
<1>0. MayWrite => writes + 2 \in 0 .. MaxWrites + 1
  BY <1>room, Bounds
<1>1. ASSUME NEW c \in Config, NEW kind \in Kinds, WriteConfig(c, kind) PROVE Typed'
  <2>1. kind \in AllKinds
    BY ServiceAssumption
  <2>2. [stamp |-> writes + 2, kind |-> kind] \in Content
    BY <1>0, <1>1, <2>1 DEF WriteConfig, Content
  <2> QED BY <1>1, <2>2, WriteTyped DEF WriteConfig, Path
<1>2. ASSUME NEW l \in Library, WriteLibrary(l) PROVE Typed'
  <2>1. [stamp |-> writes + 2, kind |-> "plain"] \in Content
    BY <1>0, <1>2 DEF WriteLibrary, Content, AllKinds
  <2> QED BY <1>2, <2>1, WriteTyped DEF WriteLibrary, Path
<1>3. ASSUME NEW p \in Path, Remove(p) PROVE Typed'
  <2>1. Absent \in Content
    BY ServiceAssumption DEF Absent, Content
  <2> QED BY <1>3, <2>1, WriteTyped DEF Remove
<1>4. CASE SendHangup
  <2>0. hangups \in 0 .. MaxHangups /\ hangups < MaxHangups /\ hangups' = hangups + 1
    BY <1>4 DEF SendHangup, Typed
  <2>1. hangups' \in 0 .. MaxHangups
    BY <2>0, Bounds
  <2> QED BY <1>4, <2>1 DEF SendHangup, Typed, files, connectors, watcher, tasks
<1>5. ASSUME NEW c \in Config, Fail(c) \/ Wedge(c) PROVE Typed'
  BY <1>5, TaskStepTyped
<1> QED BY <1>1, <1>2, <1>3, <1>4, <1>5 DEF Surroundings

-----------------------------------------------------------------------------
(* Supervisors, entries and attempts                                       *)

LEMMA InitLinked == Init => Linked
BY DEF Init, Linked, Paired, Waiting

LEMMA StartLinked ==
  ASSUME Typed, Linked, NEW ps, NEW rs, StartAndNotify(ps, rs),
         ps \intersect running = {}, stopping = {}, stopping' = {}
  PROVE  Paired' /\ cfg' = [c \in Config |-> cfg'[c]]
<1>1. ASSUME NEW d \in Config
      PROVE  /\ d \notin running' => sup'[d] \in {"none", "ended"}
             /\ attempt'[d] # "none" <=> sup'[d] = "await"
             /\ cfg'[d] # NoConfig <=> attempt'[d] \in {"connect", "run", "reload", "wedged"}
  BY DEF StartAndNotify, Typed, Linked, Paired
<1> QED BY <1>1 DEF StartAndNotify, Linked, Paired, Waiting

LEMMA AskLinked ==
  ASSUME Typed, Linked, NEW cs \in SUBSET running, AskToStop(cs)
  PROVE  Paired' /\ cfg' = [c \in Config |-> cfg'[c]]
BY DEF AskToStop, Linked, Paired, Waiting

LEMMA ServiceStepLinked ==
  ASSUME Typed, Linked,
         \/ Starting \/ Poll \/ Hangup \/ ReloadSteps \/ Stopping \/ Overstaying \/ StopAll
  PROVE  Linked'
<1>1. CASE StartAll
  <2>1. CASE DiscoverFails
    BY <1>1, <2>1 DEF StartAll, Linked, Paired, Waiting, tasks
  <2>2. CASE ~DiscoverFails
    <3>1. StartAndNotify(Discovered, {}) /\ svc' = "new watcher" /\ running = {} /\ stopping = {}
          /\ stopping' = {}
      BY <1>1, <2>2 DEF StartAll, Linked, Waiting
    <3>2. Paired' /\ cfg' = [c \in Config |-> cfg'[c]]
      BY <3>1, StartLinked
    <3> QED BY <3>1, <3>2 DEF Linked, Waiting
  <2> QED BY <2>1, <2>2
<1>2. CASE NewWatcher \/ Rebuild \/ FirstBaseline \/ Poll \/ Hangup
  BY <1>2 DEF NewWatcher, Rebuild, FirstBaseline, Poll, Hangup, Linked, Paired, Waiting, tasks,
              connectors
<1>3. CASE Discover
  <2>1. CASE DiscoverFails
    BY <1>3, <2>1 DEF Discover, Linked, Paired, Waiting, tasks, connectors
  <2>2. CASE ~DiscoverFails
    <3> DEFINE cs == running \ Discovered
    <3>1. AskToStop(cs) /\ svc' = "reconcile" /\ cs \in SUBSET running
      BY <1>3, <2>2 DEF Discover
    <3> HIDE DEF cs
    <3>2. Paired' /\ cfg' = [c \in Config |-> cfg'[c]]
      BY <3>1, AskLinked
    <3> QED BY <3>1, <3>2 DEF Linked, Waiting
  <2> QED BY <2>1, <2>2
<1>4. CASE Stopping
  BY <1>4 DEF Stopping, FinishStopping, Linked, Paired, Waiting, tasks
<1>5. CASE Overstaying
  <2>1. PICK from \in {"reconcile", "stop"}, to \in {"restart", "ended"} :
          GraceEnds(from, to) /\ (to = "ended" <=> from = "stop")
    BY <1>5 DEF Overstaying
  <2>2. ASSUME NEW d \in Config
        PROVE  /\ d \notin running' => sup'[d] \in {"none", "ended"}
               /\ attempt'[d] # "none" <=> sup'[d] = "await"
               /\ cfg'[d] # NoConfig <=> attempt'[d] \in {"connect", "run", "reload", "wedged"}
    BY <2>1 DEF GraceEnds, Typed, Linked, Paired
  <2>3. stopping' = {} /\ running' = running /\ svc' = to /\ svc = from
        /\ cfg' = [c \in Config |-> cfg'[c]]
    BY <2>1 DEF GraceEnds
  <2> QED BY <2>1, <2>2, <2>3 DEF Linked, Paired, Waiting
<1>6. CASE Reconcile
  <2> DEFINE ps == configs \ running  rs == configs \intersect running
  <2>1. /\ StartAndNotify(ps, rs) /\ svc' = "rebuild"
        /\ stopping = {} /\ stopping' = {} /\ ps \intersect running = {}
    BY <1>6 DEF Reconcile, Linked, Waiting
  <2> HIDE DEF ps, rs
  <2>2. Paired' /\ cfg' = [c \in Config |-> cfg'[c]]
    BY <2>1, StartLinked
  <2> QED BY <2>1, <2>2 DEF Linked, Waiting
<1>7. CASE StopAll
  <2>1. AskToStop(running) /\ svc' = "stop" /\ running \in SUBSET running
    BY <1>7 DEF StopAll
  <2>2. Paired' /\ cfg' = [c \in Config |-> cfg'[c]]
    BY <2>1, AskLinked
  <2> QED BY <2>1, <2>2 DEF AskToStop, Linked, Waiting
<1> QED BY <1>1, <1>2, <1>3, <1>4, <1>5, <1>6, <1>7 DEF Starting, ReloadSteps

LEMMA ResolveIsConfig ==
  ASSUME NEW c \in Config, Usable(c)
  PROVE  Resolve(c) # NoConfig
BY DEF Usable, Resolves, Present, Resolve, NoConfig

LEMMA TaskStepLinked ==
  ASSUME Typed, Linked, NEW c \in Config,
         \/ Supervisor(c) \/ Attempt(c) \/ StopAttempt(c) \/ BackoffStop(c) \/ Fail(c) \/ Wedge(c)
  PROVE  Linked'
<1>1. UNCHANGED <<svc, running, stopping>> /\ cfg' = [d \in Config |-> cfg'[d]]
  BY DEF Supervisor, Attempt, Spawn, AttemptEnds, BackoffEnds, BackoffReload, BackoffStop, Load,
         Connected, ReloadWhileConnecting, Reload, ReloadFromFile, StallWatchdog, LingerEnds,
         StopAttempt, Fail, Wedge, Return, others, connectors, Linked, Waiting
<1> SUFFICES ASSUME NEW d \in Config
             PROVE  /\ d \notin running \union stopping => sup'[d] \in {"none", "ended"}
                    /\ attempt'[d] # "none" <=> sup'[d] = "await"
                    /\ cfg'[d] # NoConfig
                         <=> attempt'[d] \in {"connect", "run", "reload", "wedged"}
  BY <1>1 DEF Linked, Paired, Waiting
<1>0. /\ sup = [e \in Config |-> sup[e]] /\ attempt = [e \in Config |-> attempt[e]]
      /\ cfg = [e \in Config |-> cfg[e]]
  BY DEF Typed, Linked, Waiting
<1>pairs. \A e \in Config :
        /\ e \notin running \union stopping => sup[e] \in {"none", "ended"}
        /\ attempt[e] # "none" <=> sup[e] = "await"
        /\ cfg[e] # NoConfig <=> attempt[e] \in {"connect", "run", "reload", "wedged"}
  BY DEF Linked, Paired
<1>2. CASE Spawn(c) \/ AttemptEnds(c)
  BY <1>0, <1>pairs, <1>2 DEF Spawn, AttemptEnds
<1>3. CASE BackoffEnds(c) \/ BackoffReload(c) \/ BackoffStop(c)
  BY <1>0, <1>pairs, <1>3 DEF BackoffEnds, BackoffReload, BackoffStop
<1>4. CASE Load(c)
  BY <1>0, <1>pairs, <1>4, ResolveIsConfig DEF Load, Return
<1>5. CASE Connected(c) \/ Reload(c) \/ LingerEnds(c) \/ Wedge(c)
  BY <1>0, <1>pairs, <1>5 DEF Connected, Reload, LingerEnds, Wedge
<1>6. CASE ReloadWhileConnecting(c) \/ StallWatchdog(c) \/ StopAttempt(c) \/ Fail(c)
  BY <1>0, <1>pairs, <1>6 DEF ReloadWhileConnecting, StallWatchdog, StopAttempt, Fail, Return
<1>7. CASE ReloadFromFile(c)
  BY <1>0, <1>pairs, <1>7, ResolveIsConfig DEF ReloadFromFile, Return
<1> QED BY <1>2, <1>3, <1>4, <1>5, <1>6, <1>7 DEF Supervisor, Attempt

LEMMA SurroundingsLinked ==
  ASSUME Typed, Linked, Surroundings
  PROVE  Linked'
<1>1. CASE \E c \in Config : Fail(c) \/ Wedge(c)
  BY <1>1, TaskStepLinked
<1>2. CASE UNCHANGED <<svc, connectors, tasks>>
  BY <1>2 DEF Linked, Paired, Waiting, connectors, tasks
<1> QED BY <1>1, <1>2 DEF Surroundings, WriteConfig, WriteLibrary, Remove, MayWrite, SendHangup

-----------------------------------------------------------------------------

LEMMA StepHolds == IInv /\ [Next]_vars => IInv'
<1> SUFFICES ASSUME Typed, Linked, [Next]_vars PROVE Typed' /\ Linked'
  BY DEF IInv, TypeOK, Linked
<1>1. CASE \/ Starting \/ Poll \/ Hangup \/ ReloadSteps \/ Stopping \/ Overstaying \/ StopAll
  BY <1>1, ServiceStepTyped, ServiceStepLinked
<1>2. ASSUME NEW c \in Config, Supervisor(c) \/ Attempt(c) \/ StopAttempt(c) \/ BackoffStop(c)
      PROVE  Typed' /\ Linked'
  BY <1>2, TaskStepTyped, TaskStepLinked
<1>3. CASE Surroundings
  BY <1>3, SurroundingsTyped, SurroundingsLinked
<1>4. CASE UNCHANGED vars
  BY <1>4 DEF vars, files, connectors, watcher, signals, tasks, Typed, Linked, Paired, Waiting
<1> QED BY <1>1, <1>2, <1>3, <1>4 DEF Next, Ended

LEMMA Invariant == Spec => []IInv
<1>1. Init => IInv
  BY InitTyped, InitLinked DEF IInv, TypeOK, Linked
<1> QED BY <1>1, StepHolds, PTL DEF Spec

(***************************************************************************)
(* Every supervisor has one entry, in `running` or in `stopping`, until it *)
(* has ended, and an attempt exactly while it waits for one (Connectors,   *)
(* supervise).                                                             *)
(***************************************************************************)
THEOREM Types == Spec => []TypeOK
<1>1. IInv => TypeOK
  BY DEF IInv
<1> QED BY Invariant, <1>1, PTL

(***************************************************************************)
(* A service that has ended has left no attempt behind, whatever the       *)
(* shutdown interrupted (Connectors::stop_all, finish_stopping).           *)
(***************************************************************************)
THEOREM NothingLeftBehind == Spec => []NoneLeft
<1>1. IInv => NoneLeft
  BY DEF IInv, TypeOK, Paired, Waiting, NoneLeft
<1> QED BY Invariant, <1>1, PTL

-----------------------------------------------------------------------------
(* Reloads                                                                 *)

\* The kinds of config that make a reload restart the connector.
Restarting == {"moved", "rejected"}

\* No file, and no configuration an attempt took from one, asks for a restart.
NoRestarts ==
    /\ \A p \in Path : file[p].kind \notin Restarting
    /\ \A c \in Config : cfg[c].config.kind \notin Restarting

\* A connector that has run and has not failed by itself is still running, or was
\* asked to stop.
Up ==
    \A c \in Config : served[c] =>
        \/ sup[c] = "ended"
        \/ sup[c] = "await" /\ attempt[c] \in {"run", "reload"}
        \/ sup[c] = "await" /\ attempt[c] = "done" /\ outcome[c] = "Stopped"

\* Files and configurations keep the kinds that need no restart.
LEMMA NoRestartsStep ==
  ASSUME Kinds \intersect Restarting = {}, IInv, NoRestarts, [Next]_vars
  PROVE  NoRestarts'
<1> USE DEF NoRestarts
<1>0. /\ file \in [Path -> Content] /\ cfg = [c \in Config |-> cfg[c]]
      /\ NoConfig.config.kind \notin Restarting
  BY DEF IInv, TypeOK, Typed, Waiting, NoConfig, Absent, Restarting
<1>1. \A p \in Path : file'[p].kind \notin Restarting
  <2>1. CASE UNCHANGED file
    BY <2>1
  <2>2. ASSUME NEW c \in Config, NEW kind \in Kinds, WriteConfig(c, kind)
        PROVE  \A p \in Path : file'[p].kind \notin Restarting
    BY <1>0, <2>2 DEF WriteConfig
  <2>3. ASSUME NEW l \in Library, WriteLibrary(l)
        PROVE  \A p \in Path : file'[p].kind \notin Restarting
    BY <1>0, <2>3 DEF WriteLibrary, Restarting
  <2>4. ASSUME NEW q \in Path, Remove(q)
        PROVE  \A p \in Path : file'[p].kind \notin Restarting
    BY <1>0, <2>4 DEF Remove, Absent, Restarting
  <2>5. \/ Starting \/ Poll \/ Hangup \/ ReloadSteps \/ Stopping \/ Overstaying \/ StopAll
        \/ SendHangup \/ UNCHANGED vars
        => UNCHANGED file
    BY DEF Starting, StartAll, NewWatcher, FirstBaseline, Poll, Hangup, ReloadSteps, Discover,
           Reconcile, Rebuild, Stopping, FinishStopping, Overstaying, GraceEnds, StopAll,
           SendHangup, vars, files
  <2>6. \A c \in Config :
          \/ Supervisor(c) \/ Attempt(c) \/ StopAttempt(c) \/ BackoffStop(c)
          \/ Fail(c) \/ Wedge(c)
          => UNCHANGED file
    BY DEF Supervisor, Attempt, Spawn, AttemptEnds, BackoffEnds, BackoffReload, BackoffStop, Load,
           Connected, ReloadWhileConnecting, Reload, ReloadFromFile, StallWatchdog, LingerEnds,
           StopAttempt, Fail, Wedge, others, files
  <2> QED BY <2>1, <2>2, <2>3, <2>4, <2>5, <2>6 DEF Next, Surroundings, Ended
<1>2. \A c \in Config : cfg'[c].config.kind \notin Restarting
  <2> DEFINE Kept == \A c \in Config : cfg'[c].config.kind \notin Restarting
  <2>1. UNCHANGED cfg => Kept
    OBVIOUS
  <2>2. ASSUME NEW c \in Config, NEW new,
               new \in {cfg[c], NoConfig, Resolve(c)}, cfg' = [cfg EXCEPT ![c] = new]
        PROVE  Kept
    <3>1. Resolve(c).config = file[c] /\ c \in Path
      BY DEF Resolve, Path
    <3>2. new.config.kind \notin Restarting
      BY <1>0, <2>2, <3>1
    <3> QED BY <1>0, <2>2, <3>2
  <2>3. ASSUME NEW c \in Config,
               \/ Load(c) \/ ReloadWhileConnecting(c) \/ ReloadFromFile(c) \/ StallWatchdog(c)
               \/ StopAttempt(c) \/ Fail(c)
        PROVE  Kept
    <3>1. \/ UNCHANGED cfg
          \/ cfg' = [cfg EXCEPT ![c] = NoConfig]
          \/ cfg' = [cfg EXCEPT ![c] = Resolve(c)]
          \/ cfg' = [cfg EXCEPT ![c] = cfg[c]]
      BY <2>3 DEF Load, ReloadWhileConnecting, ReloadFromFile, StallWatchdog, StopAttempt, Fail,
                  Return
    <3> HIDE DEF Kept
    <3> QED BY <2>1, <2>2, <3>1
  <2>4. ASSUME NEW c \in Config,
               \/ Supervisor(c) \/ Connected(c) \/ Reload(c) \/ LingerEnds(c)
               \/ BackoffStop(c) \/ Wedge(c)
        PROVE  UNCHANGED cfg
    BY <2>4 DEF Supervisor, Spawn, AttemptEnds, BackoffEnds, BackoffReload, BackoffStop, Connected,
                Reload, LingerEnds, Wedge
  <2>5. Overstaying => Kept
    BY <1>0 DEF Overstaying, GraceEnds
  <2>6. \/ Starting \/ Poll \/ Hangup \/ ReloadSteps \/ Stopping \/ StopAll
        \/ SendHangup \/ MayWrite \/ UNCHANGED vars
        => UNCHANGED cfg
    BY DEF Starting, StartAll, NewWatcher, FirstBaseline, Poll, Hangup, ReloadSteps, Discover,
           Reconcile, Rebuild, Stopping, FinishStopping, StopAll, StartAndNotify, AskToStop,
           SendHangup, MayWrite, vars, tasks
  <2>7. \/ \E c \in Config, kind \in Kinds : WriteConfig(c, kind)
        \/ \E l \in Library : WriteLibrary(l)
        \/ \E p \in Path : Remove(p)
        => MayWrite
    BY DEF WriteConfig, WriteLibrary, Remove
  <2> HIDE DEF Kept
  <2>8. Kept
    BY <2>1, <2>3, <2>4, <2>5, <2>6, <2>7 DEF Next, Attempt, Surroundings, Ended
  <2> QED BY <2>8 DEF Kept
<1> QED BY <1>1, <1>2

\* Where no file asks for a restart, a serving connector goes on serving.
LEMMA UpStep ==
  ASSUME IInv, NoRestarts, Up, [Next]_vars
  PROVE  Up'
<1> USE DEF Up
<1>0. /\ sup = [c \in Config |-> sup[c]] /\ attempt = [c \in Config |-> attempt[c]]
      /\ outcome = [c \in Config |-> outcome[c]] /\ served = [c \in Config |-> served[c]]
  BY DEF IInv, TypeOK, Typed
<1>pairs. \A c \in Config : attempt[c] # "none" <=> sup[c] = "await"
  BY DEF IInv, TypeOK, Paired
<1>1. CASE UNCHANGED <<sup, attempt, outcome, served>>
  BY <1>1
<1>2. ASSUME NEW ps, NEW rs, StartAndNotify(ps, rs)
      PROVE  Up'
  BY <1>2 DEF StartAndNotify
<1>3. CASE Overstaying
  <2>1. /\ \A c \in Config : \/ sup'[c] = "ended"
                             \/ sup'[c] = sup[c] /\ attempt'[c] = attempt[c]
        /\ UNCHANGED <<outcome, served>>
    BY <1>3 DEF Overstaying, GraceEnds
  <2> QED BY <2>1
<1>4. ASSUME NEW c \in Config, Spawn(c) \/ AttemptEnds(c)
      PROVE  Up'
  BY <1>0, <1>pairs, <1>4 DEF Spawn, AttemptEnds
<1>5. ASSUME NEW c \in Config, BackoffEnds(c) \/ BackoffReload(c) \/ BackoffStop(c)
      PROVE  Up'
  BY <1>0, <1>5 DEF BackoffEnds, BackoffReload, BackoffStop
<1>6. ASSUME NEW c \in Config, Load(c) \/ ReloadWhileConnecting(c) \/ StallWatchdog(c)
      PROVE  Up'
  <2>1. attempt[c] \in {"load", "connect", "wedged"}
    BY <1>6 DEF Load, ReloadWhileConnecting, StallWatchdog
  <2>2. ~served[c]
    BY <1>pairs, <2>1
  <2>3. /\ \A d \in Config \ {c} : attempt'[d] = attempt[d] /\ outcome'[d] = outcome[d]
        /\ UNCHANGED <<sup, served>>
    BY <1>0, <1>6 DEF Load, ReloadWhileConnecting, StallWatchdog, Return
  <2> QED BY <2>2, <2>3
<1>7. ASSUME NEW c \in Config, Connected(c) \/ Reload(c) \/ LingerEnds(c)
      PROVE  Up'
  BY <1>0, <1>pairs, <1>7 DEF Connected, Reload, LingerEnds
<1>8. ASSUME NEW c \in Config, ReloadFromFile(c)
      PROVE  Up'
  <2>1. ~NeedsRestart(cfg[c], Resolve(c))
    BY DEF NeedsRestart, ServiceOf, Resolve, NoRestarts, Restarting, Path
  <2>2. attempt' = [attempt EXCEPT ![c] = "run"] /\ UNCHANGED <<outcome, sup, served>>
    BY <1>8, <2>1 DEF ReloadFromFile
  <2>3. sup[c] = "await"
    BY <1>8, <1>pairs DEF ReloadFromFile
  <2> QED BY <1>0, <2>2, <2>3
<1>9. ASSUME NEW c \in Config, StopAttempt(c)
      PROVE  Up'
  <2>1. sup[c] = "await"
    BY <1>9, <1>pairs DEF StopAttempt
  <2> QED BY <1>0, <1>9, <2>1 DEF StopAttempt, Return
<1>10. ASSUME NEW c \in Config, Fail(c) \/ Wedge(c)
      PROVE  Up'
  <2>1. /\ \A d \in Config \ {c} : /\ attempt'[d] = attempt[d] /\ outcome'[d] = outcome[d]
                                   /\ served'[d] = served[d]
        /\ UNCHANGED sup /\ ~served'[c]
    BY <1>0, <1>10 DEF Fail, Wedge, Return
  <2> QED BY <2>1
<1>11. \/ NewWatcher \/ FirstBaseline \/ Poll \/ Hangup \/ Discover \/ Rebuild \/ Stopping
       \/ StopAll \/ SendHangup \/ MayWrite \/ UNCHANGED vars
       => UNCHANGED <<sup, attempt, outcome, served>>
  BY DEF NewWatcher, FirstBaseline, Poll, Hangup, Discover, Rebuild, Stopping, FinishStopping,
         StopAll, AskToStop, SendHangup, MayWrite, vars, tasks
<1>12. StartAll => Up'
  BY <1>1, <1>2 DEF StartAll, tasks
<1>13. Reconcile => Up'
  BY <1>2 DEF Reconcile
<1>14. \/ \E c \in Config, kind \in Kinds : WriteConfig(c, kind)
       \/ \E l \in Library : WriteLibrary(l)
       \/ \E p \in Path : Remove(p)
       => MayWrite
  BY DEF WriteConfig, WriteLibrary, Remove
<1> HIDE DEF Up
<1>15. \A c \in Config : Supervisor(c) \/ Attempt(c) \/ StopAttempt(c) \/ BackoffStop(c) => Up'
  BY <1>4, <1>5, <1>6, <1>7, <1>8, <1>9 DEF Supervisor, Attempt
<1> QED BY <1>1, <1>3, <1>10, <1>11, <1>12, <1>13, <1>14, <1>15
        DEF Next, Starting, ReloadSteps, Surroundings, Ended

(***************************************************************************)
(* For connectors that stop within STOP_GRACE and files that do not rename *)
(* the service, whatever is edited, removed, broken or signalled and       *)
(* whenever: a reload starts connectors only when those it stopped are     *)
(* gone, and no file takes a serving connector down (reconcile,            *)
(* finish_stopping, reload_from_file, supervise).                          *)
(***************************************************************************)
THEOREM ReloadsAreOrderly ==
  ASSUME ~MayOverstay, Kinds \intersect {"moved", "rejected"} = {}
  PROVE  Spec => []Orderly
<1> DEFINE Gone == lingering = {}
<1>1. Init => NoRestarts /\ Up /\ Gone
  BY DEF Init, NoRestarts, Up, Restarting, Absent, NoConfig
<1>2. IInv /\ NoRestarts /\ [Next]_vars => NoRestarts'
  BY NoRestartsStep DEF Restarting
<1>3. IInv /\ NoRestarts /\ Up /\ [Next]_vars => Up'
  BY UpStep
<1>4. Gone /\ [Next]_vars => Gone'
  BY DEF Next, Starting, StartAll, NewWatcher, FirstBaseline, Poll, Hangup, ReloadSteps, Discover,
         Reconcile, Rebuild, Stopping, FinishStopping, Overstaying, GraceEnds, StopAll,
         StartAndNotify, AskToStop, Supervisor, Attempt, Spawn, AttemptEnds, BackoffEnds,
         BackoffReload, BackoffStop, Load, Connected, ReloadWhileConnecting, Reload,
         ReloadFromFile, StallWatchdog, LingerEnds, StopAttempt, Fail, Wedge, Surroundings,
         WriteConfig, WriteLibrary, Remove, MayWrite, SendHangup, Ended, vars, tasks
<1>5. IInv /\ Gone => NoOverlap
  BY DEF IInv, TypeOK, Paired, Waiting, NoOverlap
<1>6. Up => Undisturbed
  BY DEF Up, Undisturbed
<1> QED BY Invariant, <1>1, <1>2, <1>3, <1>4, <1>5, <1>6, PTL DEF Spec, Orderly

=============================================================================
