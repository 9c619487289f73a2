----------------------------- MODULE RuntimeProofs -----------------------------
(***************************************************************************)
(* Proofs about Runtime for every set of devices, every set of             *)
(* configurations and every kind of module: the state stays well formed,   *)
(* device indexes stay valid, no read runs under a command or a new        *)
(* configuration, every point keeps a delivery path; and, for the modules  *)
(* and devices each theorem names, push delivery is kept and a device has  *)
(* one call at a time.                                                     *)
(***************************************************************************)
EXTENDS Runtime, TLAPS

\* The places at which the loop has no device left to visit.
Idle == {"connect", "setup", "select", "manage", "reload", "stopped"}

\* The loop's own bookkeeping: the device awaited is one still to be visited, and
\* nothing is left to visit where no pass is under way.
InPass ==
    /\ call # NoDevice => call \in todo
    /\ at \in Idle => todo = {}
    /\ at = "drain" => call = NoDevice /\ (after # "write" => todo = {})
    /\ at = "check" => call = NoDevice
    /\ at = "resubscribe" => call # NoDevice
    /\ ~Heartbeats /\ at = "heartbeat" => todo = {}

\* Every device the loop keeps by name is one of the running configuration, from
\* the moment everything derived from the configuration is rebuilt.
Known ==
    at \notin {"connect", "setup"} =>
        /\ todo \subseteq config
        /\ subscribed \subseteq config
        /\ \A d \in Device : reconnects[d] # "none" \/ push_recovery[d] # "none" => d \in config

\* Where reads and calls could meet, the devices to visit have no read in flight;
\* in the places drain_reads! leads to, no device has.
Apart ==
    /\ at \in {"read", "reconnect", "resubscribe"} => todo \intersect reading = {}
    /\ at \in {"write", "manage", "reload", "connect", "setup", "stopped"} => reading = {}

IInv == TypeOK /\ InPass /\ Known /\ Apart /\ IndexesCurrent /\ DeliveryPath

\* Every step of the loop, of its environment and of its clients keeps the state
\* well formed.
LEMMA TypeStep == TypeOK /\ InPass /\ [Next]_vars => TypeOK'
<1> SUFFICES ASSUME TypeOK, InPass, [Next]_vars PROVE TypeOK'
  OBVIOUS
<1> USE DeviceAssumption, ConfigsAssumption, PointsAssumption, ModuleAssumption,
        BoundsAssumption
<1> USE DEF TypeOK, Places, Entries, Conditions, Requests, place, link_state, delivery,
        module, inputs
<1>1. CASE ConnectAll
  BY <1>1 DEF ConnectAll, AllDue
<1>2. CASE ConnectFails
  BY <1>2 DEF ConnectFails, AllDue
<1>3. CASE Setup
  BY <1>3 DEF Setup, BuildSchedule, AllDue, OneMore
<1>4. CASE Tick
  BY <1>4 DEF Tick, AllDue
<1>5. ASSUME NEW d \in Device, SkipRead(d)
       PROVE  TypeOK'
  BY <1>5 DEF SkipRead, AllDue
<1>6. ASSUME NEW d \in Device, SpawnRead(d)
       PROVE  TypeOK'
  BY <1>6 DEF SpawnRead, AllDue
<1>7. ASSUME NEW d \in Device, BeginInlineRead(d)
       PROVE  TypeOK'
  BY <1>7 DEF BeginInlineRead, AllDue
<1>8. CASE EndInlineRead
  BY <1>8 DEF EndInlineRead, OnPollResult, NotePoll, NextLinkState, OrInsert, ReadResults, AllDue
<1>9. CASE EndReads
  BY <1>9 DEF EndReads, AllDue
<1>10. ASSUME NEW d \in Device, CheckSubscription(d)
       PROVE  TypeOK'
  BY <1>10 DEF CheckSubscription, NotePoll, NextLinkState, OrInsert, AllDue
<1>11. CASE EndChecks
  BY <1>11 DEF EndChecks, AllDue
<1>12. ASSUME NEW d \in Device, BeginHeartbeat(d)
       PROVE  TypeOK'
  BY <1>12 DEF BeginHeartbeat, AllDue
<1>13. CASE EndHeartbeat
  BY <1>13 DEF EndHeartbeat, OnPollResult, NotePoll, NextLinkState, OrInsert, HeartbeatResults, AllDue
<1>14. CASE EndHeartbeats
  BY <1>14 DEF EndHeartbeats, ReconnectDue, AllDue
<1>15. ASSUME NEW d \in Device, BeginReconnect(d)
       PROVE  TypeOK'
  BY <1>15 DEF BeginReconnect, AllDue
<1>16. CASE ReconnectRestores
  <2> USE <1>16 DEF ReconnectRestores
  <2>1. session' \in [Device -> BOOLEAN]
    BY Zenon
  <2>2. /\ loops' \in [Device -> 0..2]
        /\ links' \in [Device -> {"none", "connected", "degraded", "disconnected"}]
    OBVIOUS
  <2>3. reconnects' \in [Device -> Entries] /\ push_recovery' \in [Device -> Entries]
    BY DEF BackOff, ReArm
  <2>4. /\ at' \in Places /\ todo' \subseteq Device /\ call' \in Device \union {NoDevice}
        /\ poll_due' \subseteq AllDue(schedule')
    BY DEF AfterTransport, AllDue
  <2> QED
    BY <2>1, <2>2, <2>3, <2>4
<1>17. CASE ReconnectRefused
  BY <1>17 DEF ReconnectRefused, BackOff, ReArm, AllDue
<1>18. CASE ReconnectFails
  BY <1>18 DEF ReconnectFails, BackOff, ReArm, AllDue
<1>19. CASE Resubscribe
  <2> USE <1>19 DEF Resubscribe
  <2>1. call \in Device
    BY DEF InPass
  <2>2. subscribed' \subseteq Device /\ owed' \subseteq Device
    BY <2>1
  <2>3. schedule' \in [Device -> SUBSET {"polled", "pushed"}] /\ poll_due' \subseteq AllDue(schedule')
    BY DEF BuildSchedule, AllDue
  <2>4. loops' \in [Device -> 0..2]
    BY <2>1 DEF OneMore
  <2>5. reconnects' \in [Device -> Entries]
    BY <2>1 DEF OrInsert
  <2> QED
    BY <2>1, <2>2, <2>3, <2>4, <2>5
<1>20. CASE EndReconnects
  BY <1>20 DEF EndReconnects, AllDue
<1>21. ASSUME NEW d \in Device, ReadResult(d)
       PROVE  TypeOK'
  BY <1>21 DEF ReadResult, TakeResult, OnPollResult, NotePoll, NextLinkState, OrInsert, AllDue
<1>22. ASSUME NEW d \in Device, DrainResult(d)
       PROVE  TypeOK'
  BY <1>22 DEF DrainResult, TakeResult, OnPollResult, NotePoll, NextLinkState, OrInsert, AllDue
<1>23. CASE EndDrain
  BY <1>23 DEF EndDrain, AllDue
<1>24. CASE ReloadArm
  BY <1>24 DEF ReloadArm, AllDue
<1>25. CASE CommandArm
  BY <1>25 DEF CommandArm, AllDue
<1>26. ASSUME NEW d \in Device, BeginWrite(d)
       PROVE  TypeOK'
  BY <1>26 DEF BeginWrite, AllDue
<1>27. CASE EndWrite
  BY <1>27 DEF EndWrite, AllDue
<1>28. CASE KeepConfig
  BY <1>28 DEF KeepConfig, AllDue
<1>29. ASSUME NEW new \in Configs, CommitConfig(new)
       PROVE  TypeOK'
  BY <1>29 DEF CommitConfig, AllDue
<1>30. CASE StopArm
  BY <1>30 DEF StopArm, AllDue
<1>31. ASSUME NEW d \in Device, FinishRead(d)
       PROVE  TypeOK'
  BY <1>31 DEF FinishRead, ReadResults, AllDue
<1>32. ASSUME NEW d \in Device, PollDue(d)
       PROVE  TypeOK'
  BY <1>32 DEF PollDue, AllDue
<1>33. ASSUME NEW d \in Device, BackoffEnds(d)
       PROVE  TypeOK'
  BY <1>33 DEF BackoffEnds, AllDue
<1>34. ASSUME NEW d \in Device, NEW c \in Conditions, Fault(d, c)
       PROVE  TypeOK'
  <2> USE <1>34 DEF Fault
  <2>1. session' \in [Device -> BOOLEAN]
    BY Zenon
  <2>2. loops' \in [Device -> 0..2] /\ condition' \in [Device -> Conditions]
    OBVIOUS
  <2>3. faults' \in 0..MaxFaults
    OBVIOUS
  <2>4. poll_due' \subseteq AllDue(schedule')
    BY DEF AllDue
  <2> QED
    BY <2>1, <2>2, <2>3, <2>4
<1>35. CASE Request
  <2> USE <1>35 DEF Request
  <2>1. inbox' \in Seq(Requests)
    <3>1. CASE UNCHANGED inbox
      BY <3>1
    <3>2. ASSUME NEW request \in Requests, inbox' = Append(inbox, request)
          PROVE inbox' \in Seq(Requests)
      <4> HIDE DEF Requests
      <4> QED
        BY <3>2
    <3>3. {[verb |-> "manage", device |-> NoDevice]} \union [verb : {"write"}, device : Device]
            \subseteq Requests
      OBVIOUS
    <3> QED
      BY <3>1, <3>2, <3>3
  <2>2. requests' \in 0..MaxRequests
    OBVIOUS
  <2>3. reload' \in BOOLEAN
    BY Zenon
  <2>4. poll_due' \subseteq AllDue(schedule')
    BY DEF AllDue
  <2> QED
    BY <2>1, <2>2, <2>3, <2>4
<1>36. CASE UNCHANGED vars
  BY <1>36 DEF vars, AllDue
<1> HIDE DEF TypeOK, Conditions
<1> QED
    BY <1>1, <1>2, <1>3, <1>4, <1>5, <1>6, <1>7, <1>8, <1>9, <1>10, <1>11, <1>12, <1>13,
     <1>14, <1>15, <1>16, <1>17, <1>18, <1>19, <1>20, <1>21, <1>22, <1>23, <1>24, <1>25,
     <1>26, <1>27, <1>28, <1>29, <1>30, <1>31, <1>32, <1>33, <1>34, <1>35, <1>36 DEF Next,
     Loop, Environment, Stopped

\* A read's result adds no device but its own to the reconnect schedule.
LEMMA PollEntry ==
    ASSUME TypeOK, NEW d \in Device, NEW result, OnPollResult(d, result), NEW e \in Device,
           reconnects'[e] # "none", e # d
    PROVE  reconnects[e] # "none"
  BY DEF OnPollResult, TypeOK

\* Every step keeps the bookkeeping of a pass: a call is awaited only for a device
\* the place has still to visit, and a pass ends with nothing left to visit.
LEMMA InPassStep == IInv /\ TypeOK' /\ [Next]_vars => InPass'
<1> SUFFICES ASSUME IInv, TypeOK', [Next]_vars PROVE InPass'
  OBVIOUS
<1> USE DeviceAssumption, ConfigsAssumption, PointsAssumption
<1> USE DEF IInv, TypeOK, InPass, Idle, place, link_state, delivery, module, inputs
<1>1. CASE ConnectAll
  BY <1>1 DEF ConnectAll
<1>2. CASE ConnectFails
  BY <1>2 DEF ConnectFails
<1>3. CASE Setup
  BY <1>3 DEF Setup
<1>4. CASE Tick
  BY <1>4 DEF Tick
<1>5. ASSUME NEW d \in Device, SkipRead(d)
       PROVE  InPass'
  BY <1>5 DEF SkipRead
<1>6. ASSUME NEW d \in Device, SpawnRead(d)
       PROVE  InPass'
  BY <1>6 DEF SpawnRead
<1>7. ASSUME NEW d \in Device, BeginInlineRead(d)
       PROVE  InPass'
  BY <1>7 DEF BeginInlineRead
<1>8. CASE EndInlineRead
  BY <1>8 DEF EndInlineRead
<1>9. CASE EndReads
  BY <1>9 DEF EndReads
<1>10. ASSUME NEW d \in Device, CheckSubscription(d)
       PROVE  InPass'
  BY <1>10 DEF CheckSubscription
<1>11. CASE EndChecks
  BY <1>11 DEF EndChecks
<1>12. ASSUME NEW d \in Device, BeginHeartbeat(d)
       PROVE  InPass'
  BY <1>12 DEF BeginHeartbeat
<1>13. CASE EndHeartbeat
  BY <1>13 DEF EndHeartbeat
<1>14. CASE EndHeartbeats
  BY <1>14 DEF EndHeartbeats
<1>15. ASSUME NEW d \in Device, BeginReconnect(d)
       PROVE  InPass'
  BY <1>15 DEF BeginReconnect
<1>16. CASE ReconnectRestores
  BY <1>16 DEF ReconnectRestores, AfterTransport
<1>17. CASE ReconnectRefused
  BY <1>17 DEF ReconnectRefused
<1>18. CASE ReconnectFails
  BY <1>18 DEF ReconnectFails
<1>19. CASE Resubscribe
  BY <1>19 DEF Resubscribe
<1>20. CASE EndReconnects
  BY <1>20 DEF EndReconnects
<1>21. ASSUME NEW d \in Device, ReadResult(d)
       PROVE  InPass'
  BY <1>21 DEF ReadResult
<1>22. ASSUME NEW d \in Device, DrainResult(d)
       PROVE  InPass'
  BY <1>22 DEF DrainResult
<1>23. CASE EndDrain
  BY <1>23 DEF EndDrain
<1>24. CASE ReloadArm
  BY <1>24 DEF ReloadArm
<1>25. CASE CommandArm
  BY <1>25 DEF CommandArm
<1>26. ASSUME NEW d \in Device, BeginWrite(d)
       PROVE  InPass'
  BY <1>26 DEF BeginWrite
<1>27. CASE EndWrite
  BY <1>27 DEF EndWrite
<1>28. CASE KeepConfig
  BY <1>28 DEF KeepConfig
<1>29. ASSUME NEW new \in Configs, CommitConfig(new)
       PROVE  InPass'
  BY <1>29 DEF CommitConfig
<1>30. CASE StopArm
  BY <1>30 DEF StopArm
<1>31. ASSUME NEW d \in Device, FinishRead(d)
       PROVE  InPass'
  BY <1>31 DEF FinishRead
<1>32. ASSUME NEW d \in Device, PollDue(d)
       PROVE  InPass'
  BY <1>32 DEF PollDue
<1>33. ASSUME NEW d \in Device, BackoffEnds(d)
       PROVE  InPass'
  BY <1>33 DEF BackoffEnds
<1>34. ASSUME NEW d \in Device, NEW c \in Conditions, Fault(d, c)
       PROVE  InPass'
  BY <1>34 DEF Fault
<1>35. CASE Request
  BY <1>35 DEF Request
<1>36. CASE UNCHANGED vars
  BY <1>36 DEF vars
<1> HIDE DEF IInv, InPass
<1> QED
    BY <1>1, <1>2, <1>3, <1>4, <1>5, <1>6, <1>7, <1>8, <1>9, <1>10, <1>11, <1>12, <1>13,
     <1>14, <1>15, <1>16, <1>17, <1>18, <1>19, <1>20, <1>21, <1>22, <1>23, <1>24, <1>25,
     <1>26, <1>27, <1>28, <1>29, <1>30, <1>31, <1>32, <1>33, <1>34, <1>35, <1>36 DEF Next,
     Loop, Environment, Stopped

\* Every step keeps the devices of the reconnect schedules, of push delivery and
\* of the pass within the running configuration.
LEMMA KnownStep == IInv /\ TypeOK' /\ [Next]_vars => Known'
<1> SUFFICES ASSUME IInv, TypeOK', [Next]_vars PROVE Known'
  OBVIOUS
<1> USE DeviceAssumption, ConfigsAssumption, PointsAssumption
<1> USE DEF IInv, TypeOK, Known, InPass, IndexesCurrent, place, link_state, delivery,
        module, inputs
<1>1. CASE ConnectAll
  BY <1>1 DEF ConnectAll
<1>2. CASE ConnectFails
  BY <1>2 DEF ConnectFails
<1>3. CASE Setup
  BY <1>3 DEF Setup, Idle
<1>4. CASE Tick
  BY <1>4 DEF Tick
<1>5. ASSUME NEW d \in Device, SkipRead(d)
       PROVE  Known'
  BY <1>5 DEF SkipRead
<1>6. ASSUME NEW d \in Device, SpawnRead(d)
       PROVE  Known'
  BY <1>6 DEF SpawnRead
<1>7. ASSUME NEW d \in Device, BeginInlineRead(d)
       PROVE  Known'
  BY <1>7 DEF BeginInlineRead
<1>8. CASE EndInlineRead
  <2>1. PICK result \in ReadResults(call) : OnPollResult(call, result)
    BY <1>8 DEF EndInlineRead
  <2>2. call \in Device /\ call \in config
    BY <1>8 DEF EndInlineRead
  <2>3. \A e \in Device : reconnects'[e] # "none" => reconnects[e] # "none" \/ e = call
    BY <2>1, <2>2, PollEntry
  <2> QED
    BY <1>8, <2>2, <2>3 DEF EndInlineRead
<1>9. CASE EndReads
  BY <1>9 DEF EndReads
<1>10. ASSUME NEW d \in Device, CheckSubscription(d)
       PROVE  Known'
  BY <1>10 DEF CheckSubscription, OrInsert
<1>11. CASE EndChecks
  BY <1>11 DEF EndChecks
<1>12. ASSUME NEW d \in Device, BeginHeartbeat(d)
       PROVE  Known'
  BY <1>12 DEF BeginHeartbeat
<1>13. CASE EndHeartbeat
  <2>1. call \in Device /\ call \in config
    BY <1>13 DEF EndHeartbeat
  <2>2. \/ \E result \in HeartbeatResults(call) : OnPollResult(call, result)
        \/ UNCHANGED reconnects
    BY <1>13 DEF EndHeartbeat
  <2>3. \A e \in Device : reconnects'[e] # "none" => reconnects[e] # "none" \/ e = call
    BY <2>1, <2>2, PollEntry
  <2> QED
    BY <1>13, <2>1, <2>3 DEF EndHeartbeat
<1>14. CASE EndHeartbeats
  BY <1>14 DEF EndHeartbeats, ReconnectDue
<1>15. ASSUME NEW d \in Device, BeginReconnect(d)
       PROVE  Known'
  BY <1>15 DEF BeginReconnect
<1>16. CASE ReconnectRestores
  BY <1>16 DEF ReconnectRestores, AfterTransport, BackOff, ReArm
<1>17. CASE ReconnectRefused
  BY <1>17 DEF ReconnectRefused, BackOff, ReArm
<1>18. CASE ReconnectFails
  BY <1>18 DEF ReconnectFails, BackOff, ReArm
<1>19. CASE Resubscribe
  BY <1>19 DEF Resubscribe, OrInsert
<1>20. CASE EndReconnects
  BY <1>20 DEF EndReconnects
<1>21. ASSUME NEW d \in Device, ReadResult(d)
       PROVE  Known'
  <2>1. d \in config
    BY <1>21 DEF ReadResult, TakeResult
  <2>2. \A e \in Device : reconnects'[e] # "none" => reconnects[e] # "none" \/ e = d
    BY <1>21, PollEntry DEF ReadResult, TakeResult
  <2> QED
    BY <1>21, <2>1, <2>2 DEF ReadResult
<1>22. ASSUME NEW d \in Device, DrainResult(d)
       PROVE  Known'
  <2>1. d \in config
    BY <1>22 DEF DrainResult, TakeResult
  <2>2. \A e \in Device : reconnects'[e] # "none" => reconnects[e] # "none" \/ e = d
    BY <1>22, PollEntry DEF DrainResult, TakeResult
  <2> QED
    BY <1>22, <2>1, <2>2 DEF DrainResult
<1>23. CASE EndDrain
  BY <1>23 DEF EndDrain
<1>24. CASE ReloadArm
  BY <1>24 DEF ReloadArm
<1>25. CASE CommandArm
  BY <1>25 DEF CommandArm
<1>26. ASSUME NEW d \in Device, BeginWrite(d)
       PROVE  Known'
  BY <1>26 DEF BeginWrite
<1>27. CASE EndWrite
  BY <1>27 DEF EndWrite
<1>28. CASE KeepConfig
  BY <1>28 DEF KeepConfig
<1>29. ASSUME NEW new \in Configs, CommitConfig(new)
       PROVE  Known'
  BY <1>29 DEF CommitConfig
<1>30. CASE StopArm
  BY <1>30 DEF StopArm
<1>31. ASSUME NEW d \in Device, FinishRead(d)
       PROVE  Known'
  BY <1>31 DEF FinishRead
<1>32. ASSUME NEW d \in Device, PollDue(d)
       PROVE  Known'
  BY <1>32 DEF PollDue
<1>33. ASSUME NEW d \in Device, BackoffEnds(d)
       PROVE  Known'
  BY <1>33 DEF BackoffEnds
<1>34. ASSUME NEW d \in Device, NEW c \in Conditions, Fault(d, c)
       PROVE  Known'
  BY <1>34 DEF Fault
<1>35. CASE Request
  BY <1>35 DEF Request
<1>36. CASE UNCHANGED vars
  BY <1>36 DEF vars
<1> HIDE DEF IInv, Known
<1> QED
    BY <1>1, <1>2, <1>3, <1>4, <1>5, <1>6, <1>7, <1>8, <1>9, <1>10, <1>11, <1>12, <1>13,
     <1>14, <1>15, <1>16, <1>17, <1>18, <1>19, <1>20, <1>21, <1>22, <1>23, <1>24, <1>25,
     <1>26, <1>27, <1>28, <1>29, <1>30, <1>31, <1>32, <1>33, <1>34, <1>35, <1>36 DEF Next,
     Loop, Environment, Stopped

\* Every step keeps calls of the loop off the devices being read, and the places
\* behind drain_reads! free of reads.
LEMMA ApartStep == IInv /\ TypeOK' /\ [Next]_vars => Apart'
<1> SUFFICES ASSUME IInv, TypeOK', [Next]_vars PROVE Apart'
  OBVIOUS
<1> USE DeviceAssumption, ConfigsAssumption, PointsAssumption
<1> USE DEF IInv, TypeOK, Apart, InPass, Idle, place, link_state, delivery, module, inputs
<1>1. CASE ConnectAll
  BY <1>1 DEF ConnectAll
<1>2. CASE ConnectFails
  BY <1>2 DEF ConnectFails
<1>3. CASE Setup
  BY <1>3 DEF Setup
<1>4. CASE Tick
  BY <1>4 DEF Tick
<1>5. ASSUME NEW d \in Device, SkipRead(d)
       PROVE  Apart'
  BY <1>5 DEF SkipRead
<1>6. ASSUME NEW d \in Device, SpawnRead(d)
       PROVE  Apart'
  BY <1>6 DEF SpawnRead
<1>7. ASSUME NEW d \in Device, BeginInlineRead(d)
       PROVE  Apart'
  BY <1>7 DEF BeginInlineRead
<1>8. CASE EndInlineRead
  BY <1>8 DEF EndInlineRead
<1>9. CASE EndReads
  BY <1>9 DEF EndReads
<1>10. ASSUME NEW d \in Device, CheckSubscription(d)
       PROVE  Apart'
  BY <1>10 DEF CheckSubscription
<1>11. CASE EndChecks
  BY <1>11 DEF EndChecks
<1>12. ASSUME NEW d \in Device, BeginHeartbeat(d)
       PROVE  Apart'
  BY <1>12 DEF BeginHeartbeat
<1>13. CASE EndHeartbeat
  BY <1>13 DEF EndHeartbeat
<1>14. CASE EndHeartbeats
  BY <1>14 DEF EndHeartbeats, ReconnectDue
<1>15. ASSUME NEW d \in Device, BeginReconnect(d)
       PROVE  Apart'
  BY <1>15 DEF BeginReconnect
<1>16. CASE ReconnectRestores
  BY <1>16 DEF ReconnectRestores, AfterTransport
<1>17. CASE ReconnectRefused
  BY <1>17 DEF ReconnectRefused
<1>18. CASE ReconnectFails
  BY <1>18 DEF ReconnectFails
<1>19. CASE Resubscribe
  BY <1>19 DEF Resubscribe
<1>20. CASE EndReconnects
  BY <1>20 DEF EndReconnects
<1>21. ASSUME NEW d \in Device, ReadResult(d)
       PROVE  Apart'
  BY <1>21 DEF ReadResult, TakeResult
<1>22. ASSUME NEW d \in Device, DrainResult(d)
       PROVE  Apart'
  BY <1>22 DEF DrainResult, TakeResult
<1>23. CASE EndDrain
  BY <1>23 DEF EndDrain
<1>24. CASE ReloadArm
  BY <1>24 DEF ReloadArm
<1>25. CASE CommandArm
  BY <1>25 DEF CommandArm
<1>26. ASSUME NEW d \in Device, BeginWrite(d)
       PROVE  Apart'
  BY <1>26 DEF BeginWrite
<1>27. CASE EndWrite
  BY <1>27 DEF EndWrite
<1>28. CASE KeepConfig
  BY <1>28 DEF KeepConfig
<1>29. ASSUME NEW new \in Configs, CommitConfig(new)
       PROVE  Apart'
  BY <1>29 DEF CommitConfig
<1>30. CASE StopArm
  BY <1>30 DEF StopArm
<1>31. ASSUME NEW d \in Device, FinishRead(d)
       PROVE  Apart'
  BY <1>31 DEF FinishRead
<1>32. ASSUME NEW d \in Device, PollDue(d)
       PROVE  Apart'
  BY <1>32 DEF PollDue
<1>33. ASSUME NEW d \in Device, BackoffEnds(d)
       PROVE  Apart'
  BY <1>33 DEF BackoffEnds
<1>34. ASSUME NEW d \in Device, NEW c \in Conditions, Fault(d, c)
       PROVE  Apart'
  BY <1>34 DEF Fault
<1>35. CASE Request
  BY <1>35 DEF Request
<1>36. CASE UNCHANGED vars
  BY <1>36 DEF vars
<1> HIDE DEF IInv, Apart
<1> QED
    BY <1>1, <1>2, <1>3, <1>4, <1>5, <1>6, <1>7, <1>8, <1>9, <1>10, <1>11, <1>12, <1>13,
     <1>14, <1>15, <1>16, <1>17, <1>18, <1>19, <1>20, <1>21, <1>22, <1>23, <1>24, <1>25,
     <1>26, <1>27, <1>28, <1>29, <1>30, <1>31, <1>32, <1>33, <1>34, <1>35, <1>36 DEF Next,
     Loop, Environment, Stopped

\* Every step keeps the reads in flight known to the loop and within the running
\* configuration.
LEMMA IndexesStep == IInv /\ TypeOK' /\ [Next]_vars => IndexesCurrent'
<1> SUFFICES ASSUME IInv, TypeOK', [Next]_vars PROVE IndexesCurrent'
  OBVIOUS
<1> USE DeviceAssumption, ConfigsAssumption, PointsAssumption
<1> USE DEF IInv, TypeOK, IndexesCurrent, Known, Apart, InPass, place, link_state,
        delivery, module, inputs
<1>1. CASE ConnectAll
  BY <1>1 DEF ConnectAll
<1>2. CASE ConnectFails
  BY <1>2 DEF ConnectFails
<1>3. CASE Setup
  BY <1>3 DEF Setup, Idle
<1>4. CASE Tick
  BY <1>4 DEF Tick
<1>5. ASSUME NEW d \in Device, SkipRead(d)
       PROVE  IndexesCurrent'
  BY <1>5 DEF SkipRead
<1>6. ASSUME NEW d \in Device, SpawnRead(d)
       PROVE  IndexesCurrent'
  BY <1>6 DEF SpawnRead
<1>7. ASSUME NEW d \in Device, BeginInlineRead(d)
       PROVE  IndexesCurrent'
  BY <1>7 DEF BeginInlineRead
<1>8. CASE EndInlineRead
  BY <1>8 DEF EndInlineRead
<1>9. CASE EndReads
  BY <1>9 DEF EndReads
<1>10. ASSUME NEW d \in Device, CheckSubscription(d)
       PROVE  IndexesCurrent'
  BY <1>10 DEF CheckSubscription
<1>11. CASE EndChecks
  BY <1>11 DEF EndChecks
<1>12. ASSUME NEW d \in Device, BeginHeartbeat(d)
       PROVE  IndexesCurrent'
  BY <1>12 DEF BeginHeartbeat
<1>13. CASE EndHeartbeat
  BY <1>13 DEF EndHeartbeat
<1>14. CASE EndHeartbeats
  BY <1>14 DEF EndHeartbeats
<1>15. ASSUME NEW d \in Device, BeginReconnect(d)
       PROVE  IndexesCurrent'
  BY <1>15 DEF BeginReconnect
<1>16. CASE ReconnectRestores
  BY <1>16 DEF ReconnectRestores, AfterTransport
<1>17. CASE ReconnectRefused
  BY <1>17 DEF ReconnectRefused
<1>18. CASE ReconnectFails
  BY <1>18 DEF ReconnectFails
<1>19. CASE Resubscribe
  BY <1>19 DEF Resubscribe
<1>20. CASE EndReconnects
  BY <1>20 DEF EndReconnects
<1>21. ASSUME NEW d \in Device, ReadResult(d)
       PROVE  IndexesCurrent'
  BY <1>21 DEF ReadResult, TakeResult
<1>22. ASSUME NEW d \in Device, DrainResult(d)
       PROVE  IndexesCurrent'
  BY <1>22 DEF DrainResult, TakeResult
<1>23. CASE EndDrain
  BY <1>23 DEF EndDrain
<1>24. CASE ReloadArm
  BY <1>24 DEF ReloadArm
<1>25. CASE CommandArm
  BY <1>25 DEF CommandArm
<1>26. ASSUME NEW d \in Device, BeginWrite(d)
       PROVE  IndexesCurrent'
  BY <1>26 DEF BeginWrite
<1>27. CASE EndWrite
  BY <1>27 DEF EndWrite
<1>28. CASE KeepConfig
  BY <1>28 DEF KeepConfig
<1>29. ASSUME NEW new \in Configs, CommitConfig(new)
       PROVE  IndexesCurrent'
  BY <1>29 DEF CommitConfig
<1>30. CASE StopArm
  BY <1>30 DEF StopArm
<1>31. ASSUME NEW d \in Device, FinishRead(d)
       PROVE  IndexesCurrent'
  BY <1>31 DEF FinishRead, ReadResults
<1>32. ASSUME NEW d \in Device, PollDue(d)
       PROVE  IndexesCurrent'
  BY <1>32 DEF PollDue
<1>33. ASSUME NEW d \in Device, BackoffEnds(d)
       PROVE  IndexesCurrent'
  BY <1>33 DEF BackoffEnds
<1>34. ASSUME NEW d \in Device, NEW c \in Conditions, Fault(d, c)
       PROVE  IndexesCurrent'
  BY <1>34 DEF Fault
<1>35. CASE Request
  BY <1>35 DEF Request
<1>36. CASE UNCHANGED vars
  BY <1>36 DEF vars
<1> HIDE DEF IInv, IndexesCurrent
<1> QED
    BY <1>1, <1>2, <1>3, <1>4, <1>5, <1>6, <1>7, <1>8, <1>9, <1>10, <1>11, <1>12, <1>13,
     <1>14, <1>15, <1>16, <1>17, <1>18, <1>19, <1>20, <1>21, <1>22, <1>23, <1>24, <1>25,
     <1>26, <1>27, <1>28, <1>29, <1>30, <1>31, <1>32, <1>33, <1>34, <1>35, <1>36 DEF Next,
     Loop, Environment, Stopped

\* Every step that changes what is delivered by push or the configuration is
\* followed by the schedule that goes with it.
LEMMA DeliveryStep == IInv /\ TypeOK' /\ [Next]_vars => DeliveryPath'
<1> SUFFICES ASSUME IInv, TypeOK', [Next]_vars PROVE DeliveryPath'
  OBVIOUS
<1> USE DeviceAssumption, ConfigsAssumption, PointsAssumption
<1> USE DEF IInv, TypeOK, DeliveryPath, InPass, Idle, place, link_state, delivery, module,
        inputs
<1>1. CASE ConnectAll
  BY <1>1 DEF ConnectAll
<1>2. CASE ConnectFails
  BY <1>2 DEF ConnectFails
<1>3. CASE Setup
  BY <1>3 DEF Setup
<1>4. CASE Tick
  BY <1>4 DEF Tick
<1>5. ASSUME NEW d \in Device, SkipRead(d)
       PROVE  DeliveryPath'
  BY <1>5 DEF SkipRead
<1>6. ASSUME NEW d \in Device, SpawnRead(d)
       PROVE  DeliveryPath'
  BY <1>6 DEF SpawnRead
<1>7. ASSUME NEW d \in Device, BeginInlineRead(d)
       PROVE  DeliveryPath'
  BY <1>7 DEF BeginInlineRead
<1>8. CASE EndInlineRead
  BY <1>8 DEF EndInlineRead
<1>9. CASE EndReads
  BY <1>9 DEF EndReads
<1>10. ASSUME NEW d \in Device, CheckSubscription(d)
       PROVE  DeliveryPath'
  BY <1>10 DEF CheckSubscription
<1>11. CASE EndChecks
  BY <1>11 DEF EndChecks
<1>12. ASSUME NEW d \in Device, BeginHeartbeat(d)
       PROVE  DeliveryPath'
  BY <1>12 DEF BeginHeartbeat
<1>13. CASE EndHeartbeat
  BY <1>13 DEF EndHeartbeat
<1>14. CASE EndHeartbeats
  BY <1>14 DEF EndHeartbeats
<1>15. ASSUME NEW d \in Device, BeginReconnect(d)
       PROVE  DeliveryPath'
  BY <1>15 DEF BeginReconnect
<1>16. CASE ReconnectRestores
  BY <1>16 DEF ReconnectRestores, AfterTransport
<1>17. CASE ReconnectRefused
  BY <1>17 DEF ReconnectRefused
<1>18. CASE ReconnectFails
  BY <1>18 DEF ReconnectFails
<1>19. CASE Resubscribe
  BY <1>19 DEF Resubscribe
<1>20. CASE EndReconnects
  BY <1>20 DEF EndReconnects
<1>21. ASSUME NEW d \in Device, ReadResult(d)
       PROVE  DeliveryPath'
  BY <1>21 DEF ReadResult
<1>22. ASSUME NEW d \in Device, DrainResult(d)
       PROVE  DeliveryPath'
  BY <1>22 DEF DrainResult
<1>23. CASE EndDrain
  BY <1>23 DEF EndDrain, Apart
<1>24. CASE ReloadArm
  BY <1>24 DEF ReloadArm
<1>25. CASE CommandArm
  BY <1>25 DEF CommandArm
<1>26. ASSUME NEW d \in Device, BeginWrite(d)
       PROVE  DeliveryPath'
  BY <1>26 DEF BeginWrite
<1>27. CASE EndWrite
  BY <1>27 DEF EndWrite
<1>28. CASE KeepConfig
  BY <1>28 DEF KeepConfig
<1>29. ASSUME NEW new \in Configs, CommitConfig(new)
       PROVE  DeliveryPath'
  BY <1>29 DEF CommitConfig
<1>30. CASE StopArm
  BY <1>30 DEF StopArm
<1>31. ASSUME NEW d \in Device, FinishRead(d)
       PROVE  DeliveryPath'
  BY <1>31 DEF FinishRead
<1>32. ASSUME NEW d \in Device, PollDue(d)
       PROVE  DeliveryPath'
  BY <1>32 DEF PollDue
<1>33. ASSUME NEW d \in Device, BackoffEnds(d)
       PROVE  DeliveryPath'
  BY <1>33 DEF BackoffEnds
<1>34. ASSUME NEW d \in Device, NEW c \in Conditions, Fault(d, c)
       PROVE  DeliveryPath'
  BY <1>34 DEF Fault
<1>35. CASE Request
  BY <1>35 DEF Request
<1>36. CASE UNCHANGED vars
  BY <1>36 DEF vars
<1> HIDE DEF IInv, DeliveryPath
<1> QED
    BY <1>1, <1>2, <1>3, <1>4, <1>5, <1>6, <1>7, <1>8, <1>9, <1>10, <1>11, <1>12, <1>13,
     <1>14, <1>15, <1>16, <1>17, <1>18, <1>19, <1>20, <1>21, <1>22, <1>23, <1>24, <1>25,
     <1>26, <1>27, <1>28, <1>29, <1>30, <1>31, <1>32, <1>33, <1>34, <1>35, <1>36 DEF Next,
     Loop, Environment, Stopped

\* The loop starts with nothing read, subscribed or scheduled.
LEMMA Initially == Init => IInv
<1> SUFFICES ASSUME Init PROVE IInv
  OBVIOUS
<1> USE DeviceAssumption, ConfigsAssumption, BoundsAssumption
<1>1. << >> \in Seq(Requests)
  OBVIOUS
<1>2. session \in [Device -> BOOLEAN] /\ reload \in BOOLEAN
  BY Zenon DEF Init
<1>4. 0 \in 0..2 /\ faults \in 0..MaxFaults /\ requests \in 0..MaxRequests
  BY DEF Init
<1>5. TypeOK
  BY <1>1, <1>2, <1>4 DEF Init, TypeOK, Places, Entries, Conditions, AllDue
<1>3. InPass /\ Known /\ Apart /\ IndexesCurrent /\ DeliveryPath
  BY DEF Init, InPass, Idle, Known, Apart, IndexesCurrent, DeliveryPath
<1> QED
  BY <1>3, <1>5 DEF IInv

\* The strengthening of the invariants that is inductive.
THEOREM Invariant == Spec => []IInv
<1>1. IInv /\ [Next]_vars => IInv'
  <2> SUFFICES ASSUME IInv, [Next]_vars PROVE IInv'
    OBVIOUS
  <2>1. TypeOK'
    BY TypeStep DEF IInv
  <2>2. InPass' /\ Known' /\ Apart'
    BY <2>1, InPassStep, KnownStep, ApartStep
  <2>3. IndexesCurrent' /\ DeliveryPath'
    BY <2>1, IndexesStep, DeliveryStep
  <2> QED
    BY <2>1, <2>2, <2>3 DEF IInv
<1> QED
  BY Initially, <1>1, PTL DEF Spec

\* The state of run_until_reloadable stays well formed, whatever devices fail,
\* requests arrive and configurations are loaded.
THEOREM Types == Spec => []TypeOK
<1>1. IInv => TypeOK
  BY DEF IInv
<1> QED
  BY Invariant, <1>1, PTL

\* No device index used after an await is stale: for every set of devices and
\* configurations, reads in flight and pushed points are of the running one.
THEOREM IndexesStayCurrent == Spec => []IndexesCurrent
<1>1. IInv => IndexesCurrent
  BY DEF IInv
<1> QED
  BY Invariant, <1>1, PTL

\* No reader task runs while a command executes, a configuration is replaced,
\* devices are connected or the connector has stopped.
THEOREM NoReadUnderCommand == Spec => []Quiesced
<1>1. IInv => Quiesced
  BY DEF IInv, Quiesced, Apart, IndexesCurrent, TypeOK
<1> QED
  BY Invariant, <1>1, PTL

\* Every configured point is delivered by push or is on the polling schedule.
THEOREM EveryPointHasPath == Spec => []DeliveryPath
<1>1. IInv => DeliveryPath
  BY DEF IInv
<1> QED
  BY Invariant, <1>1, PTL

-----------------------------------------------------------------------------
(* Push delivery.                                                          *)

\* Deliveries of a device: none before setup_subscriptions and none between a
\* reconnect and the subscribe on the new transport.
Ended ==
    /\ OneDelivery
    /\ at \in {"connect", "setup"} => \A d \in Device : loops[d] = 0
    /\ at = "resubscribe" => loops[call] = 0

\* The devices no read can return a good sample of: all their points are pushed,
\* and none of those can be polled.
Unreadable == PushOnly \ Polled

\* What keeps a failed subscribe on the reconnect schedule: the check of push delivery
\* visits only devices that are subscribed, a device is owed a subscribe or subscribed,
\* never both, and no read clears the entry of a device that cannot be read.
Retry ==
    /\ owed \subseteq Pushed /\ (at = "resubscribe" => call \in Pushed)
    /\ at = "check" => todo \subseteq subscribed
    /\ \A d \in Unreadable : "polled" \notin schedule[d] /\ task[d] # "good"
    /\ at \notin {"connect", "setup"} =>
          /\ owed \intersect subscribed = {}
          /\ \A d \in owed \intersect Unreadable : reconnects[d] # "none"

\* The steps that leave push delivery as it is, and do not bring the loop to a place
\* where it is about to change.
DeliveryLeft ==
    /\ UNCHANGED <<loops, subscribed, owed, schedule>>
    /\ at' \in {"connect", "setup"} => at \in {"connect", "setup"}
    /\ at \in {"connect", "setup"} => at' \in {"connect", "setup"}
    /\ at' = "resubscribe" => at = "resubscribe" /\ call' = call

\* Push delivery changes when it is set up, when a device is reconnected and
\* subscribed again, when a configuration is replaced, and when a device fails.
LEMMA DeliveryChanges ==
    ASSUME IInv, [Next]_vars
    PROVE  \/ Setup \/ ReconnectRestores \/ Resubscribe
           \/ \E new \in Configs : CommitConfig(new)
           \/ \E d \in Device : \E c \in Conditions : Fault(d, c)
           \/ DeliveryLeft
<1> USE DEF DeliveryLeft, place, delivery, module
<1>1. ConnectAll \/ ConnectFails \/ Tick \/ EndInlineRead \/ EndReads \/ EndChecks
        => DeliveryLeft
  BY DEF ConnectAll, ConnectFails, Tick, EndInlineRead, EndReads, EndChecks
<1>2. ASSUME NEW d \in Device,
             \/ SkipRead(d) \/ SpawnRead(d) \/ BeginInlineRead(d) \/ CheckSubscription(d)
             \/ BeginHeartbeat(d) \/ BeginReconnect(d)
      PROVE  DeliveryLeft
  BY <1>2 DEF SkipRead, SpawnRead, BeginInlineRead, CheckSubscription, BeginHeartbeat,
              BeginReconnect
<1>3. EndHeartbeat \/ EndHeartbeats \/ ReconnectRefused \/ ReconnectFails \/ EndReconnects
        => DeliveryLeft
  BY DEF EndHeartbeat, EndHeartbeats, ReconnectRefused, ReconnectFails, EndReconnects
<1>4. EndDrain => DeliveryLeft
  BY DEF EndDrain, IInv, TypeOK
<1>5. ReloadArm \/ CommandArm \/ EndWrite \/ KeepConfig \/ StopArm \/ Request => DeliveryLeft
  BY DEF ReloadArm, CommandArm, EndWrite, KeepConfig, StopArm, Request
<1>6. ASSUME NEW d \in Device,
             \/ ReadResult(d) \/ DrainResult(d) \/ BeginWrite(d)
             \/ FinishRead(d) \/ PollDue(d) \/ BackoffEnds(d)
      PROVE  DeliveryLeft
  BY <1>6 DEF ReadResult, DrainResult, BeginWrite, FinishRead, PollDue, BackoffEnds
<1>7. UNCHANGED vars => DeliveryLeft
  BY DEF vars
<1> HIDE DEF DeliveryLeft
<1> QED
  BY <1>1, <1>2, <1>3, <1>4, <1>5, <1>6, <1>7 DEF Next, Loop, Environment, Stopped

\* A module that reconnects a single device ends the deliveries of its old session
\* before it subscribes again, so no step starts a second one.
LEMMA EndedStep ==
    ASSUME HasReconnect, IInv, TypeOK', Ended, [Next]_vars
    PROVE  Ended'
<1> USE DEF Ended, OneDelivery, place, delivery, module
<1>1. CASE Setup
  BY <1>1 DEF Setup, OneMore, IInv, TypeOK
<1>2. CASE ReconnectRestores
  BY <1>2 DEF ReconnectRestores, AfterTransport, IInv, TypeOK
<1>3. CASE Resubscribe
  BY <1>3 DEF Resubscribe, OneMore, IInv, TypeOK
<1>4. ASSUME NEW new \in Configs, CommitConfig(new)
      PROVE  Ended'
  BY <1>4 DEF CommitConfig
<1>5. ASSUME NEW d \in Device, NEW c \in Conditions, Fault(d, c)
      PROVE  Ended'
  <2>1. UNCHANGED <<at, call>> /\ (loops' = [loops EXCEPT ![d] = 0] \/ loops' = loops)
    BY <1>5 DEF Fault
  <2>2. loops \in [Device -> 0..2] /\ (at = "resubscribe" => call \in Device)
    BY DEF IInv, TypeOK, InPass
  <2> QED
    BY <2>1, <2>2
<1>6. CASE DeliveryLeft
  BY <1>6 DEF DeliveryLeft
<1> HIDE DEF Ended
<1> QED
  BY <1>1, <1>2, <1>3, <1>4, <1>5, <1>6, DeliveryChanges

\* For a module that reconnects a single device, whatever fails and whenever: a device's
\* push delivery is never running twice.
THEOREM OneDeliveryEach ==
    ASSUME HasReconnect
    PROVE  Spec => []OneDelivery
<1>1. Init => Ended
  BY DEF Init, Ended, OneDelivery
<1>2. IInv /\ IInv' /\ Ended /\ [Next]_vars => Ended'
  BY EndedStep DEF IInv
<1>3. Ended => OneDelivery
  BY DEF Ended
<1> QED
  BY Invariant, <1>1, <1>2, <1>3, PTL DEF Spec

\* A step clears the reconnect entry of a device only by a good read of it, or by a
\* check of its push delivery.
LEMMA EntryCleared ==
    ASSUME IInv, TypeOK', Retry, [Next]_vars, at \notin {"connect", "setup"},
           NEW d \in Device, d \in Unreadable, d \notin subscribed, reconnects[d] # "none"
    PROVE  reconnects'[d] # "none"
<1> USE DEF place, link_state, delivery, module
<1> DEFINE Kept == reconnects'[d] # "none"
<1> SUFFICES Kept
  OBVIOUS
<1>1. \A e, result : OnPollResult(e, result) /\ (e = d => result # "good") => Kept
  <2> SUFFICES ASSUME NEW e, NEW result, OnPollResult(e, result), e = d => result # "good"
               PROVE  Kept
    OBVIOUS
  <2> QED
    BY DEF OnPollResult, OrInsert, IInv, TypeOK
<1>2. ~CanRead(d)
  BY DEF CanRead, Retry, Unreadable
<1>3. CASE EndInlineRead
  <2>1. PICK result \in ReadResults(call) : OnPollResult(call, result)
    BY <1>3 DEF EndInlineRead
  <2>2. call = d => result # "good"
    BY <1>2, <2>1 DEF ReadResults
  <2> QED
    BY <1>1, <2>1, <2>2
<1>4. ASSUME NEW e \in Device, CheckSubscription(e)
      PROVE  Kept
  <2>1. e # d
    BY <1>4 DEF CheckSubscription, Retry
  <2> QED
    BY <1>4, <2>1 DEF CheckSubscription, IInv, TypeOK
<1>5. CASE EndHeartbeat
  BY <1>1, <1>5 DEF EndHeartbeat
<1>6. ASSUME NEW e \in Device, ReadResult(e) \/ DrainResult(e)
      PROVE  Kept
  <2>1. e = d => task[e] # "good"
    BY DEF Retry
  <2> QED
    BY <1>1, <1>6, <2>1 DEF ReadResult, DrainResult, TakeResult
<1>7. CASE ReconnectRestores \/ ReconnectRefused \/ ReconnectFails
  BY <1>7 DEF ReconnectRestores, ReconnectRefused, ReconnectFails, BackOff, ReArm, IInv, TypeOK
<1>8. CASE Resubscribe
  BY <1>8 DEF Resubscribe, OrInsert, IInv, TypeOK
<1>9. ASSUME NEW e \in Device, BackoffEnds(e)
      PROVE  Kept
  BY <1>9 DEF BackoffEnds, IInv, TypeOK
<1>10. ConnectAll \/ ConnectFails \/ Setup \/ Tick \/ EndReads \/ EndChecks => Kept
  BY DEF ConnectAll, ConnectFails, Setup, Tick, EndReads, EndChecks
<1>11. ASSUME NEW e \in Device,
              \/ SkipRead(e) \/ SpawnRead(e) \/ BeginInlineRead(e) \/ BeginHeartbeat(e)
              \/ BeginReconnect(e) \/ BeginWrite(e) \/ FinishRead(e) \/ PollDue(e)
       PROVE  Kept
  BY <1>11 DEF SkipRead, SpawnRead, BeginInlineRead, BeginHeartbeat, BeginReconnect,
               BeginWrite, FinishRead, PollDue
<1>12. EndHeartbeats \/ EndReconnects \/ EndDrain \/ ReloadArm \/ CommandArm => Kept
  BY DEF EndHeartbeats, EndReconnects, EndDrain, ReloadArm, CommandArm
<1>13. EndWrite \/ KeepConfig \/ StopArm \/ Request \/ UNCHANGED vars => Kept
  BY DEF EndWrite, KeepConfig, StopArm, Request, vars
<1>14. ASSUME NEW new \in Configs, CommitConfig(new)
       PROVE  Kept
  BY <1>14 DEF CommitConfig
<1>15. ASSUME NEW e \in Device, NEW c \in Conditions, Fault(e, c)
       PROVE  Kept
  BY <1>15 DEF Fault
<1> HIDE DEF Kept
<1>16. Environment => Kept
  BY <1>9, <1>11, <1>15 DEF Environment
<1>17. Loop => Kept
  BY <1>3, <1>4, <1>5, <1>6, <1>7, <1>8, <1>10, <1>11, <1>12, <1>13, <1>14 DEF Loop
<1> QED
  BY <1>13, <1>16, <1>17 DEF Next, Stopped

\* No step reads a good sample of a device that cannot be read.
LEMMA UnreadableStep ==
    ASSUME IInv, TypeOK', Retry, [Next]_vars, NEW d \in Unreadable
    PROVE  "polled" \notin schedule'[d] /\ task'[d] # "good"
<1> USE DEF place, delivery, module
<1>1. d \in Device
  BY PointsAssumption DEF Unreadable
<1>2. "polled" \notin schedule'[d]
  <2>1. CASE Setup \/ Resubscribe
    BY <1>1, <2>1 DEF Setup, Resubscribe, BuildSchedule, Unreadable
  <2>2. CASE UNCHANGED schedule
    BY <2>2 DEF Retry
  <2>3. ReconnectRestores => UNCHANGED schedule
    BY DEF ReconnectRestores
  <2>4. \A new \in Configs : CommitConfig(new) => UNCHANGED schedule
    BY DEF CommitConfig
  <2>5. \A e \in Device : \A c \in Conditions : Fault(e, c) => UNCHANGED schedule
    BY DEF Fault
  <2>6. DeliveryLeft => UNCHANGED schedule
    BY DEF DeliveryLeft
  <2> QED
    BY <2>1, <2>2, <2>3, <2>4, <2>5, <2>6, DeliveryChanges
<1>3. task'[d] # "good"
  <2>1. ~CanRead(d)
    BY DEF CanRead, Retry, Unreadable
  <2> DEFINE Same == task'[d] # "good"
  <2>2. UNCHANGED task => Same
    BY DEF Retry
  <2>3. ASSUME NEW e \in Device, FinishRead(e)
        PROVE  Same
    <3>1. PICK result \in ReadResults(e) :
            task' = [task EXCEPT ![e] = IF result = "none" THEN "none_read" ELSE result]
      BY <2>3 DEF FinishRead
    <3>2. e = d => result # "good"
      BY <2>1, <3>1 DEF ReadResults
    <3> QED
      BY <1>1, <3>1, <3>2 DEF IInv, TypeOK, Retry
  <2>4. ASSUME NEW e \in Device, SpawnRead(e) \/ ReadResult(e) \/ DrainResult(e)
        PROVE  Same
    BY <1>1, <2>4 DEF SpawnRead, ReadResult, DrainResult, TakeResult, IInv, TypeOK, Retry
  <2>5. ConnectAll \/ ConnectFails \/ Setup \/ Tick \/ EndInlineRead \/ EndReads \/ EndChecks
          => UNCHANGED task
    BY DEF ConnectAll, ConnectFails, Setup, Tick, EndInlineRead, EndReads, EndChecks
  <2>6. \A e \in Device :
          \/ SkipRead(e) \/ BeginInlineRead(e) \/ CheckSubscription(e) \/ BeginHeartbeat(e)
          \/ BeginReconnect(e) \/ BeginWrite(e) \/ PollDue(e) \/ BackoffEnds(e)
          => UNCHANGED task
    BY DEF SkipRead, BeginInlineRead, CheckSubscription, BeginHeartbeat, BeginReconnect,
           BeginWrite, PollDue, BackoffEnds
  <2>7. \/ EndHeartbeat \/ EndHeartbeats \/ ReconnectRestores \/ ReconnectRefused
        \/ ReconnectFails \/ Resubscribe \/ EndReconnects
        => UNCHANGED task
    BY DEF EndHeartbeat, EndHeartbeats, ReconnectRestores, ReconnectRefused,
           ReconnectFails, Resubscribe, EndReconnects
  <2>8. \/ EndDrain \/ ReloadArm \/ CommandArm \/ EndWrite \/ KeepConfig \/ StopArm \/ Request
        \/ UNCHANGED vars
        => UNCHANGED task
    BY DEF EndDrain, ReloadArm, CommandArm, EndWrite, KeepConfig, StopArm, Request, vars
  <2>9. \A new \in Configs : CommitConfig(new) => UNCHANGED task
    BY DEF CommitConfig
  <2>10. \A e \in Device : \A c \in Conditions : Fault(e, c) => UNCHANGED task
    BY DEF Fault
  <2> HIDE DEF Same
  <2>11. Same
    BY <2>2, <2>3, <2>4, <2>5, <2>6, <2>7, <2>8, <2>9, <2>10
    DEF Next, Loop, Environment, Stopped
  <2> QED
    BY <2>11 DEF Same
<1> QED
  BY <1>2, <1>3

\* The check of push delivery starts with the subscribed devices and visits no other.
LEMMA CheckedStep ==
    ASSUME IInv, Retry, [Next]_vars, at' = "check"
    PROVE  todo' \subseteq subscribed'
<1> USE DEF place, delivery
<1>1. CASE at = "check" /\ UNCHANGED subscribed /\ todo' \subseteq todo
  BY <1>1 DEF Retry
<1>2. EndReads => todo' \subseteq subscribed'
  BY DEF EndReads
<1> DEFINE Same == at = "check" /\ UNCHANGED subscribed /\ todo' \subseteq todo
<1>3. \A d \in Device : CheckSubscription(d) => Same
  BY DEF CheckSubscription
<1>4. \A d \in Device : FinishRead(d) \/ PollDue(d) \/ BackoffEnds(d) => Same
  BY DEF FinishRead, PollDue, BackoffEnds
<1>5. \A d \in Device : \A c \in Conditions : Fault(d, c) => Same
  BY DEF Fault
<1>6. Request => Same
  BY DEF Request
<1>12. UNCHANGED vars => Same
  BY DEF vars
<1>7. ConnectAll \/ ConnectFails \/ Setup \/ Tick \/ EndInlineRead \/ EndChecks => FALSE
  BY DEF ConnectAll, ConnectFails, Setup, Tick, EndInlineRead, EndChecks
<1>8. \A d \in Device :
        \/ SkipRead(d) \/ SpawnRead(d) \/ BeginInlineRead(d) \/ BeginHeartbeat(d)
        \/ BeginReconnect(d) \/ BeginWrite(d) \/ ReadResult(d) \/ DrainResult(d)
        => FALSE
  BY DEF SkipRead, SpawnRead, BeginInlineRead, BeginHeartbeat, BeginReconnect, BeginWrite,
         ReadResult, DrainResult
<1>9. \/ EndHeartbeat \/ EndHeartbeats \/ ReconnectRestores \/ ReconnectRefused
      \/ ReconnectFails \/ Resubscribe \/ EndReconnects
      => FALSE
  BY DEF EndHeartbeat, EndHeartbeats, ReconnectRestores, AfterTransport, ReconnectRefused,
         ReconnectFails, Resubscribe, EndReconnects
<1>10. \/ EndDrain \/ ReloadArm \/ CommandArm \/ EndWrite \/ KeepConfig \/ StopArm
       \/ \E new \in Configs : CommitConfig(new)
       => FALSE
  BY DEF EndDrain, ReloadArm, CommandArm, EndWrite, KeepConfig, StopArm, CommitConfig, IInv,
         TypeOK
<1> HIDE DEF Same
<1>13. Environment => Same
  BY <1>4, <1>5 DEF Environment
<1>14. Loop => EndReads \/ Same
  BY <1>3, <1>7, <1>8, <1>9, <1>10 DEF Loop
<1>11. EndReads \/ Same
  BY <1>6, <1>12, <1>13, <1>14 DEF Next, Stopped
<1> QED
  BY <1>1, <1>2, <1>11 DEF Same

\* Every step keeps what a failed subscribe's retry rests on.
LEMMA RetryStep == IInv /\ IInv' /\ Retry /\ [Next]_vars => Retry'
<1> SUFFICES ASSUME IInv, IInv', Retry, [Next]_vars PROVE Retry'
  OBVIOUS
<1> USE DEF place, delivery, module
<1>1. TypeOK' /\ (at' = "check" => todo' \subseteq subscribed')
  BY CheckedStep DEF IInv
<1>2. \A d \in Unreadable : "polled" \notin schedule'[d] /\ task'[d] # "good"
  BY <1>1, UnreadableStep
<1>3. ASSUME at' \notin {"connect", "setup"}
      PROVE  /\ owed' \intersect subscribed' = {}
             /\ \A d \in owed' \intersect Unreadable : reconnects'[d] # "none"
  <2>1. CASE Setup
    BY <2>1 DEF Setup, IInv, TypeOK
  <2>2. ASSUME at \notin {"connect", "setup"}, UNCHANGED <<owed, subscribed>>
        PROVE  /\ owed' \intersect subscribed' = {}
               /\ \A d \in owed' \intersect Unreadable : reconnects'[d] # "none"
    <3>1. owed \intersect subscribed = {} /\ owed \subseteq Device
      BY <2>2 DEF Retry, IInv, TypeOK
    <3>2. \A d \in owed \intersect Unreadable : reconnects[d] # "none"
      BY <2>2 DEF Retry
    <3>3. \A d \in owed \intersect Unreadable : reconnects'[d] # "none"
      BY <1>1, <2>2, <3>1, <3>2, EntryCleared
    <3> QED
      BY <2>2, <3>1, <3>3
  <2>3. CASE Resubscribe
    <3>1. call \in Device /\ at \notin {"connect", "setup"}
      BY <2>3 DEF Resubscribe, IInv, TypeOK, InPass
    <3>2. owed \intersect subscribed = {} /\ owed \subseteq Device
      BY <3>1 DEF Retry, IInv, TypeOK
    <3>3. owed' \intersect subscribed' = {}
      BY <2>3, <3>2 DEF Resubscribe
    <3>4. \A d \in owed \intersect Unreadable : reconnects'[d] # "none"
      BY <1>1, <3>1, <3>2, EntryCleared DEF Retry
    <3>5. call \in owed' => reconnects'[call] # "none"
      BY <2>3, <3>1 DEF Resubscribe, OrInsert, IInv, TypeOK
    <3>6. owed' \subseteq owed \union {call}
      BY <2>3 DEF Resubscribe
    <3> QED
      BY <3>3, <3>4, <3>5, <3>6
  <2>4. ReconnectRestores => at \notin {"connect", "setup"} /\ UNCHANGED <<owed, subscribed>>
    BY DEF ReconnectRestores
  <2>5. \A new \in Configs : ~CommitConfig(new)
    BY <1>3 DEF CommitConfig
  <2>6. \A d \in Device : \A c \in Conditions :
           Fault(d, c) => at \notin {"connect", "setup"} /\ UNCHANGED <<owed, subscribed>>
    BY <1>3 DEF Fault
  <2>7. DeliveryLeft => at \notin {"connect", "setup"} /\ UNCHANGED <<owed, subscribed>>
    BY <1>3 DEF DeliveryLeft
  <2> QED
    BY <2>1, <2>2, <2>3, <2>4, <2>5, <2>6, <2>7, DeliveryChanges
<1>4. owed' \subseteq Pushed /\ (at' = "resubscribe" => call' \in Pushed)
  <2>1. CASE Setup
    BY <2>1 DEF Setup
  <2>2. CASE ReconnectRestores
    BY <2>2 DEF ReconnectRestores, AfterTransport, Retry
  <2>3. CASE Resubscribe
    BY <2>3 DEF Resubscribe, Retry
  <2>4. ASSUME NEW new \in Configs, CommitConfig(new)
        PROVE  owed' \subseteq Pushed /\ (at' = "resubscribe" => call' \in Pushed)
    BY <2>4 DEF CommitConfig, Retry
  <2>5. ASSUME NEW d \in Device, NEW c \in Conditions, Fault(d, c)
        PROVE  owed' \subseteq Pushed /\ (at' = "resubscribe" => call' \in Pushed)
    BY <2>5 DEF Fault, Retry
  <2>6. CASE DeliveryLeft
    BY <2>6 DEF DeliveryLeft, Retry
  <2> QED
    BY <2>1, <2>2, <2>3, <2>4, <2>5, <2>6, DeliveryChanges
<1> QED
  BY <1>1, <1>2, <1>3, <1>4 DEF Retry

\* For a module that reconnects a single device, and devices whose pushed points cannot
\* be polled and which have no others: push delivery is never running twice, and a
\* subscribe that failed stays on the reconnect schedule until one succeeds, through
\* failed reads, heartbeats, checks, reconnects and new configurations.  (A device that
\* can be read has its retry cancelled by a healthy poll, and its points stay polled.)
THEOREM PushDeliveryKept ==
    ASSUME HasReconnect, Pushed \subseteq PushOnly, Pushed \intersect Polled = {}
    PROVE  Spec => []PushKept
<1>1. Init => Retry
  BY PointsAssumption DEF Init, Retry, Unreadable
<1>2. Retry => SubscribeRetried
  BY DEF Retry, SubscribeRetried, Unreadable
<1> QED
  BY Invariant, OneDeliveryEach, RetryStep, <1>1, <1>2, PTL DEF Spec, PushKept

-----------------------------------------------------------------------------
(* One call per device.                                                    *)

\* Where no device has both polled and pushed points, reads and heartbeats are of
\* different devices: reads of devices on the schedule, heartbeats of subscribed ones,
\* and no device is subscribed under a read.
Disjoint ==
    /\ subscribed \subseteq Pushed
    /\ at = "read" => \A d \in todo : schedule[d] # {}
    /\ at = "heartbeat" => todo \subseteq subscribed
    /\ at \notin {"connect", "setup"} => subscribed \intersect reading = {}

\* The steps of one place of the tick: the place and what it rests on stay, devices
\* still to be visited are left out, reads in flight end.
VisitLeft ==
    /\ UNCHANGED <<at, subscribed, schedule>>
    /\ todo' \subseteq todo
    /\ reading' \subseteq reading

\* Every step keeps reads and heartbeats of different devices.
LEMMA DisjointStep ==
    ASSUME Pushed \intersect Polled = {}, IInv, IInv', Retry, Disjoint, [Next]_vars
    PROVE  Disjoint'
<1> USE DEF place, delivery, module
<1>1. CASE VisitLeft
  BY <1>1 DEF VisitLeft, Disjoint
<1>2. CASE ConnectAll \/ ConnectFails
  BY <1>2 DEF ConnectAll, ConnectFails, Disjoint
<1>3. CASE Setup
  BY <1>3 DEF Setup, Disjoint, IInv, Apart
<1>4. CASE Tick
  BY <1>4 DEF Tick, Disjoint
<1>5. ASSUME NEW d \in Device, SpawnRead(d)
      PROVE  Disjoint'
  <2>1. at = "read" /\ d \in todo /\ schedule[d] # {}
    BY <1>5 DEF SpawnRead, Disjoint
  <2>2. d \notin subscribed
    BY <2>1 DEF IInv, DeliveryPath, BuildSchedule, Disjoint
  <2> QED
    BY <1>5, <2>1, <2>2 DEF SpawnRead, Disjoint
<1>6. CASE EndChecks
  BY <1>6 DEF EndChecks, Disjoint
<1>7. CASE EndReads \/ EndHeartbeats
  BY <1>7 DEF EndReads, EndHeartbeats, Disjoint
<1>8. CASE ReconnectRestores
  BY <1>8 DEF ReconnectRestores, AfterTransport, Disjoint
<1>9. CASE Resubscribe
  <2>1. call \in Pushed /\ call \notin reading
    BY <1>9 DEF Resubscribe, Retry, IInv, InPass, Apart
  <2> QED
    BY <1>9, <2>1 DEF Resubscribe, Disjoint
<1>10. CASE EndReconnects \/ ReloadArm \/ CommandArm \/ EndWrite \/ KeepConfig \/ StopArm
  BY <1>10 DEF EndReconnects, ReloadArm, CommandArm, EndWrite, KeepConfig, StopArm, Disjoint
<1>11. CASE EndDrain
  BY <1>11 DEF EndDrain, Disjoint, IInv, TypeOK
<1>12. ASSUME NEW new \in Configs, CommitConfig(new)
       PROVE  Disjoint'
  BY <1>12 DEF CommitConfig, Disjoint
<1>13. ASSUME NEW d \in Device,
              \/ SkipRead(d) \/ BeginInlineRead(d) \/ CheckSubscription(d)
              \/ BeginHeartbeat(d) \/ BeginReconnect(d) \/ BeginWrite(d)
       PROVE  VisitLeft
  BY <1>13 DEF SkipRead, BeginInlineRead, CheckSubscription, BeginHeartbeat, BeginReconnect,
               BeginWrite, VisitLeft
<1>14. ASSUME NEW d \in Device,
              \/ ReadResult(d) \/ DrainResult(d) \/ FinishRead(d) \/ PollDue(d)
              \/ BackoffEnds(d)
       PROVE  VisitLeft
  BY <1>14 DEF ReadResult, DrainResult, TakeResult, FinishRead, PollDue, BackoffEnds, VisitLeft
<1>15. EndInlineRead \/ EndHeartbeat \/ ReconnectRefused \/ ReconnectFails => VisitLeft
  BY DEF EndInlineRead, EndHeartbeat, ReconnectRefused, ReconnectFails, VisitLeft
<1>16. Request \/ UNCHANGED vars => VisitLeft
  BY DEF Request, vars, VisitLeft
<1>17. \A d \in Device : \A c \in Conditions : Fault(d, c) => VisitLeft
  BY DEF Fault, VisitLeft
<1> HIDE DEF Disjoint
<1>18. Environment => Disjoint'
  BY <1>1, <1>14, <1>17 DEF Environment
<1>19. Loop => Disjoint'
  BY <1>1, <1>2, <1>3, <1>4, <1>5, <1>6, <1>7, <1>8, <1>9, <1>10, <1>11, <1>12, <1>13,
     <1>14, <1>15 DEF Loop
<1> QED
  BY <1>1, <1>16, <1>18, <1>19 DEF Next, Stopped

\* A device has one call at a time: no read, write, heartbeat or reconnect of the loop
\* overlaps the reader task of the same device, unless heartbeats are sent to a device
\* that also has polled points (there they do overlap).
THEOREM OneCallPerDevice ==
    ASSUME ~Heartbeats \/ Pushed \intersect Polled = {}
    PROVE  Spec => []ExclusiveUse
<1>1. CASE ~Heartbeats
  <2>1. IInv => ExclusiveUse
    BY <1>1 DEF IInv, ExclusiveUse, InPass, Idle, Apart, IndexesCurrent, TypeOK, Places
  <2> QED
    BY Invariant, <2>1, PTL
<1>2. CASE Pushed \intersect Polled = {}
  <2>1. Init => Retry /\ Disjoint
    BY PointsAssumption DEF Init, Retry, Unreadable, Disjoint
  <2>2. IInv /\ IInv' /\ Retry /\ Disjoint /\ [Next]_vars => Disjoint'
    BY <1>2, DisjointStep
  <2>3. IInv /\ Disjoint => ExclusiveUse
    BY DEF IInv, Disjoint, ExclusiveUse, InPass, Idle, Apart, IndexesCurrent, TypeOK, Places
  <2> QED
    BY Invariant, RetryStep, <2>1, <2>2, <2>3, PTL DEF Spec
<1> QED
  BY <1>1, <1>2
=============================================================================
