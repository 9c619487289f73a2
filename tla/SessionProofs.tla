---------------------------- MODULE SessionProofs ----------------------------
(***************************************************************************)
(* Proofs about Session for every set of devices and every room of its     *)
(* queues: its state stays well formed, and it implements Retained.        *)
(***************************************************************************)
EXTENDS Session, FiniteSetTheorems, SequenceTheorems, TLAPS

\* What is in s has no newer value of a topic than what is in r.
Before(s, r) ==
    \A i \in DOMAIN s, j \in DOMAIN r : s[i].topic = r[j].topic => s[i].value <= r[j].value

\* The values of a topic are in the order they were given.
Ascending(s) ==
    \A i, j \in DOMAIN s : i < j /\ s[i].topic = s[j].topic => s[i].value <= s[j].value

\* A value was given to its topic; what is not a publish has none.
Given(s) ==
    \A i \in DOMAIN s :
        IF s[i].topic \in Topic THEN s[i].value <= want[s[i].topic] ELSE s[i].value = 0

\* No value is older than the one that arrived last.
Ahead(s) == \A i \in DOMAIN s : s[i].topic \in Topic => seen[s[i].topic] <= s[i].value

\* The parts of the pipeline from the main loop to the broker are in order, each and together.
Lined ==
    /\ Ascending(unacked) /\ Ascending(again) /\ Ascending(queue)
    /\ Before(unacked, again) /\ Before(unacked, queue) /\ Before(again, queue)
    /\ Given(unacked) /\ Given(again) /\ Given(queue)

\* What arrived was given, and while the client sends, what it has to send is not older.
Passed ==
    /\ seen \in [Topic -> Nat]
    /\ \A t \in Topic : seen[t] <= want[t]
    /\ task \in {"poll", "deliver"} => Ahead(again) /\ Ahead(queue)

\* The health is given once, when the broker accepted the session, and once more at the end.
HealthOnce ==
    /\ at = "await" => want["health"] = 0
    /\ at \in {"select", "busy"} => want["health"] = 1

IInv == TypeOK /\ Lined /\ Passed /\ HealthOnce

-----------------------------------------------------------------------------
(* The order of devices, and sequences of messages.                        *)

\* SetToSeq lists the devices, so a link's topic is never another one.
LEMMA LinksAreDevices == Links \in Seq(Device)
<1>1. Cardinality(Device) \in Nat /\ ExistsBijection(1 .. Cardinality(Device), Device)
  BY DeviceAssumption, FS_CardinalityType
<1>2. PICK f \in [1 .. Cardinality(Device) -> Device] : IsInjective(f)
  BY <1>1 DEF ExistsBijection, Bijection, Injection
<1>3. SetToSeq(Device) \in [1 .. Cardinality(Device) -> Device]
  BY <1>2 DEF SetToSeq
<1> QED
  BY <1>1, <1>3 DEF Links

\* What restore_mqtt_session, commit_config and the start publish is well formed, and the health
\* is given with the start only.
LEMMA Lists ==
    /\ <<"caps", "health", "sub">> \o Links \in Seq(Topic \union {"sub"})
    /\ <<"sub", "health", "caps">> \o Links \in Seq(Topic \union {"sub"})
    /\ <<"caps">> \o Links \in Seq(Topic \union {"sub"})
    /\ Contains(<<"caps", "health", "sub">> \o Links, "health")
    /\ ~Contains(<<"caps">> \o Links, "health")
<1> USE LinksAreDevices, DeviceAssumption DEF Topic
<1>1. Links \in Seq(Topic \union {"sub"}) /\ \A i \in 1 .. Len(Links) : Links[i] # "health"
  OBVIOUS
<1> HIDE LinksAreDevices
<1>2. /\ <<"caps", "health", "sub">> \o Links \in Seq(Topic \union {"sub"})
      /\ <<"sub", "health", "caps">> \o Links \in Seq(Topic \union {"sub"})
      /\ <<"caps">> \o Links \in Seq(Topic \union {"sub"})
  BY <1>1
<1>3. Contains(<<"caps", "health", "sub">> \o Links, "health")
  BY <1>1 DEF Contains
<1>4. ~Contains(<<"caps">> \o Links, "health")
  BY <1>1 DEF Contains
<1> QED
  BY <1>2, <1>3, <1>4

\* The value of a message is a number.
LEMMA MessageAt ==
    ASSUME NEW q \in Seq(Message), NEW i \in DOMAIN q PROVE q[i].value \in Nat
<1>1. q[i] \in Message
  OBVIOUS
<1> QED
  BY <1>1 DEF Message

\* A message that is as new as any in s goes behind it.
LEMMA AppendOrder ==
    ASSUME NEW s \in Seq(Message), NEW m \in Message,
           \A i \in DOMAIN s : s[i].topic = m.topic => s[i].value <= m.value
    PROVE  /\ Append(s, m) \in Seq(Message)
           /\ Ascending(s) => Ascending(Append(s, m))
           /\ \A r \in Seq(Message) :
                 Before(r, s) /\ (\A i \in DOMAIN r : r[i].topic = m.topic => r[i].value <= m.value)
                    => Before(r, Append(s, m))
           /\ \A r \in Seq(Message) :
                 Before(s, r) /\ (\A i \in DOMAIN r : r[i].topic = m.topic => m.value <= r[i].value)
                    => Before(Append(s, m), r)
<1> DEFINE a == Append(s, m)
<1>1. /\ a \in Seq(Message)
      /\ DOMAIN s = 1 .. Len(s) /\ DOMAIN a = 1 .. Len(s) + 1 /\ Len(s) \in Nat
      /\ \A i \in 1 .. Len(s) : a[i] = s[i]
      /\ a[Len(s) + 1] = m
  OBVIOUS
<1>2. m.value \in Nat
  BY DEF Message
<1> HIDE DEF a
<1>3. Ascending(s) => Ascending(a)
  BY <1>1, <1>2 DEF Ascending
<1>4. ASSUME NEW r \in Seq(Message), Before(r, s),
             \A i \in DOMAIN r : r[i].topic = m.topic => r[i].value <= m.value
      PROVE  Before(r, a)
  BY <1>1, <1>4 DEF Before
<1>5. ASSUME NEW r \in Seq(Message), Before(s, r),
             \A i \in DOMAIN r : r[i].topic = m.topic => m.value <= r[i].value
      PROVE  Before(a, r)
  BY <1>1, <1>5 DEF Before
<1> QED
  BY <1>1, <1>3, <1>4, <1>5 DEF a

\* So does one that was given.
LEMMA AppendGiven ==
    ASSUME NEW s \in Seq(Message), NEW m \in Message, Given(s),
           IF m.topic \in Topic THEN m.value <= want[m.topic] ELSE m.value = 0
    PROVE  Given(Append(s, m))
<1> DEFINE a == Append(s, m)
<1>1. /\ DOMAIN s = 1 .. Len(s) /\ DOMAIN a = 1 .. Len(s) + 1 /\ Len(s) \in Nat
      /\ \A i \in 1 .. Len(s) : a[i] = s[i]
      /\ a[Len(s) + 1] = m
  OBVIOUS
<1> HIDE DEF a
<1>2. Given(a)
  BY <1>1 DEF Given
<1> QED
  BY <1>2 DEF a

\* The first message can be taken away, and is not newer than any that follows it.
LEMMA TailOrder ==
    ASSUME NEW s \in Seq(Message), s # << >>
    PROVE  /\ Head(s) \in Message /\ Head(s) = s[1] /\ 1 \in DOMAIN s
           /\ Tail(s) \in Seq(Message) /\ Len(Tail(s)) = Len(s) - 1
           /\ Ascending(s) => /\ Ascending(Tail(s))
                              /\ \A i \in DOMAIN Tail(s) :
                                    Tail(s)[i].topic = Head(s).topic => Head(s).value <= Tail(s)[i].value
           /\ \A r \in Seq(Message) : Before(r, s) => Before(r, Tail(s))
           /\ \A r \in Seq(Message) : Before(s, r) => Before(Tail(s), r)
           /\ Given(s) => Given(Tail(s))
           /\ Ahead(s) => Ahead(Tail(s))
<1> DEFINE t == Tail(s)
<1>1. /\ Head(s) \in Message /\ Head(s) = s[1] /\ t \in Seq(Message) /\ Len(t) = Len(s) - 1
      /\ DOMAIN s = 1 .. Len(s) /\ DOMAIN t = 1 .. Len(s) - 1 /\ Len(s) \in Nat \ {0}
      /\ \A i \in 1 .. Len(s) - 1 : t[i] = s[i + 1]
  OBVIOUS
<1> HIDE DEF t
<1>2. \A i \in DOMAIN t : i + 1 \in DOMAIN s /\ t[i] = s[i + 1] /\ 1 < i + 1
  BY <1>1
<1>3. ASSUME Ascending(s)
      PROVE  /\ Ascending(t)
             /\ \A i \in DOMAIN t : t[i].topic = Head(s).topic => Head(s).value <= t[i].value
  <2>1. ASSUME NEW i \in DOMAIN t, NEW j \in DOMAIN t, i < j, t[i].topic = t[j].topic
        PROVE  t[i].value <= t[j].value
    <3>1. i + 1 \in DOMAIN s /\ j + 1 \in DOMAIN s /\ i + 1 < j + 1
      BY <1>1, <2>1
    <3> QED
      BY <1>2, <1>3, <2>1, <3>1 DEF Ascending
  <2>2. ASSUME NEW i \in DOMAIN t, t[i].topic = Head(s).topic PROVE Head(s).value <= t[i].value
    <3>1. i + 1 \in DOMAIN s /\ 1 \in DOMAIN s /\ 1 < i + 1
      BY <1>1, <2>2
    <3> QED
      BY <1>1, <1>2, <1>3, <2>2, <3>1 DEF Ascending
  <2> QED
    BY <2>1, <2>2 DEF Ascending
<1>4. ASSUME NEW r \in Seq(Message) PROVE Before(r, s) => Before(r, t)
  BY <1>2 DEF Before
<1>5. ASSUME NEW r \in Seq(Message) PROVE Before(s, r) => Before(t, r)
  BY <1>2 DEF Before
<1>6. (Given(s) => Given(t)) /\ (Ahead(s) => Ahead(t))
  BY <1>2 DEF Given, Ahead
<1> QED
  BY <1>1, <1>3, <1>4, <1>5, <1>6 DEF t

\* Two parts of the pipeline become one, in order.
LEMMA JoinOrder ==
    ASSUME NEW s \in Seq(Message), NEW r \in Seq(Message)
    PROVE  /\ s \o r \in Seq(Message)
           /\ Ascending(s) /\ Ascending(r) /\ Before(s, r) => Ascending(s \o r)
           /\ \A q \in Seq(Message) : Before(s, q) /\ Before(r, q) => Before(s \o r, q)
           /\ Given(s) /\ Given(r) => Given(s \o r)
<1>1. s \o r \in Seq(Message) /\ Len(s \o r) = Len(s) + Len(r)
  OBVIOUS
<1>2. \A i \in 1 .. Len(s) + Len(r) :
          \/ i \in DOMAIN s /\ (s \o r)[i] = s[i]
          \/ i - Len(s) \in DOMAIN r /\ i > Len(s) /\ (s \o r)[i] = r[i - Len(s)]
  OBVIOUS
<1>3. DOMAIN (s \o r) = 1 .. Len(s) + Len(r) /\ DOMAIN s = 1 .. Len(s) /\ DOMAIN r = 1 .. Len(r)
  OBVIOUS
<1>4. ASSUME Ascending(s), Ascending(r), Before(s, r) PROVE Ascending(s \o r)
  <2> DEFINE t == s \o r
  <2> SUFFICES ASSUME NEW i \in DOMAIN t, NEW j \in DOMAIN t, i < j, t[i].topic = t[j].topic
               PROVE  t[i].value <= t[j].value
    BY DEF Ascending
  <2>1. i \in 1 .. Len(s) + Len(r) /\ j \in 1 .. Len(s) + Len(r)
    BY <1>3
  <2>2. CASE j \in DOMAIN s /\ t[j] = s[j]
    <3>1. i \in DOMAIN s /\ t[i] = s[i]
      BY <1>2, <1>3, <2>1, <2>2
    <3> QED
      BY <1>4, <2>2, <3>1 DEF Ascending
  <2>3. CASE j - Len(s) \in DOMAIN r /\ j > Len(s) /\ t[j] = r[j - Len(s)]
    <3>1. CASE i \in DOMAIN s /\ t[i] = s[i]
      BY <1>4, <2>3, <3>1 DEF Before
    <3>2. CASE i - Len(s) \in DOMAIN r /\ t[i] = r[i - Len(s)]
      <4>1. i - Len(s) < j - Len(s)
        BY <2>1
      <4> QED
        BY <1>4, <2>3, <3>2, <4>1 DEF Ascending
    <3> QED
      BY <1>2, <2>1, <3>1, <3>2
  <2> QED
    BY <1>2, <2>1, <2>2, <2>3
<1>5. ASSUME NEW q \in Seq(Message), Before(s, q), Before(r, q) PROVE Before(s \o r, q)
  BY <1>2, <1>3, <1>5 DEF Before
<1>6. Given(s) /\ Given(r) => Given(s \o r)
  BY <1>2, <1>3 DEF Given
<1> QED
  BY <1>1, <1>4, <1>5, <1>6

-----------------------------------------------------------------------------
(* Types.                                                                  *)

\* What the topics are.
LEMMA Names ==
    /\ {"health", "caps", "cmd", "sample"} \subseteq Topic /\ Device \subseteq Topic
    /\ "sub" \notin Topic /\ "bye" \notin Topic
  BY DeviceAssumption DEF Topic

\* A message that is put into the queue finds room there.
LEMMA PutTyped ==
    ASSUME ClientOK, ~Full, NEW t \in Topic \union {"sub", "bye"}, NEW v \in Nat, Put(t, v),
           UNCHANGED <<unacked, again>>
    PROVE  ClientOK'
  BY RoomAssumption DEF ClientOK, Full, Put, Message

\* The loop goes on with the topics it is given.
LEMMA GiveTyped ==
    ASSUME TypeOK, NEW s \in Seq(Topic \union {"sub"}), Give(s), incoming' \in 0 .. InCap
    PROVE  TypeOK'
<1>1. LoopOK'
  BY DEF Give, TypeOK, LoopOK
<1>2. ClientOK' /\ TaskOK' /\ BrokerOK'
  BY DEF Give, TypeOK, ClientOK, TaskOK, BrokerOK, client, mqtt_task, broker
<1> QED
  BY <1>1, <1>2 DEF TypeOK

\* The loop is done with one of its messages.
LEMMA DoneTyped ==
    ASSUME TypeOK, todo # << >>, Done, ClientOK'
    PROVE  TypeOK'
<1>a. Tail(todo) \in Seq(Topic \union {"sub"})
  BY DEF TypeOK, LoopOK
<1>1. LoopOK'
  BY <1>a DEF Done, TypeOK, LoopOK
<1>2. TaskOK' /\ BrokerOK'
  BY DEF Done, TypeOK, TaskOK, BrokerOK, mqtt_task, broker
<1> QED
  BY <1>1, <1>2 DEF TypeOK

\* What a step leaves alone stays well formed.
LEMMA Untouched ==
    /\ LoopOK /\ UNCHANGED loop => LoopOK'
    /\ ClientOK /\ UNCHANGED client => ClientOK'
    /\ TaskOK /\ UNCHANGED <<mqtt_task, incoming, net>> => TaskOK'
    /\ BrokerOK /\ UNCHANGED broker => BrokerOK'
<1>1. LoopOK /\ UNCHANGED loop => LoopOK'
  BY DEF LoopOK, loop
<1>2. ClientOK /\ UNCHANGED client => ClientOK'
  BY DEF ClientOK, client
<1>3. TaskOK /\ UNCHANGED <<mqtt_task, incoming, net>> => TaskOK'
  BY DEF TaskOK, mqtt_task
<1>4. BrokerOK /\ UNCHANGED broker => BrokerOK'
  BY DEF BrokerOK, broker
<1> QED
  BY <1>1, <1>2, <1>3, <1>4

\* The session starts well formed, with nothing to send.
LEMMA TypeInit == Init => TypeOK
<1> SUFFICES ASSUME Init PROVE TypeOK
  OBVIOUS
<1>1. << >> \in Seq(Topic \union {"sub"}) /\ << >> \in Seq(Message) /\ Len(<< >>) = 0
  OBVIOUS
<1>2. LoopOK
  BY <1>1 DEF Init, LoopOK
<1>3. ClientOK
  <2>1. Len(queue) <= Cap
    BY <1>1, RoomAssumption DEF Init
  <2> QED
    BY <1>1, <2>1 DEF Init, ClientOK
<1>4. TaskOK
  <2>1. incoming \in 0 .. InCap
    BY RoomAssumption DEF Init
  <2> QED
    BY <2>1 DEF Init, TaskOK
<1>5. BrokerOK
  BY DEF Init, BrokerOK
<1> QED
  BY <1>2, <1>3, <1>4, <1>5 DEF TypeOK

\* The main loop keeps the session well formed.
LEMMA LoopTyped == TypeOK /\ (Work \/ Change) => TypeOK'
<1> SUFFICES ASSUME TypeOK, Work \/ Change PROVE TypeOK'
  OBVIOUS
<1>t. LoopOK /\ ClientOK /\ TaskOK /\ BrokerOK
  BY DEF TypeOK
<1>i. incoming \in 0 .. InCap
  BY DEF TypeOK, TaskOK
<1>1. CASE Connected
  BY <1>1, <1>i, GiveTyped, Lists DEF Connected
<1>2. CASE GiveUp
  BY <1>2, <1>t DEF GiveUp, TypeOK, LoopOK, ClientOK, TaskOK, BrokerOK, client, broker
<1>3. ASSUME NEW d \in Device, LinkChange(d) PROVE TypeOK'
  <2>1. <<d>> \in Seq(Topic \union {"sub"})
    BY <1>3, Names
  <2> QED
    BY <1>3, <1>i, <2>1, GiveTyped DEF LinkChange
<1>4. CASE Reload
  BY <1>4, <1>i, GiveTyped, Lists DEF Reload
<1>5. CASE Reading
  <2>1. <<"sample">> \in Seq(Topic \union {"sub"})
    BY Names
  <2> QED
    BY <1>5, <1>i, <2>1, GiveTyped DEF Reading
<1>6. CASE Command
  <2>1. incoming' \in 0 .. InCap
    BY <1>6, <1>i, RoomAssumption DEF Command
  <2>2. <<"cmd">> \in Seq(Topic \union {"sub"})
    BY Names
  <2> QED
    BY <1>6, <2>1, <2>2, GiveTyped DEF Command
<1>7. CASE Restore
  <2>1. LoopOK'
    BY <1>7, <1>t, Lists DEF Restore, LoopOK
  <2>2. TaskOK'
    BY <1>7, <1>t DEF Restore, TaskOK
  <2> QED
    BY <1>7, <1>t, <2>1, <2>2, Untouched DEF Restore, TypeOK
<1>8. CASE Subscribe
  <2>1. ClientOK'
    BY <1>8, <1>t, PutTyped DEF Subscribe, Done
  <2> QED
    BY <1>8, <2>1, DoneTyped DEF Subscribe, Subscribing
<1>9. CASE Publish
  <2>1. Head(todo) \in Topic /\ want[Head(todo)] \in Nat
    BY <1>9, <1>t DEF Publish, Publishing, LoopOK
  <2>2. ClientOK'
    BY <1>9, <1>t, <2>1, PutTyped DEF Publish, Done
  <2> QED
    BY <1>9, <2>2, DoneTyped DEF Publish, Publishing
<1>10. CASE Skip \/ PublishTimeout
  <2>1. ClientOK'
    BY <1>10, <1>t, Untouched DEF Skip, PublishTimeout, Done, client
  <2> QED
    BY <1>10, <2>1, DoneTyped DEF Skip, PublishTimeout, Publishing
<1>11. CASE Wait \/ Idle
  <2>1. LoopOK'
    BY <1>11, <1>t DEF Wait, Idle, LoopOK
  <2> QED
    BY <1>11, <1>t, <2>1, Untouched DEF Wait, Idle, TypeOK
<1>12. CASE Stop
  <2>a. << >> \in Seq(Topic \union {"sub"}) /\ <<"health">> \in Seq(Topic \union {"sub"})
    BY Names
  <2>b. want' \in [Topic -> Nat]
    BY <1>12, <1>t DEF Stop, LoopOK, Down
  <2>1. LoopOK'
    BY <1>12, <1>t, <2>a, <2>b DEF Stop, LoopOK
  <2>2. TaskOK'
    BY <1>12, <1>t DEF Stop, TaskOK
  <2> QED
    BY <1>12, <1>t, <2>1, <2>2, Untouched DEF Stop, TypeOK
<1>13. CASE Bye
  <2>1. ClientOK'
    BY <1>13, <1>t, PutTyped DEF Bye
  <2> QED
    BY <1>13, <1>t, <2>1, Untouched DEF Bye, TypeOK
<1>14. CASE Stopped
  <2>a. << >> \in Seq(Topic \union {"sub"})
    OBVIOUS
  <2>1. LoopOK' /\ TaskOK'
    BY <1>14, <1>t, <2>a DEF Stopped, LoopOK, TaskOK
  <2> QED
    BY <1>14, <1>t, <2>1, Untouched DEF Stopped, TypeOK
<1> QED
  BY <1>1, <1>2, <1>3, <1>4, <1>5, <1>6, <1>7, <1>8, <1>9, <1>10, <1>11, <1>12, <1>13, <1>14
     DEF Work, Change

\* So do the event loop task and the broker.
LEMMA TaskTyped == TypeOK /\ (EventLoop \/ Incoming \/ Drop \/ LastWill) => TypeOK'
<1> SUFFICES ASSUME TypeOK, EventLoop \/ Incoming \/ Drop \/ LastWill PROVE TypeOK'
  OBVIOUS
<1>t. LoopOK /\ ClientOK /\ TaskOK /\ BrokerOK
  BY DEF TypeOK
<1>1. CASE ConnAck
  <2>1. TaskOK'
    BY <1>1, <1>t DEF ConnAck, TaskOK
  <2>2. BrokerOK'
    BY <1>1, <1>t, Names DEF ConnAck, BrokerOK, Down
  <2> QED
    BY <1>1, <1>t, <2>1, <2>2, Untouched DEF ConnAck, TypeOK
<1>2. CASE Send
  <2>1. ASSUME NEW r \in Message, Arrives(r) PROVE BrokerOK'
    <3>1. retained' \in [Topic -> Nat]
      BY <2>1, <1>t DEF Arrives, BrokerOK, Message
    <3>2. subscribed' \in BOOLEAN /\ will' \in BOOLEAN
      BY <2>1, <1>t DEF Arrives, BrokerOK
    <3> QED
      BY <3>1, <3>2 DEF BrokerOK
  <2>2. /\ again # << >> => Head(again) \in Message /\ Tail(again) \in Seq(Message)
        /\ queue # << >> => /\ Head(queue) \in Message /\ Tail(queue) \in Seq(Message)
                            /\ Len(Tail(queue)) <= Cap
    BY <1>t, RoomAssumption DEF ClientOK
  <2>3. BrokerOK'
    BY <1>2, <2>1, <2>2 DEF Send
  <2>a. ASSUME NEW r \in Message PROVE Append(unacked, r) \in Seq(Message)
    BY <1>t DEF ClientOK
  <2>4. ClientOK'
    BY <1>2, <1>t, <2>2, <2>a DEF Send, ClientOK
  <2>5. TaskOK'
    BY <1>2, <1>t DEF Send, TaskOK
  <2> QED
    BY <1>2, <1>t, <2>3, <2>4, <2>5, Untouched DEF Send, TypeOK
<1>3. CASE Acknowledge
  <2>1. ClientOK'
    BY <1>3, <1>t DEF Acknowledge, ClientOK
  <2> QED
    BY <1>3, <1>t, <2>1, Untouched DEF Acknowledge, TypeOK
<1>4. CASE Incoming \/ Forward
  <2>1. TaskOK'
    BY <1>4, <1>t, RoomAssumption DEF Incoming, Forward, TaskOK
  <2> QED
    BY <1>4, <1>t, <2>1, Untouched DEF Incoming, Forward, TypeOK
<1>5. CASE Error
  <2>1. ClientOK'
    BY <1>5, <1>t DEF Error, ClientOK
  <2>2. TaskOK'
    BY <1>5, <1>t DEF Error, TaskOK
  <2> QED
    BY <1>5, <1>t, <2>1, <2>2, Untouched DEF Error, TypeOK
<1>6. CASE Drop \/ LastWill
  <2>1. TaskOK'
    BY <1>6, <1>t DEF Drop, LastWill, TaskOK, mqtt_task
  <2>a. retained' \in [Topic -> Nat]
    BY <1>6, <1>t DEF Drop, LastWill, BrokerOK, Down
  <2>2. BrokerOK'
    BY <1>6, <1>t, <2>a DEF Drop, LastWill, BrokerOK
  <2> QED
    BY <1>6, <1>t, <2>1, <2>2, Untouched DEF Drop, LastWill, TypeOK
<1> QED
  BY <1>1, <1>2, <1>3, <1>4, <1>5, <1>6 DEF EventLoop

\* Every step keeps the session well formed.
LEMMA TypeStep == TypeOK /\ [Next]_vars => TypeOK'
<1>1. TypeOK /\ UNCHANGED vars => TypeOK'
  BY Untouched DEF TypeOK, vars
<1> QED
  BY <1>1, LoopTyped, TaskTyped DEF Next, Ended

\* The session stays well formed, its two queues within their room.
THEOREM Types == Spec => []TypeOK
  BY TypeInit, TypeStep, PTL DEF Spec

-----------------------------------------------------------------------------
(* The order of what is sent.                                              *)

\* New values leave what is on its way in order.
LEMMA GiveKeeps ==
    ASSUME TypeOK, Lined, Passed, NEW s, Give(s)
    PROVE  Lined' /\ Passed'
<1>1. \A t \in Topic : want[t] <= want'[t] /\ want'[t] \in Nat /\ want[t] \in Nat
  BY DEF Give, TypeOK, LoopOK
<1>2. UNCHANGED <<queue, unacked, again, task, seen>>
  BY DEF Give, client, mqtt_task
<1>3. ASSUME NEW q \in Seq(Message), Given(q)
      PROVE  \A i \in DOMAIN q : IF q[i].topic \in Topic THEN q[i].value <= want'[q[i].topic]
                                 ELSE q[i].value = 0
  <2> SUFFICES ASSUME NEW i \in DOMAIN q
               PROVE  IF q[i].topic \in Topic THEN q[i].value <= want'[q[i].topic]
                      ELSE q[i].value = 0
    OBVIOUS
  <2>1. q[i].value \in Nat
    BY <1>3, MessageAt
  <2> QED
    BY <1>1, <1>3, <2>1 DEF Given
<1>4. Given(unacked)' /\ Given(again)' /\ Given(queue)'
  BY <1>2, <1>3 DEF Given, Lined, TypeOK, ClientOK
<1>5. Lined'
  BY <1>2, <1>4 DEF Lined, Ascending, Before
<1>6. \A t \in Topic : seen'[t] <= want'[t]
  BY <1>1, <1>2 DEF Passed
<1> QED
  BY <1>2, <1>5, <1>6 DEF Passed, Ahead

\* A message that is put into the queue is as new as any on its way.
LEMMA PutKeeps ==
    ASSUME TypeOK, Lined, Passed, NEW t \in Topic \union {"sub", "bye"}, NEW v \in Nat,
           v = IF t \in Topic THEN want[t] ELSE 0,
           Put(t, v), UNCHANGED <<unacked, again, want, seen>>,
           task' \in {"poll", "deliver"} => task \in {"poll", "deliver"}
    PROVE  Lined' /\ Passed'
<1> DEFINE m == [topic |-> t, value |-> v]
<1>1. m \in Message /\ m.topic = t /\ m.value = v
  BY DEF Message
<1>2. queue' = Append(queue, m)
  BY DEF Put
<1>3. queue \in Seq(Message) /\ unacked \in Seq(Message) /\ again \in Seq(Message)
  BY DEF TypeOK, ClientOK
<1> HIDE DEF m
<1>4. ASSUME NEW q \in Seq(Message), Given(q)
      PROVE  \A i \in DOMAIN q : q[i].topic = m.topic => q[i].value <= m.value
  BY <1>1, <1>4 DEF Given
<1>5. Ascending(queue') /\ Before(unacked, queue') /\ Before(again, queue')
  BY <1>1, <1>2, <1>3, <1>4, AppendOrder DEF Lined
<1>6. /\ DOMAIN queue' = 1 .. Len(queue) + 1 /\ DOMAIN queue = 1 .. Len(queue) /\ Len(queue) \in Nat
      /\ \A i \in 1 .. Len(queue) : queue'[i] = queue[i]
      /\ queue'[Len(queue) + 1] = m
  BY <1>1, <1>2, <1>3
<1>7. Given(queue)'
  BY <1>1, <1>6 DEF Given, Lined, TypeOK, LoopOK
<1>8. Lined'
  BY <1>5, <1>7 DEF Lined, Ascending, Before, Given
<1>9. task' \in {"poll", "deliver"} => Ahead(again)' /\ Ahead(queue)'
  BY <1>1, <1>6 DEF Passed, Ahead
<1> QED
  BY <1>8, <1>9 DEF Passed

\* Steps that neither give, queue nor send anything keep the order.
LEMMA QuietKeeps ==
    ASSUME Lined, Passed, UNCHANGED <<queue, unacked, again, want, seen>>,
           task' \in {"poll", "deliver"} => task \in {"poll", "deliver"}
    PROVE  Lined' /\ Passed'
<1>1. Lined'
  BY DEF Lined, Ascending, Before, Given
<1> QED
  BY <1>1 DEF Passed, Ahead

\* Sending moves a message along the pipeline, and what is left to send is not older.
LEMMA SendKeeps == TypeOK /\ Lined /\ Passed /\ Send => Lined' /\ Passed'
<1> SUFFICES ASSUME TypeOK, Lined, Passed, Send PROVE Lined' /\ Passed'
  OBVIOUS
<1>1. queue \in Seq(Message) /\ unacked \in Seq(Message) /\ again \in Seq(Message)
  BY DEF TypeOK, ClientOK
<1>2. /\ task = "poll" /\ want' = want
      /\ want \in [Topic -> Nat] /\ seen \in [Topic -> Nat]
      /\ Ahead(again) /\ Ahead(queue)
  BY DEF Send, loop, Passed, TypeOK, LoopOK
\* What arrives was given, is not older than what arrived before, and not newer than q.
<1>3. ASSUME NEW r \in Message, Arrives(r), r.topic \in Topic => r.value <= want[r.topic]
      PROVE  /\ seen' \in [Topic -> Nat]
             /\ \A t \in Topic : seen'[t] <= want'[t]
             /\ \A q \in Seq(Message) :
                   Ahead(q) /\ (\A i \in DOMAIN q : q[i].topic = r.topic => r.value <= q[i].value)
                      => \A i \in DOMAIN q : q[i].topic \in Topic => seen'[q[i].topic] <= q[i].value
  <2>1. r.value \in Nat
    BY DEF Message
  <2>2. \A t \in Topic : seen[t] <= want[t]
    BY DEF Passed
  <2>3. seen' = seen \/ (r.topic \in Topic /\ seen' = [seen EXCEPT ![r.topic] = r.value])
    BY <1>3 DEF Arrives
  <2>4. seen' \in [Topic -> Nat] /\ \A t \in Topic : seen'[t] <= want'[t]
    BY <1>2, <1>3, <2>1, <2>2, <2>3
  <2>5. ASSUME NEW q \in Seq(Message), Ahead(q),
               \A i \in DOMAIN q : q[i].topic = r.topic => r.value <= q[i].value,
               NEW i \in DOMAIN q, q[i].topic \in Topic
        PROVE  seen'[q[i].topic] <= q[i].value
    BY <1>2, <2>3, <2>5 DEF Ahead
  <2> QED
    BY <2>4, <2>5
<1>4. CASE /\ again # << >> /\ Arrives(Head(again))
           /\ again' = Tail(again) /\ unacked' = Append(unacked, Head(again))
           /\ UNCHANGED <<queue, task>>
  <2> DEFINE m == Head(again)
  <2>1. /\ m \in Message /\ m = again[1] /\ 1 \in DOMAIN again /\ Tail(again) \in Seq(Message)
        /\ Ascending(Tail(again)) /\ Before(unacked, Tail(again)) /\ Before(Tail(again), queue)
        /\ Given(Tail(again)) /\ Ahead(Tail(again))
        /\ \A i \in DOMAIN Tail(again) : Tail(again)[i].topic = m.topic => m.value <= Tail(again)[i].value
    BY <1>1, <1>2, <1>4, TailOrder DEF Lined
  <2>2. /\ \A i \in DOMAIN unacked : unacked[i].topic = m.topic => unacked[i].value <= m.value
        /\ \A i \in DOMAIN queue : queue[i].topic = m.topic => m.value <= queue[i].value
        /\ IF m.topic \in Topic THEN m.value <= want[m.topic] ELSE m.value = 0
    BY <2>1 DEF Lined, Before, Given
  <2> HIDE DEF m
  <2>3. /\ Ascending(Append(unacked, m))
        /\ Before(Append(unacked, m), Tail(again)) /\ Before(Append(unacked, m), queue)
    BY <1>1, <2>1, <2>2, AppendOrder DEF Lined
  <2>4. Given(Append(unacked, m))
    BY <1>1, <2>1, <2>2, AppendGiven DEF Lined
  <2>5. unacked' = Append(unacked, m) /\ again' = Tail(again) /\ queue' = queue /\ task' = task
    BY <1>4 DEF m
  <2>a. Given(unacked)' /\ Given(again)' /\ Given(queue)'
    BY <1>2, <2>1, <2>4, <2>5 DEF Lined, Given
  <2>6. Lined'
    BY <2>1, <2>3, <2>5, <2>a DEF Lined
  <2>7. /\ seen' \in [Topic -> Nat] /\ \A t \in Topic : seen'[t] <= want'[t]
        /\ Ahead(again)' /\ Ahead(queue)'
    BY <1>1, <1>2, <1>3, <1>4, <2>1, <2>2, <2>5 DEF Ahead, m
  <2> QED
    BY <2>6, <2>7 DEF Passed
<1>5. CASE /\ again = << >> /\ queue # << >> /\ Arrives(Head(queue)) /\ queue' = Tail(queue)
           /\ unacked' = IF Head(queue).topic \in Topic \ {"sample"}
                         THEN Append(unacked, Head(queue)) ELSE unacked
           /\ UNCHANGED again
  <2> DEFINE m == Head(queue)
  <2>1. /\ m \in Message /\ m = queue[1] /\ 1 \in DOMAIN queue /\ Tail(queue) \in Seq(Message)
        /\ Ascending(Tail(queue)) /\ Before(unacked, Tail(queue))
        /\ Given(Tail(queue)) /\ Ahead(Tail(queue))
        /\ \A i \in DOMAIN Tail(queue) : Tail(queue)[i].topic = m.topic => m.value <= Tail(queue)[i].value
    BY <1>1, <1>2, <1>5, TailOrder DEF Lined
  <2>2. /\ \A i \in DOMAIN unacked : unacked[i].topic = m.topic => unacked[i].value <= m.value
        /\ IF m.topic \in Topic THEN m.value <= want[m.topic] ELSE m.value = 0
    BY <2>1 DEF Lined, Before, Given
  <2> HIDE DEF m
  <2>3. /\ Ascending(Append(unacked, m)) /\ Before(Append(unacked, m), Tail(queue))
    BY <1>1, <2>1, <2>2, AppendOrder DEF Lined
  <2>4. Given(Append(unacked, m))
    BY <1>1, <2>1, <2>2, AppendGiven DEF Lined
  <2>5. unacked' \in {Append(unacked, m), unacked} /\ again' = << >> /\ queue' = Tail(queue)
    BY <1>5 DEF m
  <2>6. DOMAIN << >> = {}
    OBVIOUS
  <2>7. /\ Ascending(unacked') /\ Before(unacked', queue')
        /\ Given(unacked)'
    BY <1>2, <2>1, <2>3, <2>4, <2>5 DEF Lined, Given
  <2>8. Lined'
    BY <1>2, <2>1, <2>5, <2>6, <2>7 DEF Lined, Ascending, Before, Given
  <2>9. /\ seen' \in [Topic -> Nat] /\ \A t \in Topic : seen'[t] <= want'[t]
        /\ Ahead(again)' /\ Ahead(queue)'
    BY <1>1, <1>2, <1>3, <1>5, <2>1, <2>2, <2>5, <2>6 DEF Ahead, m
  <2> QED
    BY <2>8, <2>9 DEF Passed
<1> QED
  BY <1>4, <1>5 DEF Send

\* An acknowledged message leaves the pipeline.
LEMMA AcknowledgeKeeps == TypeOK /\ Lined /\ Passed /\ Acknowledge => Lined' /\ Passed'
<1> SUFFICES ASSUME TypeOK, Lined, Passed, Acknowledge PROVE Lined' /\ Passed'
  OBVIOUS
<1>1. queue \in Seq(Message) /\ unacked \in Seq(Message) /\ again \in Seq(Message)
  BY DEF TypeOK, ClientOK
<1>2. unacked # << >> /\ unacked' = Tail(unacked) /\ UNCHANGED <<queue, again, want, seen, task>>
  BY DEF Acknowledge, loop, mqtt_task
<1>3. /\ Ascending(Tail(unacked)) /\ Before(Tail(unacked), again) /\ Before(Tail(unacked), queue)
      /\ Given(Tail(unacked))
  BY <1>1, <1>2, TailOrder DEF Lined
<1>4. Lined'
  BY <1>2, <1>3 DEF Lined, Ascending, Before, Given
<1> QED
  BY <1>2, <1>4 DEF Passed, Ahead

\* After an error what was not acknowledged is sent again, before what waited to be.
LEMMA ErrorKeeps == TypeOK /\ Lined /\ Passed /\ Error => Lined' /\ Passed'
<1> SUFFICES ASSUME TypeOK, Lined, Passed, Error PROVE Lined' /\ Passed'
  OBVIOUS
<1>1. queue \in Seq(Message) /\ unacked \in Seq(Message) /\ again \in Seq(Message)
  BY DEF TypeOK, ClientOK
<1>2. /\ again' = unacked \o again /\ unacked' = << >> /\ task' = "retry"
      /\ UNCHANGED <<queue, want, seen>>
  BY DEF Error, loop
<1>3. Ascending(unacked \o again) /\ Before(unacked \o again, queue) /\ Given(unacked \o again)
  BY <1>1, JoinOrder DEF Lined
<1>4. DOMAIN << >> = {}
  OBVIOUS
<1>5. Lined'
  BY <1>2, <1>3, <1>4 DEF Lined, Ascending, Before, Given
<1> QED
  BY <1>2, <1>5 DEF Passed

\* A new session has seen nothing yet.
LEMMA ConnAckKeeps == TypeOK /\ Lined /\ Passed /\ ConnAck => Lined' /\ Passed'
<1> SUFFICES ASSUME TypeOK, Lined, Passed, ConnAck PROVE Lined' /\ Passed'
  OBVIOUS
<1>1. queue \in Seq(Message) /\ again \in Seq(Message) /\ want \in [Topic -> Nat]
  BY DEF TypeOK, ClientOK, LoopOK
<1>2. UNCHANGED <<queue, unacked, again, want>> /\ seen' = [t \in Topic |-> 0]
  BY DEF ConnAck, client, loop
<1>3. Lined'
  BY <1>2 DEF Lined, Ascending, Before, Given
<1>5. Ahead(queue)' /\ Ahead(again)'
  BY <1>1, <1>2, MessageAt DEF Ahead
<1>6. seen' \in [Topic -> Nat] /\ \A t \in Topic : seen'[t] <= want'[t]
  BY <1>1, <1>2
<1> QED
  BY <1>3, <1>5, <1>6 DEF Passed

\* Every step keeps what is on its way in order.
LEMMA OrderStep == TypeOK /\ Lined /\ Passed /\ HealthOnce /\ [Next]_vars => Lined' /\ Passed'
<1> SUFFICES ASSUME TypeOK, Lined, Passed, HealthOnce, [Next]_vars PROVE Lined' /\ Passed'
  OBVIOUS
<1>1. CASE Connected \/ Reload \/ Reading \/ Command \/ \E d \in Device : LinkChange(d)
  BY <1>1, GiveKeeps DEF Connected, Reload, Reading, Command, LinkChange
<1>2. CASE Subscribe
  <2>1. "sub" \notin Topic
    BY Names
  <2>2. Put("sub", 0) /\ UNCHANGED <<unacked, again, want, seen, task>>
    BY <1>2 DEF Subscribe, Done, mqtt_task
  <2> QED
    BY <2>1, <2>2, PutKeeps
<1>3. CASE Publish
  <2>1. Head(todo) \in Topic /\ want[Head(todo)] \in Nat
    BY <1>3 DEF Publish, Publishing, TypeOK, LoopOK
  <2>2. Put(Head(todo), want[Head(todo)]) /\ UNCHANGED <<unacked, again, want, seen, task>>
    BY <1>3 DEF Publish, Done, mqtt_task
  <2> QED
    BY <2>1, <2>2, PutKeeps
<1>4. CASE Bye
  <2>1. "bye" \notin Topic
    BY Names
  <2>2. Put("bye", 0) /\ UNCHANGED <<unacked, again, want, seen, task>>
    BY <1>4 DEF Bye, loop, mqtt_task
  <2> QED
    BY <2>1, <2>2, PutKeeps
<1>5. CASE Stop
  <2>1. "health" \in Topic /\ want["health"] = 1 /\ want \in [Topic -> Nat]
    BY <1>5, Names DEF Stop, HealthOnce, TypeOK, LoopOK
  <2>2. \A t \in Topic : want[t] <= want'[t] /\ want'[t] \in Nat
    BY <1>5, <2>1 DEF Stop, Down
  <2>3. UNCHANGED <<queue, unacked, again, seen>> /\ task' \in {task, "ended"}
    BY <1>5 DEF Stop, client
  <2>4. ASSUME NEW q \in Seq(Message), Given(q), NEW i \in DOMAIN q
        PROVE  IF q[i].topic \in Topic THEN q[i].value <= want'[q[i].topic] ELSE q[i].value = 0
    <3>1. q[i].value \in Nat
      BY <2>4, MessageAt
    <3> QED
      BY <2>1, <2>2, <2>4, <3>1 DEF Given
  <2>5. Given(unacked)' /\ Given(again)' /\ Given(queue)'
    BY <2>3, <2>4 DEF Given, Lined, TypeOK, ClientOK
  <2>6. Lined'
    BY <2>3, <2>5 DEF Lined, Ascending, Before
  <2>7. \A t \in Topic : seen'[t] <= want'[t]
    BY <2>1, <2>2, <2>3 DEF Passed
  <2> QED
    BY <2>3, <2>6, <2>7 DEF Passed, Ahead
<1>6. CASE GiveUp \/ Restore \/ Skip \/ PublishTimeout \/ Wait \/ Idle \/ Stopped \/ Incoming
           \/ Forward \/ Drop \/ LastWill \/ UNCHANGED vars
  <2>1. UNCHANGED <<queue, unacked, again, want, seen>>
    BY <1>6 DEF GiveUp, Restore, Skip, PublishTimeout, Wait, Idle, Stopped, Incoming, Forward,
                Drop, LastWill, Done, vars, client, loop
  <2>2. task' \in {"poll", "deliver"} => task \in {"poll", "deliver"}
    BY <1>6 DEF GiveUp, Restore, Skip, PublishTimeout, Wait, Idle, Stopped, Incoming, Forward,
                Drop, LastWill, Done, vars, mqtt_task
  <2> QED
    BY <2>1, <2>2, QuietKeeps
<1> QED
  BY <1>1, <1>2, <1>3, <1>4, <1>5, <1>6, SendKeeps, AcknowledgeKeeps, ErrorKeeps, ConnAckKeeps
     DEF Next, Work, Change, EventLoop, Ended

\* Every step keeps the count of the healths given.
LEMMA HealthStep == TypeOK /\ HealthOnce /\ [Next]_vars => HealthOnce'
<1> SUFFICES ASSUME TypeOK, HealthOnce, [Next]_vars PROVE HealthOnce'
  OBVIOUS
<1>a. "health" \in Topic /\ want \in [Topic -> Nat]
  BY Names DEF TypeOK, LoopOK
<1>1. CASE Connected
  <2>1. want'["health"] = want["health"] + 1 /\ at = "await" /\ at' = "busy"
    BY <1>1, <1>a, Lists DEF Connected, Give
  <2> QED
    BY <2>1 DEF HealthOnce
<1>2. ASSUME NEW s, ~Contains(s, "health"), Give(s), at = "select" PROVE HealthOnce'
  <2>1. want'["health"] = want["health"] + 0 /\ at' = "busy"
    BY <1>2, <1>a DEF Give
  <2> QED
    BY <1>2, <1>a, <2>1 DEF HealthOnce
<1>3. ASSUME NEW t, t # "health" PROVE ~Contains(<<t>>, "health")
  BY <1>3 DEF Contains
<1>4. CASE Reload
  BY <1>2, <1>4, Lists DEF Reload
<1>5. CASE Reading
  BY <1>2, <1>3, <1>5 DEF Reading
<1>6. CASE Command
  BY <1>2, <1>3, <1>6 DEF Command
<1>7. ASSUME NEW d \in Device, LinkChange(d) PROVE HealthOnce'
  <2>1. d # "health"
    BY <1>7, DeviceAssumption
  <2> QED
    BY <1>2, <1>3, <1>7, <2>1 DEF LinkChange
<1>8. CASE GiveUp \/ Stop \/ Stopped
  BY <1>8 DEF GiveUp, Stop, Stopped, HealthOnce
<1>9. CASE Restore \/ Idle
  BY <1>9 DEF Restore, Idle, HealthOnce
<1>10. CASE UNCHANGED <<at, want>>
  BY <1>10 DEF HealthOnce
<1>11. ASSUME Subscribe \/ Publish \/ Skip \/ PublishTimeout \/ Wait \/ Bye \/ EventLoop \/ Incoming
              \/ Drop \/ LastWill \/ UNCHANGED vars
       PROVE  UNCHANGED <<at, want>>
  BY <1>11 DEF Subscribe, Publish, Skip, PublishTimeout, Wait, Bye, EventLoop, ConnAck, Send,
               Acknowledge, Forward, Error, Incoming, Drop, LastWill, Done, vars, loop
<1> QED
  BY <1>1, <1>4, <1>5, <1>6, <1>7, <1>8, <1>9, <1>10, <1>11 DEF Next, Work, Change, Ended

\* The session starts with nothing given, sent or seen.
LEMMA Initially == Init => IInv
<1> SUFFICES ASSUME Init PROVE IInv
  OBVIOUS
<1>1. DOMAIN << >> = {}
  OBVIOUS
<1>2. Lined
  BY <1>1 DEF Init, Lined, Ascending, Before, Given
<1>3. Passed
  BY DEF Init, Passed
<1>4. HealthOnce
  BY Names DEF Init, HealthOnce
<1> QED
  BY <1>2, <1>3, <1>4, TypeInit DEF IInv

\* The invariants together are inductive.
THEOREM Invariant == Spec => []IInv
<1>1. IInv /\ [Next]_vars => IInv'
  BY TypeStep, OrderStep, HealthStep DEF IInv
<1> QED
  BY Initially, <1>1, PTL DEF Spec

-----------------------------------------------------------------------------
(* The refinement.                                                         *)

\* Values given by the loop are given to the topics.
LEMMA GiveRefines ==
    ASSUME NEW s, Give(s) PROVE R!Next
<1> DEFINE T == {t \in Topic : Contains(s, t)}
<1>1. want' = [t \in Topic |-> want[t] + IF t \in T THEN 1 ELSE 0] /\ UNCHANGED seen
  BY DEF Give
<1>2. T \in SUBSET Topic
  OBVIOUS
<1> HIDE DEF T
<1> QED
  BY <1>1, <1>2 DEF R!Next, R!Give

\* What arrives is a value of its topic, not older than the last.
LEMMA SendRefines == IInv /\ Send => R!Next \/ UNCHANGED R!vars
<1> SUFFICES ASSUME IInv, Send PROVE R!Next \/ UNCHANGED R!vars
  OBVIOUS
<1>1. /\ want' = want /\ want \in [Topic -> Nat] /\ seen \in [Topic -> Nat]
      /\ Ahead(again) /\ Ahead(queue) /\ Given(again) /\ Given(queue)
      /\ again \in Seq(Message) /\ queue \in Seq(Message)
  BY DEF Send, loop, IInv, Passed, Lined, TypeOK, LoopOK, ClientOK
<1>2. ASSUME NEW q \in Seq(Message), q # << >>, Ahead(q), Given(q), Arrives(Head(q))
      PROVE  R!Next \/ UNCHANGED R!vars
  <2>1. Head(q) = q[1] /\ 1 \in DOMAIN q
    BY <1>2
  <2>2. q[1].value \in Nat
    BY <1>2, <2>1, MessageAt
  <2>3. CASE q[1].topic \in Topic /\ net = "on"
    <3>1. q[1].value \in seen[q[1].topic] .. want[q[1].topic]
      BY <1>1, <1>2, <2>1, <2>2, <2>3 DEF Ahead, Given
    <3>2. seen' = [seen EXCEPT ![q[1].topic] = q[1].value]
      BY <1>2, <2>1, <2>3 DEF Arrives
    <3>3. R!Show(q[1].topic)
      BY <1>1, <3>1, <3>2 DEF R!Show
    <3> QED
      BY <2>3, <3>3 DEF R!Next
  <2>4. CASE ~(q[1].topic \in Topic /\ net = "on")
    BY <1>1, <1>2, <2>1, <2>4 DEF Arrives, R!vars
  <2> QED
    BY <2>3, <2>4
<1> QED
  BY <1>1, <1>2 DEF Send

\* Every step of a session is one of the promise, or leaves it alone.
LEMMA StepRefines == IInv /\ [Next]_vars => [R!Next]_R!vars
<1> SUFFICES ASSUME IInv, [Next]_vars PROVE R!Next \/ UNCHANGED R!vars
  OBVIOUS
<1>1. CASE Connected \/ Reload \/ Reading \/ Command \/ \E d \in Device : LinkChange(d)
  BY <1>1, GiveRefines DEF Connected, Reload, Reading, Command, LinkChange
<1>2. CASE Stop
  <2>1. "health" \in Topic /\ want["health"] = 1 /\ want \in [Topic -> Nat] /\ UNCHANGED seen
    BY <1>2, Names DEF Stop, IInv, HealthOnce, TypeOK, LoopOK
  <2>2. CASE online
    <3>a. want' = [want EXCEPT !["health"] = 2]
      BY <1>2, <2>2 DEF Stop, Down
    <3>b. want' \in [Topic -> Nat] /\ want'["health"] = want["health"] + 1
      BY <2>1, <3>a
    <3>c. \A t \in Topic : want'[t] = want[t] + IF t \in {"health"} THEN 1 ELSE 0
      BY <2>1, <3>a, <3>b
    <3>1. want' = [t \in Topic |-> want[t] + IF t \in {"health"} THEN 1 ELSE 0]
      BY <3>b, <3>c
    <3>2. {"health"} \in SUBSET Topic /\ R!Give({"health"})
      BY <2>1, <3>1 DEF R!Give
    <3> QED
      BY <3>2 DEF R!Next
  <2>3. CASE ~online
    BY <1>2, <2>1, <2>3 DEF Stop, R!vars
  <2> QED
    BY <2>2, <2>3
<1>3. CASE ConnAck
  BY <1>3 DEF ConnAck, loop, R!Next, R!Again
<1>4. CASE Send
  BY <1>4, SendRefines
<1>5. ASSUME GiveUp \/ Restore \/ Subscribe \/ Publish \/ Skip \/ PublishTimeout \/ Wait \/ Idle
             \/ Bye \/ Stopped \/ Acknowledge \/ Forward \/ Error \/ Incoming \/ Drop \/ LastWill
             \/ UNCHANGED vars
      PROVE  UNCHANGED R!vars
  BY <1>5 DEF GiveUp, Restore, Subscribe, Publish, Skip, PublishTimeout, Wait, Idle, Bye, Stopped,
              Acknowledge, Forward, Error, Incoming, Drop, LastWill, Done, vars, loop, R!vars
<1> QED
  BY <1>1, <1>2, <1>3, <1>4, <1>5 DEF Next, Work, Change, EventLoop, Ended

\* The session keeps the promise of Retained: whatever is lost, given up or sent again, and
\* however often the connection goes, no session shows an older value of a topic after a newer.
THEOREM SessionImplementsRetained == Spec => InOrderShown
<1>1. Init => R!Init
  BY DEF Init, R!Init
<1> QED
  BY <1>1, Invariant, StepRefines, PTL DEF Spec, R!Spec, InOrderShown
=============================================================================
