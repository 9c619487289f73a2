------------------------------- MODULE Session -------------------------------
(***************************************************************************)
(* The MQTT session of a connector (sdk/src/runtime.rs): the task that     *)
(* drives the client's event loop, the bounded queue of requests between   *)
(* the main loop and the client, the bounded queue of incoming publishes   *)
(* in the other direction, the connection flag, and the restore of a clean *)
(* session after a reconnect.                                              *)
(*                                                                         *)
(* The value of a status topic is its number: the main loop gives a topic  *)
(* a new one, and the broker holds the last one that reached it.  The      *)
(* client (rumqttc) and the broker are external: the client sends its      *)
(* requests in order and, after a reconnect, first sends again what was    *)
(* not acknowledged; the session is clean; the last will is published when *)
(* the connection ends without a DISCONNECT.                               *)
(***************************************************************************)
EXTENDS Integers, SequencesExt

CONSTANTS
    Device,      \* the devices, each with a link status topic
    Cap,         \* the room of the request queue (32)
    InCap,       \* the room of the queue of incoming publishes (32)
    Inflight,    \* how many publishes the client sends without an acknowledgement (100)
    MaxChanges,  \* bound: changes of a link status, reloads and readings
    MaxCommands, \* bound: commands received
    MaxDrops     \* bound: connections lost

ASSUME DeviceAssumption ==
    /\ IsFiniteSet(Device)
    /\ Device \intersect {"health", "caps", "cmd", "sample", "sub", "bye"} = {}
ASSUME RoomAssumption == Cap \in Nat \ {0} /\ InCap \in Nat \ {0} /\ Inflight \in Nat \ {0}
ASSUME BoundAssumption == {MaxChanges, MaxCommands, MaxDrops} \subseteq Nat

VARIABLES
    at,         \* main loop: "await" the broker, "select", "busy", "flush", "stopped"
    todo,       \* main loop: the topics it is about to publish, or subscribe to ("sub")
    waiting,    \* main loop: whether publish() waits for room
    want,       \* main loop: the last value given to a topic
    queue,      \* the client's request queue
    unacked,    \* client: publishes sent and not acknowledged
    again,      \* client: publishes to be sent again
    task,       \* event loop task: "poll", "deliver", "retry" or "ended"
    sessions,   \* event loop task: whether there was a CONNACK
    online,     \* the watch channel
    permit,     \* the permit of `reconnected'
    incoming,   \* publishes in the incoming queue
    net,        \* the connection: "off", "on", or "half" (dead, not noticed)
    retained,   \* broker: the last value of a topic that arrived
    subscribed, \* broker: whether the session has the command subscriptions
    will,       \* broker: whether a lost connection publishes the last will
    drops, commands, changes, \* counters of the bounds
    timed_out,  \* history: the topics whose publish timed out since the last reconnect
    seen        \* history: the last value of a topic that arrived in this session

loop == <<at, todo, waiting, want>>
client == <<queue, unacked, again>>
mqtt_task == <<task, sessions, online, permit>>
broker == <<retained, subscribed, will>>
vars == <<loop, client, mqtt_task, incoming, net, broker, drops, commands, changes,
          timed_out, seen>>

Topic == Device \union {"health", "caps", "cmd", "sample"}
\* What restore_mqtt_session publishes again.
Status == Device \union {"health", "caps"}

Links == SetToSeq(Device)

\* A request of the client: a publish, a subscribe or the DISCONNECT.
Message == [topic : Topic \union {"sub", "bye"}, value : Nat]

Up == 1
Down == 2

Init ==
    /\ at = "await" /\ todo = << >> /\ waiting = FALSE
    /\ want = [t \in Topic |-> 0]
    /\ queue = << >> /\ unacked = << >> /\ again = << >>
    /\ task = "retry" /\ sessions = FALSE /\ online = FALSE /\ permit = FALSE
    /\ incoming = 0 /\ net = "off"
    /\ retained = [t \in Topic |-> 0] /\ subscribed = FALSE /\ will = FALSE
    /\ drops = 0 /\ commands = 0 /\ changes = 0 /\ timed_out = {} /\ seen = retained

-----------------------------------------------------------------------------
(* The main loop.  A publish or subscribe is a step of its own, because    *)
(* the loop awaits it.                                                     *)

Full == Len(queue) >= Cap
Put(t, v) == queue' = Append(queue, [topic |-> t, value |-> v])

\* The loop goes on to publish new values of the topics in `s', in this order.
Give(s) ==
    /\ want' = [t \in Topic |-> want[t] + IF Contains(s, t) THEN 1 ELSE 0]
    /\ at' = "busy" /\ todo' = s
    /\ UNCHANGED <<waiting, client, mqtt_task, net, broker, drops, commands, timed_out, seen>>

\* The broker accepted the session: descriptor, health, subscriptions, then the links.
Connected ==
    /\ at = "await" /\ online
    /\ Give(<<"caps", "health", "sub">> \o Links)
    /\ UNCHANGED <<incoming, changes>>

\* Not within BROKER_CONNECT_TIMEOUT, or a stop or a reload while waiting.
GiveUp ==
    /\ at = "await"
    /\ at' = "stopped" /\ task' = "ended"
    /\ net' = "off"
    /\ UNCHANGED <<todo, waiting, want, client, sessions, online, permit, incoming,
                   broker, drops, commands, changes, timed_out, seen>>

\* LinkTracker::note_poll, publish_if_changed: the status of a link changes.
LinkChange(d) ==
    /\ at = "select" /\ changes < MaxChanges
    /\ changes' = changes + 1
    /\ Give(<<d>>)
    /\ UNCHANGED incoming

\* commit_config: the new descriptor and the links of every device.
Reload ==
    /\ at = "select" /\ changes < MaxChanges
    /\ changes' = changes + 1
    /\ Give(<<"caps">> \o Links)
    /\ UNCHANGED incoming

\* A reading is published, with the next sequence number.
Reading ==
    /\ at = "select" /\ changes < MaxChanges
    /\ changes' = changes + 1
    /\ Give(<<"sample">>)
    /\ UNCHANGED incoming

\* A command is taken, executed, and its status published.
Command ==
    /\ at = "select" /\ incoming > 0
    /\ incoming' = incoming - 1
    /\ Give(<<"cmd">>)
    /\ UNCHANGED changes

\* Mutant: links are not published again.
Restore_NoLinks ==
    /\ at = "select" /\ permit
    /\ permit' = FALSE
    /\ at' = "busy" /\ todo' = <<"sub", "health", "caps">>
    /\ UNCHANGED <<waiting, want, client, task, sessions, online, incoming, net, broker, drops,
                   commands, changes, timed_out, seen>>

\* The reconnected arm: restore_mqtt_session.
Restore ==
    /\ at = "select" /\ permit
    /\ permit' = FALSE
    /\ at' = "busy" /\ todo' = <<"sub", "health", "caps">> \o Links
    /\ UNCHANGED <<waiting, want, client, task, sessions, online, incoming, net, broker, drops,
                   commands, changes, timed_out, seen>>

Subscribing == todo # << >> /\ Head(todo) = "sub"
Publishing == todo # << >> /\ Head(todo) \in Topic

\* The loop is done with the first of its messages.
Done ==
    /\ todo' = Tail(todo) /\ waiting' = FALSE
    /\ UNCHANGED <<at, want, unacked, again, mqtt_task, incoming, net, broker, drops,
                   commands, changes, seen>>

\* client.subscribe: waits for room, however long.
Subscribe ==
    /\ Subscribing /\ ~Full
    /\ Put("sub", 0)
    /\ Done /\ UNCHANGED timed_out

\* publish_retained, publish_sample: the message is queued.
Publish ==
    /\ Publishing /\ ~Full
    /\ Head(todo) = "sample" => online \/ waiting
    /\ Put(Head(todo), want[Head(todo)])
    /\ Done /\ UNCHANGED timed_out

\* It is dropped when the broker is away: a sample always, a status if there is no room.
Skip ==
    /\ Publishing /\ ~online /\ ~waiting /\ at # "flush"
    /\ Head(todo) # "sample" => Full
    /\ Done /\ UNCHANGED <<queue, timed_out>>

\* It waits for room when the broker is connected.
Wait ==
    /\ Publishing /\ online /\ Full /\ ~waiting
    /\ waiting' = TRUE
    /\ UNCHANGED <<at, todo, want, client, mqtt_task, incoming, net, broker, drops, commands,
                   changes, timed_out, seen>>

\* Mutant: the wait is not bounded.
PublishTimeout_Never == FALSE /\ UNCHANGED vars

\* PUBLISH_TIMEOUT.  A client that reads its queue makes room sooner.
PublishTimeout ==
    /\ Publishing /\ waiting /\ Full /\ at # "flush"
    /\ net # "on" \/ task # "poll"
    /\ timed_out' = timed_out \union {Head(todo)}
    /\ Done /\ UNCHANGED queue

\* Everything is published: back to the select!.
Idle ==
    /\ at = "busy" /\ todo = << >>
    /\ at' = "select"
    /\ UNCHANGED <<todo, waiting, want, client, mqtt_task, incoming, net, broker, drops,
                   commands, changes, timed_out, seen>>

\* Mutant: the final health is not published.
Stop_NoHealth ==
    /\ at = "select"
    /\ at' = "flush"
    /\ UNCHANGED <<todo, want, waiting, client, mqtt_task, incoming, net, broker, drops, commands,
                   changes, timed_out, seen>>

\* The clean shutdown: the final health, if the broker is connected.
Stop ==
    /\ at = "select"
    /\ at' = "flush"
    /\ todo' = IF online THEN <<"health">> ELSE << >>
    /\ want' = IF online THEN [want EXCEPT !["health"] = Down] ELSE want
    /\ task' = IF online THEN task ELSE "ended"
    /\ UNCHANGED <<waiting, client, sessions, online, permit, incoming, net, broker, drops,
                   commands, changes, timed_out, seen>>

\* The DISCONNECT is queued behind it.
Bye ==
    /\ at = "flush" /\ todo = << >> /\ ~Full /\ task # "ended"
    /\ \A i \in 1 .. Len(queue) : queue[i].topic # "bye"
    /\ Put("bye", 0)
    /\ UNCHANGED <<loop, unacked, again, mqtt_task, incoming, net, broker, drops, commands,
                   changes, timed_out, seen>>

\* The event loop has ended, or MQTT_FLUSH_TIMEOUT passed: the task is aborted, and its
\* connection with it.
Stopped ==
    /\ at = "flush"
    /\ at' = "stopped" /\ todo' = << >> /\ waiting' = FALSE
    /\ task' = "ended"
    /\ net' = "off"
    /\ UNCHANGED <<want, client, sessions, online, permit, incoming, broker, drops,
                   commands, changes, timed_out, seen>>

-----------------------------------------------------------------------------
(* The event loop task.                                                    *)

\* Mutant: the signal wakes the loop only while it waits for it.
ConnAck_NoPermit ==
    /\ task = "retry" /\ net = "off"
    /\ task' = "poll" /\ net' = "on" /\ online' = TRUE
    /\ sessions' = TRUE
    /\ permit' = (permit \/ (sessions /\ at = "select"))
    /\ subscribed' = FALSE
    /\ will' = TRUE
    /\ retained' = IF will THEN [retained EXCEPT !["health"] = Down] ELSE retained
    /\ seen' = [t \in Topic |-> 0]
    /\ UNCHANGED <<loop, client, incoming, drops, commands, changes, timed_out>>

\* A CONNACK; every one after the first signals the main loop.  The broker first
\* ends the session the client had, with its last will.
ConnAck ==
    /\ task = "retry" /\ net = "off"
    /\ task' = "poll" /\ net' = "on" /\ online' = TRUE
    /\ sessions' = TRUE
    /\ permit' = (permit \/ sessions)
    /\ subscribed' = FALSE
    /\ will' = TRUE
    /\ retained' = IF will THEN [retained EXCEPT !["health"] = Down] ELSE retained
    /\ seen' = [t \in Topic |-> 0]
    /\ UNCHANGED <<loop, client, incoming, drops, commands, changes, timed_out>>

\* A request reaches the broker, unless the connection is dead.
Arrives(r) ==
    /\ retained' = IF net = "on" /\ r.topic \in Topic
                   THEN [retained EXCEPT ![r.topic] = r.value] ELSE retained
    /\ seen' = IF net = "on" /\ r.topic \in Topic
               THEN [seen EXCEPT ![r.topic] = r.value] ELSE seen
    /\ subscribed' = (subscribed \/ (net = "on" /\ r.topic = "sub"))
    /\ will' = (will /\ ~(net = "on" /\ r.topic = "bye"))

\* Mutant: what waits to be sent again is sent after newer requests.
Send_NewFirst ==
    /\ task = "poll" /\ net # "off" /\ Len(unacked) < Inflight
    /\ \/ /\ again # << >> /\ queue = << >>
          /\ Arrives(Head(again))
          /\ again' = Tail(again)
          /\ unacked' = Append(unacked, Head(again))
          /\ UNCHANGED <<queue, task>>
       \/ /\ queue # << >>
          /\ Arrives(Head(queue))
          /\ queue' = Tail(queue)
          /\ unacked' = IF Head(queue).topic \in Topic \ {"sample"}
                        THEN Append(unacked, Head(queue)) ELSE unacked
          /\ task' = IF Head(queue).topic = "bye" THEN "ended" ELSE task
          /\ UNCHANGED again
    /\ UNCHANGED <<loop, sessions, online, permit, incoming, net, drops, commands, changes,
                   timed_out>>

\* eventloop.poll writes a request: first those to be sent again, then the queue.
\* A sample has QoS 0 and is not acknowledged.
Send ==
    /\ task = "poll" /\ net # "off" /\ Len(unacked) < Inflight
    /\ \/ /\ again # << >>
          /\ Arrives(Head(again))
          /\ again' = Tail(again)
          /\ unacked' = Append(unacked, Head(again))
          /\ UNCHANGED <<queue, task>>
       \/ /\ again = << >> /\ queue # << >>
          /\ Arrives(Head(queue))
          /\ queue' = Tail(queue)
          /\ unacked' = IF Head(queue).topic \in Topic \ {"sample"}
                        THEN Append(unacked, Head(queue)) ELSE unacked
          /\ task' = IF Head(queue).topic = "bye" THEN "ended" ELSE task
          /\ UNCHANGED again
    /\ UNCHANGED <<loop, sessions, online, permit, incoming, net, drops, commands, changes,
                   timed_out>>

Acknowledge ==
    /\ task = "poll" /\ net = "on" /\ unacked # << >>
    /\ unacked' = Tail(unacked)
    /\ UNCHANGED <<loop, queue, again, mqtt_task, incoming, net, broker, drops, commands,
                   changes, timed_out, seen>>

\* A publish arrives ...
Incoming ==
    /\ task = "poll" /\ net = "on" /\ subscribed /\ commands < MaxCommands
    /\ commands' = commands + 1
    /\ task' = "deliver"
    /\ UNCHANGED <<loop, client, sessions, online, permit, incoming, net, broker, drops,
                   changes, timed_out, seen>>

\* ... and the task waits for room to forward it.
Forward ==
    /\ task = "deliver" /\ incoming < InCap
    /\ incoming' = incoming + 1
    /\ task' = "poll"
    /\ UNCHANGED <<loop, client, sessions, online, permit, net, broker, drops, commands,
                   changes, timed_out, seen>>

\* poll() returns an error: the connection is gone, and is tried again.
Error ==
    /\ task = "poll" /\ net # "on" /\ at # "stopped"
    /\ task' = "retry" /\ net' = "off" /\ online' = FALSE
    /\ again' = unacked \o again
    /\ unacked' = << >>
    /\ timed_out' = {}
    /\ UNCHANGED <<loop, queue, sessions, permit, incoming, broker, drops, commands,
                   changes, seen>>

-----------------------------------------------------------------------------
(* The broker.                                                             *)

\* The connection is lost, noticed soon or only when it stays silent; a broker that
\* restarted without persistence has forgotten the retained messages.
Drop ==
    /\ net = "on" /\ drops < MaxDrops
    /\ drops' = drops + 1
    /\ net' \in {"off", "half"}
    /\ subscribed' = FALSE
    /\ \/ UNCHANGED <<retained, will>>
       \/ retained' = [t \in Topic |-> 0] /\ will' = FALSE
    /\ UNCHANGED <<loop, client, mqtt_task, incoming, commands, changes, timed_out, seen>>

\* The last will, when the connection ended without a DISCONNECT.
LastWill ==
    /\ net # "on" /\ will
    /\ will' = FALSE
    /\ retained' = [retained EXCEPT !["health"] = Down]
    /\ UNCHANGED <<loop, client, mqtt_task, incoming, net, subscribed, drops, commands,
                   changes, timed_out, seen>>

Ended ==
    /\ at = "stopped" /\ ~will
    /\ UNCHANGED vars

-----------------------------------------------------------------------------
Work == Connected \/ Subscribe \/ Publish \/ Skip \/ Wait \/ PublishTimeout \/ Idle \/ Restore
        \/ Command \/ Bye \/ Stopped

Change == GiveUp \/ Reload \/ Reading \/ Stop \/ \E d \in Device : LinkChange(d)

EventLoop == ConnAck \/ Send \/ Acknowledge \/ Forward \/ Error

Next == Work \/ Change \/ EventLoop \/ Incoming \/ Drop \/ LastWill \/ Ended

Spec == Init /\ [][Next]_vars

\* The main loop and the event loop task are polled while they can go on, and the
\* select! takes the reconnected arm at last.  The broker accepts a connection at last,
\* acknowledges what arrives and publishes the last will.
Fairness ==
    /\ WF_vars(Work) /\ SF_vars(Restore)
    /\ WF_vars(EventLoop)
    /\ WF_vars(LastWill)

FairSpec == Spec /\ Fairness

-----------------------------------------------------------------------------
(* Properties.                                                             *)

\* The state of the session is well formed, its two queues within their room.
LoopOK ==
    /\ at \in {"await", "select", "busy", "flush", "stopped"}
    /\ todo \in Seq(Topic \union {"sub"}) /\ waiting \in BOOLEAN
    /\ want \in [Topic -> Nat]
ClientOK ==
    /\ queue \in Seq(Message) /\ Len(queue) <= Cap
    /\ unacked \in Seq(Message) /\ again \in Seq(Message)
TaskOK ==
    /\ task \in {"poll", "deliver", "retry", "ended"}
    /\ sessions \in BOOLEAN /\ online \in BOOLEAN /\ permit \in BOOLEAN
    /\ incoming \in 0 .. InCap /\ net \in {"off", "on", "half"}
BrokerOK == retained \in [Topic -> Nat] /\ subscribed \in BOOLEAN /\ will \in BOOLEAN
TypeOK == LoopOK /\ ClientOK /\ TaskOK /\ BrokerOK

\* The loop waits to subscribe, the event loop task for the loop to take a publish: neither
\* ends the other's wait.
HeldUp == Subscribing /\ Full /\ task = "deliver" /\ incoming = InCap

\* After the last reconnect the broker has the subscriptions and shows the health, the
\* descriptor and every link as the connector has them, whatever was dropped while it was
\* away and however often it went away during the restore.  (A status whose publish timed
\* out while the broker was connected is only shown with its next change.)
StatusRestored ==
    <>[](\/ at = "stopped" \/ HeldUp
         \/ (subscribed /\ \A t \in Status \ timed_out : retained[t] = want[t]))

\* No publish holds up the main loop for good, not even when the event loop task waits for
\* the loop to take a publish while the loop waits for room in the queue.
PublishReturns == []<>(at \in {"select", "stopped"} \/ HeldUp)

\* The main loop is never held up for good: the event loop task keeps draining the request
\* queue no matter what the main loop awaits.
LoopGoesOn == []<>(at \in {"select", "stopped"})

\* A connector that has stopped does not stay announced as up: the final health is the
\* last thing it sends, or the broker publishes the last will.
StoppedShown == at = "stopped" ~> [](retained["health"] # Up)

\* Every session implements the promise of a topic: what is sent again after a reconnect
\* never puts an older value after a newer one of the same session.
R == INSTANCE Retained WITH shown <- seen
InOrderShown == R!Spec
=============================================================================
