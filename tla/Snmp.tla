-------------------------------- MODULE Snmp --------------------------------
(***************************************************************************)
(* The SNMP connector (connector-snmp/src/lib.rs) and its notification     *)
(* listener (listener.rs): devices are resolved to addresses, notifications*)
(* are routed by the address they come from or, through a trusted          *)
(* forwarder, by the one they carry, and the SNMPv3 engine a device's traps*)
(* must come from is learned from the first trap or an authenticated poll. *)
(* The connector's calls, the polls in flight, the listener task, the      *)
(* network and the agents interleave.                                      *)
(***************************************************************************)
EXTENDS Naturals

CONSTANTS
    Generations,  \* how often an agent is replaced by one with another engine
    MaxBoots,     \* how often an engine starts, each agent that replaces another once less
    Changing      \* the devices whose agents are restarted and replaced

VARIABLES
    resolved,   \* device -> the address its requests go to, or None
    by_addr,    \* Routes::by_addr: address -> device or None
    route,      \* Routes::devices: device -> the engine its traps come from, or NoRoutes
    sess,       \* request sessions: device -> the address each goes to, or None
    listener,   \* the receive task: "running", or "none" (not started, or ended)
    reading,    \* a poll in flight: device -> [at, engine]
    agents,     \* device -> the engine of its agent: [id, boots]
    met,        \* history: device -> the agents it was resolved to
    fresh,      \* history: device -> whether its last poll met the engine its agent still has
    ignored     \* history: whether a request for this receiver's engine went unanswered

vars == <<resolved, by_addr, route, sess, listener, reading, agents, met, fresh, ignored>>

None == "none"
NoRoutes == << >>
Device == {"plain", "left", "right"}
V3 == {"left", "right"}     \* two devices with the same SNMPv3 user
Home == [plain |-> "a0", left |-> "a1", right |-> "a2"]
Address == {Home[d] : d \in Device}
Forwarder == "f"
AgentAt(a) == CHOOSE d \in Device : Home[d] = a

NoEngine == [id |-> << >>, boots |-> 0]
Idle == [at |-> None, engine |-> NoEngine]

Init ==
    /\ resolved = [d \in Device |-> None] /\ by_addr = [a \in Address |-> None]
    /\ route = NoRoutes /\ sess = [d \in Device |-> None] /\ listener = "none"
    /\ reading = [d \in Device |-> Idle]
    /\ agents = [d \in Device |-> [id |-> <<d, 1>>, boots |-> 1]]
    /\ met = [d \in V3 |-> {}] /\ fresh = [d \in V3 |-> FALSE] /\ ignored = FALSE

\* What a lookup of a device's host finds: its agent; for one of the devices nothing at times, and
\* for one the address of another.
Lookups(d) ==
    CASE d = "plain" -> {Home[d]} [] d = "left" -> {Home[d], None} [] d = "right" -> {Home[d], "a1"}

-----------------------------------------------------------------------------
(* The calls of the runtime.                                               *)

\* Mutant: the address a device had stays its own.
Attach_KeepsOld(links, d, ip) ==
    IF ip # None /\ links.by_addr[ip] \in {None, d}
    THEN [by_addr |-> [links.by_addr EXCEPT ![ip] = d], resolved |-> [links.resolved EXCEPT ![d] = ip]]
    ELSE [by_addr |-> links.by_addr, resolved |-> [links.resolved EXCEPT ![d] = None]]

\* attach: an address belongs to one device.
Attach(links, d, ip) ==
    LET free == [a \in Address |-> IF links.by_addr[a] = d THEN None ELSE links.by_addr[a]]
    IN IF ip # None /\ free[ip] = None
       THEN [by_addr |-> [free EXCEPT ![ip] = d], resolved |-> [links.resolved EXCEPT ![d] = ip]]
       ELSE [by_addr |-> free, resolved |-> [links.resolved EXCEPT ![d] = None]]

Meets(now) == [d \in V3 |-> met[d] \union {AgentAt(a) : a \in {now[d]} \ {None}}]

NoLinks == [by_addr |-> [a \in Address |-> None], resolved |-> [d \in Device |-> None]]

\* The devices are attached in their order.
AttachAll(lookup) ==
    Attach(Attach(Attach(NoLinks, "plain", lookup["plain"]), "left", lookup["left"]), "right", lookup["right"])

\* connect: the listener first; without it, no device is attached.
Connect(lookup, binds) ==
    /\ sess' = [d \in Device |-> None]
    /\ route' = [d \in Device |-> NoEngine]
    /\ LET links == IF binds THEN AttachAll(lookup) ELSE NoLinks IN by_addr' = links.by_addr /\ resolved' = links.resolved
    /\ listener' = IF binds THEN "running" ELSE "none"
    /\ met' = Meets(resolved') /\ fresh' = [d \in V3 |-> FALSE]
    /\ UNCHANGED <<reading, agents, ignored>>

\* reconnect: a listener that ended is started again; the device keeps its links when that fails.
Reconnect(d, ip, binds) ==
    /\ route # NoRoutes
    /\ sess' = [sess EXCEPT ![d] = None]
    /\ IF listener # "running" /\ ~binds
       THEN listener' = "none" /\ UNCHANGED <<by_addr, resolved>>
       ELSE /\ listener' = "running"
            /\ LET links == Attach([by_addr |-> by_addr, resolved |-> resolved], d, ip)
               IN by_addr' = links.by_addr /\ resolved' = links.resolved
    /\ met' = Meets(resolved')
    /\ UNCHANGED <<route, reading, agents, fresh, ignored>>

Disconnect ==
    /\ by_addr' = NoLinks.by_addr /\ resolved' = NoLinks.resolved /\ route' = NoRoutes
    /\ sess' = [d \in Device |-> None] /\ listener' = "none"
    /\ fresh' = [d \in V3 |-> FALSE]
    /\ UNCHANGED <<reading, agents, met, ignored>>

-----------------------------------------------------------------------------
(* Polls, in tasks of their own.                                           *)

\* The session of a device is opened at its first use (session, SnmpReader).
ReadBegins(d) ==
    /\ resolved[d] # None /\ \A other \in Device : reading[other] = Idle   \* bound: one at a time
    /\ sess' = [sess EXCEPT ![d] = IF @ = None THEN resolved[d] ELSE @]
    /\ reading' = [reading EXCEPT ![d].at = sess'[d]]
    /\ UNCHANGED <<resolved, by_addr, route, listener, agents, met, fresh, ignored>>

\* The agent answers under its engine.
ReadAnswered(d) ==
    /\ reading[d].at # None /\ reading[d].engine = NoEngine
    /\ reading' = [reading EXCEPT ![d].engine = agents[AgentAt(reading[d].at)]]
    /\ UNCHANGED <<resolved, by_addr, route, sess, listener, agents, met, fresh, ignored>>

\* Mutant: an engine once known is kept.
AfterRead_KeepsFirst(v3, engine) ==
    IF engine # NoEngine /\ v3 = NoEngine THEN [id |-> engine.id, boots |-> 0] ELSE v3

\* Mutant: the restarts of the engine before count on.
AfterRead_KeepsBoots(v3, engine) ==
    IF engine # NoEngine /\ v3.id # engine.id THEN [v3 EXCEPT !.id = engine.id] ELSE v3

\* after_read: traps must come from the engine that authenticated.
AfterRead(v3, engine) ==
    IF engine # NoEngine /\ v3.id # engine.id THEN [id |-> engine.id, boots |-> 0] ELSE v3

ReadEnds(d) ==
    /\ reading[d].at # None
    /\ reading' = [reading EXCEPT ![d] = Idle]
    /\ LET engine == reading[d].engine
       IN IF d \in V3 /\ route # NoRoutes
          THEN /\ route' = [route EXCEPT ![d] = AfterRead(@, engine)]
               /\ fresh' = [fresh EXCEPT ![d] = IF engine = NoEngine THEN @
                                ELSE AgentAt(reading[d].at) = d /\ engine.id = agents[d].id]
          ELSE UNCHANGED <<route, fresh>>
    /\ UNCHANGED <<resolved, by_addr, sess, listener, agents, met, ignored>>

-----------------------------------------------------------------------------
(* The listener.                                                           *)

ListenerFails ==
    /\ listener = "running" /\ listener' = "none"
    /\ UNCHANGED <<resolved, by_addr, route, sess, reading, agents, met, fresh, ignored>>

\* receive_non_authoritative (the library): the engine is learned when none is known, and a
\* message from before the latest restart is a replay.
ReceiveTrap(v3, engine) ==
    CASE v3 = NoEngine -> [ok |-> TRUE, v3 |-> engine]
      [] v3.id = engine.id /\ engine.boots >= v3.boots -> [ok |-> TRUE, v3 |-> engine]
      [] OTHER -> [ok |-> FALSE, v3 |-> v3]

\* receive and receive_v3 for one device.
Receive(d, v3, m) ==
    LET outcome(kind, state) == [kind |-> kind, v3 |-> state]
    IN CASE m.kind = "community" ->
              outcome(IF d = "plain" /\ m.community # "public" THEN "drop" ELSE "deliver", v3)
         [] m.kind # "community" /\ d \notin V3 -> outcome("drop", v3)
         [] m.kind = "inform" /\ d \in V3 -> outcome(IF m.synced THEN "deliver" ELSE "reply", v3)
         [] m.kind = "trap" /\ d \in V3 ->
              LET got == ReceiveTrap(v3, m.engine)
              IN outcome(IF got.ok THEN "deliver" ELSE "drop", got.v3)

\* Mutant: the first refusal is the answer.
Outranks_First(refusal, kind) == refusal = "none"

Outranks(refusal, kind) == refusal = "none" \/ (refusal = "drop" /\ kind = "reply")

\* Mutant: a device that was not meant keeps what the message taught it.
TryDevice_Keeps(m, acc, d) ==
    LET got == Receive(d, acc.route[d], m)
    IN IF acc.to # None THEN acc
       ELSE IF got.kind # "deliver"
       THEN [acc EXCEPT !.refusal = IF Outranks(@, got.kind) THEN got.kind ELSE @]
       ELSE [acc EXCEPT !.to = IF m.peer # Forwarder \/ (m.names # None /\ by_addr[m.names] = d)
                               THEN d ELSE @,
                        !.route[d] = got.v3]

\* One candidate of handle: what the message changes is kept for the device it is for.
TryDevice(m, acc, d) ==
    LET got == Receive(d, acc.route[d], m)
        own == m.peer # Forwarder \/ (m.names # None /\ by_addr[m.names] = d)
    IN CASE acc.to # None -> acc
         [] acc.to = None /\ got.kind # "deliver" ->
              [acc EXCEPT !.refusal = IF Outranks(@, got.kind) THEN got.kind ELSE @]
         [] acc.to = None /\ got.kind = "deliver" /\ own -> [acc EXCEPT !.to = d, !.route[d] = got.v3]
         [] OTHER -> acc

\* handle: the device at the source address, or any of them from a forwarder.
Candidates(m) == IF m.peer = Forwarder THEN Device ELSE {by_addr[m.peer]} \ {None}

Tried(m) ==
    LET none == [to |-> None, refusal |-> "none", route |-> route]
    IN IF m.peer = Forwarder
       THEN TryDevice(m, TryDevice(m, TryDevice(m, none, "plain"), "left"), "right")
       ELSE IF by_addr[m.peer] # None THEN TryDevice(m, none, by_addr[m.peer]) ELSE none

Handle(m) ==
    /\ listener = "running"
    /\ LET tried == Tried(m)
       IN /\ route' = tried.route
          /\ ignored' = (ignored \/ (/\ m.kind = "inform" /\ ~m.synced /\ Candidates(m) \intersect V3 # {}
                                     /\ tried.to = None /\ tried.refusal # "reply"))
    /\ UNCHANGED <<resolved, by_addr, sess, listener, reading, agents, met, fresh>>

-----------------------------------------------------------------------------
(* The agents and the network (external).                                  *)

\* A notification of agent a, direct or forwarded, with or without its address; a trap may be late.
Engines(a) ==
    {[id |-> <<a, g>>, boots |-> b] : g \in 1 .. agents[a].id[2], b \in 1 .. MaxBoots} \
    {[id |-> agents[a].id, boots |-> b] : b \in agents[a].boots + 1 .. MaxBoots}
Ways(a) == {<<Home[a], None>>, <<Forwarder, Home[a]>>, <<Forwarder, None>>}
Messages(a) ==
    IF a \notin V3
    THEN {[kind |-> "community", community |-> c, peer |-> w[1], names |-> w[2]] :
             c \in {"public", "other"}, w \in Ways(a)}
    ELSE {[kind |-> "inform", synced |-> s, peer |-> w[1], names |-> w[2]] : s \in BOOLEAN, w \in Ways(a)}
         \union {[kind |-> "trap", engine |-> e, peer |-> w[1], names |-> w[2]] : e \in Engines(a), w \in Ways(a)}

Notify(a) == listener = "running" /\ \E m \in Messages(a) : Handle(m)

AgentRestarts(a) ==
    /\ agents[a].boots + agents[a].id[2] <= MaxBoots
    /\ agents' = [agents EXCEPT ![a].boots = @ + 1]
    /\ UNCHANGED <<resolved, by_addr, route, sess, listener, reading, met, fresh, ignored>>

AgentReplaced(a) ==
    /\ agents[a].id[2] < Generations
    /\ agents' = [agents EXCEPT ![a] = [id |-> <<a, @.id[2] + 1>>, boots |-> 1]]
    /\ fresh' = [fresh EXCEPT ![a] = FALSE]
    /\ UNCHANGED <<resolved, by_addr, route, sess, listener, reading, met, ignored>>

Next ==
    \/ \E left \in Lookups("left"), right \in Lookups("right") :
          Connect([Home EXCEPT !["left"] = left, !["right"] = right], TRUE)
    \/ Connect(Home, FALSE)
    \/ Disconnect \/ ListenerFails
    \/ \E d \in Device : \E ip \in Lookups(d) : Reconnect(d, ip, TRUE)
    \/ \E d \in Device : listener # "running" /\ Reconnect(d, Home[d], FALSE)
    \/ \E d \in V3 : ReadBegins(d) \/ ReadAnswered(d) \/ ReadEnds(d)
    \/ \E a \in Device : Notify(a)
    \/ \E a \in Changing : AgentRestarts(a) \/ AgentReplaced(a)

Spec == Init /\ [][Next]_vars

-----------------------------------------------------------------------------
(* Properties.                                                             *)

\* Requests go to the address a device's notifications are routed by, and no other device's are.
RoutesAgree ==
    /\ \A d \in Device : resolved[d] # None => by_addr[resolved[d]] = d
    /\ \A a \in Address : by_addr[a] # None => resolved[by_addr[a]] = a
    /\ \A d \in Device : sess[d] \in {None, resolved[d]}

\* The engine a device's traps must come from is one of an agent the device was resolved to,
\* although other devices use the same user and forwarded traps are tried for each of them.
PinsOwn ==
    route # NoRoutes =>
        \A d \in V3 : route[d] # NoEngine => route[d].id[1] \in met[d]

\* After a poll has met the engine an agent has, its traps are accepted, whatever was learned of
\* the engines before it and whatever late messages come in.
TrapsAccepted ==
    route # NoRoutes =>
        \A d \in V3 : fresh[d] => ReceiveTrap(route[d], agents[d]).ok

\* A sender that asks for this receiver's engine is told, also through a forwarder.
InformsAnswered == ~ignored

SnmpSound == RoutesAgree /\ PinsOwn /\ TrapsAccepted /\ InformsAnswered
=============================================================================
